-------------------------- MODULE CreditDecisionProofs --------------------------
(***************************************************************************)
(* What the automatic decision keeps, for every file whose columns are in  *)
(* their ranges, every scale the edits follow and any sequence of them.    *)
(*                                                                         *)
(* The invariant is short: the rows are a file's, and the assessment on    *)
(* file is that of these rows (IInv).  What is long is the assessment.     *)
(* The annuity factor is bounded by induction over the months (Annuities), *)
(* so that a ceiling on the instalment is one on the principal             *)
(* (Structuring); the gates, reasons and factors are sets whose members    *)
(* are told from the figures one by one (Gates, reasons, factors); and a   *)
(* weighted score is a sum over the components, of which one alone is too  *)
(* small to leave the rest class A (A route that cannot be charged).       *)
(***************************************************************************)
EXTENDS CreditDecision, InductionProofs

\* The two bounds of a quotient.
LEMMA Division ==
    ASSUME NEW n \in Int, NEW d \in Nat \ {0}
    PROVE  n \div d \in Int /\ d * (n \div d) <= n /\ n < d * (n \div d) + d
    OBVIOUS

\* A quotient is at most what its numerator allows ...
LEMMA DivisionLe ==
    ASSUME NEW n \in Int, NEW d \in Nat \ {0}, NEW b \in Int, n < d * b + d
    PROVE  n \div d <= b
<1> DEFINE q == n \div d
<1>1. q \in Int /\ d * q <= n
    BY Division
<1> HIDE DEF q
<1>2. ASSUME b + 1 <= q PROVE FALSE
  <2>1. d * (b + 1) <= d * q
      BY <1>1, <1>2
  <2>2. d * (b + 1) = d * b + d
      OBVIOUS
  <2> QED BY <1>1, <2>1, <2>2
<1>3. q <= b
    BY <1>1, <1>2
<1> QED BY <1>3 DEF q

\* ... and at least that.
LEMMA DivisionGe ==
    ASSUME NEW n \in Int, NEW d \in Nat \ {0}, NEW b \in Int, d * b <= n
    PROVE  b <= n \div d
<1> DEFINE q == n \div d
<1>1. q \in Int /\ n < d * q + d
    BY Division
<1> HIDE DEF q
<1>2. ASSUME q + 1 <= b PROVE FALSE
  <2>1. d * (q + 1) <= d * b
      BY <1>1, <1>2
  <2>2. d * (q + 1) = d * q + d
      BY <1>1
  <2> QED BY <1>1, <2>1, <2>2
<1>3. b <= q
    BY <1>1, <1>2
<1> QED BY <1>3 DEF q

\* q2, q3 and q4 give whole units,
LEMMA HalfUpInt ==
    ASSUME NEW n \in Int, NEW d \in Nat \ {0}
    PROVE  HalfUp(n, d) \in Int
<1>1. 2 * n + d \in Int /\ d - 2 * n \in Int /\ 2 * d \in Nat \ {0}
    OBVIOUS
<1>2. (2 * n + d) \div (2 * d) \in Int /\ (d - 2 * n) \div (2 * d) \in Int
    BY <1>1, Division
<1> QED BY <1>2 DEF HalfUp

\* at most a bound that the exact quotient does not exceed,
LEMMA HalfUpLe ==
    ASSUME NEW n \in Int, NEW d \in Nat \ {0}, NEW b \in Int, n <= d * b
    PROVE  HalfUp(n, d) <= b
<1>1. 2 * n + d \in Int /\ d - 2 * n \in Int /\ 2 * d \in Nat \ {0} /\ d * b \in Int
    OBVIOUS
<1>2. (2 * d) * b = 2 * (d * b) /\ (2 * d) * (-b) = -(2 * (d * b))
    OBVIOUS
<1>3. (2 * n + d) \div (2 * d) <= b
  <2>1. 2 * n + d < (2 * d) * b + 2 * d
      BY <1>1, <1>2
  <2> QED BY <1>1, <2>1, DivisionLe
<1>4. -b <= (d - 2 * n) \div (2 * d)
  <2>1. (2 * d) * (-b) <= d - 2 * n
      BY <1>1, <1>2
  <2> QED BY <1>1, <2>1, DivisionGe
<1>5. (d - 2 * n) \div (2 * d) \in Int
    BY <1>1, Division
<1> QED BY <1>3, <1>4, <1>5 DEF HalfUp

\* and at least one that it reaches: rounding does not cross a whole unit.
LEMMA HalfUpGe ==
    ASSUME NEW n \in Int, NEW d \in Nat \ {0}, NEW b \in Int, d * b <= n
    PROVE  b <= HalfUp(n, d)
<1>1. 2 * n + d \in Int /\ d - 2 * n \in Int /\ 2 * d \in Nat \ {0} /\ d * b \in Int
    OBVIOUS
<1>2. (2 * d) * b = 2 * (d * b) /\ (2 * d) * (-b) = -(2 * (d * b))
    OBVIOUS
<1>3. b <= (2 * n + d) \div (2 * d)
  <2>1. (2 * d) * b <= 2 * n + d
      BY <1>1, <1>2
  <2> QED BY <1>1, <2>1, DivisionGe
<1>4. (d - 2 * n) \div (2 * d) <= -b
  <2>1. d - 2 * n < (2 * d) * (-b) + 2 * d
      BY <1>1, <1>2
  <2> QED BY <1>1, <2>1, DivisionLe
<1>5. (d - 2 * n) \div (2 * d) \in Int
    BY <1>1, Division
<1> QED BY <1>3, <1>4, <1>5 DEF HalfUp

\* Rounding adds half a unit at most.
LEMMA HalfUpNear ==
    ASSUME NEW n \in Nat, NEW d \in Nat \ {0}
    PROVE  2 * (d * HalfUp(n, d)) <= 2 * n + d
<1> DEFINE q == (2 * n + d) \div (2 * d)
<1>1. 2 * n + d \in Int /\ 2 * d \in Nat \ {0}
    OBVIOUS
<1>2. q \in Int /\ (2 * d) * q <= 2 * n + d
    BY <1>1, Division
<1>3. HalfUp(n, d) = q
    BY DEF HalfUp
<1> HIDE DEF q
<1>4. (2 * d) * q = 2 * (d * q)
    BY <1>2
<1> QED BY <1>2, <1>3, <1>4

-------------------------------------------------------------------------------
(* Annuities.                                                              *)

Annuities(h, n) ==
    CHOOSE a : a = [k \in 0..n |-> IF k = 0 THEN 0 ELSE HalfUp((a[k - 1] + S) * 2400, 2400 + h)]

\* The annuity factor of a tenure is the last of the recursion's.
LEMMA AnnuityDefined == \A h, n : annuity(h, n) = Annuities(h, n)[n]
    BY DEF annuity, Annuities

\* The recursive definition of the factors defines a function.
LEMMA AnnuityStep ==
    ASSUME NEW h, NEW n \in Nat
    PROVE  Annuities(h, n) =
              [k \in 0..n |-> IF k = 0 THEN 0
                              ELSE HalfUp((Annuities(h, n)[k - 1] + S) * 2400, 2400 + h)]
<1> DEFINE Grown(x) == HalfUp((x + S) * 2400, 2400 + h)
           Defines(m, g) == g = [k \in 0..m |-> IF k = 0 THEN 0 ELSE Grown(g[k - 1])]
           T == {m \in Nat : \E g : Defines(m, g)}
<1>1. Annuities(h, n) = CHOOSE g : Defines(n, g)
    BY DEF Annuities
<1> HIDE DEF Grown
<1>3. ASSUME NEW m \in 1..n, m - 1 \in T
      PROVE  m \in T
  <2>0. PICK g : Defines(m - 1, g)
      BY <1>3
  <2> DEFINE a == [k \in 0..m |-> IF k < m THEN g[k] ELSE Grown(g[m - 1])]
  <2>1. \A k \in 0..m : a[k] = IF k = 0 THEN 0 ELSE Grown(a[k - 1])
    <3> SUFFICES ASSUME NEW k \in 0..m
                 PROVE  a[k] = IF k = 0 THEN 0 ELSE Grown(a[k - 1])
        OBVIOUS
    <3>1. CASE k < m
      <4>1. g[k] = IF k = 0 THEN 0 ELSE Grown(g[k - 1])
          BY <2>0, <3>1
      <4> QED BY <3>1, <4>1
    <3>2. CASE k = m
        BY <3>2
    <3> QED BY <3>1, <3>2
  <2>2. Defines(m, a)
      BY <2>1
  <2>3. \E e : Defines(m, e)
    <3> HIDE DEF a, Defines
    <3> QED BY <2>2
  <2> QED BY <2>3
<1>4. Defines(0, [k \in 0..0 |-> 0])
    OBVIOUS
<1>5. 0 \in T
    BY <1>4
<1> HIDE DEF Defines
<1>6. 0..n \subseteq T
    BY <1>3, <1>5, UpTo
<1>7. \E g : Defines(n, g)
    BY <1>6
<1>8. Defines(n, Annuities(h, n))
    BY <1>1, <1>7
<1> QED BY <1>8 DEF Defines, Grown

\* A month adds to the factor, never more than the 1 that it pays; two months pay more than 1.
LEMMA AnnuityBounds ==
    ASSUME NEW h \in 1..79, NEW n \in Nat, n > 1
    PROVE  annuity(h, n) \in Int /\ S < annuity(h, n) /\ annuity(h, n) <= n * S
<1> DEFINE a == Annuities(h, n)
           T == {k \in 0..n : /\ a[k] \in Int /\ 0 <= a[k] /\ a[k] <= k * S
                              /\ (k > 0 => 1935 <= a[k]) /\ (k > 1 => 3808 <= a[k])}
<1>1. \A k \in 0..n : a[k] = IF k = 0 THEN 0 ELSE HalfUp((a[k - 1] + S) * 2400, 2400 + h)
    BY AnnuityStep
<1> HIDE DEF a
<1>2. 0 \in T
    BY <1>1 DEF S
<1>3. ASSUME NEW k \in 1..n, k - 1 \in T PROVE k \in T
  <2> DEFINE v == (a[k - 1] + S) * 2400
             w == 2400 + h
  <2>1. a[k] = HalfUp(v, w)
      BY <1>1
  <2>2. /\ a[k - 1] \in Int /\ 0 <= a[k - 1] /\ a[k - 1] <= (k - 1) * S
        /\ k > 1 => 1935 <= a[k - 1]
      BY <1>3
  <2>3. v \in Int /\ w \in Nat \ {0} /\ k * S \in Int /\ k * S >= 0
      BY <2>2 DEF S
  <2>4. v <= w * (k * S)
    <3>1. v <= (k * S) * 2400
        BY <2>2 DEF S
    <3>2. w * (k * S) = (k * S) * 2400 + h * (k * S) /\ h * (k * S) >= 0
        BY <2>3
    <3> QED BY <2>3, <3>1, <3>2
  <2>5. w * 1935 <= v /\ (k > 1 => w * 3808 <= v)
      BY <2>2 DEF S
  <2> HIDE DEF v, w
  <2>6. HalfUp(v, w) \in Int /\ HalfUp(v, w) <= k * S
      BY <2>3, <2>4, HalfUpInt, HalfUpLe
  <2>7. 1935 <= HalfUp(v, w) /\ (k > 1 => 3808 <= HalfUp(v, w))
      BY <2>3, <2>5, HalfUpGe
  <2> QED BY <2>1, <2>6, <2>7
<1>4. n \in T
  <2> HIDE DEF T
  <2>1. 0..n \subseteq T
      BY <1>2, <1>3, UpTo
  <2> QED BY <2>1
<1>5. a[n] \in Int /\ S < a[n] /\ a[n] <= n * S
    BY <1>4 DEF S
<1> QED BY <1>5, AnnuityDefined DEF a

\* For the rates and tenures on offer, the factor is at most the tenure's months and above one.
LEMMA AnnuityType ==
    ASSUME NEW h \in Rates, NEW n \in Tenures
    PROVE  /\ Annuity[h][n] \in Nat \ {0}
           /\ Annuity[h][n] <= 240000
           /\ Annuity[h][n] > S
<1>1. h \in 1..79 /\ n \in 6..120
    BY RatesAssumption, TenuresAssumption
<1>2. Annuity[h][n] = annuity(h, n)
    BY DEF Annuity
<1>3. n \in Nat /\ n > 1
    BY <1>1
<1>4. annuity(h, n) \in Int /\ S < annuity(h, n) /\ annuity(h, n) <= n * S
    BY <1>1, <1>3, AnnuityBounds
<1> QED BY <1>1, <1>2, <1>3, <1>4 DEF S

\* An instalment is paid, of a positive amount unless the principal is next to nothing.
LEMMA InstalmentPositive ==
    ASSUME NEW principal \in Nat, NEW h \in Rates, NEW n \in Tenures
    PROVE  /\ calculate_emi(principal, h, n) \in Nat
           /\ principal >= 2 => calculate_emi(principal, h, n) > 0
<1> DEFINE A == Annuity[h][n]
<1>1. A \in Nat \ {0} /\ A <= 240000
    BY AnnuityType
<1>2. calculate_emi(principal, h, n) = HalfUp(100 * principal * S, A)
    BY DEF calculate_emi
<1> HIDE DEF A
<1>3. A \in Nat \ {0} /\ 100 * principal * S \in Int /\ A * 0 <= 100 * principal * S
    BY <1>1 DEF S
<1>4. principal >= 2 => A * 1 <= 100 * principal * S
    BY <1>1 DEF S
<1> DEFINE v == 100 * principal * S
<1> HIDE DEF v
<1>5. HalfUp(v, A) \in Int /\ 0 <= HalfUp(v, A)
    BY <1>3, HalfUpInt, HalfUpGe DEF v
<1>6. principal >= 2 => 1 <= HalfUp(v, A)
    BY <1>3, <1>4, HalfUpGe DEF v
<1> QED BY <1>2, <1>5, <1>6 DEF v

-------------------------------------------------------------------------------
(* The file.                                                               *)

\* What the assessment reads of the customer's profile is whole rupees, what is owed never less
\* than nothing.
LEMMA ProfileTypes ==
    ASSUME NEW f, IsFile(f)
    PROVE  /\ f.profile.total_monthly_income \in Int
           /\ f.profile.total_monthly_expenses \in Int
           /\ f.profile.total_existing_emi \in Nat
<1>1. /\ "profile" \in DOMAIN Columns
      /\ {"total_monthly_income", "total_monthly_expenses", "total_existing_emi"}
             \subseteq DOMAIN Columns.profile
      /\ Columns.profile.total_monthly_income = Int
      /\ Columns.profile.total_monthly_expenses = Int
      /\ Columns.profile.total_existing_emi = Nat
    BY DEF Columns
<1> QED BY <1>1 DEF IsFile

\* What it reads of the application is in the columns' ranges.
LEMMA TermsTypes ==
    ASSUME NEW f, IsFile(f)
    PROVE  /\ f.application.requested_amount \in Nat
           /\ f.application.requested_tenure_months \in Tenures
           /\ f.application.proposed_interest_rate \in Rates
           /\ f.application.down_payment \in Nat
           /\ f.application.vehicle_on_road_price \in Nat
           /\ f.application.expected_daily_km \in Int
           /\ f.application.expected_operating_days_month \in 1..31
<1>1. /\ "application" \in DOMAIN Columns
      /\ {"requested_amount", "requested_tenure_months", "proposed_interest_rate", "down_payment",
          "vehicle_on_road_price", "expected_daily_km", "expected_operating_days_month"}
             \subseteq DOMAIN Columns.application
      /\ Columns.application.requested_amount = Nat
      /\ Columns.application.requested_tenure_months = Tenures
      /\ Columns.application.proposed_interest_rate = Rates
      /\ Columns.application.down_payment = Nat
      /\ Columns.application.vehicle_on_road_price = Nat
      /\ Columns.application.expected_daily_km = Int
      /\ Columns.application.expected_operating_days_month = 1..31
    BY DEF Columns
<1> QED BY <1>1 DEF IsFile

\* What it reads of the vehicle's model: a range of at least a kilometre.
LEMMA ModelTypes ==
    ASSUME NEW f, IsFile(f)
    PROVE  /\ f.model.battery_capacity_kwh \in Int
           /\ f.model.real_world_range_km \in Nat \ {0}
           /\ f.model.maintenance_cost_per_km \in Int
           /\ f.model.battery_warranty_years \in Int
<1>1. /\ "model" \in DOMAIN Columns
      /\ {"battery_capacity_kwh", "real_world_range_km", "maintenance_cost_per_km",
          "battery_warranty_years"} \subseteq DOMAIN Columns.model
      /\ Columns.model.battery_capacity_kwh = Int
      /\ Columns.model.real_world_range_km = Nat \ {0}
      /\ Columns.model.maintenance_cost_per_km = Int
      /\ Columns.model.battery_warranty_years = Int
    BY DEF Columns
<1> QED BY <1>1 DEF IsFile

RouteFigures ==
    {"charging_station_count", "fast_charger_count", "passenger_volume_daily",
     "freight_volume_daily_tons", "avg_fare_per_trip", "avg_freight_revenue_per_trip",
     "estimated_daily_operating_cost"}

\* What it reads of the route: a distance and trips, and a tariff.
LEMMA RouteTypes ==
    ASSUME NEW f, IsFile(f)
    PROVE  /\ \A c \in RouteFigures : f.route[c] \in Nat
           /\ f.route.electricity_tariff_per_kwh \in Int
           /\ f.route.total_distance_km \in Nat \ {0}
           /\ f.route.estimated_daily_trips \in Nat \ {0}
           /\ f.route.gradient_profile \in DOMAIN TERRAIN_FACTOR
           /\ f.route.pitch_road_percent \in Int
           /\ f.route.monsoon_disruption_days \in Int
           /\ f.route.max_charging_gap_km \subseteq Int
<1>1. "route" \in DOMAIN Columns
    BY SMTT(30) DEF Columns
<1>2. RouteFigures \subseteq DOMAIN Columns.route
    BY SMTT(30) DEF Columns, RouteFigures
<1>3. {"total_distance_km", "estimated_daily_trips", "gradient_profile", "pitch_road_percent",
       "monsoon_disruption_days", "max_charging_gap_km", "electricity_tariff_per_kwh"}
          \subseteq DOMAIN Columns.route
    BY SMTT(30) DEF Columns
<1>4. \A c \in RouteFigures : Columns.route[c] = Nat
    BY SMTT(30) DEF Columns, RouteFigures
<1>5. /\ Columns.route.electricity_tariff_per_kwh = 1..50
      /\ Columns.route.total_distance_km = 1..1000
      /\ Columns.route.estimated_daily_trips = 1..60
    BY SMTT(30) DEF Columns
<1>6. /\ Columns.route.gradient_profile = DOMAIN TERRAIN_FACTOR
      /\ Columns.route.pitch_road_percent = 0..100
    BY SMTT(30) DEF Columns
<1>7. /\ Columns.route.monsoon_disruption_days = 0..180
      /\ Columns.route.max_charging_gap_km = SUBSET Nat
    BY SMTT(30) DEF Columns, Nullable
<1> QED BY <1>1, <1>2, <1>3, <1>4, <1>5, <1>6, <1>7, SMTT(30) DEF IsFile

\* A value of the column's leaves the file one.
LEMMA FileEdited ==
    ASSUME NEW f, IsFile(f), NEW r \in DOMAIN Columns, NEW c \in DOMAIN Columns[r],
           NEW v \in Columns[r][c]
    PROVE  IsFile([f EXCEPT ![r][c] = v])
    BY DEF IsFile

-------------------------------------------------------------------------------
(* Economics.                                                              *)

\* A quotient, or the zero that stands for one without a divisor, is whole units.
LEMMA OrZeroType ==
    ASSUME NEW n \in Int, NEW d \in Nat
    PROVE  OrZero(safe_div(HalfUp, n, d)) \in Int
<1>1. CASE d = 0
    BY <1>1 DEF OrZero, safe_div, None
<1>2. CASE d # 0
  <2>1. HalfUp(n, d) \in Int
      BY <1>2, HalfUpInt
  <2>2. OrZero({HalfUp(n, d)}) = HalfUp(n, d)
      BY DEF OrZero, None
  <2> QED BY <1>2, <2>1, <2>2 DEF safe_div
<1> QED BY <1>1, <1>2

\* A product of three whole numbers is one.
LEMMA Products == \A a, b, c \in Int : a * b * c \in Int
    OBVIOUS

\* The surcharge for each terrain is a whole percentage.
LEMMA TerrainType == \A g \in DOMAIN TERRAIN_FACTOR : TERRAIN_FACTOR[g] \in Int
    BY DEF TERRAIN_FACTOR

\* The net contribution of a month, from which the loan is to be repaid, is whole rupees.
LEMMA EconomicsType ==
    ASSUME NEW f, IsFile(f)
    PROVE  Economics(f).monthly_net_contribution \in Int
<1> DEFINE m == f.model
           t == f.application
           w == f.route
           energy == OrZero(safe_div(HalfUp, m.battery_capacity_kwh * w.electricity_tariff_per_kwh
                                         * (100 + TERRAIN_FACTOR[w.gradient_profile]),
                                     m.real_world_range_km))
           net == w.estimated_daily_trips
                      * (w.avg_fare_per_trip + w.avg_freight_revenue_per_trip)
                  - HalfUp(t.expected_daily_km * (energy + m.maintenance_cost_per_km), 100)
           monthly == HalfUp(net * t.expected_operating_days_month
                                 * (365 - w.monsoon_disruption_days), 365)
<1>1. Economics(f).monthly_net_contribution = monthly
    BY DEF Economics, calculate_vehicle_economics
<1>2. energy \in Int
  <2>1. w.electricity_tariff_per_kwh \in Int /\ TERRAIN_FACTOR[w.gradient_profile] \in Int
      BY RouteTypes, TerrainType DEF RouteFigures
  <2>2. /\ m.battery_capacity_kwh \in Int /\ m.real_world_range_km \in Nat
        /\ 100 + TERRAIN_FACTOR[w.gradient_profile] \in Int
      BY <2>1, ModelTypes
  <2>3. m.battery_capacity_kwh * w.electricity_tariff_per_kwh
            * (100 + TERRAIN_FACTOR[w.gradient_profile]) \in Int
      BY <2>1, <2>2, Products
  <2> QED BY <2>2, <2>3, OrZeroType
<1> HIDE DEF energy
<1>3. HalfUp(t.expected_daily_km * (energy + m.maintenance_cost_per_km), 100) \in Int
    BY <1>2, ModelTypes, TermsTypes, HalfUpInt
<1>4. net \in Int
    BY <1>3, RouteTypes DEF RouteFigures
<1> HIDE DEF net
<1>5. monthly \in Int
  <2>1. t.expected_operating_days_month \in Int /\ 365 - w.monsoon_disruption_days \in Int
      BY TermsTypes, RouteTypes
  <2>2. net * t.expected_operating_days_month * (365 - w.monsoon_disruption_days) \in Int
      BY <1>4, <2>1, Products
  <2> QED BY <2>2, HalfUpInt
<1> QED BY <1>1, <1>5

-------------------------------------------------------------------------------
(* Structuring.                                                            *)

\* The tenure that is recommended is one of those in use.
LEMMA TenureOffered ==
    ASSUME NEW p, p.requested_tenure_months \in Tenures, p.battery_warranty_months = 0,
           p.grade \in DOMAIN structuring.tenure_by_grade
    PROVE  StructuredTenure(p) \in Tenures
<1> DEFINE n == p.requested_tenure_months
           cap == structuring.tenure_by_grade[p.grade]
<1>1. n \in 6..120
    BY TenuresAssumption
<1>2. cap \in {84, 72, 60, 48}
    BY DEF structuring
<1>3. n > cap => cap \in Tenures
    BY RecommendedTermsAssumption
<1>4. StructuredTenure(p) = Greatest(Least(n, cap), 6)
    BY DEF StructuredTenure
<1> HIDE DEF n, cap
<1> QED BY <1>1, <1>2, <1>3, <1>4 DEF Greatest, Least, n

\* The amount that a capacity supports is not negative, and exceeds by half a unit at most
\* what the capacity is worth.
LEMMA SupportedAmount ==
    ASSUME NEW capacity \in Int, NEW h \in Rates, NEW n \in Tenures
    PROVE  LET P == principal_from_emi(capacity, h, n)
           IN  /\ P \in Int
               /\ P > 0 => /\ capacity > 0
                           /\ 2000 * (S * P) <= 2 * (capacity * Annuity[h][n]) + 1000 * S
<1> DEFINE A == Annuity[h][n]
           P == principal_from_emi(capacity, h, n)
<1>1. CASE capacity <= 0
    BY <1>1 DEF principal_from_emi
<1>2. CASE capacity > 0
  <2> DEFINE m == capacity \div 1000
             r == capacity % 1000
             q == (r * A) \div 1000
             x == m * A + q
  <2>1. A \in Nat \ {0} /\ n \in Nat /\ n > 0
      BY AnnuityType, TenuresAssumption
  <2>2. P = HalfUp(x, S)
      BY <1>2, <2>1 DEF principal_from_emi
  <2>3. m \in Nat /\ r \in Nat /\ capacity = 1000 * m + r
      BY <1>2
  <2> HIDE DEF m, r, A, P
  <2>4. r * A \in Int /\ r * A >= 0
      BY <2>1, <2>3
  <2>5. q \in Int /\ 1000 * q <= r * A /\ q >= 0
    <3> DEFINE y == r * A
    <3> HIDE DEF y
    <3>1. y \in Int /\ y >= 0
        BY <2>4 DEF y
    <3>2. y \div 1000 \in Int /\ 1000 * (y \div 1000) <= y /\ y \div 1000 >= 0
        BY <3>1
    <3> QED BY <3>2 DEF y
  <2> HIDE DEF q
  <2>6. m * A \in Nat /\ capacity * A = 1000 * (m * A) + r * A
      BY <2>1, <2>3
  <2>7. x \in Nat /\ 1000 * x <= capacity * A
      BY <2>4, <2>5, <2>6
  <2> HIDE DEF x
  <2>8. S \in Nat \ {0} /\ S = 2000
      BY DEF S
  <2>9. P \in Int /\ 2 * (S * P) <= 2 * x + S
      BY <2>2, <2>7, <2>8, HalfUpInt, HalfUpNear
  <2>10. capacity * A \in Int
      BY <2>1
  <2>11. 2000 * (S * P) <= 2 * (capacity * A) + 1000 * S
      BY <2>7, <2>8, <2>9, <2>10
  <2> QED BY <1>2, <2>9, <2>11 DEF P, A
<1> QED BY <1>1, <1>2

\* An amount that a capacity supports costs less than a unit more than the capacity.
LEMMA SupportedByInstalment ==
    ASSUME NEW capacity \in Int, NEW amount \in Nat, NEW h \in Rates, NEW n \in Tenures,
           100 * amount <= principal_from_emi(capacity, h, n), amount > 0
    PROVE  1000 * (calculate_emi(amount, h, n) - 1) < capacity /\ capacity > 0
<1> DEFINE A == Annuity[h][n]
           P == principal_from_emi(capacity, h, n)
           emi == calculate_emi(amount, h, n)
           x == 100 * amount * S
<1>1. A \in Nat \ {0} /\ A > S /\ S = 2000
    BY AnnuityType DEF S
<1>2. P \in Int /\ (P > 0 => /\ capacity > 0
                             /\ 2000 * (S * P) <= 2 * (capacity * A) + 1000 * S)
    BY SupportedAmount
<1>3. 100 * amount <= P
    OBVIOUS
<1>4. emi = HalfUp(x, A)
    BY DEF calculate_emi
<1> HIDE DEF A, P, emi
<1>5. x \in Nat /\ x = 200000 * amount
    BY <1>1
<1> HIDE DEF x
<1>6. emi \in Int /\ 2 * (A * emi) <= 2 * x + A
    BY <1>1, <1>4, <1>5, HalfUpInt, HalfUpNear
<1>7. capacity > 0 /\ 4000000 * P <= 2 * (capacity * A) + 2000000
    BY <1>1, <1>2, <1>3
<1>8. A * emi \in Int /\ A * capacity \in Int /\ capacity * A = A * capacity
    BY <1>1, <1>6
<1>9. 2000 * (A * emi) < 2 * (A * capacity) + 2000 * A
    BY <1>1, <1>2, <1>3, <1>5, <1>6, <1>7, <1>8
<1>10. A * (1000 * (emi - 1) - capacity) = 1000 * (A * emi) - 1000 * A - A * capacity
    BY <1>1, <1>6
<1>11. A * (1000 * (emi - 1) - capacity) < 0
    BY <1>1, <1>8, <1>9, <1>10
<1>12. 1000 * (emi - 1) - capacity < 0
  <2> DEFINE y == 1000 * (emi - 1) - capacity
  <2>1. y \in Int /\ A * y < 0
      BY <1>6, <1>11
  <2> HIDE DEF y
  <2>2. y < 0
      BY <1>1, <2>1
  <2> QED BY <2>2 DEF y
<1> QED BY <1>6, <1>7, <1>12 DEF emi

\* What a structure that is viable says.
LEMMA StructureAtSound ==
    ASSUME NEW p, NEW n \in Tenures, NEW h \in Rates, NEW ltv \in Int, NEW capacity \in Int,
           p.requested_amount \in Nat, capacity >= 0,
           StructureAt(p, n, h, ltv, capacity).is_viable
    PROVE  LET s == StructureAt(p, n, h, ltv, capacity)
           IN  /\ s.recommended_amount \in Int
               /\ s.recommended_amount <= p.requested_amount
               /\ 100 * s.recommended_amount <= ltv
               /\ s.recommended_amount <= structuring.max_amount
               /\ s.recommended_amount >= structuring.min_amount
               /\ s.estimated_emi \in Nat \ {0}
               /\ 1000 * (s.estimated_emi - 1) < capacity
               /\ s.max_ltv_percent = Least(structuring.ltv_by_grade[p.grade],
                                            structuring.absolute_ltv_ceiling)
<1> DEFINE supported == principal_from_emi(capacity, h, n)
           candidates == [REQUESTED |-> 100 * p.requested_amount, LTV_CAP |-> ltv,
                          EMI_CAPACITY |-> supported,
                          PRODUCT_MAX |-> 100 * structuring.max_amount]
           Lowest(k) == \A j \in DOMAIN candidates : candidates[k] <= candidates[j]
           least == CHOOSE k \in DOMAIN candidates : Lowest(k)
           amount == candidates[least]
           recommended == (amount \div (100 * structuring.amount_rounding))
                              * structuring.amount_rounding
           emi == IF recommended > 0 THEN calculate_emi(recommended, h, n) ELSE 0
           s == StructureAt(p, n, h, ltv, capacity)
<1>1. supported \in Int
    BY SupportedAmount
<1>2. /\ s.recommended_amount = recommended
      /\ s.estimated_emi = emi
      /\ s.max_ltv_percent = Least(structuring.ltv_by_grade[p.grade],
                                   structuring.absolute_ltv_ceiling)
      /\ recommended >= structuring.min_amount
    BY DEF StructureAt
<1> HIDE DEF supported, s
<1>3. /\ amount \in Int
      /\ amount <= 100 * p.requested_amount
      /\ amount <= ltv
      /\ amount <= supported
      /\ amount <= 500000
  <2>1. /\ DOMAIN candidates = {"REQUESTED", "LTV_CAP", "EMI_CAPACITY", "PRODUCT_MAX"}
        /\ candidates["REQUESTED"] = 100 * p.requested_amount
        /\ candidates["LTV_CAP"] = ltv
        /\ candidates["EMI_CAPACITY"] = supported
        /\ candidates["PRODUCT_MAX"] = 500000
      BY DEF structuring
  <2> HIDE DEF candidates
  <2>2. \A k \in DOMAIN candidates : candidates[k] \in Int
      BY <1>1, <2>1
  <2>3. \E k \in DOMAIN candidates : Lowest(k)
    <3> DEFINE a == candidates["REQUESTED"]
               b == candidates["LTV_CAP"]
               c == candidates["EMI_CAPACITY"]
               d == candidates["PRODUCT_MAX"]
    <3>1. a \in Int /\ b \in Int /\ c \in Int /\ d \in Int
        BY <1>1, <2>1
    <3>2. Lowest("REQUESTED") \/ Lowest("LTV_CAP") \/ Lowest("EMI_CAPACITY")
              \/ Lowest("PRODUCT_MAX")
      <4>1. \/ a <= b /\ a <= c /\ a <= d
            \/ b <= a /\ b <= c /\ b <= d
            \/ c <= a /\ c <= b /\ c <= d
            \/ d <= a /\ d <= b /\ d <= c
          BY <3>1
      <4> QED BY <2>1, <3>1, <4>1
    <3> QED BY <2>1, <3>2
  <2>4. least \in DOMAIN candidates /\ Lowest(least)
    <3> HIDE DEF Lowest
    <3> QED BY <2>3
  <2> QED BY <2>1, <2>2, <2>4
<1> HIDE DEF candidates, least, amount
<1>4. recommended \in Int /\ 100 * recommended <= amount
  <2>1. recommended = (amount \div 1000) * 10
      BY DEF structuring
  <2> HIDE DEF recommended
  <2> QED BY <1>3, <2>1
<1>5. recommended >= 100 /\ structuring.min_amount = 100
    BY <1>2 DEF structuring
<1> HIDE DEF recommended
<1>6. recommended \in Nat /\ recommended > 0 /\ recommended >= 2 /\ 100 * recommended <= supported
    BY <1>1, <1>3, <1>4, <1>5
<1>7. emi = calculate_emi(recommended, h, n)
    BY <1>6
<1>8. emi \in Nat /\ emi > 0
    BY <1>6, <1>7, InstalmentPositive
<1>9. 1000 * (emi - 1) < capacity
    BY <1>6, <1>7, SupportedByInstalment DEF supported
<1> HIDE DEF emi
<1>10. /\ recommended <= p.requested_amount /\ 100 * recommended <= ltv
       /\ recommended <= structuring.max_amount
    BY <1>3, <1>4 DEF structuring
<1>11. recommended \in Int /\ emi \in Nat \ {0}
    BY <1>4, <1>3, <1>8
<1> QED BY <1>2, <1>9, <1>10, <1>11 DEF s

\* A structure that is refused is not on offer.
LEMMA NotOffered == \A constraint : NoStructure(constraint).is_viable = FALSE
    BY DEF NoStructure

\* What the grade's structure can be afforded from.
LEMMA StructureSound ==
    ASSUME NEW p, p.requested_amount \in Nat, p.requested_tenure_months \in Tenures,
           p.vehicle_on_road_price \in Nat, p.total_monthly_income \in Int,
           p.total_existing_emi \in Nat, p.monthly_net_contribution \in Int,
           p.battery_warranty_months = 0, structure_loan(p).is_viable
    PROVE  LET s == structure_loan(p)
           IN  /\ s.recommended_amount \in Int
               /\ s.recommended_amount >= structuring.min_amount
               /\ s.recommended_amount <= Least(p.requested_amount, structuring.max_amount)
               /\ 100 * s.recommended_amount <= s.max_ltv_percent * p.vehicle_on_road_price
               /\ s.estimated_emi \in Nat \ {0}
               /\ 1000 * (s.estimated_emi - 1)
                      < 55 * p.total_monthly_income - 100 * p.total_existing_emi
               /\ 1000 * (s.estimated_emi - 1) < 80 * p.monthly_net_contribution
<1> DEFINE grade == p.grade
           n == StructuredTenure(p)
           h == structuring.base_interest_rate + structuring.grade_rate_premium[grade]
           percent == Least(structuring.ltv_by_grade[grade], structuring.absolute_ltv_ceiling)
           ltv == p.vehicle_on_road_price * percent
           foir == emi_by_foir(p)
           cover == emi_by_dscr(p)
           capacity == Greatest(0, Least(foir, cover))
           s == structure_loan(p)
<1>1. grade \in DOMAIN structuring.ltv_by_grade
    BY NotOffered DEF structure_loan
<1>2. s = StructureAt(p, n, h, ltv, capacity)
    BY <1>1 DEF structure_loan
<1>3. grade \in DOMAIN structuring.tenure_by_grade
    BY <1>1 DEF structuring
<1>4. n \in Tenures /\ h \in Rates
    BY <1>3, TenureOffered, RecommendedTermsAssumption
<1>5. percent \in Int /\ percent >= 0
    BY <1>1 DEF structuring, Least
<1> HIDE DEF n, h, percent, s
<1>6. ltv \in Int
    BY <1>5
<1>7. foir = 55 * p.total_monthly_income - 100 * p.total_existing_emi /\ foir \in Int
    BY DEF emi_by_foir, structuring
<1>8. cover = Greatest(0, 80 * p.monthly_net_contribution) /\ cover \in Int
  <2>1. 10000 \div structuring.dscr_min = 80
      BY DEF structuring
  <2> QED BY <2>1 DEF emi_by_dscr, Greatest
<1> HIDE DEF ltv, foir, cover
<1>9. /\ capacity \in Int /\ capacity >= 0
      /\ capacity > 0 => capacity <= foir /\ capacity <= 80 * p.monthly_net_contribution
    BY <1>7, <1>8 DEF Greatest, Least
<1> HIDE DEF capacity
<1>10. /\ s.recommended_amount \in Int
       /\ s.recommended_amount >= structuring.min_amount
       /\ s.recommended_amount <= p.requested_amount
       /\ 100 * s.recommended_amount <= ltv
       /\ s.recommended_amount <= structuring.max_amount
       /\ s.estimated_emi \in Nat \ {0}
       /\ 1000 * (s.estimated_emi - 1) < capacity
       /\ s.max_ltv_percent = percent
  <2>1. StructureAt(p, n, h, ltv, capacity).is_viable
      BY <1>2 DEF s, ltv
  <2> QED BY <1>2, <1>4, <1>6, <1>9, <2>1, StructureAtSound DEF percent, ltv
<1>11. capacity > 0
    BY <1>9, <1>10
<1>12. s.recommended_amount <= Least(p.requested_amount, structuring.max_amount)
    BY <1>10 DEF Least
<1>13. 100 * s.recommended_amount <= s.max_ltv_percent * p.vehicle_on_road_price
    BY <1>5, <1>10 DEF ltv
<1>14. /\ 1000 * (s.estimated_emi - 1)
              < 55 * p.total_monthly_income - 100 * p.total_existing_emi
       /\ 1000 * (s.estimated_emi - 1) < 80 * p.monthly_net_contribution
    BY <1>7, <1>9, <1>10, <1>11
<1> QED BY <1>10, <1>12, <1>13, <1>14 DEF s

-------------------------------------------------------------------------------
(* The parts of an assessment.                                             *)

RouteOf(f) == RouteScore(route_v2, f.route)
CustomerOf(f) == build_customer_input(f, {RouteOf(f).grade})
CreditOf(f) == CustomerScore(customer_v1, CustomerOf(f))
FinalOf(f) == FinalAssess(final_v1, build_final_input(CustomerOf(f), CreditOf(f), RouteOf(f)))

\* The terms that the structuring starts from.
TermsOf(f, grade) ==
    [grade                    |-> grade,
     requested_amount         |-> f.application.requested_amount,
     requested_tenure_months  |-> f.application.requested_tenure_months,
     vehicle_on_road_price    |-> f.application.vehicle_on_road_price,
     total_monthly_income     |-> f.profile.total_monthly_income,
     total_existing_emi       |-> f.profile.total_existing_emi,
     monthly_net_contribution |-> Economics(f).monthly_net_contribution,
     battery_warranty_months  |-> 0]

\* What build_customer_input takes over from the rows, and what it computes from them.
LEMMA CustomerFields ==
    ASSUME NEW f
    PROVE  LET c == CustomerOf(f)
           IN  /\ c.requested_amount = f.application.requested_amount
               /\ c.requested_tenure_months = f.application.requested_tenure_months
               /\ c.proposed_interest_rate = f.application.proposed_interest_rate
               /\ c.vehicle_on_road_price = f.application.vehicle_on_road_price
               /\ c.total_monthly_income = f.profile.total_monthly_income
               /\ c.total_existing_emi = f.profile.total_existing_emi
               /\ c.proposed_emi = calculate_emi(f.application.requested_amount,
                                                 f.application.proposed_interest_rate,
                                                 f.application.requested_tenure_months)
               /\ c.credit_history_months = f.report.credit_history_months
               /\ c.economics = {Economics(f)}
    BY DEF CustomerOf, build_customer_input

\* What the decision is taken on and the reasons are given for.
LEMMA Decided ==
    ASSUME NEW f
    PROVE  \E d, grade :
               /\ assess(f).structure = IF CreditOf(f).knockouts # {} THEN NoStructure("KNOCKOUT")
                                        ELSE structure_loan(TermsOf(f, grade))
               /\ assess(f).recommendation = decide(d).decision
               /\ assess(f).failed_gates = decide(d).failed_gates
               /\ assess(f).reasons = build_reasons(decide(d), d)
               /\ d.knockouts = CreditOf(f).knockouts
               /\ d.structure_viable = assess(f).structure.is_viable
               /\ d.route_grade = RouteOf(f).grade
               /\ d.is_thin_file = CreditOf(f).is_thin_file
               /\ d.dscr = RequestedRatios(CustomerOf(f), Economics(f)).dscr
               /\ d.foir_post_loan = RequestedRatios(CustomerOf(f), Economics(f)).foir_post_loan
<1> DEFINE c == CustomerOf(f)
           p == build_final_input(c, CreditOf(f), RouteOf(f))
           score == IF p.knockouts # {} THEN 0 ELSE CombinedScore(final_v1, p)
           grade == band_for(final_v1, score).grade
           structure == IF p.knockouts # {} THEN NoStructure("KNOCKOUT")
                        ELSE structure_loan(TermsOf(f, grade))
           requested == RequestedRatios(c, Economics(f))
           derived == derive_customer_inputs(c)
           d == [final_score |-> score, customer_grade |-> p.customer_grade,
                 route_grade |-> p.route_grade, dscr |-> requested.dscr,
                 foir_post_loan |-> requested.foir_post_loan, is_thin_file |-> p.is_thin_file,
                 knockouts |-> p.knockouts, structure_viable |-> structure.is_viable,
                 disposable_to_emi |-> derived.disposable_to_emi_ratio,
                 bureau_score |-> c.bureau_score,
                 down_payment_ratio |-> derived.down_payment_ratio]
<1>1. /\ assess(f).structure = FinalOf(f).structure
      /\ assess(f).recommendation = FinalOf(f).recommendation
      /\ assess(f).failed_gates = FinalOf(f).failed_gates
      /\ assess(f).reasons = FinalOf(f).reasons
    BY DEF assess, LoanAssessment, FinalOf, CreditOf, CustomerOf, RouteOf
<1>2. /\ p.customer_inputs = c
      /\ p.economics = Economics(f)
      /\ p.route_grade = RouteOf(f).grade
      /\ p.is_thin_file = CreditOf(f).is_thin_file
      /\ p.knockouts = CreditOf(f).knockouts
      /\ p.battery_warranty_months = 0
  <2>1. c.economics = {Economics(f)}
      BY CustomerFields
  <2>2. (CHOOSE e \in c.economics : TRUE) = Economics(f)
      BY <2>1
  <2> HIDE DEF c
  <2> QED BY <2>2 DEF build_final_input
<1> HIDE DEF p
<1>3. TermsOf(f, grade) =
          [grade |-> grade,
           requested_amount |-> p.customer_inputs.requested_amount,
           requested_tenure_months |-> p.customer_inputs.requested_tenure_months,
           vehicle_on_road_price |-> p.customer_inputs.vehicle_on_road_price,
           total_monthly_income |-> p.customer_inputs.total_monthly_income,
           total_existing_emi |-> p.customer_inputs.total_existing_emi,
           monthly_net_contribution |-> p.economics.monthly_net_contribution,
           battery_warranty_months |-> p.battery_warranty_months]
  <2> HIDE DEF grade
  <2> QED BY <1>2, CustomerFields DEF TermsOf
<1>4. /\ FinalAssess(final_v1, p).structure = structure
      /\ FinalAssess(final_v1, p).recommendation = decide(d).decision
      /\ FinalAssess(final_v1, p).failed_gates = decide(d).failed_gates
      /\ FinalAssess(final_v1, p).reasons = build_reasons(decide(d), d)
    BY <1>2, <1>3 DEF FinalAssess
<1>5. FinalOf(f) = FinalAssess(final_v1, p)
    BY DEF FinalOf, p
<1>6. /\ d.knockouts = p.knockouts
      /\ d.structure_viable = structure.is_viable
      /\ d.route_grade = p.route_grade
      /\ d.is_thin_file = p.is_thin_file
      /\ d.dscr = requested.dscr
      /\ d.foir_post_loan = requested.foir_post_loan
    OBVIOUS
<1> HIDE DEF d, grade
<1> QED BY <1>1, <1>2, <1>4, <1>5, <1>6

-------------------------------------------------------------------------------
(* Gates, reasons, factors.                                                *)

RejectGateNames ==
    {"FINAL_SCORE_BELOW_MINIMUM", "CUSTOMER_GRADE_UNACCEPTABLE", "DSCR_BELOW_MINIMUM",
     "AMOUNT_BELOW_MINIMUM"}

ApproveGateNames ==
    {"FINAL_SCORE_BELOW_APPROVAL_THRESHOLD", "CUSTOMER_GRADE_OUTSIDE_APPROVAL_SET",
     "ROUTE_GRADE_OUTSIDE_APPROVAL_SET", "DSCR_BELOW_APPROVAL_THRESHOLD",
     "FOIR_ABOVE_APPROVAL_THRESHOLD", "THIN_CREDIT_FILE"}

KnockoutNames ==
    {"KO_BLACKLIST", "KO_ACTIVE_DEFAULT", "KO_BUREAU_SCORE_FLOOR", "KO_AGE_LIMIT",
     "KO_LICENCE_INVALID", "KO_MIN_DOWN_PAYMENT", "KO_MAX_AMOUNT", "KO_MAX_TENURE",
     "KO_ROUTE_CLASS_C"}

\* The gates that reject, and when a structure that is not viable is one of them.
LEMMA RejectGatesAre ==
    ASSUME NEW d
    PROVE  /\ RejectGates(d) \subseteq RejectGateNames
           /\ "AMOUNT_BELOW_MINIMUM" \in RejectGates(d) <=> ~d.structure_viable
<1>1. RejectGates(d) \subseteq RejectGateNames
    BY ZenonT(60) DEF RejectGates, evaluate_factors, RejectGateNames
<1>2. "AMOUNT_BELOW_MINIMUM" \in RejectGates(d) <=> ~d.structure_viable
    BY ZenonT(60) DEF RejectGates, evaluate_factors
<1> QED BY <1>1, <1>2

\* The gates that keep from approving, each with what raises it.
LEMMA ApproveGatesAre ==
    ASSUME NEW d
    PROVE  /\ ApproveGates(d) \subseteq ApproveGateNames
           /\ "ROUTE_GRADE_OUTSIDE_APPROVAL_SET" \in ApproveGates(d)
                  <=> d.route_grade \notin {"A", "B"}
           /\ "DSCR_BELOW_APPROVAL_THRESHOLD" \in ApproveGates(d) <=> ~_ge(d.dscr, 1300)
           /\ "FOIR_ABOVE_APPROVAL_THRESHOLD" \in ApproveGates(d) <=> ~_le(d.foir_post_loan, 500)
           /\ "THIN_CREDIT_FILE" \in ApproveGates(d) <=> d.is_thin_file
<1>1. /\ approve.allowed_route_grades = {"A", "B"}
      /\ approve.min_dscr = 1300
      /\ approve.max_foir = 500
    BY DEF approve
<1>2. ApproveGates(d) \subseteq ApproveGateNames
    BY ZenonT(60) DEF ApproveGates, evaluate_factors, ApproveGateNames
<1>3. /\ "ROUTE_GRADE_OUTSIDE_APPROVAL_SET" \in ApproveGates(d)
             <=> d.route_grade \notin approve.allowed_route_grades
      /\ "DSCR_BELOW_APPROVAL_THRESHOLD" \in ApproveGates(d) <=> ~_ge(d.dscr, approve.min_dscr)
    BY ZenonT(60) DEF ApproveGates, evaluate_factors
<1>4. /\ "FOIR_ABOVE_APPROVAL_THRESHOLD" \in ApproveGates(d)
             <=> ~_le(d.foir_post_loan, approve.max_foir)
      /\ "THIN_CREDIT_FILE" \in ApproveGates(d) <=> d.is_thin_file
    BY ZenonT(60) DEF ApproveGates, evaluate_factors
<1> QED BY <1>1, <1>2, <1>3, <1>4

\* Which gate gives which reason.
LEMMA ReasonsAre ==
    ASSUME NEW d, NEW g
    PROVE  LET reasons == NegativeReasons(g, d)
           IN  /\ "HIGH_EMI_BURDEN" \in reasons
                      <=> "FOIR_ABOVE_APPROVAL_THRESHOLD" \in g /\ d.foir_post_loan # None
               /\ "LOW_DSCR" \in reasons
                      <=> g \cap {"DSCR_BELOW_MINIMUM", "DSCR_BELOW_APPROVAL_THRESHOLD"} # {}
               /\ "FINAL_SCORE_BELOW_THRESHOLD" \in reasons
                      <=> g \cap {"FINAL_SCORE_BELOW_MINIMUM",
                                  "FINAL_SCORE_BELOW_APPROVAL_THRESHOLD"} # {}
               /\ "WEAK_ROUTE" \in reasons <=> "ROUTE_GRADE_OUTSIDE_APPROVAL_SET" \in g
               /\ "WEAK_CUSTOMER_GRADE" \in reasons
                      <=> g \cap {"CUSTOMER_GRADE_UNACCEPTABLE",
                                  "CUSTOMER_GRADE_OUTSIDE_APPROVAL_SET"} # {}
               /\ "THIN_CREDIT_FILE" \in reasons <=> "THIN_CREDIT_FILE" \in g
               /\ "AMOUNT_BELOW_MINIMUM" \in reasons <=> "AMOUNT_BELOW_MINIMUM" \in g
<1> DEFINE reasons == NegativeReasons(g, d)
<1>1. "HIGH_EMI_BURDEN" \in reasons
          <=> "FOIR_ABOVE_APPROVAL_THRESHOLD" \in g /\ d.foir_post_loan # None
    BY ZenonT(60) DEF NegativeReasons, evaluate_factors
<1>2. "LOW_DSCR" \in reasons
          <=> g \cap {"DSCR_BELOW_MINIMUM", "DSCR_BELOW_APPROVAL_THRESHOLD"} # {}
    BY ZenonT(60) DEF NegativeReasons, evaluate_factors
<1>3. "FINAL_SCORE_BELOW_THRESHOLD" \in reasons
          <=> g \cap {"FINAL_SCORE_BELOW_MINIMUM", "FINAL_SCORE_BELOW_APPROVAL_THRESHOLD"} # {}
    BY ZenonT(60) DEF NegativeReasons, evaluate_factors
<1>4. "WEAK_ROUTE" \in reasons <=> "ROUTE_GRADE_OUTSIDE_APPROVAL_SET" \in g
    BY ZenonT(60) DEF NegativeReasons, evaluate_factors
<1>5. "WEAK_CUSTOMER_GRADE" \in reasons
          <=> g \cap {"CUSTOMER_GRADE_UNACCEPTABLE", "CUSTOMER_GRADE_OUTSIDE_APPROVAL_SET"} # {}
    BY ZenonT(60) DEF NegativeReasons, evaluate_factors
<1>6. "THIN_CREDIT_FILE" \in reasons <=> "THIN_CREDIT_FILE" \in g
    BY ZenonT(60) DEF NegativeReasons, evaluate_factors
<1>7. "AMOUNT_BELOW_MINIMUM" \in reasons <=> "AMOUNT_BELOW_MINIMUM" \in g
    BY ZenonT(60) DEF NegativeReasons, evaluate_factors
<1> QED BY <1>1, <1>2, <1>3, <1>4, <1>5, <1>6, <1>7

\* A route is praised for its grade.
LEMMA StrongRouteIs ==
    \A d : "STRONG_ROUTE" \in PositiveReasons(d) <=> d.route_grade \in {"A", "B"}
    BY ZenonT(60) DEF PositiveReasons, evaluate_factors

\* The knock-outs are of the policy's list.
LEMMA KnockoutsAre == \A p, i : evaluate_knockouts(p, i) \subseteq KnockoutNames
    BY DEF evaluate_knockouts, evaluate_factors, KnockoutNames

\* No factor of a route speaks of the customer's debts or history,
LEMMA RouteFactorsAre ==
    \A i : RouteRiskFactors(i) \cap {"LOW_DSCR", "HIGH_EMI_BURDEN", "THIN_CREDIT_FILE"} = {}
    BY DEF RouteRiskFactors, evaluate_factors

\* and those of the customer do so at bounds of their own.
LEMMA CustomerFactorsAre ==
    ASSUME NEW i
    PROVE  /\ "LOW_DSCR" \in CustomerRiskFactors(i) <=> _lt(i.dscr, 1250)
           /\ "HIGH_EMI_BURDEN" \in CustomerRiskFactors(i) <=> _gt(i.foir_post_loan, 550)
           /\ "THIN_CREDIT_FILE" \in CustomerRiskFactors(i) <=> _lt(i.credit_history_months, 6)
<1>1. "LOW_DSCR" \in CustomerRiskFactors(i) <=> _lt(i.dscr, 1250)
    BY ZenonT(60) DEF CustomerRiskFactors, evaluate_factors
<1>2. "HIGH_EMI_BURDEN" \in CustomerRiskFactors(i) <=> _gt(i.foir_post_loan, 550)
    BY ZenonT(60) DEF CustomerRiskFactors, evaluate_factors
<1>3. "THIN_CREDIT_FILE" \in CustomerRiskFactors(i) <=> _lt(i.credit_history_months, 6)
    BY ZenonT(60) DEF CustomerRiskFactors, evaluate_factors
<1> QED BY <1>1, <1>2, <1>3

-------------------------------------------------------------------------------
(* The properties of one assessment.                                       *)

\* What the terms of a file are.
LEMMA TermsAre ==
    ASSUME NEW f, NEW grade, IsFile(f)
    PROVE  LET p == TermsOf(f, grade)
           IN  /\ p.requested_amount = f.application.requested_amount
               /\ p.requested_amount \in Nat
               /\ p.requested_tenure_months \in Tenures
               /\ p.vehicle_on_road_price = f.application.vehicle_on_road_price
               /\ p.vehicle_on_road_price \in Nat
               /\ p.total_monthly_income = f.profile.total_monthly_income
               /\ p.total_monthly_income \in Int
               /\ p.total_existing_emi = f.profile.total_existing_emi
               /\ p.total_existing_emi \in Nat
               /\ p.monthly_net_contribution = Economics(f).monthly_net_contribution
               /\ p.monthly_net_contribution \in Int
               /\ p.battery_warranty_months = 0
    BY TermsTypes, ProfileTypes, EconomicsType DEF TermsOf

\* A structure that is viable can be paid.
LEMMA ViableIsAffordable ==
    ASSUME NEW f, IsFile(f), assess(f).structure.is_viable
    PROVE  LET s == assess(f).structure
           IN  /\ s.recommended_amount \in Int
               /\ s.recommended_amount >= structuring.min_amount
               /\ s.recommended_amount <= Least(f.application.requested_amount,
                                                structuring.max_amount)
               /\ 100 * s.recommended_amount
                      <= s.max_ltv_percent * f.application.vehicle_on_road_price
               /\ s.estimated_emi \in Nat \ {0}
               /\ 1000 * (s.estimated_emi - 1)
                      < 55 * f.profile.total_monthly_income - 100 * f.profile.total_existing_emi
               /\ 1000 * (s.estimated_emi - 1) < 80 * Economics(f).monthly_net_contribution
               /\ Economics(f).monthly_net_contribution \in Int
<1> DEFINE s == assess(f).structure
           net == Economics(f).monthly_net_contribution
<1>1. PICK grade : s = IF CreditOf(f).knockouts # {} THEN NoStructure("KNOCKOUT")
                       ELSE structure_loan(TermsOf(f, grade))
    BY Decided
<1> HIDE DEF s
<1>2. s.is_viable
    BY DEF s
<1>3. s = structure_loan(TermsOf(f, grade))
    BY <1>1, <1>2, NotOffered
<1> DEFINE p == TermsOf(f, grade)
<1>4. /\ s.recommended_amount \in Int
      /\ s.recommended_amount >= structuring.min_amount
      /\ s.recommended_amount <= Least(p.requested_amount, structuring.max_amount)
      /\ 100 * s.recommended_amount <= s.max_ltv_percent * p.vehicle_on_road_price
      /\ s.estimated_emi \in Nat \ {0}
      /\ 1000 * (s.estimated_emi - 1)
             < 55 * p.total_monthly_income - 100 * p.total_existing_emi
      /\ 1000 * (s.estimated_emi - 1) < 80 * p.monthly_net_contribution
  <2> HIDE DEF p
  <2>1. structure_loan(p).is_viable
      BY <1>2, <1>3 DEF p
  <2>2. /\ p.requested_amount \in Nat /\ p.requested_tenure_months \in Tenures
        /\ p.vehicle_on_road_price \in Nat /\ p.total_monthly_income \in Int
        /\ p.total_existing_emi \in Nat /\ p.monthly_net_contribution \in Int
        /\ p.battery_warranty_months = 0
      BY TermsAre DEF p
  <2>3. s = structure_loan(p)
      BY <1>3 DEF p
  <2> QED BY <2>1, <2>2, <2>3, StructureSound
<1>5. /\ p.requested_amount = f.application.requested_amount
      /\ p.vehicle_on_road_price = f.application.vehicle_on_road_price
      /\ p.total_monthly_income = f.profile.total_monthly_income
      /\ p.total_existing_emi = f.profile.total_existing_emi
      /\ p.monthly_net_contribution = net /\ net \in Int
    BY TermsAre
<1> HIDE DEF p, net
<1> QED BY <1>4, <1>5 DEF s, net

\* The outcome of the four rows.
LEMMA Outcomes ==
    ASSUME NEW d
    PROVE  \/ /\ d.knockouts # {}
              /\ decide(d).decision = "REJECT" /\ decide(d).failed_gates = d.knockouts
           \/ /\ d.knockouts = {} /\ RejectGates(d) # {}
              /\ decide(d).decision = "REJECT" /\ decide(d).failed_gates = RejectGates(d)
           \/ /\ d.knockouts = {} /\ RejectGates(d) = {} /\ ApproveGates(d) # {}
              /\ decide(d).decision = "MANUAL_REVIEW" /\ decide(d).failed_gates = ApproveGates(d)
           \/ /\ d.knockouts = {} /\ RejectGates(d) = {} /\ ApproveGates(d) = {}
              /\ decide(d).decision = "APPROVE" /\ decide(d).failed_gates = {}
    BY DEF decide

\* What is approved is viable.
LEMMA ApprovedIsViable ==
    ASSUME NEW f, assess(f).recommendation = "APPROVE"
    PROVE  assess(f).structure.is_viable
<1>1. PICK d : /\ assess(f).recommendation = decide(d).decision
               /\ d.structure_viable = assess(f).structure.is_viable
    BY Decided
<1>2. RejectGates(d) = {}
    BY <1>1, Outcomes
<1> QED BY <1>1, <1>2, RejectGatesAre

\* The ratios of the amount that was asked for, where there is an amount and an income.
LEMMA RatiosOf ==
    ASSUME NEW f, IsFile(f), f.application.requested_amount >= 100,
           f.profile.total_monthly_income > 0
    PROVE  LET c == CustomerOf(f)
               r == RequestedRatios(c, Economics(f))
               i == derive_customer_inputs(c)
           IN  /\ \E v \in Int : r.foir_post_loan = {v} /\ i.foir_post_loan = {v}
               /\ \E v \in Int : r.dscr = {v} /\ i.dscr = {v}
               /\ i.credit_history_months = {f.report.credit_history_months}
<1> DEFINE c == CustomerOf(f)
           r == RequestedRatios(c, Economics(f))
           i == derive_customer_inputs(c)
           emi == calculate_emi(f.application.requested_amount,
                                f.application.proposed_interest_rate,
                                f.application.requested_tenure_months)
           income == f.profile.total_monthly_income
           debts == f.profile.total_existing_emi
           e == Economics(f)
           foir == HalfUp(1000 * (debts + 10 * emi), income)
           cover == HalfUp(100 * e.monthly_net_contribution, emi)
<1>1. /\ c.requested_amount = f.application.requested_amount
      /\ c.requested_tenure_months = f.application.requested_tenure_months
      /\ c.proposed_interest_rate = f.application.proposed_interest_rate
      /\ c.total_monthly_income = income
      /\ c.total_existing_emi = debts
      /\ c.proposed_emi = emi
      /\ c.credit_history_months = f.report.credit_history_months
      /\ c.economics = {e}
    BY CustomerFields
<1>2. emi \in Nat \ {0}
    BY TermsTypes, InstalmentPositive
<1>3. income \in Nat \ {0} /\ debts \in Nat /\ e.monthly_net_contribution \in Int
    BY ProfileTypes, EconomicsType
<1>4. f.application.requested_amount # 0
    OBVIOUS
<1> HIDE DEF c, income, debts, e
<1>5. r.foir_post_loan = {foir} /\ r.dscr = {cover}
  <2>1. /\ r.foir_post_loan = safe_div(HalfUp, 1000 * (debts + 10 * emi), income)
        /\ r.dscr = dscr(e, emi)
      BY <1>1, <1>4 DEF RequestedRatios, e
  <2> HIDE DEF emi, r
  <2> QED BY <1>2, <1>3, <2>1 DEF safe_div, dscr
<1>6. /\ i.foir_post_loan = safe_div(HalfUp, 1000 * (debts + 10 * emi), income)
      /\ i.dscr = UNION {dscr(x, emi) : x \in c.economics}
      /\ i.credit_history_months = {f.report.credit_history_months}
    BY <1>1 DEF derive_customer_inputs
<1> HIDE DEF emi, i, r
<1>7. i.foir_post_loan = {foir} /\ i.dscr = {cover}
  <2>1. UNION {dscr(x, emi) : x \in c.economics} = dscr(e, emi)
      BY <1>1
  <2> QED BY <1>2, <1>3, <1>6, <2>1, ZenonT(40) DEF safe_div, dscr
<1>8. foir \in Int /\ cover \in Int
  <2>1. 1000 * (debts + 10 * emi) \in Int /\ 100 * e.monthly_net_contribution \in Int
      BY <1>2, <1>3
  <2> QED BY <1>2, <1>3, <2>1, HalfUpInt
<1> HIDE DEF foir, cover
<1> QED BY <1>5, <1>6, <1>7, <1>8 DEF c, i, r, e

\* What the two engines say of a file.
LEMMA EnginesSay ==
    ASSUME NEW f
    PROVE  /\ CreditOf(f).knockouts \subseteq KnockoutNames
           /\ CreditOf(f).knockouts = {} =>
                  /\ CreditOf(f).is_thin_file = is_thin_file(CustomerOf(f))
                  /\ CreditOf(f).risk_factors
                         = CustomerRiskFactors(derive_customer_inputs(CustomerOf(f)))
           /\ RouteOf(f).risk_factors = RouteRiskFactors(derive_route_inputs(f.route))
           /\ assess(f).risk_factors = CreditOf(f).risk_factors \cup RouteOf(f).risk_factors
<1>1. \A p : /\ CustomerScore(customer_v1, p).knockouts
                    = evaluate_knockouts(p, derive_customer_inputs(p))
             /\ CustomerScore(customer_v1, p).knockouts = {} =>
                    /\ CustomerScore(customer_v1, p).is_thin_file = is_thin_file(p)
                    /\ CustomerScore(customer_v1, p).risk_factors
                           = CustomerRiskFactors(derive_customer_inputs(p))
    BY DEF CustomerScore
<1>2. RouteOf(f).risk_factors = RouteRiskFactors(derive_route_inputs(f.route))
    BY DEF RouteOf, RouteScore
<1>3. assess(f).risk_factors = CreditOf(f).risk_factors \cup RouteOf(f).risk_factors
    BY DEF assess, LoanAssessment, CreditOf, CustomerOf, RouteOf
<1> QED BY <1>1, <1>2, <1>3, KnockoutsAre DEF CreditOf

\* No gate, no reason: a rejection or a referral has the reasons of its gates.
LEMMA GatesHaveReasons ==
    ASSUME NEW d, NEW g, g \subseteq RejectGateNames \cup ApproveGateNames,
           "FOIR_ABOVE_APPROVAL_THRESHOLD" \in g => d.foir_post_loan # None
    PROVE  /\ \A gate \in g \cap DOMAIN GateReasons : GateReasons[gate] \in NegativeReasons(g, d)
           /\ "FOIR_ABOVE_APPROVAL_THRESHOLD" \in g => "HIGH_EMI_BURDEN" \in NegativeReasons(g, d)
           /\ g # {} => NegativeReasons(g, d) # {}
<1> DEFINE reasons == NegativeReasons(g, d)
<1>1. "FOIR_ABOVE_APPROVAL_THRESHOLD" \in g => "HIGH_EMI_BURDEN" \in reasons
    BY ReasonsAre
<1>2. /\ g \cap {"FINAL_SCORE_BELOW_MINIMUM", "FINAL_SCORE_BELOW_APPROVAL_THRESHOLD"} # {}
             => "FINAL_SCORE_BELOW_THRESHOLD" \in reasons
      /\ g \cap {"CUSTOMER_GRADE_UNACCEPTABLE", "CUSTOMER_GRADE_OUTSIDE_APPROVAL_SET"} # {}
             => "WEAK_CUSTOMER_GRADE" \in reasons
      /\ g \cap {"DSCR_BELOW_MINIMUM", "DSCR_BELOW_APPROVAL_THRESHOLD"} # {}
             => "LOW_DSCR" \in reasons
      /\ "ROUTE_GRADE_OUTSIDE_APPROVAL_SET" \in g => "WEAK_ROUTE" \in reasons
      /\ "THIN_CREDIT_FILE" \in g => "THIN_CREDIT_FILE" \in reasons
      /\ "AMOUNT_BELOW_MINIMUM" \in g => "AMOUNT_BELOW_MINIMUM" \in reasons
    BY ReasonsAre
<1> HIDE DEF reasons
<1>3. ASSUME NEW gate \in g, gate # "FOIR_ABOVE_APPROVAL_THRESHOLD"
      PROVE  gate \in DOMAIN GateReasons
    BY <1>3 DEF RejectGateNames, ApproveGateNames, GateReasons
<1>4. ASSUME NEW gate \in g \cap DOMAIN GateReasons
      PROVE  GateReasons[gate] \in reasons
  <2>1. CASE gate = "FINAL_SCORE_BELOW_MINIMUM"
      BY <1>2, <2>1 DEF GateReasons
  <2>2. CASE gate = "FINAL_SCORE_BELOW_APPROVAL_THRESHOLD"
      BY <1>2, <2>2 DEF GateReasons
  <2>3. CASE gate = "CUSTOMER_GRADE_UNACCEPTABLE"
      BY <1>2, <2>3 DEF GateReasons
  <2>4. CASE gate = "CUSTOMER_GRADE_OUTSIDE_APPROVAL_SET"
      BY <1>2, <2>4 DEF GateReasons
  <2>5. CASE gate = "ROUTE_GRADE_OUTSIDE_APPROVAL_SET"
      BY <1>2, <2>5 DEF GateReasons
  <2>6. CASE gate = "DSCR_BELOW_MINIMUM"
      BY <1>2, <2>6 DEF GateReasons
  <2>7. CASE gate = "DSCR_BELOW_APPROVAL_THRESHOLD"
      BY <1>2, <2>7 DEF GateReasons
  <2>8. CASE gate = "AMOUNT_BELOW_MINIMUM"
      BY <1>2, <2>8 DEF GateReasons
  <2>9. CASE gate = "THIN_CREDIT_FILE"
      BY <1>2, <2>9 DEF GateReasons
  <2> QED BY <2>1, <2>2, <2>3, <2>4, <2>5, <2>6, <2>7, <2>8, <2>9 DEF GateReasons
<1>5. g # {} => reasons # {}
    BY <1>1, <1>3, <1>4
<1> QED BY <1>1, <1>4, <1>5 DEF reasons

\* An assessment of the file explains its decision.
LEMMA ExplainedOnce ==
    ASSUME IsFile(file), assessment = assess(file)
    PROVE  DecisionExplained
<1> DEFINE f == file
           gates == assess(f).failed_gates
           negative == assess(f).reasons.negative
<1>1. PICK d : /\ assess(f).recommendation = decide(d).decision
               /\ assess(f).failed_gates = decide(d).failed_gates
               /\ assess(f).reasons = build_reasons(decide(d), d)
               /\ d.knockouts = CreditOf(f).knockouts
               /\ d.structure_viable = assess(f).structure.is_viable
               /\ d.route_grade = RouteOf(f).grade
               /\ d.is_thin_file = CreditOf(f).is_thin_file
               /\ d.dscr = RequestedRatios(CustomerOf(f), Economics(f)).dscr
               /\ d.foir_post_loan = RequestedRatios(CustomerOf(f), Economics(f)).foir_post_loan
    BY Decided
<1>2. d.knockouts # {} => negative = d.knockouts
    BY <1>1 DEF build_reasons
<1>3. d.knockouts = {} => /\ negative = NegativeReasons(decide(d).failed_gates, d)
                          /\ assess(f).reasons.positive = PositiveReasons(d)
    BY <1>1 DEF build_reasons
<1>4. d.knockouts \subseteq KnockoutNames
    BY <1>1, EnginesSay
<1>5. KnockoutNames \cap (DOMAIN GateReasons \cup {"FOIR_ABOVE_APPROVAL_THRESHOLD"}) = {}
    BY DEF KnockoutNames, GateReasons
<1>6. ASSUME RejectGates(d) = {}
      PROVE  /\ f.application.requested_amount >= 100
             /\ f.profile.total_monthly_income > 0
  <2> DEFINE s == assess(f).structure
  <2>1. s.is_viable
      BY <1>1, <1>6, RejectGatesAre
  <2>2. /\ s.recommended_amount \in Int
        /\ s.recommended_amount >= structuring.min_amount
        /\ s.recommended_amount <= Least(f.application.requested_amount, structuring.max_amount)
        /\ s.estimated_emi \in Nat \ {0}
        /\ 1000 * (s.estimated_emi - 1)
               < 55 * f.profile.total_monthly_income - 100 * f.profile.total_existing_emi
      BY <2>1, ViableIsAffordable
  <2> HIDE DEF s
  <2>3. /\ f.profile.total_monthly_income \in Int /\ f.profile.total_existing_emi \in Nat
        /\ f.application.requested_amount \in Nat
      BY ProfileTypes, TermsTypes
  <2> HIDE DEF f
  <2>4. f.application.requested_amount >= 100
      BY <2>2, <2>3 DEF Least, structuring
  <2>5. f.profile.total_monthly_income > 0
      BY <2>2, <2>3
  <2> QED BY <2>4, <2>5
<1>7. ASSUME RejectGates(d) = {}
      PROVE  /\ \E v \in Int : /\ d.foir_post_loan = {v}
                               /\ derive_customer_inputs(CustomerOf(f)).foir_post_loan = {v}
             /\ \E v \in Int : /\ d.dscr = {v}
                               /\ derive_customer_inputs(CustomerOf(f)).dscr = {v}
             /\ derive_customer_inputs(CustomerOf(f)).credit_history_months
                    = {f.report.credit_history_months}
  <2> DEFINE r == RequestedRatios(CustomerOf(f), Economics(f))
             i == derive_customer_inputs(CustomerOf(f))
  <2>1. /\ f.application.requested_amount >= 100
        /\ f.profile.total_monthly_income > 0
      BY <1>6, <1>7
  <2>2. /\ \E v \in Int : r.foir_post_loan = {v} /\ i.foir_post_loan = {v}
        /\ \E v \in Int : r.dscr = {v} /\ i.dscr = {v}
        /\ i.credit_history_months = {f.report.credit_history_months}
      BY <2>1, RatiosOf
  <2>3. d.foir_post_loan = r.foir_post_loan /\ d.dscr = r.dscr
      BY <1>1
  <2> HIDE DEF r
  <2> QED BY <2>2, <2>3
<1>8. CASE d.knockouts # {}
  <2>1. gates = d.knockouts /\ assess(f).recommendation = "REJECT" /\ negative = d.knockouts
      BY <1>1, <1>2, <1>8, Outcomes
  <2> HIDE DEF f, gates, negative
  <2> QED BY <1>4, <1>5, <1>8, <2>1 DEF DecisionExplained, f, gates, negative
<1>9. CASE d.knockouts = {} /\ gates # {}
  <2>1. negative = NegativeReasons(gates, d)
      BY <1>1, <1>3, <1>9
  <2>2. gates \subseteq RejectGateNames \cup ApproveGateNames
      BY <1>1, <1>9, Outcomes, RejectGatesAre, ApproveGatesAre
  <2>3. "FOIR_ABOVE_APPROVAL_THRESHOLD" \in gates => d.foir_post_loan # None
    <3>1. "FOIR_ABOVE_APPROVAL_THRESHOLD" \notin RejectGateNames
        BY DEF RejectGateNames
    <3>2. "FOIR_ABOVE_APPROVAL_THRESHOLD" \in gates => RejectGates(d) = {}
        BY <1>1, <1>9, <3>1, Outcomes, RejectGatesAre
    <3> QED BY <1>7, <3>2 DEF None
  <2>4. /\ \A gate \in gates \cap DOMAIN GateReasons : GateReasons[gate] \in negative
        /\ "FOIR_ABOVE_APPROVAL_THRESHOLD" \in gates => "HIGH_EMI_BURDEN" \in negative
        /\ negative # {}
      BY <1>9, <2>1, <2>2, <2>3, GatesHaveReasons
  <2>5. assess(f).recommendation # "APPROVE"
      BY <1>1, <1>9, Outcomes
  <2> HIDE DEF f, gates, negative
  <2> QED BY <2>4, <2>5 DEF DecisionExplained, f, gates, negative
<1>10. CASE d.knockouts = {} /\ gates = {}
  <2>1. /\ RejectGates(d) = {} /\ ApproveGates(d) = {}
        /\ assess(f).recommendation = "APPROVE"
      BY <1>1, <1>10, Outcomes
  <2>2. assess(f).reasons.positive # {}
    <3>1. d.route_grade \in {"A", "B"}
        BY <2>1, ApproveGatesAre
    <3> QED BY <1>3, <1>10, <3>1, StrongRouteIs
  <2> DEFINE i == derive_customer_inputs(CustomerOf(f))
  <2>3. PICK ratio \in Int : d.foir_post_loan = {ratio} /\ i.foir_post_loan = {ratio}
      BY <1>7, <2>1
  <2>4. PICK cover \in Int : d.dscr = {cover} /\ i.dscr = {cover}
      BY <1>7, <2>1
  <2>5. ratio <= 500 /\ cover >= 1300 /\ ~d.is_thin_file
      BY <2>1, <2>3, <2>4, ApproveGatesAre DEF _le, _ge
  <2>6. i.credit_history_months = {f.report.credit_history_months}
      BY <1>7, <2>1
  <2>7. ~ (f.report.credit_history_months < 6)
    <3>1. ~is_thin_file(CustomerOf(f))
        BY <1>1, <1>10, <2>5, EnginesSay, ZenonT(40)
    <3> QED BY <3>1, CustomerFields DEF is_thin_file, THIN_FILE_MONTHS
  <2> HIDE DEF i
  <2>8. ~_lt(i.dscr, 1250) /\ ~_gt(i.foir_post_loan, 550) /\ ~_lt(i.credit_history_months, 6)
      BY <2>3, <2>4, <2>5, <2>6, <2>7 DEF _lt, _gt
  <2>9. CustomerRiskFactors(i) \cap {"LOW_DSCR", "HIGH_EMI_BURDEN", "THIN_CREDIT_FILE"} = {}
      BY <2>8, CustomerFactorsAre
  <2>10. assess(f).risk_factors
             = CustomerRiskFactors(i) \cup RouteRiskFactors(derive_route_inputs(f.route))
      BY <1>1, <1>10, EnginesSay DEF i
  <2>11. assess(f).risk_factors \cap {"LOW_DSCR", "HIGH_EMI_BURDEN", "THIN_CREDIT_FILE"} = {}
      BY <2>9, <2>10, RouteFactorsAre
  <2> HIDE DEF f, gates, negative
  <2> QED BY <1>10, <2>1, <2>2, <2>11 DEF DecisionExplained, f, gates, negative
<1> QED BY <1>8, <1>9, <1>10

\* An assessment of the file recommends what can be paid.
LEMMA AffordableOnce ==
    ASSUME IsFile(file), assessment = assess(file)
    PROVE  StructureAffordable
<1> DEFINE s == assess(file).structure
           income == file.profile.total_monthly_income
           debts == file.profile.total_existing_emi
           net == Economics(file).monthly_net_contribution
<1>1. ASSUME s.is_viable
      PROVE  /\ s.recommended_amount <= Least(file.application.requested_amount,
                                              structuring.max_amount)
             /\ 100 * s.recommended_amount
                    <= s.max_ltv_percent * file.application.vehicle_on_road_price
             /\ 100 * (10 * (s.estimated_emi - 1) + debts) < structuring.foir_cap * income
             /\ structuring.dscr_min * 10 * (s.estimated_emi - 1) < 100 * net
  <2>1. /\ s.recommended_amount <= Least(file.application.requested_amount,
                                         structuring.max_amount)
        /\ 100 * s.recommended_amount
               <= s.max_ltv_percent * file.application.vehicle_on_road_price
        /\ s.estimated_emi \in Nat \ {0}
        /\ 1000 * (s.estimated_emi - 1) < 55 * income - 100 * debts
        /\ 1000 * (s.estimated_emi - 1) < 80 * net /\ net \in Int
      BY <1>1, ViableIsAffordable
  <2>2. structuring.foir_cap = 55 /\ structuring.dscr_min = 125
      BY DEF structuring
  <2>3. income \in Int /\ debts \in Nat
      BY ProfileTypes
  <2> HIDE DEF s, income, debts, net
  <2>4. 100 * (10 * (s.estimated_emi - 1) + debts) < structuring.foir_cap * income
      BY <2>1, <2>2, <2>3
  <2>5. structuring.dscr_min * 10 * (s.estimated_emi - 1) < 100 * net
      BY <2>1, <2>2
  <2> QED BY <2>1, <2>4, <2>5
<1>2. assess(file).recommendation = "APPROVE" => s.is_viable
    BY ApprovedIsViable
<1> QED BY <1>1, <1>2 DEF StructureAffordable

-------------------------------------------------------------------------------
(* Scores are numbers.                                                     *)

IsCurve(points) ==
    /\ Len(points) \in Nat \ {0}
    /\ \A k \in 1..Len(points) : points[k][1] \in Int /\ points[k][2] \in Int

\* Between the two points that enclose a value the interpolation divides by a
\* positive width, and beyond the ends it takes the end's (engines/normalizer.py).
LEMMA CurveType ==
    ASSUME NEW points, IsCurve(points), NEW v \in Int
    PROVE  Interpolated(points, v) \in Int
<1> DEFINE x(k) == points[k][1]
           y(k) == 100 * points[k][2]
           last == Len(points)
           i == CHOOSE k \in 1..last - 1 : x(k) <= v /\ v < x(k + 1)
<1>1. /\ last \in Nat \ {0}
      /\ \A k \in 1..last : x(k) \in Int /\ y(k) \in Int
    BY DEF IsCurve
<1>2. ASSUME ~ (v <= x(1)), ~ (v >= x(last))
      PROVE  y(i) + HalfUp((y(i + 1) - y(i)) * (v - x(i)), x(i + 1) - x(i)) \in Int
  <2> HIDE DEF x, y, last
  <2> DEFINE T == {k \in 1..last : v < x(k)}
  <2>1. T \subseteq Nat /\ last \in T
      BY <1>1, <1>2
  <2>2. PICK k \in T : \A j \in T : k <= j
    <3> HIDE DEF T
    <3> QED BY <2>1, LeastElement
  <2>3. k # 1 /\ k \in 1..last /\ v < x(k)
      BY <1>1, <1>2, <2>2
  <2>4. k - 1 \in 1..last - 1 /\ k - 1 \notin T
      BY <1>1, <2>2, <2>3
  <2>5. x(k - 1) <= v /\ v < x((k - 1) + 1)
    <3>1. (k - 1) + 1 = k /\ k - 1 \in 1..last
        BY <1>1, <2>3, <2>4
    <3>2. x(k - 1) \in Int /\ ~ (v < x(k - 1))
        BY <1>1, <2>4, <3>1
    <3> QED BY <2>3, <3>1, <3>2
  <2>6. i \in 1..last - 1 /\ x(i) <= v /\ v < x(i + 1)
      BY <2>4, <2>5
  <2> HIDE DEF i
  <2>7. i \in 1..last /\ i + 1 \in 1..last
      BY <1>1, <2>6
  <2>8. x(i) \in Int /\ x(i + 1) \in Int /\ y(i) \in Int /\ y(i + 1) \in Int
      BY <1>1, <2>7
  <2>9. x(i + 1) - x(i) \in Nat \ {0}
      BY <2>6, <2>8
  <2>10. (y(i + 1) - y(i)) * (v - x(i)) \in Int
      BY <2>8
  <2>11. HalfUp((y(i + 1) - y(i)) * (v - x(i)), x(i + 1) - x(i)) \in Int
      BY <2>9, <2>10, HalfUpInt
  <2> QED BY <2>8, <2>11
<1>3. y(1) \in Int /\ y(last) \in Int
    BY <1>1
<1>4. Interpolated(points, v) =
          IF v <= x(1) THEN y(1)
          ELSE IF v >= x(last) THEN y(last)
          ELSE y(i) + HalfUp((y(i + 1) - y(i)) * (v - x(i)), x(i + 1) - x(i))
    BY DEF Interpolated
<1> QED BY <1>2, <1>3, <1>4

\* So a LINEAR rule scores a figure that is known,
LEMMA LinearType ==
    ASSUME NEW input, NEW points, IsCurve(points), NEW inputs, NEW v \in Int, inputs[input] = {v}
    PROVE  Leaf(Linear(input, points), inputs) \in Int
<1> DEFINE rule == Linear(input, points)
<1>1. rule.type = "LINEAR" /\ rule.input = input /\ rule.points = points
    BY DEF Linear
<1>2. Leaf(rule, inputs) = linear(rule, inputs)
    BY <1>1 DEF Leaf
<1>3. (CHOOSE w \in inputs[input] : TRUE) = v /\ inputs[input] # None
    BY DEF None
<1>4. linear(rule, inputs) = Interpolated(points, v)
    BY <1>1, <1>3 DEF linear, GivenOr
<1> QED BY <1>2, <1>4, CurveType

IsBands(bands) == \A b \in DOMAIN bands : bands[b] \in Int

\* and a BANDED one an input that has a band, or has none,
LEMMA BandedType ==
    ASSUME NEW input, NEW default \in Int, NEW bands, IsBands(bands), NEW inputs,
           inputs.road_type_effective_computed_score \in Int
    PROVE  Leaf(Banded(input, default, bands), inputs) \in Int
<1> DEFINE rule == Banded(input, default, bands)
           v == CHOOSE w \in inputs[input] : TRUE
<1>1. /\ rule.type = "BANDED" /\ rule.input = input /\ rule.bands = bands
      /\ rule.default_score = default
    BY DEF Banded
<1>2. Leaf(rule, inputs) = banded(rule, inputs)
    BY <1>1 DEF Leaf
<1>3. banded(rule, inputs) \in
          {100 * default, inputs.road_type_effective_computed_score}
              \cup {100 * bands[b] : b \in DOMAIN bands}
  <2> HIDE DEF rule
  <2> QED BY <1>1 DEF banded, GivenOr
<1> QED BY <1>2, <1>3 DEF IsBands

\* and a COMPOSITE of them scores what they score, weighted.
LEMMA CompositeType ==
    ASSUME NEW subs, NEW inputs, IsFiniteSet(DOMAIN subs),
           \A c \in DOMAIN subs : subs[c].weight \in Int /\ Leaf(subs[c].rule, inputs) \in Int
    PROVE  composite(subs, inputs) \in Int
<1> DEFINE f == [c \in DOMAIN subs |-> subs[c].weight * Leaf(subs[c].rule, inputs)]
<1>1. \A c \in DOMAIN subs : f[c] \in Int
    OBVIOUS
<1>2. DOMAIN f = DOMAIN subs
    OBVIOUS
<1>3. SumFunction(f) = SumFunctionOnSet(f, DOMAIN subs)
    BY <1>2 DEF SumFunction
<1> HIDE DEF f
<1>4. SumFunctionOnSet(f, DOMAIN subs) \in Int
    BY <1>1, SumInt
<1>5. composite(subs, inputs) = HalfUp(SumFunctionOnSet(f, DOMAIN subs), 100)
    BY <1>3 DEF composite, f
<1> QED BY <1>4, <1>5, HalfUpInt

-------------------------------------------------------------------------------
(* The route's inputs and components.                                      *)

\* A ratio in thousandths is a whole number of them.
LEMMA ThousandthsType ==
    ASSUME NEW n \in Int, NEW d \in Nat
    PROVE  Thousandths(n, d) \in Int
<1>1. 1000 * n \in Int
    OBVIOUS
<1>2. OrZero(safe_div(HalfUp, 1000 * n, d)) \in Int
    BY <1>1, OrZeroType
<1> QED BY <1>2 DEF Thousandths

MeasuredInputs ==
    {"charging_station_density", "gap_to_range_ratio", "fast_charger_share",
     "estimated_daily_trips", "demand_index", "daily_margin", "margin_ratio",
     "revenue_per_km", "monsoon_disruption_days"}

\* What the curves of the route's scorecard read is a number each.
LEMMA RouteInputs ==
    ASSUME NEW f, IsFile(f), NEW i, i = derive_route_inputs(f.route)
    PROVE  /\ \A m \in MeasuredInputs : \E v \in Int : i[m] = {v}
           /\ i.road_type_effective_computed_score \in Int
<1> DEFINE p == f.route
           distance == p.total_distance_km
           trips    == p.estimated_daily_trips
           daily_km == trips * distance
           max_gap  == IF p.max_charging_gap_km = None THEN distance
                       ELSE CHOOSE gap \in p.max_charging_gap_km : TRUE
           energy_cost_per_km ==
               HalfUp(DEFAULT_REFERENCE_BATTERY_KWH * p.electricity_tariff_per_kwh
                          * (100 + TERRAIN_FACTOR[p.gradient_profile]),
                      DEFAULT_REFERENCE_RANGE_KM)
           daily_revenue == trips * (p.avg_fare_per_trip + p.avg_freight_revenue_per_trip)
           daily_margin  == daily_revenue - p.estimated_daily_operating_cost
                                - HalfUp(daily_km * energy_cost_per_km, 100)
<1>1. /\ distance \in Nat \ {0} /\ trips \in Nat \ {0}
      /\ p.charging_station_count \in Nat /\ p.fast_charger_count \in Nat
      /\ p.passenger_volume_daily \in Nat /\ p.freight_volume_daily_tons \in Nat
      /\ p.avg_fare_per_trip \in Nat /\ p.avg_freight_revenue_per_trip \in Nat
      /\ p.estimated_daily_operating_cost \in Nat /\ p.electricity_tariff_per_kwh \in Int
      /\ p.monsoon_disruption_days \in Int /\ p.pitch_road_percent \in Int
      /\ p.max_charging_gap_km \subseteq Int /\ TERRAIN_FACTOR[p.gradient_profile] \in Int
    BY RouteTypes, TerrainType DEF RouteFigures
<1>2. max_gap \in Int
    BY <1>1 DEF None
<1>3. energy_cost_per_km \in Int
  <2>1. 24 * p.electricity_tariff_per_kwh * (100 + TERRAIN_FACTOR[p.gradient_profile]) \in Int
      BY <1>1, Products
  <2> QED BY <2>1, HalfUpInt DEF DEFAULT_REFERENCE_BATTERY_KWH, DEFAULT_REFERENCE_RANGE_KM
<1> HIDE DEF max_gap, energy_cost_per_km
<1>4. daily_km \in Nat /\ daily_revenue \in Nat
    BY <1>1
<1>5. daily_margin \in Int
  <2>1. daily_km * energy_cost_per_km \in Int
      BY <1>3, <1>4
  <2>2. HalfUp(daily_km * energy_cost_per_km, 100) \in Int
      BY <2>1, HalfUpInt
  <2> QED BY <1>1, <1>4, <2>2
<1>6. i = [charging_station_count   |-> {p.charging_station_count},
           fast_charger_count       |-> {p.fast_charger_count},
           charging_station_density |-> {Thousandths(10 * p.charging_station_count, distance)},
           gap_to_range_ratio       |-> {Thousandths(max_gap, DEFAULT_REFERENCE_RANGE_KM)},
           fast_charger_share       |->
               {Thousandths(p.fast_charger_count, p.charging_station_count)},
           road_condition           |-> {p.road_condition},
           road_type_effective      |-> {p.road_type},
           road_type_effective_computed_score |-> 4000 + 60 * p.pitch_road_percent,
           gradient_profile         |-> {p.gradient_profile},
           estimated_daily_trips    |-> {trips},
           demand_index             |->
               {p.passenger_volume_daily + 10 * p.freight_volume_daily_tons},
           traffic_density          |-> {p.traffic_density},
           competition_level        |-> {p.competition_level},
           total_distance_km        |-> {distance},
           daily_margin             |-> {daily_margin},
           margin_ratio             |-> {Thousandths(daily_margin, daily_revenue)},
           revenue_per_km           |->
               {OrZero(safe_div(HalfUp, 100 * daily_revenue, daily_km))},
           flood_landslide_risk     |-> {p.flood_landslide_risk},
           monsoon_disruption_days  |-> {p.monsoon_disruption_days},
           seasonal_risk            |-> {p.seasonal_risk},
           security_risk            |-> {p.security_risk}]
    BY DEF derive_route_inputs, max_gap, energy_cost_per_km
<1> HIDE DEF distance, trips, daily_km, daily_revenue, daily_margin, p
<1>7. /\ i.charging_station_density = {Thousandths(10 * p.charging_station_count, distance)}
      /\ i.gap_to_range_ratio = {Thousandths(max_gap, DEFAULT_REFERENCE_RANGE_KM)}
      /\ i.fast_charger_share = {Thousandths(p.fast_charger_count, p.charging_station_count)}
      /\ i.road_type_effective_computed_score = 4000 + 60 * p.pitch_road_percent
      /\ i.estimated_daily_trips = {trips}
      /\ i.demand_index = {p.passenger_volume_daily + 10 * p.freight_volume_daily_tons}
      /\ i.daily_margin = {daily_margin}
      /\ i.margin_ratio = {Thousandths(daily_margin, daily_revenue)}
      /\ i.revenue_per_km = {OrZero(safe_div(HalfUp, 100 * daily_revenue, daily_km))}
      /\ i.monsoon_disruption_days = {p.monsoon_disruption_days}
    BY <1>6
<1>8. /\ Thousandths(10 * p.charging_station_count, distance) \in Int
      /\ Thousandths(max_gap, DEFAULT_REFERENCE_RANGE_KM) \in Int
      /\ Thousandths(p.fast_charger_count, p.charging_station_count) \in Int
      /\ Thousandths(daily_margin, daily_revenue) \in Int
  <2>1. Thousandths(10 * p.charging_station_count, distance) \in Int
    <3>1. 10 * p.charging_station_count \in Int /\ distance \in Nat
        BY <1>1
    <3> QED BY <3>1, ThousandthsType
  <2>2. Thousandths(max_gap, DEFAULT_REFERENCE_RANGE_KM) \in Int
      BY <1>2, ThousandthsType DEF DEFAULT_REFERENCE_RANGE_KM
  <2>3. Thousandths(p.fast_charger_count, p.charging_station_count) \in Int
    <3>1. p.fast_charger_count \in Int /\ p.charging_station_count \in Nat
        BY <1>1
    <3> QED BY <3>1, ThousandthsType
  <2>4. Thousandths(daily_margin, daily_revenue) \in Int
      BY <1>4, <1>5, ThousandthsType
  <2> QED BY <2>1, <2>2, <2>3, <2>4
<1>9. OrZero(safe_div(HalfUp, 100 * daily_revenue, daily_km)) \in Int
    BY <1>4, OrZeroType
<1>10. /\ 4000 + 60 * p.pitch_road_percent \in Int
       /\ p.passenger_volume_daily + 10 * p.freight_volume_daily_tons \in Int
    BY <1>1
<1> QED BY <1>1, <1>5, <1>7, <1>8, <1>9, <1>10 DEF MeasuredInputs

\* Each curve of the route model scores an input that the route always has,
LEMMA CurveScore ==
    ASSUME NEW f, IsFile(f), NEW m \in MeasuredInputs, NEW points, IsCurve(points)
    PROVE  Leaf(Linear(m, points), derive_route_inputs(f.route)) \in Int
<1>1. PICK v \in Int : derive_route_inputs(f.route)[m] = {v}
    BY RouteInputs
<1> QED BY <1>1, LinearType

\* and each table of bands whatever the route says.
LEMMA BandScore ==
    ASSUME NEW f, IsFile(f), NEW input, NEW default \in Int, NEW bands, IsBands(bands)
    PROVE  Leaf(Banded(input, default, bands), derive_route_inputs(f.route)) \in Int
    BY RouteInputs, BandedType

\* Three things are finitely many,
LEMMA ThreeFinite ==
    ASSUME NEW a, NEW b, NEW c
    PROVE  IsFiniteSet({a, b, c})
<1>1. IsFiniteSet({} \cup {a})
    BY FS_EmptySet, FS_AddElement
<1>2. IsFiniteSet(({} \cup {a}) \cup {b})
    BY <1>1, FS_AddElement
<1>3. IsFiniteSet((({} \cup {a}) \cup {b}) \cup {c})
    BY <1>2, FS_AddElement
<1>4. {a, b, c} = (({} \cup {a}) \cup {b}) \cup {c}
    OBVIOUS
<1> QED BY <1>3, <1>4

\* and four,
LEMMA FourFinite ==
    ASSUME NEW a, NEW b, NEW c, NEW d
    PROVE  IsFiniteSet({a, b, c, d})
<1>1. IsFiniteSet({a, b, c} \cup {d})
    BY ThreeFinite, FS_AddElement
<1>2. {a, b, c, d} = {a, b, c} \cup {d}
    OBVIOUS
<1> QED BY <1>1, <1>2

\* and five.
LEMMA FiveFinite ==
    ASSUME NEW a, NEW b, NEW c, NEW d, NEW e
    PROVE  IsFiniteSet({a, b, c, d, e})
<1>1. IsFiniteSet({a, b, c, d} \cup {e})
    BY FourFinite, FS_AddElement
<1>2. {a, b, c, d, e} = {a, b, c, d} \cup {e}
    OBVIOUS
<1> QED BY <1>1, <1>2

\* The five components score a number on every route: charging infrastructure,
LEMMA ChargingType ==
    ASSUME NEW f, IsFile(f)
    PROVE  normalize(CHARGING_INFRASTRUCTURE, derive_route_inputs(f.route)) \in Int
<1> DEFINE i == derive_route_inputs(f.route)
           subs == CHARGING_INFRASTRUCTURE.sub_factors
           s1 == <<<<0, 0>>, <<500, 40>>, <<1000, 70>>, <<2000, 90>>, <<3000, 100>>>>
           s2 == <<<<0, 100>>, <<400, 85>>, <<600, 60>>, <<800, 30>>, <<1000, 0>>>>
           s3 == <<<<0, 20>>, <<250, 60>>, <<500, 85>>, <<1000, 100>>>>
<1>1. subs = [STATION_DENSITY |-> Weighted(40, Linear("charging_station_density", s1)),
              MAX_GAP_VS_RANGE |-> Weighted(35, Linear("gap_to_range_ratio", s2)),
              FAST_CHARGER_SHARE |-> Weighted(25, Linear("fast_charger_share", s3))]
    BY DEF CHARGING_INFRASTRUCTURE, Composite
<1>2. IsCurve(s1) /\ IsCurve(s2) /\ IsCurve(s3)
    BY DEF IsCurve
<1> HIDE DEF s1, s2, s3
<1>3. /\ Leaf(Linear("charging_station_density", s1), i) \in Int
      /\ Leaf(Linear("gap_to_range_ratio", s2), i) \in Int
      /\ Leaf(Linear("fast_charger_share", s3), i) \in Int
    BY <1>2, CurveScore, BandScore DEF MeasuredInputs
<1>4. normalize(CHARGING_INFRASTRUCTURE, i) = composite(subs, i)
    BY DEF CHARGING_INFRASTRUCTURE, Composite, normalize
<1> HIDE DEF subs, i
<1>5. \A c \in DOMAIN subs : subs[c].weight \in Int /\ Leaf(subs[c].rule, i) \in Int
    BY <1>1, <1>3 DEF Weighted
<1>6. IsFiniteSet(DOMAIN subs)
  <2>1. DOMAIN subs = {"STATION_DENSITY", "MAX_GAP_VS_RANGE", "FAST_CHARGER_SHARE"}
      BY <1>1
  <2>2. PICK a, b, c : DOMAIN subs = {a, b, c}
      BY <2>1
  <2>3. IsFiniteSet({a, b, c})
      BY ThreeFinite
  <2> QED BY <2>2, <2>3
<1> QED BY <1>4, <1>5, <1>6, CompositeType DEF i

\* road quality,
LEMMA RoadType ==
    ASSUME NEW f, IsFile(f)
    PROVE  normalize(ROAD_QUALITY, derive_route_inputs(f.route)) \in Int
<1> DEFINE i == derive_route_inputs(f.route)
           subs == ROAD_QUALITY.sub_factors
           s1 == [EXCELLENT |-> 100, GOOD |-> 85, FAIR |-> 65, POOR |-> 35, VERY_POOR |-> 10]
           s2 == [PITCH |-> 100, MIXED |-> -1, GRAVEL |-> 45, OFF_ROAD |-> 15]
           s3 == [FLAT |-> 100, ROLLING |-> 80, HILLY |-> 55, STEEP |-> 30]
<1>1. subs = [ROAD_CONDITION |-> Weighted(45, Banded("road_condition", 50, s1)),
              ROAD_TYPE |-> Weighted(30, Banded("road_type_effective", 50, s2)),
              GRADIENT |-> Weighted(25, Banded("gradient_profile", 60, s3))]
    BY DEF ROAD_QUALITY, Composite
<1>2. IsBands(s1) /\ IsBands(s2) /\ IsBands(s3)
    BY DEF IsBands
<1> HIDE DEF s1, s2, s3
<1>3. /\ Leaf(Banded("road_condition", 50, s1), i) \in Int
      /\ Leaf(Banded("road_type_effective", 50, s2), i) \in Int
      /\ Leaf(Banded("gradient_profile", 60, s3), i) \in Int
    BY <1>2, CurveScore, BandScore DEF MeasuredInputs
<1>4. normalize(ROAD_QUALITY, i) = composite(subs, i)
    BY DEF ROAD_QUALITY, Composite, normalize
<1> HIDE DEF subs, i
<1>5. \A c \in DOMAIN subs : subs[c].weight \in Int /\ Leaf(subs[c].rule, i) \in Int
    BY <1>1, <1>3 DEF Weighted
<1>6. IsFiniteSet(DOMAIN subs)
  <2>1. DOMAIN subs = {"ROAD_CONDITION", "ROAD_TYPE", "GRADIENT"}
      BY <1>1
  <2>2. PICK a, b, c : DOMAIN subs = {a, b, c}
      BY <2>1
  <2>3. IsFiniteSet({a, b, c})
      BY ThreeFinite
  <2> QED BY <2>2, <2>3
<1> QED BY <1>4, <1>5, <1>6, CompositeType DEF i

\* demand,
LEMMA DemandType ==
    ASSUME NEW f, IsFile(f)
    PROVE  normalize(DEMAND, derive_route_inputs(f.route)) \in Int
<1> DEFINE i == derive_route_inputs(f.route)
           subs == DEMAND.sub_factors
           s1 == <<<<0, 0>>, <<2, 30>>, <<4, 55>>, <<6, 75>>, <<8, 88>>, <<12, 100>>>>
           s2 == <<<<0, 0>>, <<200, 40>>, <<600, 70>>, <<1200, 88>>, <<2500, 100>>>>
           s3 == [LOW |-> 55, MODERATE |-> 85, HIGH |-> 100, SEVERE |-> 70]
           s4 == [LOW |-> 100, MODERATE |-> 75, HIGH |-> 45, SATURATED |-> 20]
<1>1. subs = [TRIP_VOLUME |-> Weighted(40, Linear("estimated_daily_trips", s1)),
              DEMAND_INDEX |-> Weighted(30, Linear("demand_index", s2)),
              TRAFFIC |-> Weighted(15, Banded("traffic_density", 70, s3)),
              COMPETITION |-> Weighted(15, Banded("competition_level", 60, s4))]
    BY DEF DEMAND, Composite
<1>2. IsCurve(s1) /\ IsCurve(s2) /\ IsBands(s3) /\ IsBands(s4)
    BY DEF IsCurve, IsBands
<1> HIDE DEF s1, s2, s3, s4
<1>3. /\ Leaf(Linear("estimated_daily_trips", s1), i) \in Int
      /\ Leaf(Linear("demand_index", s2), i) \in Int
      /\ Leaf(Banded("traffic_density", 70, s3), i) \in Int
      /\ Leaf(Banded("competition_level", 60, s4), i) \in Int
    BY <1>2, CurveScore, BandScore DEF MeasuredInputs
<1>4. normalize(DEMAND, i) = composite(subs, i)
    BY DEF DEMAND, Composite, normalize
<1> HIDE DEF subs, i
<1>5. \A c \in DOMAIN subs : subs[c].weight \in Int /\ Leaf(subs[c].rule, i) \in Int
    BY <1>1, <1>3 DEF Weighted
<1>6. IsFiniteSet(DOMAIN subs)
  <2>1. DOMAIN subs = {"TRIP_VOLUME", "DEMAND_INDEX", "TRAFFIC", "COMPETITION"}
      BY <1>1
  <2>2. PICK a, b, c, d : DOMAIN subs = {a, b, c, d}
      BY <2>1
  <2>3. IsFiniteSet({a, b, c, d})
      BY FourFinite
  <2> QED BY <2>2, <2>3
<1> QED BY <1>4, <1>5, <1>6, CompositeType DEF i

\* revenue potential,
LEMMA RevenueType ==
    ASSUME NEW f, IsFile(f)
    PROVE  normalize(REVENUE_POTENTIAL, derive_route_inputs(f.route)) \in Int
<1> DEFINE i == derive_route_inputs(f.route)
           subs == REVENUE_POTENTIAL.sub_factors
           s1 == <<<<0, 0>>, <<500, 30>>, <<1000, 55>>, <<2000, 80>>, <<3500, 95>>, <<5000, 100>>>>
           s2 == <<<<0, 0>>, <<150, 35>>, <<250, 60>>, <<350, 82>>, <<500, 100>>>>
           s3 == <<<<0, 0>>, <<800, 35>>, <<1500, 65>>, <<2500, 88>>, <<4000, 100>>>>
<1>1. subs = [DAILY_MARGIN |-> Weighted(50, Linear("daily_margin", s1)),
              MARGIN_RATIO |-> Weighted(30, Linear("margin_ratio", s2)),
              REVENUE_PER_KM |-> Weighted(20, Linear("revenue_per_km", s3))]
    BY DEF REVENUE_POTENTIAL, Composite
<1>2. IsCurve(s1) /\ IsCurve(s2) /\ IsCurve(s3)
    BY DEF IsCurve
<1> HIDE DEF s1, s2, s3
<1>3. /\ Leaf(Linear("daily_margin", s1), i) \in Int
      /\ Leaf(Linear("margin_ratio", s2), i) \in Int
      /\ Leaf(Linear("revenue_per_km", s3), i) \in Int
    BY <1>2, CurveScore, BandScore DEF MeasuredInputs
<1>4. normalize(REVENUE_POTENTIAL, i) = composite(subs, i)
    BY DEF REVENUE_POTENTIAL, Composite, normalize
<1> HIDE DEF subs, i
<1>5. \A c \in DOMAIN subs : subs[c].weight \in Int /\ Leaf(subs[c].rule, i) \in Int
    BY <1>1, <1>3 DEF Weighted
<1>6. IsFiniteSet(DOMAIN subs)
  <2>1. DOMAIN subs = {"DAILY_MARGIN", "MARGIN_RATIO", "REVENUE_PER_KM"}
      BY <1>1
  <2>2. PICK a, b, c : DOMAIN subs = {a, b, c}
      BY <2>1
  <2>3. IsFiniteSet({a, b, c})
      BY ThreeFinite
  <2> QED BY <2>2, <2>3
<1> QED BY <1>4, <1>5, <1>6, CompositeType DEF i

\* and route risk.
LEMMA RiskType ==
    ASSUME NEW f, IsFile(f)
    PROVE  normalize(ROUTE_RISK, derive_route_inputs(f.route)) \in Int
<1> DEFINE i == derive_route_inputs(f.route)
           subs == ROUTE_RISK.sub_factors
           s1 == Exposure
           s2 == <<<<0, 100>>, <<10, 85>>, <<25, 65>>, <<45, 40>>, <<75, 15>>, <<120, 0>>>>
           s3 == Exposure
           s4 == [LOW |-> 100, MODERATE |-> 60, HIGH |-> 20]
<1>1. subs = [FLOOD_LANDSLIDE |-> Weighted(35, Banded("flood_landslide_risk", 60, s1)),
              MONSOON |-> Weighted(30, Linear("monsoon_disruption_days", s2)),
              SEASONAL |-> Weighted(20, Banded("seasonal_risk", 60, s3)),
              SECURITY |-> Weighted(15, Banded("security_risk", 70, s4))]
    BY DEF ROUTE_RISK, Composite, Exposure
<1>2. IsBands(s1) /\ IsCurve(s2) /\ IsBands(s3) /\ IsBands(s4)
    BY DEF IsCurve, IsBands, Exposure
<1> HIDE DEF s1, s2, s3, s4
<1>3. /\ Leaf(Banded("flood_landslide_risk", 60, s1), i) \in Int
      /\ Leaf(Linear("monsoon_disruption_days", s2), i) \in Int
      /\ Leaf(Banded("seasonal_risk", 60, s3), i) \in Int
      /\ Leaf(Banded("security_risk", 70, s4), i) \in Int
    BY <1>2, CurveScore, BandScore DEF MeasuredInputs
<1>4. normalize(ROUTE_RISK, i) = composite(subs, i)
    BY DEF ROUTE_RISK, Composite, normalize
<1> HIDE DEF subs, i
<1>5. \A c \in DOMAIN subs : subs[c].weight \in Int /\ Leaf(subs[c].rule, i) \in Int
    BY <1>1, <1>3 DEF Weighted
<1>6. IsFiniteSet(DOMAIN subs)
  <2>1. DOMAIN subs = {"FLOOD_LANDSLIDE", "MONSOON", "SEASONAL", "SECURITY"}
      BY <1>1
  <2>2. PICK a, b, c, d : DOMAIN subs = {a, b, c, d}
      BY <2>1
  <2>3. IsFiniteSet({a, b, c, d})
      BY FourFinite
  <2> QED BY <2>2, <2>3
<1> QED BY <1>4, <1>5, <1>6, CompositeType DEF i

-------------------------------------------------------------------------------
(* A route that cannot be charged.                                         *)

RouteWeights ==
    [CHARGING_INFRASTRUCTURE |-> 30, ROAD_QUALITY |-> 20, DEMAND |-> 30,
     REVENUE_POTENTIAL |-> 10, ROUTE_RISK |-> 10]

\* The model's components are these five, with these weights.
LEMMA RouteNormalized ==
    ASSUME NEW f, IsFile(f), NEW code \in DOMAIN RouteWeights
    PROVE  /\ code \in DOMAIN route_v2.components
           /\ route_v2.components[code].weight = RouteWeights[code]
           /\ normalize(route_v2.components[code].scoring_rules,
                        derive_route_inputs(f.route)) \in Int
<1>1. /\ normalize(CHARGING_INFRASTRUCTURE, derive_route_inputs(f.route)) \in Int
      /\ normalize(ROAD_QUALITY, derive_route_inputs(f.route)) \in Int
      /\ normalize(DEMAND, derive_route_inputs(f.route)) \in Int
      /\ normalize(REVENUE_POTENTIAL, derive_route_inputs(f.route)) \in Int
      /\ normalize(ROUTE_RISK, derive_route_inputs(f.route)) \in Int
    BY ChargingType, RoadType, DemandType, RevenueType, RiskType
<1>2. code \in {"CHARGING_INFRASTRUCTURE", "ROAD_QUALITY", "DEMAND", "REVENUE_POTENTIAL",
                "ROUTE_RISK"}
    BY DEF RouteWeights
<1> DEFINE c == route_v2.components
<1>3. c = [CHARGING_INFRASTRUCTURE |-> [weight |-> 30, scoring_rules |-> CHARGING_INFRASTRUCTURE],
           ROAD_QUALITY            |-> [weight |-> 20, scoring_rules |-> ROAD_QUALITY],
           DEMAND                  |-> [weight |-> 30, scoring_rules |-> DEMAND],
           REVENUE_POTENTIAL       |-> [weight |-> 10, scoring_rules |-> REVENUE_POTENTIAL],
           ROUTE_RISK              |-> [weight |-> 10, scoring_rules |-> ROUTE_RISK]]
    BY DEF route_v2, RouteComponents, ComponentConfig
<1> HIDE DEF c
<1>4. code \in DOMAIN c /\ c[code].weight = RouteWeights[code]
    BY <1>2, <1>3 DEF RouteWeights
<1>5. normalize(c[code].scoring_rules, derive_route_inputs(f.route)) \in Int
    BY <1>1, <1>2, <1>3
<1> QED BY <1>4, <1>5 DEF c

\* A component weighs at most what its cap does.
LEMMA ComponentBounds ==
    ASSUME NEW cfg, NEW k \in Nat, cfg.weight = 10 * k,
           NEW normalized \in Int, NEW cap \in Nat, normalized <= cap \/ cap = 10000
    PROVE  LET w == make_component(cfg, normalized).weighted_score
           IN  w \in Int /\ 0 <= w /\ w <= cap * k
<1> DEFINE norm == clamp(normalized, 0, 10000)
<1>1. norm \in Nat /\ norm <= cap
    BY DEF clamp
<1>2. make_component(cfg, normalized).weighted_score = HalfUp(norm * (10 * k), 10)
    BY DEF make_component
<1> HIDE DEF norm
<1>3. norm * (10 * k) \in Int /\ norm * (10 * k) = 10 * (norm * k) /\ norm * k \in Nat
    BY <1>1
<1>4. norm * k <= cap * k /\ cap * k \in Nat
    BY <1>1
<1>5. norm * (10 * k) <= 10 * (cap * k) /\ 10 * 0 <= norm * (10 * k)
    BY <1>3, <1>4
<1>6. HalfUp(norm * (10 * k), 10) \in Int
    BY <1>3, HalfUpInt
<1>7. HalfUp(norm * (10 * k), 10) <= cap * k
    BY <1>3, <1>4, <1>5, HalfUpLe
<1>8. 0 <= HalfUp(norm * (10 * k), 10)
    BY <1>3, <1>5, HalfUpGe
<1> QED BY <1>2, <1>6, <1>7, <1>8

\* The cap on the charging component costs the route more than Class A can spare.
LEMMA UnchargeableTotal ==
    ASSUME NEW f, IsFile(f), charging_adequacy(derive_route_inputs(f.route)) = "INADEQUATE"
    PROVE  /\ RouteOf(f).total_score \in Int
           /\ 0 <= RouteOf(f).total_score /\ RouteOf(f).total_score <= 7750
<1> DEFINE i == derive_route_inputs(f.route)
           codes == DOMAIN route_v2.components
           comps == [code \in codes |-> route_component(route_v2, i, code)]
           w == [code \in codes |-> comps[code].weighted_score]
           sum == SumFunctionOnSet(w, codes)
           C == "CHARGING_INFRASTRUCTURE"
           N(code) == normalize(route_v2.components[code].scoring_rules, i)
<1>1. codes = {"CHARGING_INFRASTRUCTURE", "ROAD_QUALITY", "DEMAND", "REVENUE_POTENTIAL",
               "ROUTE_RISK"}
    BY DEF route_v2, RouteComponents
<1>2. codes = DOMAIN RouteWeights
    BY <1>1 DEF RouteWeights
<1>3. RouteOf(f).total_score = HalfUp(clamp(sum, 0, 100000), 10)
  <2>1. RouteOf(f).total_score = aggregate(comps)
      BY DEF RouteOf, RouteScore
  <2>2. DOMAIN comps = codes /\ DOMAIN w = codes
      OBVIOUS
  <2>3. SumFunction(w) = sum
      BY <2>2 DEF SumFunction
  <2> HIDE DEF comps
  <2>4. aggregate(comps) = HalfUp(clamp(SumFunction(w), 0, 100000), 10)
      BY <2>2 DEF aggregate
  <2> QED BY <2>1, <2>3, <2>4
<1>4. ASSUME NEW code \in codes, NEW k \in Nat, RouteWeights[code] = 10 * k,
             NEW cap \in Nat, cap = IF code = C THEN 2500 ELSE 10000
      PROVE  w[code] \in Int /\ 0 <= w[code] /\ w[code] <= cap * k
  <2> DEFINE cfg == route_v2.components[code]
             capped == IF N(code) > 2500 THEN 2500 ELSE N(code)
             norm == IF code = C THEN capped ELSE N(code)
  <2>1. cfg.weight = 10 * k /\ N(code) \in Int
      BY <1>2, <1>4, RouteNormalized
  <2>2. w[code] = route_component(route_v2, i, code).weighted_score
      OBVIOUS
  <2>3. route_component(route_v2, i, code) = make_component(cfg, norm)
      BY DEF route_component, INADEQUATE_CHARGING_CAP
  <2> HIDE DEF N, cfg, w
  <2>4. norm \in Int /\ (norm <= cap \/ cap = 10000)
      BY <1>4, <2>1
  <2> HIDE DEF norm
  <2>5. LET x == make_component(cfg, norm).weighted_score
        IN  x \in Int /\ 0 <= x /\ x <= cap * k
      BY <1>4, <2>1, <2>4, ComponentBounds
  <2> QED BY <2>2, <2>3, <2>5
<1> HIDE DEF w, codes
<1>5. /\ w["CHARGING_INFRASTRUCTURE"] \in Int /\ 0 <= w["CHARGING_INFRASTRUCTURE"]
      /\ w["CHARGING_INFRASTRUCTURE"] <= 7500
    BY <1>1, <1>4 DEF RouteWeights
<1>6. /\ w["ROAD_QUALITY"] \in Int /\ 0 <= w["ROAD_QUALITY"] /\ w["ROAD_QUALITY"] <= 20000
    BY <1>1, <1>4 DEF RouteWeights
<1>7. /\ w["DEMAND"] \in Int /\ 0 <= w["DEMAND"] /\ w["DEMAND"] <= 30000
    BY <1>1, <1>4 DEF RouteWeights
<1>8. /\ w["REVENUE_POTENTIAL"] \in Int /\ 0 <= w["REVENUE_POTENTIAL"]
      /\ w["REVENUE_POTENTIAL"] <= 10000
    BY <1>1, <1>4 DEF RouteWeights
<1>9. /\ w["ROUTE_RISK"] \in Int /\ 0 <= w["ROUTE_RISK"] /\ w["ROUTE_RISK"] <= 10000
    BY <1>1, <1>4 DEF RouteWeights
<1>10. sum = w["CHARGING_INFRASTRUCTURE"] + (w["ROAD_QUALITY"] + (w["DEMAND"]
             + (w["REVENUE_POTENTIAL"] + w["ROUTE_RISK"])))
  <2>1. PICK a, b, c, d, e :
            /\ a = "CHARGING_INFRASTRUCTURE" /\ b = "ROAD_QUALITY" /\ c = "DEMAND"
            /\ d = "REVENUE_POTENTIAL" /\ e = "ROUTE_RISK"
      OBVIOUS
  <2>2. /\ a \notin {b, c, d, e} /\ b \notin {c, d, e} /\ c \notin {d, e} /\ d # e
        /\ codes = {a, b, c, d, e}
      BY <1>1, <2>1
  <2>3. w[a] \in Int /\ w[b] \in Int /\ w[c] \in Int /\ w[d] \in Int /\ w[e] \in Int
      BY <1>5, <1>6, <1>7, <1>8, <1>9, <2>1
  <2> DEFINE Sum(T) == SumFunctionOnSet(w, T)
  <2>4. IsFiniteSet({a, b, c, d, e})
      BY FiveFinite
  <2>5. ASSUME NEW T \in SUBSET {a, b, c, d, e}, NEW x \in T
        PROVE  Sum(T) = w[x] + Sum(T \ {x})
    <3>1. IsFiniteSet(T)
        BY <2>4, FS_Subset
    <3>2. \A y \in T : w[y] \in Int
        BY <2>3
    <3> QED BY <3>1, <3>2, SumAny
  <2>6. Sum({}) = 0
      BY SumEmpty
  <2> HIDE DEF Sum
  <2>7. Sum({a, b, c, d, e}) = w[a] + Sum({b, c, d, e})
    <3>1. {a, b, c, d, e} \ {a} = {b, c, d, e}
        BY <2>2
    <3> QED BY <2>5, <3>1
  <2>8. Sum({b, c, d, e}) = w[b] + Sum({c, d, e})
    <3>1. {b, c, d, e} \ {b} = {c, d, e}
        BY <2>2
    <3> QED BY <2>5, <3>1
  <2>9. Sum({c, d, e}) = w[c] + Sum({d, e})
    <3>1. {c, d, e} \ {c} = {d, e}
        BY <2>2
    <3> QED BY <2>5, <3>1
  <2>10. Sum({d, e}) = w[d] + Sum({e})
    <3>1. {d, e} \ {d} = {e}
        BY <2>2
    <3> QED BY <2>5, <3>1
  <2>11. Sum({e}) = w[e] + Sum({})
    <3>1. {e} \ {e} = {}
        OBVIOUS
    <3> QED BY <2>5, <3>1
  <2>12. Sum({a, b, c, d, e}) = w[a] + (w[b] + (w[c] + (w[d] + w[e])))
      BY <2>3, <2>6, <2>7, <2>8, <2>9, <2>10, <2>11
  <2>13. sum = Sum({a, b, c, d, e})
    <3>1. sum = Sum(codes)
        BY DEF Sum
    <3> HIDE DEF sum
    <3> QED BY <2>2, <3>1
  <2> QED BY <2>1, <2>12, <2>13
<1>11. sum \in Int /\ 0 <= sum /\ sum <= 77500
    BY <1>5, <1>6, <1>7, <1>8, <1>9, <1>10
<1> HIDE DEF sum
<1>12. clamp(sum, 0, 100000) = sum
    BY <1>11 DEF clamp
<1>13. HalfUp(sum, 10) \in Int /\ HalfUp(sum, 10) <= 7750 /\ 0 <= HalfUp(sum, 10)
    BY <1>11, HalfUpInt, HalfUpLe, HalfUpGe
<1> QED BY <1>3, <1>12, <1>13

\* A total of at most 77.5 is not in class A.
LEMMA BelowClassA ==
    ASSUME NEW score \in Int, 0 <= score, score <= 7750
    PROVE  band_for(route_v2, score).grade # "A"
<1> DEFINE bands == route_v2.grade_bands
           k == CHOOSE j \in DOMAIN bands : contains(bands[j], score)
<1>1. bands = <<[grade |-> "A", min |-> 8800, max |-> 10000],
                [grade |-> "B", min |-> 6000, max |-> 8799],
                [grade |-> "C", min |-> 0, max |-> 5999]>>
    BY DEF route_v2, RouteBands, GradeBand
<1>2. band_for(route_v2, score) = bands[k]
    BY DEF band_for
<1> HIDE DEF bands
<1>3. DOMAIN bands = {1, 2, 3}
    BY <1>1
<1>4. /\ bands[1].min = 8800 /\ bands[2].grade = "B" /\ bands[3].grade = "C"
      /\ bands[2].min = 6000 /\ bands[2].max = 8799 /\ bands[3].min = 0 /\ bands[3].max = 5999
    BY <1>1
<1>5. contains(bands[2], score) \/ contains(bands[3], score)
    BY <1>4 DEF contains
<1>6. ~ contains(bands[1], score)
    BY <1>4 DEF contains
<1>7. k \in DOMAIN bands /\ contains(bands[k], score)
    BY <1>3, <1>5
<1> HIDE DEF k
<1>8. k \in {2, 3}
    BY <1>3, <1>6, <1>7
<1> QED BY <1>2, <1>4, <1>8

-------------------------------------------------------------------------------
(* The invariant.                                                          *)

\* The rows are a file's, and the assessment, if there is one, is of these rows,
\* whose route is complete.
IInv ==
    /\ IsFile(file)
    /\ Assessed => assessment = assess(file) /\ require_complete(file.route)

\* At the start the rows are one of the files', and nothing is assessed.
LEMMA InvariantInit == Init => IInv
    BY FilesAssumption DEF Init, IInv, Assessed

\* An assessment is of the rows as they are, and an edit leaves columns in their ranges and is
\* followed by an assessment.
LEMMA InvariantStep == IInv /\ [Next]_vars => IInv'
<1> SUFFICES ASSUME IInv, [Next]_vars PROVE IInv'
    OBVIOUS
<1>1. CASE Assess
    BY <1>1 DEF Assess, IInv, Assessed
<1>2. ASSUME NEW figure \in DOMAIN Scale, Reassess(figure)
      PROVE  IInv'
  <2> DEFINE r == figure[1]
             c == figure[2]
             scale == Scale[figure]
  <2>1. PICK i \in 1..Len(scale) - 1 : file' = [file EXCEPT ![r][c] = scale[i + 1]]
      BY <1>2 DEF Reassess
  <2>2. r \in DOMAIN Columns /\ c \in DOMAIN Columns[r] /\ scale \in Seq(Columns[r][c])
      BY ScaleAssumption
  <2>3. scale[i + 1] \in Columns[r][c]
      BY <2>1, <2>2
  <2>4. IsFile(file')
      BY <2>1, <2>2, <2>3, FileEdited DEF IInv
  <2>5. assessment' = assess(file') /\ require_complete(file'.route)
      BY <1>2 DEF Reassess
  <2> QED BY <2>4, <2>5 DEF IInv, Assessed
<1>3. CASE UNCHANGED vars
    BY <1>3 DEF IInv, Assessed, vars
<1> QED BY <1>1, <1>2, <1>3 DEF Next

\* The assessment on file is always that of the rows on file: no edit of a customer, a route or a
\* term is left with the decision of before.
THEOREM Invariant == Spec => []IInv
    BY InvariantInit, InvariantStep, PTL DEF Spec

\* What is recommended can be paid back, for every file and every sequence of edits: the amount is
\* within what was asked, the product's maximum and the ceiling on the price, its instalment passes
\* what the income and the vehicle's earnings allow by less than the unit it is rounded to, if at
\* all, and nothing is approved without it.
THEOREM StructureAffordableHolds == Spec => []StructureAffordable
<1>1. IInv => StructureAffordable
    BY AffordableOnce DEF IInv, StructureAffordable
<1> QED BY <1>1, Invariant, PTL

\* Every decision has its reasons: each gate that failed is named, an approval has no failed gate, a
\* reason for it and no factor that denies it, and what is not approved has a reason against it.
THEOREM DecisionExplainedHolds == Spec => []DecisionExplained
<1>1. IInv => DecisionExplained
    BY ExplainedOnce DEF IInv, DecisionExplained
<1> QED BY <1>1, Invariant, PTL

\* A route on which the vehicle cannot be charged is never of class A, however good the rest of it
\* is: the cap leaves the charging component a quarter of its weight of 30, and the total at 77.5.
THEOREM UnchargeableNeverClassAHolds == Spec => []UnchargeableNeverClassA
<1>1. IInv => UnchargeableNeverClassA
  <2> SUFFICES ASSUME IInv, Assessed, assessment.charging_adequacy = "INADEQUATE"
               PROVE  assessment.route_grade # "A"
      BY DEF UnchargeableNeverClassA
  <2>1. IsFile(file) /\ assessment = assess(file)
      BY DEF IInv
  <2>2. /\ assess(file).charging_adequacy = RouteOf(file).charging_adequacy
        /\ assess(file).route_grade = RouteOf(file).grade
      BY DEF assess, LoanAssessment, RouteOf
  <2>3. /\ RouteOf(file).charging_adequacy = charging_adequacy(derive_route_inputs(file.route))
        /\ RouteOf(file).grade = band_for(route_v2, RouteOf(file).total_score).grade
      BY DEF RouteOf, RouteScore
  <2>4. /\ RouteOf(file).total_score \in Int
        /\ 0 <= RouteOf(file).total_score /\ RouteOf(file).total_score <= 7750
      BY <2>1, <2>2, <2>3, UnchargeableTotal
  <2> QED BY <2>1, <2>2, <2>3, <2>4, BelowClassA
<1> QED BY <1>1, Invariant, PTL
===============================================================================
