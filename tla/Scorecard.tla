------------------------------- MODULE Scorecard -------------------------------
(***************************************************************************)
(* A scorecard and how it is applied: app/engines/base.py, normalizer.py   *)
(* and factors.py.  Scores are in hundredths, as NUMERIC(5, 2) keeps them, *)
(* weights in per cent, weighted scores in thousandths.  The code carries  *)
(* 28 digits inside a component; here a sub-score is already rounded to a  *)
(* hundredth, so a component may differ by a hundredth from the code's.    *)
(*                                                                         *)
(* Inputs are a record of optional values: None where the code has None.   *)
(***************************************************************************)
EXTENDS Decimals, Sequences, SequencesExt, TLC

-------------------------------------------------------------------------------
(* Rules.                                                                  *)

DEFAULT_MISSING_SCORE == 50

Linear(input, points) ==
    [type |-> "LINEAR", input |-> input, points |-> points,
     default_score |-> DEFAULT_MISSING_SCORE]

Banded(input, default, bands) ==
    [type |-> "BANDED", input |-> input, bands |-> bands, default_score |-> default]

Passthrough(input) == [type |-> "PASSTHROUGH", input |-> input]

\* sub_factors: code -> [weight, rule]
Composite(sub_factors) == [type |-> "COMPOSITE", sub_factors |-> sub_factors]

\* The sub-factors depend on the applicant's class.
Variants(variants) == [type |-> "COMPOSITE", variants |-> variants]

Weighted(weight, rule) == [weight |-> weight, rule |-> rule]

-------------------------------------------------------------------------------
(* normalize.                                                              *)

\* A value that is not given scores the default, which may well be better than
\* a bad value scores.
GivenOr(rule, inputs, score(_)) ==
    IF inputs[rule.input] = None THEN 100 * rule.default_score
    ELSE score(CHOOSE v \in inputs[rule.input] : TRUE)

\* -1 defers to the score the caller computed.
banded(rule, inputs) ==
    GivenOr(rule, inputs,
        LAMBDA v : IF v \notin DOMAIN rule.bands THEN 100 * rule.default_score
                   ELSE IF rule.bands[v] = -1 THEN inputs.road_type_effective_computed_score
                   ELSE 100 * rule.bands[v])

\* Faulty variant: the step is taken from zero and not from the point before.
InterpolatedFromZero(points, v) ==
    LET x(i) == points[i][1]
        y(i) == 100 * points[i][2]
        last == Len(points)
        i    == CHOOSE k \in 1..last - 1 : x(k) <= v /\ v < x(k + 1)
    IN  IF v <= x(1) THEN y(1)
        ELSE IF v >= x(last) THEN y(last)
        ELSE y(i) + HalfUp((y(i + 1) - y(i)) * v, x(i + 1) - x(i))

Interpolated(points, v) ==
    LET x(i) == points[i][1]
        y(i) == 100 * points[i][2]
        last == Len(points)
        i    == CHOOSE k \in 1..last - 1 : x(k) <= v /\ v < x(k + 1)
    IN  IF v <= x(1) THEN y(1)
        ELSE IF v >= x(last) THEN y(last)
        ELSE y(i) + HalfUp((y(i + 1) - y(i)) * (v - x(i)), x(i + 1) - x(i))

linear(rule, inputs) == GivenOr(rule, inputs, LAMBDA v : Interpolated(rule.points, v))

passthrough(rule, inputs) == clamp(CHOOSE v \in inputs[rule.input] : TRUE, 0, 10000)

Leaf(rule, inputs) ==
    CASE rule.type = "BANDED"      -> banded(rule, inputs)
      [] rule.type = "LINEAR"      -> linear(rule, inputs)
      [] rule.type = "PASSTHROUGH" -> passthrough(rule, inputs)

\* No shipped composite has a composite inside.
composite(subs, inputs) ==
    HalfUp(SumFunction([c \in DOMAIN subs |-> subs[c].weight * Leaf(subs[c].rule, inputs)]), 100)

normalize(rule, inputs) ==
    IF rule.type # "COMPOSITE" THEN Leaf(rule, inputs)
    ELSE IF "variants" \in DOMAIN rule
         THEN composite(rule.variants[inputs.applicant_class], inputs)
         ELSE composite(rule.sub_factors, inputs)

-------------------------------------------------------------------------------
(* Components, bands, totals.                                              *)

ComponentConfig(weight, rules) == [weight |-> weight, scoring_rules |-> rules]

GradeBand(grade, min, max) == [grade |-> grade, min |-> min, max |-> max]

make_component(cfg, normalized) ==
    LET norm == clamp(normalized, 0, 10000)
    IN  [normalized_score |-> norm,
         weighted_score |-> HalfUp(norm * cfg.weight, 10)]

\* The total is the sum of what the stored breakdown shows.
aggregate(components) ==
    LET sum == SumFunction([c \in DOMAIN components |-> components[c].weighted_score])
    IN  HalfUp(clamp(sum, 0, 100000), 10)

contains(band, score) == band.min <= score /\ score <= band.max

\* A ConfigurationError when no band has the score.
band_for(config, score) ==
    config.grade_bands[CHOOSE i \in DOMAIN config.grade_bands :
                          contains(config.grade_bands[i], score)]

validate_weights(config) ==
    SumFunction([c \in DOMAIN config.components |-> config.components[c].weight]) = 100

\* Nothing here refuses a hole between two bands, although band_for relies on it.
validate_bands(config) ==
    LET bands == SortSeq(config.grade_bands, LAMBDA a, b : a.min < b.min)
    IN  /\ bands[1].min <= 0 /\ bands[Len(bands)].max >= 10000
        /\ \A i \in 1..Len(bands) - 1 : bands[i].max < bands[i + 1].min

EveryScoreHasABand(config) ==
    \A score \in 0..10000 : \E i \in DOMAIN config.grade_bands :
        contains(config.grade_bands[i], score)

-------------------------------------------------------------------------------
(* Factor rules: a predicate that cannot be evaluated does not fire.       *)

_ge(x, t) == \E v \in x : v >= t
_le(x, t) == \E v \in x : v <= t
_lt(x, t) == \E v \in x : v < t
_gt(x, t) == \E v \in x : v > t

evaluate_factors(rules) == {code \in DOMAIN rules : rules[code]}
===============================================================================
