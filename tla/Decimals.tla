------------------------------- MODULE Decimals -------------------------------
(***************************************************************************)
(* The decimals of app/core/types.py, as integers that count the unit a    *)
(* column keeps.  An optional value is the set of what it is: empty for    *)
(* None, so that "there is a value and it is ..." reads \E v \in x.        *)
(***************************************************************************)
EXTENDS Integers, FiniteSets, FiniteSetsExt, Functions

None == {}

Optional(S) == {None} \cup {{v} : v \in S}

\* q2, q3, q4: n / d to the unit, halves away from zero (d > 0).
HalfUp(n, d) == IF n >= 0 THEN (2 * n + d) \div (2 * d) ELSE -((d - 2 * n) \div (2 * d))

\* n / d to the unit above.
Above(n, d) == -((-n) \div d)

clamp(v, lo, hi) == IF v < lo THEN lo ELSE IF v > hi THEN hi ELSE v

\* safe_div, for a divisor that may be zero; f(n, d) rounds.
safe_div(f(_, _), n, d) == IF d = 0 THEN None ELSE {f(n, d)}
===============================================================================
