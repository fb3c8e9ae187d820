--------------------------- MODULE ApplicationRules ---------------------------
(***************************************************************************)
(* The rules about money: the override rule, the approval ceiling and the  *)
(* check made at booking, from app/services/application.py and             *)
(* app/services/loan.py.                                                   *)
(*                                                                         *)
(* Money is counted in the smallest unit the columns hold, NUMERIC(14,2),  *)
(* and percentages in hundredths, NUMERIC(5,2): 7500 is an LTV of 75.00 %. *)
(***************************************************************************)
EXTENDS ApplicationStatus

CONSTANTS
    Overrider,  \* the officers who hold application:override
    Vehicle,    \* vehicles on the register
    Amount,     \* the sums an engine may recommend or an officer may enter
    Ltv,        \* the LTV caps structuring may put on an assessment
    Price       \* Price[v]: purchase price of vehicle v

ASSUME RulesAssumption ==
    /\ Overrider \subseteq User
    /\ Amount \subseteq Nat
    /\ Ltv \subseteq Nat
    /\ Price \in [Vehicle -> Nat \ {0}]

-------------------------------------------------------------------------------
(* The decision.                                                           *)

IsOverride(final, recommendation) == final # recommendation

\* A departure from the recommendation needs the permission and a written justification.
OverrideAllowed(u, justified) == u \in Overrider /\ justified

\* Decimal.quantize in its default rounding: to the nearest, ties to even.
RoundHalfEven(n, d) ==
    LET q == n \div d
        r == n % d
    IN  IF 2 * r > d \/ (2 * r = d /\ q % 2 = 1) THEN q + 1 ELSE q

Ceiling(ltv, price) == RoundHalfEven(ltv * price, 10000)

\* Faulty variant: the ceiling is not enforced.
ApprovableUncapped(amount, ltv, price) == amount > 0

Approvable(amount, ltv, price) == amount > 0 /\ amount <= Ceiling(ltv, price)

\* The sum an approval carries: the one entered, else the one recommended.  0 stands for a
\* field left empty, which the request schema keeps apart from a sum (gt=0).
ApprovedAmount(entered, recommended) == IF entered = 0 THEN recommended ELSE entered

-------------------------------------------------------------------------------
(* Booking.                                                                *)

Bookable(principal, price) == principal > 0 /\ principal < price

===============================================================================
