---------------------------- MODULE ServicingProofs ----------------------------
(***************************************************************************)
(* Proofs about servicing, for every set of loans, every schedule, every   *)
(* amount, any order of dates and, where requests overlap, any number of   *)
(* threads: first what RepaymentSchedule and LoanPosition compute, then    *)
(* Servicing, then ServicingRaces.                                         *)
(*                                                                         *)
(* Sums and allocation are recursive functions over 0..n.  Induction is    *)
(* used in the form of a set that contains 0 and, with each number, the    *)
(* next (UpTo of InductionProofs).                                         *)
(*                                                                         *)
(* With overlapping requests the schedule may show less than the receipts, *)
(* and by how much depends on who overwrote whom.  The argument keeps, for *)
(* each loan, a schedule that shows all that was received (the sum of what *)
(* each receipt took): neither the rows nor any copy of them ever stands   *)
(* above it.                                                               *)
(***************************************************************************)
EXTENDS ServicingRaces, InductionProofs

-------------------------------------------------------------------------------
(* Sums.                                                                   *)

\* The recursive definition of the partial sums defines a function.
LEMMA UptoStep ==
    ASSUME NEW n \in Nat, NEW f
    PROVE  Upto(f, n) = [k \in 0..n |-> IF k = 0 THEN 0 ELSE Upto(f, n)[k - 1] + f[k]]
<1> DEFINE Defines(m, g) == g = [k \in 0..m |-> IF k = 0 THEN 0 ELSE g[k - 1] + f[k]]
           S == {m \in Nat : \E g : Defines(m, g)}
<1>1. Upto(f, n) = CHOOSE g : Defines(n, g)
    BY DEF Upto
<1>2. SUFFICES \E g : Defines(n, g)
    BY <1>1
<1>3. ASSUME NEW m \in 1..n, m - 1 \in S
      PROVE  m \in S
  <2>0. PICK g : Defines(m - 1, g)
      BY <1>3
  <2> DEFINE h == [k \in 0..m |-> IF k < m THEN g[k] ELSE g[m - 1] + f[m]]
  <2>1. \A k \in 0..m : h[k] = IF k = 0 THEN 0 ELSE h[k - 1] + f[k]
    <3> SUFFICES ASSUME NEW k \in 0..m
                 PROVE  h[k] = IF k = 0 THEN 0 ELSE h[k - 1] + f[k]
        OBVIOUS
    <3>1. CASE k < m
      <4>1. g[k] = IF k = 0 THEN 0 ELSE g[k - 1] + f[k]
          BY <2>0, <3>1
      <4> QED BY <3>1, <4>1
    <3>2. CASE k = m
        BY <3>2
    <3> QED BY <3>1, <3>2
  <2>2. Defines(m, h)
      BY <2>1
  <2>3. \E e : Defines(m, e)
    <3> HIDE DEF h, Defines
    <3> QED BY <2>2
  <2> QED BY <2>3
<1>4. Defines(0, [k \in 0..0 |-> 0])
    OBVIOUS
<1>5. 0 \in S
    BY <1>4
<1> HIDE DEF Defines
<1>6. 0..n \subseteq S
    BY <1>3, <1>5, UpTo
<1> QED BY <1>6

\* Partial sums of naturals are naturals.
LEMMA UptoType ==
    ASSUME NEW n \in Nat, NEW f, \A k \in 1..n : f[k] \in Nat
    PROVE  Upto(f, n) \in [0..n -> Nat]
<1> DEFINE S == {k \in 0..n : Upto(f, n)[k] \in Nat}
<1>1. 0 \in S
    BY UptoStep
<1>2. \A k \in 1..n : k - 1 \in S => k \in S
    BY UptoStep
<1>3. 0..n \subseteq S
    BY <1>1, <1>2, UpTo
<1> QED BY <1>3, UptoStep

\* A sum of naturals is a natural.
LEMMA TotalType ==
    ASSUME NEW n \in Nat, NEW f, \A k \in 1..n : f[k] \in Nat
    PROVE  Total(f, n) \in Nat
    BY UptoType DEF Total

\* Functions that agree have the same partial sums, whatever lies beyond.
LEMMA UptoSame ==
    ASSUME NEW n \in Nat, NEW m \in Nat, n <= m, NEW f, NEW g, \A k \in 1..n : f[k] = g[k]
    PROVE  \A k \in 0..n : Upto(f, n)[k] = Upto(g, m)[k]
<1> DEFINE S == {k \in 0..n : Upto(f, n)[k] = Upto(g, m)[k]}
<1>1. 0 \in S
    BY UptoStep
<1>2. \A k \in 1..n : k - 1 \in S => k \in S
  <2> SUFFICES ASSUME NEW k \in 1..n, k - 1 \in S PROVE k \in S
      OBVIOUS
  <2>1. Upto(f, n)[k] = Upto(f, n)[k - 1] + f[k]
      BY UptoStep
  <2>2. Upto(g, m)[k] = Upto(g, m)[k - 1] + g[k]
      BY UptoStep
  <2> QED BY <2>1, <2>2
<1>3. 0..n \subseteq S
    BY <1>1, <1>2, UpTo
<1> QED BY <1>3

\* A sum is determined by its terms.
LEMMA TotalSame ==
    ASSUME NEW n \in Nat, NEW f, NEW g, \A k \in 1..n : f[k] = g[k]
    PROVE  Total(f, n) = Total(g, n)
    BY UptoSame DEF Total

\* One more term is added to the sum.
LEMMA TotalOneMore ==
    ASSUME NEW n \in Nat, NEW f, NEW g, \A k \in 1..n : f[k] = g[k]
    PROVE  Total(g, n + 1) = Total(f, n) + g[n + 1]
<1>1. Upto(g, n + 1)[n + 1] = Upto(g, n + 1)[n] + g[n + 1]
    BY UptoStep
<1>2. Upto(f, n)[n] = Upto(g, n + 1)[n]
    BY UptoSame
<1> QED BY <1>1, <1>2 DEF Total

\* The sum of sums is the sum of both.
LEMMA TotalPlus ==
    ASSUME NEW n \in Nat, NEW f, NEW g, NEW h,
           \A k \in 1..n : f[k] \in Int /\ g[k] \in Int /\ h[k] = f[k] + g[k]
    PROVE  /\ Total(f, n) \in Int /\ Total(g, n) \in Int
           /\ Total(h, n) = Total(f, n) + Total(g, n)
<1> DEFINE S == {k \in 0..n : /\ Upto(f, n)[k] \in Int /\ Upto(g, n)[k] \in Int
                             /\ Upto(h, n)[k] = Upto(f, n)[k] + Upto(g, n)[k]}
<1>1. 0 \in S
    BY UptoStep
<1>2. \A k \in 1..n : k - 1 \in S => k \in S
  <2> SUFFICES ASSUME NEW k \in 1..n, k - 1 \in S PROVE k \in S
      OBVIOUS
  <2>1. Upto(f, n)[k] = Upto(f, n)[k - 1] + f[k]
      BY UptoStep
  <2>2. Upto(g, n)[k] = Upto(g, n)[k - 1] + g[k]
      BY UptoStep
  <2>3. Upto(h, n)[k] = Upto(h, n)[k - 1] + h[k]
      BY UptoStep
  <2> QED BY <2>1, <2>2, <2>3
<1>3. 0..n \subseteq S
    BY <1>1, <1>2, UpTo
<1> QED BY <1>3 DEF Total

\* Sums of integers are integers.
LEMMA TotalInt ==
    ASSUME NEW n \in Nat, NEW f, \A k \in 1..n : f[k] \in Int
    PROVE  Total(f, n) \in Int
<1> DEFINE zero == [k \in 1..n |-> 0]
<1>1. \A k \in 1..n : f[k] \in Int /\ zero[k] \in Int /\ f[k] = f[k] + zero[k]
    OBVIOUS
<1> HIDE DEF zero
<1> QED BY <1>1, TotalPlus

\* A sum of naturals is 0 exactly if every term is.
LEMMA TotalZero ==
    ASSUME NEW n \in Nat, NEW f, \A k \in 1..n : f[k] \in Nat
    PROVE  Total(f, n) = 0 <=> \A k \in 1..n : f[k] = 0
<1> DEFINE S == {k \in 0..n : Upto(f, n)[k] = 0 <=> \A j \in 1..k : f[j] = 0}
<1>1. 0 \in S
    BY UptoStep
<1>2. \A k \in 1..n : k - 1 \in S => k \in S
  <2> SUFFICES ASSUME NEW k \in 1..n, k - 1 \in S PROVE k \in S
      OBVIOUS
  <2>1. Upto(f, n)[k] = Upto(f, n)[k - 1] + f[k]
      BY UptoStep
  <2>2. Upto(f, n)[k - 1] \in Nat /\ f[k] \in Nat
      BY UptoType
  <2> QED BY <2>1, <2>2
<1>3. 0..n \subseteq S
    BY <1>1, <1>2, UpTo
<1> QED BY <1>3 DEF Total

-------------------------------------------------------------------------------
(* Allocation.                                                             *)

\* The number of slots, and the slots of an instalment.
LEMMA SlotFacts ==
    /\ Slots \in Nat \ {0}
    /\ \A i \in Installment : 3 * i - 2 \in Slot /\ 3 * i - 1 \in Slot /\ 3 * i \in Slot
    /\ \A k \in Slot : /\ RowOf(k) \in Installment
                      /\ k \in {3 * RowOf(k) - 2, 3 * RowOf(k) - 1, 3 * RowOf(k)}
    /\ \A k \in Slot : Bucket(k) \in {"penalty", "interest", "principal"}
<1>1. Installments \in Nat \ {0}
    BY InstallmentsAssumption
<1>2. Slots \in Nat \ {0}
    BY <1>1 DEF Slots
<1>3. ASSUME NEW i \in Installment
      PROVE  3 * i - 2 \in Slot /\ 3 * i - 1 \in Slot /\ 3 * i \in Slot
    BY <1>1 DEF Installment, Slot, Slots
<1>4. ASSUME NEW k \in Slot
      PROVE  /\ RowOf(k) \in Installment
             /\ k \in {3 * RowOf(k) - 2, 3 * RowOf(k) - 1, 3 * RowOf(k)}
    BY <1>1 DEF Installment, Slot, Slots, RowOf
<1>5. ASSUME NEW k \in Slot
      PROVE  Bucket(k) \in {"penalty", "interest", "principal"}
  <2>1. (k - 1) % 3 \in 0..2
      BY <1>2 DEF Slot
  <2> QED BY <2>1 DEF Bucket, ALLOCATION_ORDER
<1> QED BY <1>2, <1>3, <1>4, <1>5

\* The walk over the slots defines a function; what is left never rises.
LEMMA RemainingStep ==
    ASSUME NEW amount \in Nat, NEW owed \in Money
    PROVE  /\ Remaining(amount, owed) \in [0..Slots -> Nat]
           /\ Remaining(amount, owed)[0] = amount
           /\ \A k \in Slot : Remaining(amount, owed)[k] =
                                LeftAfter(Remaining(amount, owed)[k - 1], owed[k])
<1> DEFINE Defines(m, g) ==
             g = [k \in 0..m |-> IF k = 0 THEN amount ELSE LeftAfter(g[k - 1], owed[k])]
           S == {m \in Nat : \E g : Defines(m, g)}
           left == Remaining(amount, owed)
<1>1. left = CHOOSE g : Defines(Slots, g)
    BY DEF Remaining
<1>2. ASSUME NEW m \in 1..Slots, m - 1 \in S
      PROVE  m \in S
  <2>0. PICK g : Defines(m - 1, g)
      BY <1>2
  <2> DEFINE h == [k \in 0..m |-> IF k < m THEN g[k] ELSE LeftAfter(g[m - 1], owed[m])]
  <2>1. \A k \in 0..m : h[k] = IF k = 0 THEN amount ELSE LeftAfter(h[k - 1], owed[k])
    <3> SUFFICES ASSUME NEW k \in 0..m
                 PROVE  h[k] = IF k = 0 THEN amount ELSE LeftAfter(h[k - 1], owed[k])
        OBVIOUS
    <3>1. CASE k < m
      <4>1. g[k] = IF k = 0 THEN amount ELSE LeftAfter(g[k - 1], owed[k])
          BY <2>0, <3>1
      <4> QED BY <3>1, <4>1
    <3>2. CASE k = m
        BY <3>2
    <3> QED BY <3>1, <3>2
  <2>2. Defines(m, h)
      BY <2>1
  <2>3. \E e : Defines(m, e)
    <3> HIDE DEF h, Defines
    <3> QED BY <2>2
  <2> QED BY <2>3
<1>3. Defines(0, [k \in 0..0 |-> amount])
    OBVIOUS
<1>4. 0 \in S
    BY <1>3
<1>5. Slots \in S
  <2> HIDE DEF Defines
  <2>1. 0..Slots \subseteq S
      BY <1>2, <1>4, SlotFacts, UpTo
  <2> QED BY <2>1, SlotFacts
<1>6. Defines(Slots, left)
  <2> HIDE DEF Defines
  <2> QED BY <1>1, <1>5
<1> HIDE DEF left
<1> DEFINE N == {k \in 0..Slots : left[k] \in Nat}
<1>7. 0..Slots \subseteq N
  <2>1. 0 \in N
      BY <1>6, SlotFacts
  <2>2. ASSUME NEW k \in 1..Slots, k - 1 \in N PROVE k \in N
    <3>1. left[k] = LeftAfter(left[k - 1], owed[k])
        BY <1>6, SlotFacts
    <3>2. owed[k] \in Nat
        BY DEF Money, Slot
    <3> QED BY <2>2, <3>1, <3>2 DEF LeftAfter
  <2> HIDE DEF N
  <2> QED BY <2>1, <2>2, SlotFacts, UpTo
<1>8. left \in [0..Slots -> Nat]
    BY <1>6, <1>7
<1>9. left[0] = amount
    BY <1>6, SlotFacts
<1>10. ASSUME NEW k \in Slot PROVE left[k] = LeftAfter(left[k - 1], owed[k])
  <2>1. k \in 0..Slots /\ k # 0
      BY SlotFacts DEF Slot
  <2> QED BY <1>6, <2>1
<1> QED BY <1>8, <1>9, <1>10 DEF left

\* What is left after a slot is no more than what was left at an earlier one.
LEMMA RemainingFalls ==
    ASSUME NEW amount \in Nat, NEW owed \in Money, NEW j \in 0..Slots, NEW k \in j..Slots
    PROVE  Remaining(amount, owed)[k] <= Remaining(amount, owed)[j]
<1> DEFINE left == Remaining(amount, owed)
           S == {m \in 0..Slots : j <= m => left[m] <= left[j]}
<1>1. left \in [0..Slots -> Nat] /\ \A m \in Slot : left[m] = LeftAfter(left[m - 1], owed[m])
    BY RemainingStep
<1> HIDE DEF left
<1>2. 0 \in S
    BY <1>1, SlotFacts
<1>3. ASSUME NEW m \in 1..Slots, m - 1 \in S PROVE m \in S
  <2>1. left[m] <= left[m - 1]
    <3>1. m \in Slot /\ m - 1 \in 0..Slots
        BY SlotFacts DEF Slot
    <3>2. owed[m] \in Nat /\ left[m - 1] \in Nat
        BY <1>1, <3>1 DEF Money
    <3> QED BY <1>1, <3>1, <3>2 DEF LeftAfter
  <2>2. left[m] \in Nat /\ left[m - 1] \in Nat /\ left[j] \in Nat
      BY <1>1, SlotFacts
  <2> QED BY <1>3, <2>1, <2>2
<1>4. 0..Slots \subseteq S
  <2> HIDE DEF S
  <2> QED BY <1>2, <1>3, SlotFacts, UpTo
<1> QED BY <1>4 DEF left

\* allocate_payment splits the payment: each slot takes at most what it owes, in order, and
\* what is taken and what is left over make up the amount.
LEMMA Allocated ==
    ASSUME NEW amount \in Nat, NEW owed \in Money
    PROVE  LET taken == AllocatePayment(amount, owed).taken
               unallocated == AllocatePayment(amount, owed).unallocated
           IN  /\ taken \in Money /\ unallocated \in Nat
               /\ \A k \in Slot : taken[k] <= owed[k]
               /\ \A j, k \in Slot : j < k /\ taken[k] > 0 => taken[j] = owed[j]
               /\ unallocated > 0 => \A k \in Slot : taken[k] = owed[k]
               /\ Total(taken, Slots) + unallocated = amount
<1> DEFINE left == Remaining(amount, owed)
           taken == AllocatePayment(amount, owed).taken
           unallocated == AllocatePayment(amount, owed).unallocated
<1>1. /\ left \in [0..Slots -> Nat] /\ left[0] = amount
      /\ \A k \in Slot : left[k] = LeftAfter(left[k - 1], owed[k])
    BY RemainingStep
<1>2. \A j \in 0..Slots : \A k \in j..Slots : left[k] <= left[j]
    BY RemainingFalls
<1>3. taken = [k \in Slot |-> left[k - 1] - left[k]] /\ unallocated = left[Slots]
    BY DEF AllocatePayment
<1> HIDE DEF left, taken, unallocated
<1>4. ASSUME NEW k \in Slot
      PROVE  /\ left[k - 1] \in Nat /\ left[k] \in Nat /\ owed[k] \in Nat
             /\ left[k] = LeftAfter(left[k - 1], owed[k])
             /\ taken[k] = left[k - 1] - left[k]
  <2>1. k \in 0..Slots /\ k - 1 \in 0..Slots
      BY SlotFacts DEF Slot
  <2>2. owed[k] \in Nat
      BY DEF Money
  <2> QED BY <1>1, <1>3, <2>1, <2>2
<1>5. ASSUME NEW k \in Slot
      PROVE  taken[k] \in Nat /\ taken[k] <= owed[k] /\ (left[k] > 0 => taken[k] = owed[k])
    BY <1>4 DEF LeftAfter
<1>6. taken \in Money
    BY <1>3, <1>5 DEF Money
<1>7. unallocated \in Nat
    BY <1>1, <1>3, SlotFacts
<1>8. ASSUME NEW j \in Slot, NEW k \in Slot, j < k, taken[k] > 0
      PROVE  taken[j] = owed[j]
  <2>1. left[k - 1] > 0
      BY <1>4, <1>8
  <2>2. j \in 0..Slots /\ k - 1 \in j..Slots
      BY <1>8, SlotFacts DEF Slot
  <2>3. left[k - 1] <= left[j] /\ left[j] \in Nat /\ left[k - 1] \in Nat
      BY <1>2, <1>4, <2>2
  <2> QED BY <1>5, <2>1, <2>3
<1>9. ASSUME unallocated > 0, NEW k \in Slot
      PROVE  taken[k] = owed[k]
  <2>1. k \in 0..Slots /\ Slots \in k..Slots
      BY SlotFacts DEF Slot
  <2>2. left[Slots] <= left[k] /\ left[k] \in Nat /\ left[Slots] \in Nat
      BY <1>2, <1>1, <2>1, SlotFacts
  <2> QED BY <1>3, <1>5, <1>9, <2>2
<1>10. Total(taken, Slots) + unallocated = amount
  <2> DEFINE S == {k \in 0..Slots : Upto(taken, Slots)[k] = amount - left[k]}
  <2>1. 0 \in S
      BY <1>1, UptoStep, SlotFacts
  <2>2. ASSUME NEW k \in 1..Slots, k - 1 \in S PROVE k \in S
    <3>1. k \in Slot /\ k \in 0..Slots /\ Slots \in Nat
        BY SlotFacts DEF Slot
    <3>2. Upto(taken, Slots)[k] = Upto(taken, Slots)[k - 1] + taken[k]
        BY <3>1, UptoStep
    <3>3. Upto(taken, Slots)[k - 1] = amount - left[k - 1]
        BY <2>2
    <3> QED BY <1>4, <3>1, <3>2, <3>3
  <2>3. 0..Slots \subseteq S
    <3> HIDE DEF S
    <3> QED BY <2>1, <2>2, SlotFacts, UpTo
  <2>4. Upto(taken, Slots)[Slots] = amount - left[Slots]
      BY <2>3, SlotFacts
  <2>5. left[Slots] \in Nat
      BY <1>1, SlotFacts
  <2> QED BY <1>3, <2>4, <2>5 DEF Total
<1> QED BY <1>5, <1>6, <1>7, <1>8, <1>9, <1>10 DEF taken, unallocated

-------------------------------------------------------------------------------
(* Components and instalments.                                             *)

\* A component of a sum of naturals is a natural.
LEMMA ComponentType ==
    ASSUME NEW money \in Money, NEW b
    PROVE  Component(money, b) \in Nat
<1> DEFINE f == [k \in Slot |-> IF Bucket(k) = b THEN money[k] ELSE 0]
<1>1. \A k \in 1..Slots : f[k] \in Nat
    BY DEF Money, Slot
<1> HIDE DEF f
<1>2. Total(f, Slots) \in Nat
    BY <1>1, TotalType, SlotFacts
<1> QED BY <1>2 DEF Component, f

\* Components add up slot by slot.
LEMMA ComponentPlus ==
    ASSUME NEW x \in Money, NEW y \in Money, NEW z \in Money, NEW b,
           \A k \in Slot : z[k] = x[k] + y[k]
    PROVE  Component(z, b) = Component(x, b) + Component(y, b)
<1> DEFINE part(money) == [k \in Slot |-> IF Bucket(k) = b THEN money[k] ELSE 0]
<1>1. \A k \in 1..Slots : part(x)[k] \in Int /\ part(y)[k] \in Int
                          /\ part(z)[k] = part(x)[k] + part(y)[k]
    BY DEF Money, Slot
<1> HIDE DEF part
<1>2. Total(part(z), Slots) = Total(part(x), Slots) + Total(part(y), Slots)
    BY <1>1, TotalPlus, SlotFacts
<1> QED BY <1>2 DEF Component, part

\* Every slot belongs to one component: the three make up the sum.
LEMMA ThreeComponents ==
    ASSUME NEW money \in Money
    PROVE  Component(money, "penalty") + Component(money, "interest")
             + Component(money, "principal") = Total(money, Slots)
<1> DEFINE part(b) == [k \in Slot |-> IF Bucket(k) = b THEN money[k] ELSE 0]
           two == [k \in Slot |-> part("penalty")[k] + part("interest")[k]]
<1>1. \A k \in 1..Slots : /\ part("penalty")[k] \in Int /\ part("interest")[k] \in Int
                          /\ two[k] = part("penalty")[k] + part("interest")[k]
    BY DEF Money, Slot
<1>2. \A k \in 1..Slots : /\ two[k] \in Int /\ part("principal")[k] \in Int
                          /\ money[k] = two[k] + part("principal")[k]
  <2> SUFFICES ASSUME NEW k \in Slot
               PROVE  /\ two[k] \in Int /\ part("principal")[k] \in Int
                      /\ money[k] = two[k] + part("principal")[k]
      BY DEF Slot
  <2>1. money[k] \in Nat
      BY DEF Money
  <2> QED BY <2>1, SlotFacts
<1> HIDE DEF part, two
<1>3. /\ Total(two, Slots) = Total(part("penalty"), Slots) + Total(part("interest"), Slots)
      /\ Total(part("penalty"), Slots) \in Int /\ Total(part("interest"), Slots) \in Int
    BY <1>1, TotalPlus, SlotFacts
<1>4. /\ Total(money, Slots) = Total(two, Slots) + Total(part("principal"), Slots)
      /\ Total(part("principal"), Slots) \in Int
    BY <1>2, TotalPlus, SlotFacts
<1> QED BY <1>3, <1>4 DEF Component, part

\* A schedule is fully repaid exactly if no slot owes anything.
LEMMA FullyRepaid ==
    ASSUME NEW owed \in Money
    PROVE  IsFullyRepaid(owed) <=> \A k \in Slot : owed[k] = 0
<1>1. \A k \in Slot : owed[k] \in Nat
    BY DEF Money
<1>2. ASSUME NEW i \in Installment
      PROVE  IsSettled(owed, i) <=>
               owed[3 * i - 2] = 0 /\ owed[3 * i - 1] = 0 /\ owed[3 * i] = 0
  <2>1. owed[3 * i - 2] \in Nat /\ owed[3 * i - 1] \in Nat /\ owed[3 * i] \in Nat
      BY <1>1, SlotFacts
  <2> QED BY <2>1 DEF IsSettled, RowSum
<1>3. ASSUME IsFullyRepaid(owed), NEW k \in Slot
      PROVE  owed[k] = 0
    BY <1>2, <1>3, SlotFacts DEF IsFullyRepaid
<1>4. ASSUME \A k \in Slot : owed[k] = 0
      PROVE  IsFullyRepaid(owed)
    BY <1>2, <1>4, SlotFacts DEF IsFullyRepaid
<1> QED BY <1>3, <1>4

\* A schedule that is nowhere overpaid owes a sum of naturals.
LEMMA OwedTyped ==
    ASSUME NEW l \in Loan, NEW now \in Money, \A k \in Slot : now[k] <= Due[l][k]
    PROVE  /\ Due[l] \in Money
           /\ Owed(Due[l], now) \in Money
           /\ \A k \in Slot : /\ now[k] \in Nat /\ Due[l][k] \in Nat
                              /\ Owed(Due[l], now)[k] \in Nat
                              /\ Owed(Due[l], now)[k] = Due[l][k] - now[k]
<1>1. Due[l] \in Money
    BY DueAssumption
<1>2. \A k \in Slot : now[k] \in Nat /\ Due[l][k] \in Nat
    BY <1>1 DEF Money
<1>3. \A k \in Slot : Owed(Due[l], now)[k] = Due[l][k] - now[k]
    BY DEF Owed
<1>4. \A k \in Slot : Due[l][k] - now[k] \in Nat
    BY <1>2
<1>5. Owed(Due[l], now) \in Money
    BY <1>4 DEF Owed, Money
<1> QED BY <1>1, <1>2, <1>3, <1>4, <1>5

\* record_repayment: what a payment does to a schedule that stands at before.
LEMMA PaymentAllocated ==
    ASSUME NEW l \in Loan, NEW before \in Money, \A k \in Slot : before[k] <= Due[l][k],
           NEW amount \in Amount,
           NEW owed, owed = Owed(Due[l], before),
           NEW taken, taken = AllocatePayment(amount, owed).taken,
           NEW unallocated, unallocated = AllocatePayment(amount, owed).unallocated,
           NEW after, after = [k \in Slot |-> before[k] + taken[k]]
    PROVE  /\ amount \in Nat \ {0}
           /\ owed \in Money /\ taken \in Money /\ after \in Money /\ unallocated \in Nat
           /\ \A k \in Slot : /\ before[k] \in Nat /\ Due[l][k] \in Nat /\ taken[k] \in Nat
                              /\ owed[k] = Due[l][k] - before[k]
                              /\ taken[k] <= owed[k]
                              /\ after[k] = before[k] + taken[k] /\ after[k] <= Due[l][k]
           /\ \A j, k \in Slot : j < k /\ taken[k] > 0 => taken[j] = owed[j]
           /\ unallocated > 0 => \A k \in Slot : taken[k] = owed[k]
           /\ Total(taken, Slots) + unallocated = amount
<1>1. amount \in Nat \ {0}
    BY AmountAssumption
<1>2. /\ owed \in Money
      /\ \A k \in Slot : /\ before[k] \in Nat /\ Due[l][k] \in Nat
                         /\ owed[k] = Due[l][k] - before[k]
    BY OwedTyped
<1>3. /\ taken \in Money /\ unallocated \in Nat
      /\ \A k \in Slot : taken[k] <= owed[k]
      /\ \A j, k \in Slot : j < k /\ taken[k] > 0 => taken[j] = owed[j]
      /\ unallocated > 0 => \A k \in Slot : taken[k] = owed[k]
      /\ Total(taken, Slots) + unallocated = amount
    BY <1>1, <1>2, Allocated
<1>4. \A k \in Slot : taken[k] \in Nat
    BY <1>3 DEF Money
<1>5. \A k \in Slot : /\ after[k] = before[k] + taken[k] /\ after[k] \in Nat
                      /\ after[k] <= Due[l][k]
    BY <1>2, <1>3, <1>4
<1>6. after \in Money
    BY <1>5 DEF Money
<1> QED BY <1>1, <1>2, <1>3, <1>4, <1>5, <1>6

-------------------------------------------------------------------------------
(* The position.                                                           *)

\* The larger of a number and 0.
LEMMA MaxWithZero ==
    ASSUME NEW a \in Int
    PROVE  Max({a, 0}) = IF a > 0 THEN a ELSE 0
<1> DEFINE b == IF a > 0 THEN a ELSE 0
<1>1. Max({a, 0}) \in {a, 0} /\ \A x \in {a, 0} : x <= Max({a, 0})
  <2>1. \A x \in {a, 0} : x <= b
      OBVIOUS
  <2>2. b \in Int /\ {a, 0} \subseteq Int /\ {a, 0} # {}
      OBVIOUS
  <2> HIDE DEF b
  <2> QED BY <2>1, <2>2, MaxOfBounded
<1> QED BY <1>1

\* refresh_position: in a row, days past due and status say whether it is overdue and settled.
LEMMA RowRefreshed ==
    ASSUME NEW l \in Loan, NEW now \in Money, NEW asOf \in Nat, NEW i \in Installment,
           NEW owed, owed = Owed(Due[l], now)
    PROVE  LET row == RefreshedRows(l, now, asOf)[i]
           IN  /\ row \in ScheduleRow
               /\ row.days_past_due =
                    IF i \in Overdue(owed, asOf) THEN asOf - DueDate[i] ELSE 0
               /\ row.days_past_due > 0 <=> i \in Overdue(owed, asOf)
               /\ row.status = "PAID" <=> IsSettled(owed, i)
<1> DEFINE row == RefreshedRows(l, now, asOf)[i]
           late == asOf - DueDate[i]
<1>1. row = [days_past_due |-> IF IsSettled(owed, i) THEN 0 ELSE Max({late, 0}),
             status |-> InstallmentStatus(owed, now, i, asOf)]
    BY DEF RefreshedRows
<1>2. late \in Int /\ (late > 0 <=> i \in FallenDue(asOf))
    BY DueDateAssumption DEF FallenDue, Installment
<1>3. Max({late, 0}) = IF late > 0 THEN late ELSE 0
    BY <1>2, MaxWithZero
<1>4. /\ InstallmentStatus(owed, now, i, asOf) \in {"PENDING", "PARTIAL", "OVERDUE", "PAID"}
      /\ InstallmentStatus(owed, now, i, asOf) = "PAID" <=> IsSettled(owed, i)
  <2>1. CASE IsSettled(owed, i)
      BY <2>1 DEF InstallmentStatus
  <2>2. CASE ~IsSettled(owed, i) /\ RowSum(now, i) > 0
      BY <2>2 DEF InstallmentStatus
  <2>3. RowSum(now, i) \in Nat
      BY SlotFacts DEF RowSum, Money
  <2>4. CASE ~IsSettled(owed, i) /\ RowSum(now, i) <= 0
      BY <2>3, <2>4 DEF InstallmentStatus
  <2> QED BY <2>1, <2>2, <2>3, <2>4
<1>5. i \in Overdue(owed, asOf) <=> late > 0 /\ ~IsSettled(owed, i)
    BY <1>2 DEF Overdue
<1> HIDE DEF late
<1>6. row.days_past_due = IF i \in Overdue(owed, asOf) THEN late ELSE 0
    BY <1>1, <1>3, <1>5
<1>7. row.days_past_due \in Nat /\ (row.days_past_due > 0 <=> i \in Overdue(owed, asOf))
    BY <1>2, <1>5, <1>6
<1>8. row.status = InstallmentStatus(owed, now, i, asOf)
    BY <1>1
<1>9. row \in ScheduleRow
    BY <1>1, <1>4, <1>7, <1>8 DEF ScheduleRow
<1> QED BY <1>4, <1>6, <1>7, <1>8, <1>9 DEF late

\* loan_position: the loan's days past due are those of its worst row.
LEMMA DaysOfWorstRow ==
    ASSUME NEW l \in Loan, NEW now \in Money, NEW asOf \in Nat,
           NEW owed, owed = Owed(Due[l], now)
    PROVE  LET dpd == DaysPastDue(owed, asOf)
           IN  /\ dpd \in Nat
               /\ dpd = Max({RefreshedRows(l, now, asOf)[i].days_past_due : i \in Installment})
               /\ dpd > 0 <=> Overdue(owed, asOf) # {}
<1> DEFINE days(i) == IF i \in Overdue(owed, asOf) THEN asOf - DueDate[i] ELSE 0
           A == {0} \cup {asOf - DueDate[i] : i \in Overdue(owed, asOf)}
           B == {RefreshedRows(l, now, asOf)[i].days_past_due : i \in Installment}
<1>1. \A i \in Installment : RefreshedRows(l, now, asOf)[i].days_past_due = days(i)
    BY RowRefreshed
<1>2. B = {days(i) : i \in Installment}
    BY <1>1
<1>3. \A i \in Overdue(owed, asOf) :
         /\ i \in Installment /\ asOf - DueDate[i] \in Nat /\ asOf - DueDate[i] > 0
         /\ asOf - DueDate[i] <= asOf
    BY DueDateAssumption DEF Overdue, FallenDue, Installment
<1>4. A \subseteq Int /\ A # {} /\ \A x \in A : x <= asOf
    BY <1>3
<1>5. Installment # {}
    BY InstallmentsAssumption DEF Installment
<1>6. B \subseteq Int /\ B # {} /\ \A x \in B : x <= asOf
    BY <1>2, <1>3, <1>5
<1> asOf \in Int
    OBVIOUS
<1>7. Max(A) \in A /\ \A x \in A : x <= Max(A)
  <2> HIDE DEF A
  <2> QED BY <1>4, MaxOfBounded, Zenon
<1>8. Max(B) \in B /\ \A x \in B : x <= Max(B)
  <2> HIDE DEF B
  <2> QED BY <1>6, MaxOfBounded, Zenon
<1>9. \A x \in B : x \in A
    BY <1>2
<1>10. \A x \in A : x = 0 \/ x \in B
    BY <1>2, <1>3
<1>11. \A x \in A : x \in Nat
    BY <1>3
<1>12. Max(A) = Max(B)
  <2> HIDE DEF A, B
  <2>1. Max(B) \in A /\ Max(B) \in Nat /\ Max(A) \in Nat
      BY <1>7, <1>8, <1>9, <1>11
  <2>2. Max(B) <= Max(A)
      BY <1>7, <2>1
  <2>3. Max(A) <= Max(B)
    <3>1. CASE Max(A) = 0
        BY <2>1, <3>1
    <3>2. CASE Max(A) \in B
        BY <1>8, <3>2
    <3> QED BY <1>7, <1>10, <3>1, <3>2
  <2> QED BY <2>1, <2>2, <2>3
<1>13. Max(A) \in Nat
    BY <1>7, <1>11
<1>14. Max(A) > 0 <=> Overdue(owed, asOf) # {}
  <2>1. ASSUME Max(A) > 0 PROVE Overdue(owed, asOf) # {}
      BY <1>7, <2>1
  <2>2. ASSUME NEW i \in Overdue(owed, asOf) PROVE Max(A) > 0
    <3>1. asOf - DueDate[i] \in A /\ asOf - DueDate[i] > 0 /\ asOf - DueDate[i] \in Nat
        BY <1>3
    <3> HIDE DEF A
    <3> QED BY <1>7, <1>13, <3>1
  <2> QED BY <2>1, <2>2
<1> QED BY <1>12, <1>13, <1>14 DEF DaysPastDue

\* loan_position: an amount is overdue exactly if an instalment is.
LEMMA OverdueAmountTyped ==
    ASSUME NEW owed \in Money, NEW asOf
    PROVE  /\ OverdueAmount(owed, asOf) \in Nat
           /\ OverdueAmount(owed, asOf) > 0 <=> Overdue(owed, asOf) # {}
<1> DEFINE f == [k \in Slot |-> IF RowOf(k) \in FallenDue(asOf) THEN owed[k] ELSE 0]
<1>1. \A k \in 1..Slots : f[k] \in Nat
    BY DEF Money, Slot
<1>2. \A k \in 1..Slots : f[k] = IF RowOf(k) \in FallenDue(asOf) THEN owed[k] ELSE 0
    BY DEF Slot
<1>3. OverdueAmount(owed, asOf) = Total(f, Slots)
    BY DEF OverdueAmount
<1> HIDE DEF f
<1>4. Total(f, Slots) \in Nat /\ (Total(f, Slots) = 0 <=> \A k \in 1..Slots : f[k] = 0)
    BY <1>1, TotalType, TotalZero, SlotFacts
<1>5. ASSUME \A k \in 1..Slots : f[k] = 0, NEW i \in FallenDue(asOf)
      PROVE  IsSettled(owed, i)
  <2>1. i \in Installment
      BY DEF FallenDue
  <2>2. \A k \in {3 * i - 2, 3 * i - 1, 3 * i} : k \in Slot /\ RowOf(k) = i
    <3>1. i \in Nat
        BY <2>1, InstallmentsAssumption DEF Installment
    <3>2. RowOf(3 * i - 2) = i /\ RowOf(3 * i - 1) = i /\ RowOf(3 * i) = i
        BY <3>1 DEF RowOf
    <3> QED BY <2>1, <3>2, SlotFacts
  <2>3. owed[3 * i - 2] = 0 /\ owed[3 * i - 1] = 0 /\ owed[3 * i] = 0
      BY <1>2, <1>5, <2>2 DEF Slot
  <2> QED BY <2>3 DEF IsSettled, RowSum
<1>6. ASSUME Overdue(owed, asOf) = {}, NEW k \in 1..Slots
      PROVE  f[k] = 0
  <2>1. CASE RowOf(k) \in FallenDue(asOf)
    <3>1. IsSettled(owed, RowOf(k)) /\ RowOf(k) \in Installment
        BY <1>6, <2>1 DEF Overdue, FallenDue
    <3>2. k \in {3 * RowOf(k) - 2, 3 * RowOf(k) - 1, 3 * RowOf(k)}
        BY SlotFacts DEF Slot
    <3>3. \A j \in {3 * RowOf(k) - 2, 3 * RowOf(k) - 1, 3 * RowOf(k)} : owed[j] \in Nat
        BY <3>1, SlotFacts DEF Money
    <3>4. owed[3 * RowOf(k) - 2] + owed[3 * RowOf(k) - 1] + owed[3 * RowOf(k)] <= 0
        BY <3>1 DEF IsSettled, RowSum
    <3>5. owed[k] = 0
      <4> DEFINE j == RowOf(k)
      <4>1. /\ owed[3 * j - 2] \in Nat /\ owed[3 * j - 1] \in Nat /\ owed[3 * j] \in Nat
            /\ owed[3 * j - 2] + owed[3 * j - 1] + owed[3 * j] <= 0
            /\ k = 3 * j - 2 \/ k = 3 * j - 1 \/ k = 3 * j
          BY <3>2, <3>3, <3>4
      <4> HIDE DEF j
      <4>2. owed[3 * j - 2] = 0 /\ owed[3 * j - 1] = 0 /\ owed[3 * j] = 0
          BY <4>1
      <4> QED BY <4>1, <4>2
    <3> QED BY <1>2, <3>5
  <2>2. CASE RowOf(k) \notin FallenDue(asOf)
      BY <1>2, <2>2
  <2> QED BY <2>1, <2>2
<1>7. Overdue(owed, asOf) = {} <=> \A k \in 1..Slots : f[k] = 0
    BY <1>5, <1>6 DEF Overdue
<1> QED BY <1>3, <1>4, <1>7

\* The bands of the classification.
LEMMA Bands ==
    ASSUME NEW dpd \in Nat
    PROVE  /\ Classify(dpd) \in Classification
           /\ Classify(dpd) = "PERFORMING" <=> dpd = 0
           /\ Classify(dpd) = "LOSS" <=> dpd > 180
<1>1. CASE dpd <= 0
    BY <1>1 DEF Classify, Classification
<1>2. CASE 0 < dpd /\ dpd <= 30
    BY <1>2 DEF Classify, Classification
<1>3. CASE 30 < dpd /\ dpd <= 90
    BY <1>3 DEF Classify, Classification
<1>4. CASE 90 < dpd /\ dpd <= 180
    BY <1>4 DEF Classify, Classification
<1>5. CASE 180 < dpd
    BY <1>5 DEF Classify, Classification
<1> QED BY <1>1, <1>2, <1>3, <1>4, <1>5

\* Counts of instalments are naturals.
LEMMA InstallmentCount ==
    ASSUME NEW T, T \subseteq Installment
    PROVE  Cardinality(T) \in Nat
<1>1. IsFiniteSet(Installment)
    BY FS_Interval, InstallmentsAssumption DEF Installment
<1>2. IsFiniteSet(T)
    BY <1>1, FS_Subset
<1> QED BY <1>2, FS_CardinalityType

\* A row of loans and rows of a schedule that show the amounts paid as now.
PositionOf(s, rws, now, l) ==
    /\ s.outstanding_principal = Component(Owed(Due[l], now), "principal")
    /\ s.total_paid = Total(now, Slots)
    /\ s.installments_paid = Cardinality({i \in Installment : rws[i].status = "PAID"})
    /\ s.days_past_due = Max({rws[i].days_past_due : i \in Installment})
    /\ s.installments_overdue = Cardinality({i \in Installment : rws[i].days_past_due > 0})
    /\ s.overdue_amount > 0 <=> s.days_past_due > 0
    /\ s.classification = "PERFORMING" <=> s.days_past_due = 0
    /\ s.classification = "LOSS" <=> s.days_past_due > 180

\* refresh_position: whatever it finds, it leaves rows of their types that agree, and closes
\* a running loan exactly if nothing is owed.
LEMMA PositionRefreshed ==
    ASSUME NEW l \in Loan, NEW now \in Money, \A k \in Slot : now[k] <= Due[l][k],
           NEW asOf \in Nat, NEW row, row.status \in {"ACTIVE", "CLOSED"}
    PROVE  LET s == RefreshedLoan(l, row, now, asOf)
               rws == RefreshedRows(l, now, asOf)
           IN  /\ s \in LoanRow /\ rws \in [Installment -> ScheduleRow]
               /\ PositionOf(s, rws, now, l)
               /\ Reclassified(s) = s
<1> DEFINE s == RefreshedLoan(l, row, now, asOf)
           rws == RefreshedRows(l, now, asOf)
           owed == Owed(Due[l], now)
           dpd == DaysPastDue(owed, asOf)
<1>1. /\ owed \in Money
      /\ \A k \in Slot : now[k] \in Nat /\ Due[l][k] \in Nat /\ owed[k] = Due[l][k] - now[k]
    BY OwedTyped
<1>2. s = [status |-> IF IsFullyRepaid(owed) /\ row.status = "ACTIVE" THEN "CLOSED"
                      ELSE row.status,
           days_past_due |-> dpd,
           overdue_amount |-> OverdueAmount(owed, asOf),
           outstanding_principal |-> Component(owed, "principal"),
           total_paid |-> Total(now, Slots),
           installments_paid |-> InstallmentsPaid(owed),
           installments_overdue |-> Cardinality(Overdue(owed, asOf)),
           classification |-> Classify(dpd)]
    BY DEF RefreshedLoan
<1>3. \A i \in Installment : /\ rws[i] \in ScheduleRow
                             /\ rws[i].days_past_due > 0 <=> i \in Overdue(owed, asOf)
                             /\ rws[i].status = "PAID" <=> IsSettled(owed, i)
    BY RowRefreshed
<1>4. rws \in [Installment -> ScheduleRow]
    BY <1>3 DEF RefreshedRows
<1>5. /\ dpd \in Nat
      /\ dpd = Max({rws[i].days_past_due : i \in Installment})
      /\ dpd > 0 <=> Overdue(owed, asOf) # {}
    BY DaysOfWorstRow
<1> HIDE DEF s, rws, owed, dpd
<1>6. /\ OverdueAmount(owed, asOf) \in Nat
      /\ OverdueAmount(owed, asOf) > 0 <=> Overdue(owed, asOf) # {}
    BY <1>1, OverdueAmountTyped
<1>7. Component(owed, "principal") \in Nat
    BY <1>1, ComponentType
<1>8. Total(now, Slots) \in Nat
    BY <1>1, TotalType, SlotFacts DEF Slot
<1>9. /\ InstallmentsPaid(owed) = Cardinality({i \in Installment : rws[i].status = "PAID"})
      /\ InstallmentsPaid(owed) \in Nat
  <2>1. {i \in Installment : rws[i].status = "PAID"} = {i \in Installment : IsSettled(owed, i)}
      BY <1>3
  <2> QED BY <2>1, InstallmentCount DEF InstallmentsPaid
<1>10. /\ Cardinality(Overdue(owed, asOf)) =
            Cardinality({i \in Installment : rws[i].days_past_due > 0})
       /\ Cardinality(Overdue(owed, asOf)) \in Nat
  <2>1. {i \in Installment : rws[i].days_past_due > 0} = Overdue(owed, asOf)
      BY <1>3 DEF Overdue, FallenDue
  <2> QED BY <2>1, InstallmentCount
<1>11. /\ Classify(dpd) \in Classification
       /\ Classify(dpd) = "PERFORMING" <=> dpd = 0
       /\ Classify(dpd) = "LOSS" <=> dpd > 180
    BY <1>5, Bands
<1>12. s \in LoanRow
    BY <1>2, <1>5, <1>6, <1>7, <1>8, <1>9, <1>10, <1>11 DEF LoanRow
<1>13. PositionOf(s, rws, now, l)
    BY <1>2, <1>5, <1>6, <1>9, <1>10, <1>11 DEF PositionOf, owed
<1>14. Reclassified(s) = s
    BY <1>2 DEF Reclassified
<1> QED BY <1>4, <1>12, <1>13, <1>14 DEF s, rws

\* refresh_position closes an active loan when every slot is paid, and opens none.
LEMMA StatusRefreshed ==
    ASSUME NEW l \in Loan, NEW now \in Money, \A k \in Slot : now[k] <= Due[l][k],
           NEW asOf, NEW row, row.status \in {"ACTIVE", "CLOSED"}
    PROVE  RefreshedLoan(l, row, now, asOf).status = "CLOSED"
             <=> row.status = "CLOSED" \/ \A k \in Slot : now[k] = Due[l][k]
<1> DEFINE owed == Owed(Due[l], now)
<1>1. /\ owed \in Money
      /\ \A k \in Slot : now[k] \in Nat /\ Due[l][k] \in Nat /\ owed[k] = Due[l][k] - now[k]
    BY OwedTyped
<1>2. IsFullyRepaid(owed) <=> \A k \in Slot : owed[k] = 0
    BY <1>1, FullyRepaid
<1>3. RefreshedLoan(l, row, now, asOf).status =
         IF IsFullyRepaid(owed) /\ row.status = "ACTIVE" THEN "CLOSED" ELSE row.status
    BY DEF RefreshedLoan
<1> HIDE DEF owed
<1>4. IsFullyRepaid(owed) <=> \A k \in Slot : now[k] = Due[l][k]
    BY <1>1, <1>2
<1> QED BY <1>3, <1>4

-------------------------------------------------------------------------------
(* Receipts and the loan as booked.                                        *)

\* record_repayment: the receipt of a payment, and what it leaves over.
LEMMA ReceiptWritten ==
    ASSUME NEW l \in Loan, NEW amount \in Amount, NEW key \in Key \cup {NoKey},
           NEW allocation, allocation.taken \in Money, allocation.unallocated \in Nat,
           Total(allocation.taken, Slots) + allocation.unallocated = amount
    PROVE  LET r == Receipt(l, amount, allocation, key)
           IN  /\ r \in Repayment /\ r.loan = l /\ r.idempotency_key = key
               /\ \A b \in Components : r[b] = Component(allocation.taken, b)
               /\ Excess(r) = allocation.unallocated
               /\ r.is_advance <=> allocation.unallocated > 0
<1> DEFINE r == Receipt(l, amount, allocation, key)
           taken == allocation.taken
           unallocated == allocation.unallocated
           left == unallocated > 0
<1>1. r = [loan |-> l, amount_paid |-> amount,
           penalty |-> Component(taken, "penalty"),
           interest |-> Component(taken, "interest"),
           principal |-> Component(taken, "principal"),
           is_advance |-> left,
           idempotency_key |-> key]
    BY DEF Receipt
<1>2. left \in BOOLEAN
    OBVIOUS
<1>3. /\ taken \in Money /\ unallocated \in Nat
      /\ Total(taken, Slots) + unallocated = amount
    OBVIOUS
<1>4. \A b \in Components : Component(taken, b) \in Nat
    BY <1>3, ComponentType
<1> HIDE DEF left, r, taken, unallocated
<1>5. r \in Repayment
    BY <1>1, <1>2, <1>4 DEF Repayment, Components
<1>6. Component(taken, "penalty") + Component(taken, "interest")
        + Component(taken, "principal") = Total(taken, Slots)
    BY <1>3, ThreeComponents
<1>7. amount \in Nat
    BY AmountAssumption
<1>8. Excess(r) = unallocated
    BY <1>1, <1>3, <1>4, <1>6, <1>7 DEF Excess, Components
<1>9. ASSUME NEW b \in Components PROVE r[b] = Component(taken, b)
  <2>1. CASE b = "penalty"
      BY <1>1, <2>1
  <2>2. CASE b = "interest"
      BY <1>1, <2>2
  <2>3. CASE b = "principal"
      BY <1>1, <2>3
  <2> QED BY <2>1, <2>2, <2>3 DEF Components
<1>10. r.loan = l /\ r.idempotency_key = key /\ r.is_advance = left
    BY <1>1
<1> QED BY <1>5, <1>8, <1>9, <1>10 DEF left, r, taken, unallocated

\* A column's sum over the receipts of a loan grows by what the new receipt carries.
LEMMA ReceivedMore ==
    ASSUME NEW book \in Seq(Repayment), NEW r, NEW l, NEW column
    PROVE  Received(Append(book, r), l, column) =
             Received(book, l, column) + (IF r.loan = l THEN r[column] ELSE 0)
<1> DEFINE longer == Append(book, r)
           f == [n \in DOMAIN book |-> IF book[n].loan = l THEN book[n][column] ELSE 0]
           g == [n \in DOMAIN longer |-> IF longer[n].loan = l THEN longer[n][column] ELSE 0]
<1>1. /\ Len(book) \in Nat /\ Len(longer) = Len(book) + 1
      /\ DOMAIN book = 1..Len(book) /\ DOMAIN longer = 1..(Len(book) + 1)
      /\ \A n \in 1..Len(book) : longer[n] = book[n]
      /\ longer[Len(book) + 1] = r
    OBVIOUS
<1> HIDE DEF longer
<1>2. \A n \in 1..Len(book) : f[n] = g[n]
    BY <1>1
<1>3. g[Len(book) + 1] = IF r.loan = l THEN r[column] ELSE 0
    BY <1>1
<1> HIDE DEF f, g
<1>4. Total(g, Len(book) + 1) = Total(f, Len(book)) + g[Len(book) + 1]
    BY <1>1, <1>2, TotalOneMore
<1> QED BY <1>1, <1>3, <1>4 DEF Received, f, g, longer

\* Nothing has been paid on a schedule just booked.
LEMMA NothingPaidFacts ==
    /\ NothingPaid \in Money
    /\ \A b : Component(NothingPaid, b) = 0
    /\ Total(NothingPaid, Slots) = 0
<1>1. NothingPaid \in Money
    BY DEF NothingPaid, Money
<1>2. ASSUME NEW b PROVE Component(NothingPaid, b) = 0
  <2> DEFINE f == [k \in Slot |-> IF Bucket(k) = b THEN NothingPaid[k] ELSE 0]
  <2>1. \A k \in 1..Slots : f[k] \in Nat /\ f[k] = 0
      BY DEF NothingPaid, Slot
  <2> HIDE DEF f
  <2>2. Total(f, Slots) = 0
      BY <2>1, TotalZero, SlotFacts
  <2> QED BY <2>2 DEF Component, f
<1>3. \A k \in 1..Slots : NothingPaid[k] \in Nat /\ NothingPaid[k] = 0
    BY DEF NothingPaid, Slot
<1>4. Total(NothingPaid, Slots) = 0
    BY <1>3, TotalZero, SlotFacts
<1> QED BY <1>1, <1>2, <1>4

\* book_loan: a loan as booked owes its whole schedule and is running.
LEMMA Booked ==
    ASSUME NEW l \in Loan
    PROVE  /\ BookedLoan(l) \in LoanRow /\ BookedRows \in [Installment -> ScheduleRow]
           /\ PositionOf(BookedLoan(l), BookedRows, NothingPaid, l)
           /\ \E k \in Slot : NothingPaid[k] # Due[l][k]
           /\ \A k \in Slot : NothingPaid[k] <= Due[l][k]
<1>1. Due[l] \in Money
    BY DueAssumption
<1>2. \A k \in Slot : NothingPaid[k] = 0 /\ Due[l][k] \in Nat
    BY <1>1 DEF NothingPaid, Money
<1>3. \E k \in Slot : NothingPaid[k] # Due[l][k]
  <2>1. 1 \in Installment /\ RowSum(Due[l], 1) > 0
      BY DueAssumption, InstallmentsAssumption DEF Installment
  <2>2. 1 \in Slot /\ 2 \in Slot /\ 3 \in Slot
      BY <2>1, SlotFacts
  <2>3. Due[l][1] + Due[l][2] + Due[l][3] > 0
      BY <2>1 DEF RowSum
  <2> QED BY <1>2, <2>2, <2>3
<1>4. Owed(Due[l], NothingPaid) = Due[l]
  <2>1. \A k \in Slot : Due[l][k] - NothingPaid[k] = Due[l][k]
      BY <1>2
  <2>2. Due[l] = [k \in Slot |-> Due[l][k]]
      BY <1>1 DEF Money
  <2> QED BY <2>1, <2>2 DEF Owed
<1>5. Component(Due[l], "principal") \in Nat
    BY <1>1, ComponentType
<1>6. BookedLoan(l) \in LoanRow
    BY <1>5 DEF BookedLoan, LoanRow, Classification
<1>7. BookedRows \in [Installment -> ScheduleRow]
    BY DEF BookedRows, ScheduleRow
<1>8. /\ {i \in Installment : BookedRows[i].status = "PAID"} = {}
      /\ {i \in Installment : BookedRows[i].days_past_due > 0} = {}
    BY DEF BookedRows
<1>9. Cardinality({}) = 0
    BY FS_EmptySet
<1>10. Max({BookedRows[i].days_past_due : i \in Installment}) = 0
  <2>1. {BookedRows[i].days_past_due : i \in Installment} = {0}
      BY InstallmentsAssumption DEF BookedRows, Installment
  <2>2. Max({0}) = 0
      BY DEF Max
  <2> QED BY <2>1, <2>2
<1>11. PositionOf(BookedLoan(l), BookedRows, NothingPaid, l)
  <2> DEFINE s == BookedLoan(l)
  <2>1. /\ s.outstanding_principal = Component(Due[l], "principal") /\ s.total_paid = 0
        /\ s.installments_paid = 0 /\ s.installments_overdue = 0
        /\ s.days_past_due = 0 /\ s.overdue_amount = 0 /\ s.classification = "PERFORMING"
      BY DEF BookedLoan
  <2> HIDE DEF s
  <2>2. PositionOf(s, BookedRows, NothingPaid, l)
      BY <1>4, <1>8, <1>9, <1>10, <2>1, NothingPaidFacts DEF PositionOf
  <2> QED BY <2>2 DEF s
<1> QED BY <1>2, <1>3, <1>6, <1>7, <1>11
-------------------------------------------------------------------------------

\* The inductive invariant.  The status of a loan is the hinge: it says whether anything is
\* owed, which is what a payment's guard reads and what its excess depends on.
IInv ==
    /\ TypeOK
    /\ NeverOverpaid
    /\ OldestFirst
    /\ ClosedExactlyWhenSettled
    /\ PaymentsAccounted

OwedNow(l) == Owed(Due[l], paid[l])

\* What a payment on loan l puts into each slot, what it leaves over, and the schedule after it.
Taken(l, amount) == AllocatePayment(amount, OwedNow(l)).taken
Unallocated(l, amount) == AllocatePayment(amount, OwedNow(l)).unallocated
After(l, amount) == [k \in Slot |-> paid[l][k] + Taken(l, amount)[k]]

-------------------------------------------------------------------------------
(* One payment.                                                            *)

\* record_repayment: what one payment does to the schedule of its loan.
LEMMA PaymentApplied ==
    ASSUME TypeOK, NeverOverpaid, NEW l \in Loan, NEW amount \in Amount
    PROVE  /\ amount \in Nat \ {0}
           /\ OwedNow(l) \in Money /\ Taken(l, amount) \in Money /\ After(l, amount) \in Money
           /\ Unallocated(l, amount) \in Nat
           /\ \A k \in Slot : /\ paid[l][k] \in Nat /\ Due[l][k] \in Nat
                              /\ Taken(l, amount)[k] \in Nat
                              /\ OwedNow(l)[k] = Due[l][k] - paid[l][k]
                              /\ Taken(l, amount)[k] <= OwedNow(l)[k]
                              /\ After(l, amount)[k] = paid[l][k] + Taken(l, amount)[k]
                              /\ After(l, amount)[k] <= Due[l][k]
           /\ \A j, k \in Slot : j < k /\ Taken(l, amount)[k] > 0 =>
                                   Taken(l, amount)[j] = OwedNow(l)[j]
           /\ Unallocated(l, amount) > 0 =>
                \A k \in Slot : Taken(l, amount)[k] = OwedNow(l)[k]
           /\ Total(Taken(l, amount), Slots) + Unallocated(l, amount) = amount
<1>1. paid[l] \in Money /\ \A k \in Slot : paid[l][k] <= Due[l][k]
    BY DEF TypeOK, NeverOverpaid
<1> QED BY <1>1, PaymentAllocated DEF OwedNow, Taken, Unallocated, After

\* RecordRepayment in these terms.
LEMMA RecordRepaymentStep ==
    ASSUME NEW l \in Loan, NEW amount \in Amount, NEW date, NEW key,
           RecordRepayment(l, amount, date, key)
    PROVE  /\ Answer(l, key) = "post"
           /\ paid' = [paid EXCEPT ![l] = After(l, amount)]
           /\ rows' = [rows EXCEPT ![l] = RefreshedRows(l, After(l, amount), date)]
           /\ loan' = [loan EXCEPT ![l] = RefreshedLoan(l, loan[l], After(l, amount), date)]
           /\ receipts' = Append(receipts,
                Receipt(l, amount, AllocatePayment(amount, OwedNow(l)), key))
    BY DEF RecordRepayment, After, Taken, OwedNow

\* Every entry of the repayments table is a receipt.
LEMMA ReceiptTyped ==
    ASSUME TypeOK, NEW n \in DOMAIN receipts
    PROVE  receipts[n] \in Repayment /\ n \in 1..Len(receipts)
<1>1. receipts \in Seq(Repayment)
    BY DEF TypeOK
<1> QED BY <1>1

\* A payment is posted only on a loan that is running, and under a key no receipt carries.
LEMMA Posted ==
    ASSUME TypeOK, NEW l \in Loan, NEW key \in Key \cup {NoKey}, Answer(l, key) = "post"
    PROVE  /\ loan[l].status = "ACTIVE"
           /\ key # NoKey => \A n \in DOMAIN receipts : receipts[n].idempotency_key # key
<1>1. loan[l].status \in {"ACTIVE", "CLOSED"}
    BY DEF TypeOK, LoanRow
<1>2. loan[l].status = "ACTIVE"
    BY <1>1 DEF Answer, CLOSED_STATUSES
<1>3. ASSUME key # NoKey, NEW n \in DOMAIN receipts
      PROVE  receipts[n].idempotency_key # key
  <2>1. receipts[n].loan \in Loan
      BY ReceiptTyped DEF Repayment
  <2> QED BY <1>2, <1>3, <2>1 DEF Answer, ReceiptFor, CLOSED_STATUSES
<1> QED BY <1>2, <1>3

-------------------------------------------------------------------------------
(* Receipts.                                                               *)

\* record_repayment: the receipt of a payment, and what it leaves over.
LEMMA ReceiptIssued ==
    ASSUME TypeOK, NeverOverpaid, NEW l \in Loan, NEW amount \in Amount,
           NEW key \in Key \cup {NoKey},
           NEW r, r = Receipt(l, amount, AllocatePayment(amount, OwedNow(l)), key)
    PROVE  /\ r \in Repayment /\ r.loan = l /\ r.idempotency_key = key
           /\ \A b \in Components : r[b] = Component(Taken(l, amount), b)
           /\ Excess(r) = Unallocated(l, amount)
           /\ r.is_advance <=> Unallocated(l, amount) > 0
<1>1. /\ Taken(l, amount) \in Money /\ Unallocated(l, amount) \in Nat
      /\ Total(Taken(l, amount), Slots) + Unallocated(l, amount) = amount
    BY PaymentApplied
<1> QED BY <1>1, ReceiptWritten DEF Taken, Unallocated

-------------------------------------------------------------------------------
(* The invariant, one step at a time.                                      *)

\* The loans as they are booked satisfy the invariant.
LEMMA InvariantInit == Init => IInv
<1> SUFFICES ASSUME Init PROVE IInv
    OBVIOUS
<1>1. \A l \in Loan : paid[l] = NothingPaid /\ rows[l] = BookedRows /\ loan[l] = BookedLoan(l)
    BY DEF Init
<1>2. receipts = << >>
    BY DEF Init
<1>3. TypeOK
    BY Booked, NothingPaidFacts DEF Init, TypeOK
<1>4. NeverOverpaid
    BY <1>1, Booked DEF NeverOverpaid
<1>5. OldestFirst
    BY <1>1 DEF OldestFirst, NothingPaid
<1>6. ClosedExactlyWhenSettled
  <2>1. \A l \in Loan : loan[l].status # "CLOSED"
    <3> SUFFICES ASSUME NEW l \in Loan PROVE loan[l].status # "CLOSED"
        OBVIOUS
    <3>1. BookedLoan(l).status = "ACTIVE"
        BY DEF BookedLoan
    <3> QED BY <1>1, <3>1
  <2> QED BY <1>1, <2>1, Booked DEF ClosedExactlyWhenSettled
<1>7. PaymentsAccounted
  <2> SUFFICES ASSUME NEW l \in Loan, NEW b \in Components
               PROVE  Received(receipts, l, b) = Component(paid[l], b)
      BY DEF PaymentsAccounted
  <2> DEFINE f == [n \in DOMAIN receipts |-> IF receipts[n].loan = l THEN receipts[n][b] ELSE 0]
  <2>1. Len(receipts) = 0
      BY <1>2
  <2> HIDE DEF f
  <2>2. Total(f, 0) = 0
      BY UptoStep DEF Total
  <2> QED BY <1>1, <2>1, <2>2, NothingPaidFacts DEF Received, f
<1> QED BY <1>3, <1>4, <1>5, <1>6, <1>7 DEF IInv

\* record_repayment preserves the invariant: the payment goes to the oldest slots that owe,
\* its receipt shows what they took, and the loan closes with the last of them.
LEMMA InvariantPayment ==
    ASSUME IInv, NEW l \in Loan, NEW amount \in Amount, NEW date \in Date,
           NEW key \in Key \cup {NoKey}, RecordRepayment(l, amount, date, key)
    PROVE  IInv'
<1> DEFINE now == After(l, amount)
           taken == Taken(l, amount)
           r == Receipt(l, amount, AllocatePayment(amount, OwedNow(l)), key)
<1>1. TypeOK /\ NeverOverpaid /\ OldestFirst /\ ClosedExactlyWhenSettled /\ PaymentsAccounted
    BY DEF IInv
<1>2. /\ paid' = [paid EXCEPT ![l] = now]
      /\ rows' = [rows EXCEPT ![l] = RefreshedRows(l, now, date)]
      /\ loan' = [loan EXCEPT ![l] = RefreshedLoan(l, loan[l], now, date)]
      /\ receipts' = Append(receipts, r)
      /\ Answer(l, key) = "post"
    BY RecordRepaymentStep
<1>3. /\ now \in Money /\ taken \in Money
      /\ \A k \in Slot : /\ paid[l][k] \in Nat /\ Due[l][k] \in Nat /\ taken[k] \in Nat
                         /\ OwedNow(l)[k] = Due[l][k] - paid[l][k]
                         /\ taken[k] <= OwedNow(l)[k]
                         /\ now[k] = paid[l][k] + taken[k] /\ now[k] <= Due[l][k]
      /\ \A j, k \in Slot : j < k /\ taken[k] > 0 => taken[j] = OwedNow(l)[j]
    BY <1>1, PaymentApplied
<1>4. /\ r \in Repayment /\ r.loan = l
      /\ \A b \in Components : r[b] = Component(taken, b)
    BY <1>1, ReceiptIssued
<1>5. loan[l].status = "ACTIVE"
    BY <1>1, <1>2, Posted
<1>6. date \in Nat
    BY DateAssumption
<1> HIDE DEF now, taken, r
<1>7. /\ RefreshedLoan(l, loan[l], now, date) \in LoanRow
      /\ RefreshedRows(l, now, date) \in [Installment -> ScheduleRow]
      /\ RefreshedLoan(l, loan[l], now, date).status = "CLOSED"
           <=> \A k \in Slot : now[k] = Due[l][k]
  <2>1. loan[l].status \in {"ACTIVE", "CLOSED"}
      BY <1>5
  <2>2. /\ RefreshedLoan(l, loan[l], now, date) \in LoanRow
        /\ RefreshedRows(l, now, date) \in [Installment -> ScheduleRow]
      BY <1>3, <1>6, <2>1, PositionRefreshed
  <2>3. RefreshedLoan(l, loan[l], now, date).status = "CLOSED"
          <=> loan[l].status = "CLOSED" \/ \A k \in Slot : now[k] = Due[l][k]
      BY <1>3, <2>1, StatusRefreshed
  <2> QED BY <1>5, <2>2, <2>3
<1>8. /\ paid \in [Loan -> Money] /\ rows \in [Loan -> [Installment -> ScheduleRow]]
      /\ loan \in [Loan -> LoanRow] /\ receipts \in Seq(Repayment)
    BY <1>1 DEF TypeOK
<1>9. TypeOK'
    BY <1>2, <1>3, <1>4, <1>7, <1>8 DEF TypeOK
<1>10. NeverOverpaid'
    BY <1>1, <1>2, <1>3, <1>8 DEF NeverOverpaid
<1>11. OldestFirst'
  <2> SUFFICES ASSUME NEW m \in Loan, NEW j \in Slot, NEW k \in Slot, j < k, paid'[m][k] > 0
               PROVE  paid'[m][j] = Due[m][j]
      BY DEF OldestFirst
  <2>1. CASE m # l
    <3>1. paid'[m] = paid[m]
        BY <1>2, <1>8, <2>1
    <3> QED BY <1>1, <3>1 DEF OldestFirst
  <2>2. CASE m = l
    <3>1. paid'[m] = now
        BY <1>2, <1>8, <2>2
    <3>2. CASE paid[l][k] > 0
      <4>1. paid[l][j] = Due[l][j]
          BY <1>1, <3>2 DEF OldestFirst
      <4> QED BY <1>3, <2>2, <3>1, <4>1
    <3>3. CASE taken[k] > 0
      <4>1. taken[j] = OwedNow(l)[j]
          BY <1>3, <3>3
      <4> QED BY <1>3, <2>2, <3>1, <4>1
    <3> QED BY <1>3, <3>1, <3>2, <3>3
  <2> QED BY <2>1, <2>2
<1>12. ClosedExactlyWhenSettled'
  <2> SUFFICES ASSUME NEW m \in Loan
               PROVE  loan'[m].status = "CLOSED" <=> \A k \in Slot : paid'[m][k] = Due[m][k]
      BY DEF ClosedExactlyWhenSettled
  <2>1. CASE m # l
    <3>1. paid'[m] = paid[m] /\ loan'[m] = loan[m]
        BY <1>2, <1>8, <2>1
    <3> QED BY <1>1, <3>1 DEF ClosedExactlyWhenSettled
  <2>2. CASE m = l
    <3>1. paid'[m] = now /\ loan'[m] = RefreshedLoan(l, loan[l], now, date)
        BY <1>2, <1>8, <2>2
    <3> QED BY <1>7, <2>2, <3>1
  <2> QED BY <2>1, <2>2
<1>13. PaymentsAccounted'
  <2> SUFFICES ASSUME NEW m \in Loan, NEW b \in Components
               PROVE  Received(receipts', m, b) = Component(paid'[m], b)
      BY DEF PaymentsAccounted
  <2>1. Received(receipts', m, b) =
          Received(receipts, m, b) + (IF r.loan = m THEN r[b] ELSE 0)
      BY <1>2, <1>8, ReceivedMore
  <2>2. Received(receipts, m, b) = Component(paid[m], b)
      BY <1>1 DEF PaymentsAccounted
  <2>3. Component(paid[m], b) \in Nat
      BY <1>8, ComponentType
  <2>4. CASE m # l
    <3>1. paid'[m] = paid[m]
        BY <1>2, <1>8, <2>4
    <3> QED BY <1>4, <2>1, <2>2, <2>3, <2>4, <3>1
  <2>5. CASE m = l
    <3>1. paid'[m] = now
        BY <1>2, <1>8, <2>5
    <3>2. Component(now, b) = Component(paid[l], b) + Component(taken, b)
        BY <1>3, <1>8, ComponentPlus
    <3> QED BY <1>4, <2>1, <2>2, <2>5, <3>1, <3>2
  <2> QED BY <2>4, <2>5
<1> QED BY <1>9, <1>10, <1>11, <1>12, <1>13 DEF IInv

\* run_dpd_update and run_classification_update: the pass rewrites positions, and neither pays
\* nor closes anything.
LEMMA InvariantNightly ==
    ASSUME IInv, NEW asOf \in Date, RunNightly(asOf)
    PROVE  /\ IInv'
           /\ \A l \in Loan : loan'[l].status = loan[l].status
<1>1. TypeOK /\ NeverOverpaid /\ OldestFirst /\ ClosedExactlyWhenSettled /\ PaymentsAccounted
    BY DEF IInv
<1>2. /\ paid \in [Loan -> Money] /\ rows \in [Loan -> [Installment -> ScheduleRow]]
      /\ loan \in [Loan -> LoanRow] /\ receipts \in Seq(Repayment)
    BY <1>1 DEF TypeOK
<1>3. paid' = paid /\ receipts' = receipts
    BY DEF RunNightly
<1>4. ASSUME NEW l \in Loan
      PROVE  /\ rows'[l] \in [Installment -> ScheduleRow] /\ loan'[l] \in LoanRow
             /\ loan'[l].status = loan[l].status
  <2>1. CASE l \in ActiveLoans
    <3> DEFINE s == RefreshedLoan(l, loan[l], paid[l], asOf)
    <3>1. rows'[l] = RefreshedRows(l, paid[l], asOf) /\ loan'[l] = Reclassified(s)
        BY <2>1 DEF RunNightly
    <3>2. loan[l].status = "ACTIVE"
        BY <2>1 DEF ActiveLoans
    <3>3. asOf \in Nat /\ paid[l] \in Money /\ \A k \in Slot : paid[l][k] <= Due[l][k]
        BY <1>1, <1>2, DateAssumption DEF NeverOverpaid
    <3>4. /\ s \in LoanRow /\ RefreshedRows(l, paid[l], asOf) \in [Installment -> ScheduleRow]
          /\ s.status = "CLOSED" <=> \A k \in Slot : paid[l][k] = Due[l][k]
          /\ Reclassified(s) = s
      <4>1. loan[l].status \in {"ACTIVE", "CLOSED"}
          BY <3>2
      <4>2. /\ s \in LoanRow /\ RefreshedRows(l, paid[l], asOf) \in [Installment -> ScheduleRow]
            /\ Reclassified(s) = s
          BY <3>3, <4>1, PositionRefreshed
      <4>3. s.status = "CLOSED"
              <=> loan[l].status = "CLOSED" \/ \A k \in Slot : paid[l][k] = Due[l][k]
          BY <3>3, <4>1, StatusRefreshed
      <4> HIDE DEF s
      <4> QED BY <3>2, <4>2, <4>3
    <3>5. ~ \A k \in Slot : paid[l][k] = Due[l][k]
        BY <1>1, <3>2 DEF ClosedExactlyWhenSettled
    <3> HIDE DEF s
    <3>6. s.status \in {"ACTIVE", "CLOSED"}
        BY <3>4 DEF LoanRow
    <3> QED BY <3>1, <3>2, <3>4, <3>5, <3>6
  <2>2. CASE l \notin ActiveLoans
    <3>1. rows'[l] = rows[l] /\ loan'[l] = loan[l]
        BY <2>2 DEF RunNightly
    <3> QED BY <1>2, <3>1
  <2> QED BY <2>1, <2>2
<1>5. TypeOK'
  <2>1. rows' = [l \in Loan |-> rows'[l]] /\ loan' = [l \in Loan |-> loan'[l]]
      BY DEF RunNightly
  <2>2. rows' \in [Loan -> [Installment -> ScheduleRow]] /\ loan' \in [Loan -> LoanRow]
      BY <1>4, <2>1
  <2> QED BY <1>2, <1>3, <2>2 DEF TypeOK
<1>6. /\ NeverOverpaid' /\ OldestFirst' /\ PaymentsAccounted'
    BY <1>1, <1>3 DEF NeverOverpaid, OldestFirst, PaymentsAccounted
<1>7. ClosedExactlyWhenSettled'
    BY <1>1, <1>3, <1>4 DEF ClosedExactlyWhenSettled
<1> QED BY <1>4, <1>5, <1>6, <1>7 DEF IInv

\* Every step preserves the invariant.
LEMMA InvariantStep == IInv /\ [Next]_vars => IInv'
<1> SUFFICES ASSUME IInv, [Next]_vars PROVE IInv'
    OBVIOUS
<1>1. ASSUME NEW l \in Loan, NEW amount \in Amount, NEW date \in Date,
             NEW key \in Key \cup {NoKey}, RecordRepayment(l, amount, date, key)
      PROVE  IInv'
    BY <1>1, InvariantPayment
<1>2. ASSUME NEW asOf \in Date, RunNightly(asOf)
      PROVE  IInv'
    BY <1>2, InvariantNightly
<1>3. CASE UNCHANGED vars
    BY <1>3 DEF vars, IInv, TypeOK, NeverOverpaid, OldestFirst, ClosedExactlyWhenSettled,
                PaymentsAccounted
<1> QED BY <1>1, <1>2, <1>3 DEF Next

\* Sums, allocation and closing keep to the invariant in every reachable state.
THEOREM Invariant == Spec => []IInv
<1> QED BY InvariantInit, InvariantStep, PTL DEF Spec

\* Every table of servicing keeps its type: no arrears, balance or count goes below nothing.
THEOREM TypeCorrect == Spec => []TypeOK
<1>1. IInv => TypeOK
    BY DEF IInv
<1> QED BY <1>1, Invariant, PTL

\* The receipts and the schedule agree on what was paid, component by component.
THEOREM PaymentsHold == Spec => []PaymentsAccounted
<1>1. IInv => PaymentsAccounted
    BY DEF IInv
<1> QED BY <1>1, Invariant, PTL

\* A slot has received money only if every older one is full.
THEOREM OldestFirstHolds == Spec => []OldestFirst
<1>1. IInv => OldestFirst
    BY DEF IInv
<1> QED BY <1>1, Invariant, PTL

\* No slot receives more than it owes.
THEOREM NeverOverpaidHolds == Spec => []NeverOverpaid
<1>1. IInv => NeverOverpaid
    BY DEF IInv
<1> QED BY <1>1, Invariant, PTL

\* A loan is CLOSED exactly when its schedule has been paid.
THEOREM ClosedHolds == Spec => []ClosedExactlyWhenSettled
<1>1. IInv => ClosedExactlyWhenSettled
    BY DEF IInv
<1> QED BY <1>1, Invariant, PTL

-------------------------------------------------------------------------------
(* The position, over any order of dates.                                  *)

\* Every loan's row and its schedule's rows show what has been paid on it.
Positions == \A l \in Loan : PositionOf(loan[l], rows[l], paid[l], l)

\* With the invariant, that is what PositionCoherent says.
LEMMA PositionsCohere ==
    ASSUME IInv, Positions
    PROVE  PositionCoherent
<1> SUFFICES ASSUME NEW l \in Loan
             PROVE  /\ loan[l].outstanding_principal + Received(receipts, l, "principal")
                         = Component(Due[l], "principal")
                    /\ loan[l].total_paid =
                         Component(paid[l], "interest") + Component(paid[l], "principal")
                           + Component(paid[l], "penalty")
    BY DEF PositionCoherent, Positions, PositionOf
<1>1. /\ paid[l] \in Money /\ \A k \in Slot : paid[l][k] <= Due[l][k]
      /\ Received(receipts, l, "principal") = Component(paid[l], "principal")
    BY DEF IInv, TypeOK, NeverOverpaid, PaymentsAccounted, Components
<1>2. /\ Due[l] \in Money /\ OwedNow(l) \in Money
      /\ \A k \in Slot : /\ paid[l][k] \in Nat /\ Due[l][k] \in Nat
                         /\ OwedNow(l)[k] = Due[l][k] - paid[l][k]
    BY <1>1, OwedTyped DEF OwedNow
<1>3. \A k \in Slot : Due[l][k] = OwedNow(l)[k] + paid[l][k]
    BY <1>2
<1>4. Component(Due[l], "principal") =
        Component(OwedNow(l), "principal") + Component(paid[l], "principal")
    BY <1>1, <1>2, <1>3, ComponentPlus
<1>5. /\ Component(paid[l], "penalty") \in Nat /\ Component(paid[l], "interest") \in Nat
      /\ Component(paid[l], "principal") \in Nat
    BY <1>1, ComponentType
<1>6. Component(paid[l], "penalty") + Component(paid[l], "interest")
        + Component(paid[l], "principal") = Total(paid[l], Slots)
    BY <1>1, ThreeComponents
<1>7. /\ loan[l].outstanding_principal = Component(OwedNow(l), "principal")
      /\ loan[l].total_paid = Total(paid[l], Slots)
    BY DEF Positions, PositionOf, OwedNow
<1> QED BY <1>1, <1>4, <1>5, <1>6, <1>7

\* Every step leaves the positions in place or writes them anew from what is then paid.
LEMMA PositionsStep ==
    ASSUME IInv, Positions, [Next]_vars
    PROVE  Positions'
<1>1. /\ TypeOK /\ NeverOverpaid
      /\ paid \in [Loan -> Money] /\ rows \in [Loan -> [Installment -> ScheduleRow]]
      /\ loan \in [Loan -> LoanRow]
    BY DEF IInv, TypeOK
<1>2. ASSUME NEW l \in Loan, NEW amount \in Amount, NEW date \in Date,
             NEW key \in Key \cup {NoKey}, RecordRepayment(l, amount, date, key)
      PROVE  Positions'
  <2> DEFINE now == After(l, amount)
  <2>1. /\ paid' = [paid EXCEPT ![l] = now]
        /\ rows' = [rows EXCEPT ![l] = RefreshedRows(l, now, date)]
        /\ loan' = [loan EXCEPT ![l] = RefreshedLoan(l, loan[l], now, date)]
        /\ loan[l].status = "ACTIVE"
      BY <1>1, <1>2, RecordRepaymentStep, Posted
  <2>2. now \in Money /\ \A k \in Slot : now[k] <= Due[l][k]
      BY <1>1, PaymentApplied
  <2> HIDE DEF now
  <2>3. PositionOf(RefreshedLoan(l, loan[l], now, date), RefreshedRows(l, now, date), now, l)
      BY <2>1, <2>2, DateAssumption, PositionRefreshed
  <2>4. ASSUME NEW m \in Loan
        PROVE  PositionOf(loan'[m], rows'[m], paid'[m], m)
    <3>1. CASE m = l
      <4>1. /\ paid'[m] = now /\ rows'[m] = RefreshedRows(l, now, date)
            /\ loan'[m] = RefreshedLoan(l, loan[l], now, date)
          BY <1>1, <2>1, <3>1
      <4> QED BY <2>3, <3>1, <4>1
    <3>2. CASE m # l
      <4>1. paid'[m] = paid[m] /\ rows'[m] = rows[m] /\ loan'[m] = loan[m]
          BY <1>1, <2>1, <3>2
      <4> QED BY <4>1 DEF Positions
    <3> QED BY <3>1, <3>2
  <2> QED BY <2>4 DEF Positions, PositionOf
<1>3. ASSUME NEW asOf \in Date, RunNightly(asOf)
      PROVE  Positions'
  <2>1. ASSUME NEW m \in Loan
        PROVE  PositionOf(loan'[m], rows'[m], paid'[m], m)
    <3>1. paid' = paid
        BY <1>3 DEF RunNightly
    <3>2. CASE m \in ActiveLoans
      <4> DEFINE s == RefreshedLoan(m, loan[m], paid[m], asOf)
      <4>1. rows'[m] = RefreshedRows(m, paid[m], asOf) /\ loan'[m] = Reclassified(s)
          BY <1>3, <3>2 DEF RunNightly
      <4>2. loan[m].status = "ACTIVE"
          BY <3>2 DEF ActiveLoans
      <4>3. asOf \in Nat /\ paid[m] \in Money /\ \A k \in Slot : paid[m][k] <= Due[m][k]
          BY <1>1, DateAssumption DEF NeverOverpaid
      <4>4. PositionOf(s, RefreshedRows(m, paid[m], asOf), paid[m], m) /\ Reclassified(s) = s
          BY <4>2, <4>3, PositionRefreshed
      <4> HIDE DEF s
      <4> QED BY <3>1, <4>1, <4>4
    <3>3. CASE m \notin ActiveLoans
      <4>1. rows'[m] = rows[m] /\ loan'[m] = loan[m]
          BY <1>3, <3>3 DEF RunNightly
      <4> QED BY <3>1, <4>1 DEF Positions
    <3> QED BY <3>2, <3>3
  <2> QED BY <2>1 DEF Positions, PositionOf
<1>4. CASE UNCHANGED vars
  <2>1. ASSUME NEW m \in Loan
        PROVE  PositionOf(loan'[m], rows'[m], paid'[m], m)
    <3>1. paid' = paid /\ rows' = rows /\ loan' = loan
        BY <1>4 DEF vars
    <3> QED BY <3>1 DEF Positions
  <2> QED BY <2>1 DEF Positions, PositionOf
<1> QED BY <1>2, <1>3, <1>4 DEF Next

\* Whatever dates payments and passes were made for, the stored columns tell one story.
THEOREM PositionHolds == Spec => []PositionCoherent
<1>1. Init => Positions
  <2> SUFFICES ASSUME Init, NEW l \in Loan
               PROVE  PositionOf(loan[l], rows[l], paid[l], l)
      BY DEF Positions
  <2> QED BY Booked DEF Init
<1>2. IInv /\ Positions /\ [Next]_vars => Positions'
    BY PositionsStep
<1>3. IInv /\ Positions => PositionCoherent
    BY PositionsCohere
<1> QED BY <1>1, <1>2, <1>3, Invariant, PTL DEF Spec

-------------------------------------------------------------------------------
(* The end of a loan.                                                      *)

\* "No payment can be posted to a CLOSED loan", and the nightly pass leaves it alone.
THEOREM ClosedIsFinalHolds == Spec => ClosedIsFinal
<1> DEFINE Final == \A l \in Loan : loan[l].status = "CLOSED" =>
              /\ paid'[l] = paid[l] /\ rows'[l] = rows[l] /\ loan'[l] = loan[l]
              /\ \A n \in DOMAIN receipts' \ DOMAIN receipts : receipts'[n].loan # l
<1>1. ASSUME IInv, [Next]_vars PROVE Final
  <2>1. /\ TypeOK /\ NeverOverpaid
        /\ paid \in [Loan -> Money] /\ rows \in [Loan -> [Installment -> ScheduleRow]]
        /\ loan \in [Loan -> LoanRow] /\ receipts \in Seq(Repayment)
      BY <1>1 DEF IInv, TypeOK
  <2>2. ASSUME NEW l \in Loan, NEW amount \in Amount, NEW date \in Date,
               NEW key \in Key \cup {NoKey}, RecordRepayment(l, amount, date, key)
        PROVE  Final
    <3> DEFINE r == Receipt(l, amount, AllocatePayment(amount, OwedNow(l)), key)
    <3>1. /\ paid' = [paid EXCEPT ![l] = After(l, amount)]
          /\ rows' = [rows EXCEPT ![l] = RefreshedRows(l, After(l, amount), date)]
          /\ loan' = [loan EXCEPT ![l] = RefreshedLoan(l, loan[l], After(l, amount), date)]
          /\ receipts' = Append(receipts, r)
          /\ loan[l].status = "ACTIVE"
        BY <2>1, <2>2, RecordRepaymentStep, Posted
    <3>2. r.loan = l
        BY <2>1, ReceiptIssued
    <3> HIDE DEF r
    <3>3. \A n \in DOMAIN receipts' \ DOMAIN receipts : receipts'[n].loan = l
        BY <2>1, <3>1, <3>2
    <3> QED BY <2>1, <3>1, <3>3
  <2>3. ASSUME NEW asOf \in Date, RunNightly(asOf)
        PROVE  Final
      BY <2>3 DEF RunNightly, ActiveLoans
  <2>4. CASE UNCHANGED vars
      BY <2>4 DEF vars
  <2> QED BY <1>1, <2>2, <2>3, <2>4 DEF Next
<1>2. IInv /\ [Next]_vars => [Final]_vars
    BY <1>1
<1> QED BY <1>2, Invariant, PTL DEF Spec, ClosedIsFinal

-------------------------------------------------------------------------------
(* The receivable.  An excess is left over only by the payment that ends a *)
(* loan, and Servicing implements Receivable.                              *)

\* A payment leaves something over only if it pays what is owed, and then its loan is closed.
LEMMA ExcessSettles ==
    ASSUME IInv, NEW l \in Loan, NEW amount \in Amount, NEW date \in Date, NEW key,
           RecordRepayment(l, amount, date, key), loan[l].status = "ACTIVE",
           Unallocated(l, amount) > 0
    PROVE  loan'[l].status = "CLOSED"
<1>1. TypeOK /\ NeverOverpaid /\ loan \in [Loan -> LoanRow]
    BY DEF IInv, TypeOK
<1>2. /\ After(l, amount) \in Money
      /\ \A k \in Slot : /\ paid[l][k] \in Nat /\ Due[l][k] \in Nat
                         /\ OwedNow(l)[k] = Due[l][k] - paid[l][k]
                         /\ Taken(l, amount)[k] = OwedNow(l)[k]
                         /\ After(l, amount)[k] = paid[l][k] + Taken(l, amount)[k]
                         /\ After(l, amount)[k] <= Due[l][k]
    BY <1>1, PaymentApplied
<1>3. \A k \in Slot : After(l, amount)[k] = Due[l][k]
    BY <1>2
<1>4. RefreshedLoan(l, loan[l], After(l, amount), date).status = "CLOSED"
    BY <1>2, <1>3, StatusRefreshed
<1>5. loan' = [loan EXCEPT ![l] = RefreshedLoan(l, loan[l], After(l, amount), date)]
    BY RecordRepaymentStep
<1> QED BY <1>1, <1>4, <1>5

\* What ExcessOnlyAtTheEnd says of one receipt.
ExcessClosed(n) ==
    /\ Excess(receipts[n]) >= 0
    /\ receipts[n].is_advance <=> Excess(receipts[n]) > 0
    /\ receipts[n].is_advance =>
         /\ loan[receipts[n].loan].status = "CLOSED"
         /\ \A m \in DOMAIN receipts : receipts[m].loan = receipts[n].loan => m <= n

\* An advance closes its loan, and no payment is posted on a closed one.
LEMMA ExcessPayment ==
    ASSUME IInv, ExcessOnlyAtTheEnd,
           NEW l \in Loan, NEW amount \in Amount, NEW date \in Date,
           NEW key \in Key \cup {NoKey}, RecordRepayment(l, amount, date, key)
    PROVE  ExcessOnlyAtTheEnd'
<1> DEFINE r == Receipt(l, amount, AllocatePayment(amount, OwedNow(l)), key)
           last == Len(receipts) + 1
<1>1. /\ TypeOK /\ NeverOverpaid /\ loan \in [Loan -> LoanRow]
      /\ receipts \in Seq(Repayment)
    BY DEF IInv, TypeOK
<1>2. /\ receipts' = Append(receipts, r) /\ loan[l].status = "ACTIVE"
      /\ loan' = [loan EXCEPT ![l] = RefreshedLoan(l, loan[l], After(l, amount), date)]
    BY <1>1, RecordRepaymentStep, Posted
<1>3. /\ r \in Repayment /\ r.loan = l /\ Excess(r) = Unallocated(l, amount)
      /\ r.is_advance <=> Unallocated(l, amount) > 0
      /\ Unallocated(l, amount) \in Nat
    BY <1>1, ReceiptIssued, PaymentApplied
<1> HIDE DEF r
<1>4. /\ Len(receipts) \in Nat
      /\ DOMAIN receipts = 1..Len(receipts) /\ DOMAIN receipts' = 1..last
      /\ \A n \in 1..Len(receipts) : receipts'[n] = receipts[n] /\ receipts[n].loan \in Loan
      /\ receipts'[last] = r
  <2>1. /\ Len(receipts) \in Nat
        /\ DOMAIN receipts = 1..Len(receipts) /\ DOMAIN receipts' = 1..last
        /\ \A n \in 1..Len(receipts) : receipts'[n] = receipts[n] /\ receipts[n] \in Repayment
        /\ receipts'[last] = r
      BY <1>1, <1>2, <1>3
  <2>2. \A x \in Repayment : x.loan \in Loan
      BY DEF Repayment
  <2> QED BY <2>1, <2>2
<1>5. ASSUME NEW n \in 1..Len(receipts) PROVE ExcessClosed(n)'
  <2>1. ExcessClosed(n)
      BY <1>4 DEF ExcessOnlyAtTheEnd, ExcessClosed
  <2>2. receipts'[n] = receipts[n]
      BY <1>4
  <2>3. ASSUME receipts[n].is_advance
        PROVE  /\ loan'[receipts[n].loan].status = "CLOSED"
               /\ \A m \in DOMAIN receipts' : receipts'[m].loan = receipts[n].loan => m <= n
    <3>1. /\ loan[receipts[n].loan].status = "CLOSED" /\ receipts[n].loan # l
          /\ \A m \in DOMAIN receipts : receipts[m].loan = receipts[n].loan => m <= n
        BY <1>2, <2>1, <2>3 DEF ExcessClosed
    <3>2. loan'[receipts[n].loan] = loan[receipts[n].loan]
        BY <1>1, <1>2, <1>4, <3>1
    <3>3. ASSUME NEW m \in DOMAIN receipts', receipts'[m].loan = receipts[n].loan
          PROVE  m <= n
      <4>1. m # last
          BY <1>3, <1>4, <3>1, <3>3
      <4>2. m \in 1..Len(receipts)
          BY <1>4, <4>1
      <4> QED BY <1>4, <3>1, <3>3, <4>2
    <3> QED BY <3>1, <3>2, <3>3
  <2> QED BY <2>1, <2>2, <2>3 DEF ExcessClosed
<1>6. ASSUME NEW n, n = last PROVE ExcessClosed(n)'
  <2>1. Excess(r) >= 0 /\ (r.is_advance <=> Excess(r) > 0)
      BY <1>3
  <2>2. r.is_advance => loan'[r.loan].status = "CLOSED"
      BY <1>2, <1>3, ExcessSettles
  <2>3. \A m \in DOMAIN receipts' : m <= n
      BY <1>4, <1>6
  <2>4. receipts'[n] = r
      BY <1>4, <1>6
  <2> QED BY <2>1, <2>2, <2>3, <2>4 DEF ExcessClosed
<1>7. \A n \in DOMAIN receipts' : n \in 1..Len(receipts) \/ n = last
    BY <1>4
<1>8. ASSUME NEW n \in DOMAIN receipts' PROVE ExcessClosed(n)'
    BY <1>5, <1>6, <1>7
<1> QED BY <1>8 DEF ExcessOnlyAtTheEnd, ExcessClosed

\* An advance is the payment that closes its loan, and no receipt follows it.
THEOREM ExcessHolds == Spec => []ExcessOnlyAtTheEnd
<1>1. Init => ExcessOnlyAtTheEnd
    BY DEF Init, ExcessOnlyAtTheEnd
<1>2. ASSUME IInv, ExcessOnlyAtTheEnd, NEW asOf \in Date, RunNightly(asOf)
      PROVE  ExcessOnlyAtTheEnd'
  <2>1. receipts' = receipts /\ \A l \in Loan : loan'[l].status = loan[l].status
      BY <1>2, InvariantNightly DEF RunNightly
  <2>2. \A n \in DOMAIN receipts : receipts[n].loan \in Loan
      BY <1>2, ReceiptTyped DEF IInv, Repayment
  <2> QED BY <1>2, <2>1, <2>2 DEF ExcessOnlyAtTheEnd
<1>3. IInv /\ ExcessOnlyAtTheEnd /\ [Next]_vars => ExcessOnlyAtTheEnd'
  <2> SUFFICES ASSUME IInv, ExcessOnlyAtTheEnd, [Next]_vars
               PROVE  ExcessOnlyAtTheEnd'
      OBVIOUS
  <2>1. CASE UNCHANGED vars
      BY <2>1 DEF vars, ExcessOnlyAtTheEnd
  <2>2. CASE Next
      BY <1>2, <2>2, ExcessPayment DEF Next
  <2> QED BY <2>1, <2>2
<1> QED BY <1>1, <1>3, Invariant, PTL DEF Spec

-------------------------------------------------------------------------------
(* What is received and what is due, where requests overlap.               *)

\* A sum over the receipts grows by the term of the new one.
LEMMA TallyMore ==
    ASSUME NEW book \in Seq(Repayment), NEW r, NEW f, NEW g,
           \A n \in 1..Len(book) : f[n] = g[n]
    PROVE  Total(g, Len(Append(book, r))) = Total(f, Len(book)) + g[Len(book) + 1]
<1>1. Len(book) \in Nat /\ Len(Append(book, r)) = Len(book) + 1
    OBVIOUS
<1>2. Total(g, Len(book) + 1) = Total(f, Len(book)) + g[Len(book) + 1]
    BY <1>1, TotalOneMore
<1> QED BY <1>1, <1>2

\* What is to be received is a natural, and nothing exactly if the schedule has been paid.
LEMMA BalanceTyped ==
    ASSUME NEW l \in Loan, NEW now \in Money, \A k \in Slot : now[k] <= Due[l][k]
    PROVE  /\ Total(Owed(Due[l], now), Slots) \in Nat
           /\ Total(Owed(Due[l], now), Slots) = 0 <=> \A k \in Slot : now[k] = Due[l][k]
<1> DEFINE owed == Owed(Due[l], now)
<1>1. \A k \in Slot : /\ now[k] \in Nat /\ Due[l][k] \in Nat /\ owed[k] \in Nat
                      /\ owed[k] = Due[l][k] - now[k]
    BY OwedTyped
<1> HIDE DEF owed
<1>2. \A k \in 1..Slots : owed[k] \in Nat
    BY <1>1 DEF Slot
<1>3. Total(owed, Slots) \in Nat /\ (Total(owed, Slots) = 0 <=> \A k \in 1..Slots : owed[k] = 0)
    BY <1>2, TotalType, TotalZero, SlotFacts
<1>4. \A k \in Slot : owed[k] = 0 <=> now[k] = Due[l][k]
    BY <1>1
<1> QED BY <1>3, <1>4 DEF owed, Slot

\* allocate_payment: the balance falls by the payment, down to nothing; the rest is left over.
LEMMA BalanceFalls ==
    ASSUME TypeOK, NeverOverpaid, NEW l \in Loan, NEW amount \in Amount,
           NEW before, before = Total(OwedNow(l), Slots),
           NEW after, after = Total(Owed(Due[l], After(l, amount)), Slots)
    PROVE  /\ before \in Nat /\ after \in Nat /\ amount \in Nat
           /\ after = IF amount <= before THEN before - amount ELSE 0
           /\ Unallocated(l, amount) = IF amount <= before THEN 0 ELSE amount - before
<1> DEFINE taken == Taken(l, amount)
           rest == Unallocated(l, amount)
           owed == Owed(Due[l], After(l, amount))
<1>1. /\ taken \in Money /\ rest \in Nat /\ amount \in Nat /\ OwedNow(l) \in Money
      /\ \A k \in Slot : After(l, amount)[k] <= Due[l][k]
      /\ After(l, amount) \in Money
      /\ \A k \in Slot : /\ paid[l][k] \in Nat /\ Due[l][k] \in Nat /\ taken[k] \in Nat
                         /\ OwedNow(l)[k] = Due[l][k] - paid[l][k]
                         /\ After(l, amount)[k] = paid[l][k] + taken[k]
      /\ rest > 0 => \A k \in Slot : taken[k] = OwedNow(l)[k]
      /\ Total(taken, Slots) + rest = amount
    BY PaymentApplied
<1>2. \A k \in Slot : owed[k] = Due[l][k] - After(l, amount)[k]
    BY DEF Owed
<1> HIDE DEF taken, rest, owed
<1>3. \A k \in 1..Slots : /\ owed[k] \in Int /\ taken[k] \in Int
                          /\ OwedNow(l)[k] = owed[k] + taken[k]
    BY <1>1, <1>2 DEF Slot
<1>4. before = after + Total(taken, Slots)
    BY <1>3, TotalPlus, SlotFacts DEF owed
<1>5. after \in Nat /\ (after = 0 <=> \A k \in Slot : After(l, amount)[k] = Due[l][k])
    BY <1>1, BalanceTyped
<1>6. Total(taken, Slots) \in Nat
  <2>1. \A k \in 1..Slots : taken[k] \in Nat
      BY <1>1 DEF Slot
  <2> QED BY <2>1, TotalType, SlotFacts
<1>7. rest > 0 => after = 0
  <2>1. ASSUME rest > 0, NEW k \in Slot PROVE After(l, amount)[k] = Due[l][k]
      BY <1>1, <2>1
  <2> QED BY <1>5, <2>1
<1> QED BY <1>1, <1>4, <1>5, <1>6, <1>7 DEF rest

\* A payment is a payment of the receivable, for its amount and under its key.
LEMMA PaymentPays ==
    ASSUME IInv, NEW l \in Loan, NEW amount \in Amount, NEW date \in Date,
           NEW key \in Key \cup {NoKey}, RecordRepayment(l, amount, date, key)
    PROVE  Contract!Pay(l, amount, key)
<1> DEFINE r == Receipt(l, amount, AllocatePayment(amount, OwedNow(l)), key)
<1>1. /\ TypeOK /\ NeverOverpaid /\ paid \in [Loan -> Money] /\ loan \in [Loan -> LoanRow]
      /\ receipts \in Seq(Repayment)
    BY DEF IInv, TypeOK
<1>2. /\ paid' = [paid EXCEPT ![l] = After(l, amount)]
      /\ receipts' = Append(receipts, r) /\ Answer(l, key) = "post"
      /\ loan' = [loan EXCEPT ![l] = RefreshedLoan(l, loan[l], After(l, amount), date)]
      /\ loan[l].status = "ACTIVE"
      /\ key # NoKey => \A n \in DOMAIN receipts : receipts[n].idempotency_key # key
    BY <1>1, RecordRepaymentStep, Posted
<1>3. /\ r \in Repayment /\ r.loan = l /\ r.idempotency_key = key
      /\ Excess(r) = Unallocated(l, amount)
    BY <1>1, ReceiptIssued
<1> HIDE DEF r
<1>4. /\ balance[l] \in Nat /\ balance'[l] \in Nat /\ amount \in Nat
      /\ balance'[l] = IF amount <= balance[l] THEN balance[l] - amount ELSE 0
      /\ Unallocated(l, amount) = IF amount <= balance[l] THEN 0 ELSE amount - balance[l]
  <2>1. balance[l] = Total(OwedNow(l), Slots)
      BY DEF balance, OwedNow
  <2>2. balance'[l] = Total(Owed(Due[l], After(l, amount)), Slots)
      BY <1>1, <1>2 DEF balance
  <2> QED BY <1>1, <2>1, <2>2, BalanceFalls
<1>5. balance' = [balance EXCEPT ![l] = IF amount <= @ THEN @ - amount ELSE 0]
  <2>1. \A m \in Loan \ {l} : balance'[m] = balance[m]
      BY <1>1, <1>2 DEF balance
  <2>2. balance = [m \in Loan |-> balance[m]] /\ balance' = [m \in Loan |-> balance'[m]]
      BY DEF balance
  <2> HIDE DEF balance
  <2> QED BY <1>4, <2>1, <2>2
<1>6. credit' = [credit EXCEPT ![l] = IF amount <= balance[l] THEN @ ELSE @ + amount - balance[l]]
  <2>1. ASSUME NEW m \in Loan
        PROVE  /\ credit[m] \in Int
               /\ credit'[m] = credit[m] + (IF m = l THEN Unallocated(l, amount) ELSE 0)
    <3> DEFINE f == [n \in DOMAIN receipts |->
                        IF receipts[n].loan = m THEN Excess(receipts[n]) ELSE 0]
               g == [n \in DOMAIN receipts' |->
                        IF receipts'[n].loan = m THEN Excess(receipts'[n]) ELSE 0]
    <3>1. credit[m] = Total(f, Len(receipts)) /\ credit'[m] = Total(g, Len(receipts'))
        BY DEF credit
    <3>2. /\ \A n \in 1..Len(receipts) : f[n] = g[n] /\ f[n] \in Int
          /\ g[Len(receipts) + 1] = IF m = l THEN Excess(r) ELSE 0
      <4>1. \A x \in Repayment : Excess(x) \in Int
        <5> SUFFICES ASSUME NEW x \in Repayment PROVE Excess(x) \in Int
            OBVIOUS
        <5>1. /\ x.amount_paid \in Nat /\ x.penalty \in Nat /\ x.interest \in Nat
              /\ x.principal \in Nat
            BY AmountAssumption DEF Repayment
        <5> QED BY <5>1 DEF Excess
      <4> QED BY <1>1, <1>2, <1>3, <4>1
    <3> HIDE DEF f, g
    <3>3. Total(g, Len(receipts')) = Total(f, Len(receipts)) + g[Len(receipts) + 1]
        BY <1>1, <1>2, <3>2, TallyMore
    <3>4. Total(f, Len(receipts)) \in Int
        BY <1>1, <3>2, TotalInt
    <3> QED BY <1>3, <3>1, <3>2, <3>3, <3>4
  <2>2. credit = [m \in Loan |-> credit[m]] /\ credit' = [m \in Loan |-> credit'[m]]
      BY DEF credit
  <2>3. /\ credit[l] \in Int
        /\ credit'[l] = IF amount <= balance[l] THEN credit[l] ELSE credit[l] + amount - balance[l]
        /\ \A m \in Loan \ {l} : credit'[m] = credit[m]
    <3> HIDE DEF credit, balance
    <3>1. credit[l] \in Int /\ credit'[l] = credit[l] + Unallocated(l, amount)
        BY <2>1
    <3>2. \A m \in Loan \ {l} : credit'[m] = credit[m]
        BY <2>1
    <3> QED BY <1>4, <3>1, <3>2
  <2> HIDE DEF credit, balance
  <2> QED BY <2>2, <2>3
<1>7. ActiveLoans' = IF amount < balance[l] THEN ActiveLoans ELSE ActiveLoans \ {l}
  <2> DEFINE s == RefreshedLoan(l, loan[l], After(l, amount), date)
  <2>1. /\ After(l, amount) \in Money /\ \A k \in Slot : After(l, amount)[k] <= Due[l][k]
      BY <1>1, PaymentApplied
  <2>2. /\ s \in LoanRow
        /\ s.status = "CLOSED" <=> \A k \in Slot : After(l, amount)[k] = Due[l][k]
    <3>1. s \in LoanRow
        BY <1>2, <2>1, DateAssumption, PositionRefreshed
    <3>2. s.status = "CLOSED"
            <=> loan[l].status = "CLOSED" \/ \A k \in Slot : After(l, amount)[k] = Due[l][k]
        BY <1>2, <2>1, StatusRefreshed
    <3> HIDE DEF s
    <3> QED BY <1>2, <3>1, <3>2
  <2>3. balance'[l] = 0 <=> \A k \in Slot : After(l, amount)[k] = Due[l][k]
    <3>1. balance'[l] = Total(Owed(Due[l], After(l, amount)), Slots)
        BY <1>1, <1>2 DEF balance
    <3> QED BY <2>1, <3>1, BalanceTyped
  <2> HIDE DEF s, balance
  <2>4. s.status = "ACTIVE" <=> amount < balance[l]
    <3>1. s.status \in {"ACTIVE", "CLOSED"}
        BY <2>2 DEF LoanRow
    <3>2. balance'[l] = 0 <=> ~(amount < balance[l])
        BY <1>4
    <3> QED BY <2>2, <2>3, <3>1, <3>2
  <2>5. loan'[l] = s /\ \A m \in Loan \ {l} : loan'[m] = loan[m]
      BY <1>1, <1>2 DEF s
  <2>6. ASSUME NEW m \in Loan
        PROVE  loan'[m].status = "ACTIVE" <=>
                 loan[m].status = "ACTIVE" /\ (amount < balance[l] \/ m # l)
      BY <1>2, <2>4, <2>5
  <2> QED BY <1>2, <2>6 DEF ActiveLoans
<1>8. honoured' = [k \in Key |-> IF k = key THEN honoured[k] + 1 ELSE honoured[k]]
  <2>1. ASSUME NEW k \in Key
        PROVE  honoured'[k] = IF k = key THEN honoured[k] + 1 ELSE honoured[k]
    <3> DEFINE f == [n \in DOMAIN receipts |->
                        IF receipts[n].idempotency_key = k THEN 1 ELSE 0]
               g == [n \in DOMAIN receipts' |->
                        IF receipts'[n].idempotency_key = k THEN 1 ELSE 0]
    <3>1. honoured[k] = Total(f, Len(receipts)) /\ honoured'[k] = Total(g, Len(receipts'))
        BY DEF honoured
    <3>2. /\ \A n \in 1..Len(receipts) : f[n] = g[n] /\ f[n] \in Int
          /\ g[Len(receipts) + 1] = IF k = key THEN 1 ELSE 0
        BY <1>1, <1>2, <1>3
    <3> HIDE DEF f, g
    <3>3. Total(g, Len(receipts')) = Total(f, Len(receipts)) + g[Len(receipts) + 1]
        BY <1>1, <1>2, <3>2, TallyMore
    <3>4. Total(f, Len(receipts)) \in Int
        BY <1>1, <3>2, TotalInt
    <3> QED BY <3>1, <3>2, <3>3, <3>4
  <2>2. honoured' = [k \in Key |-> honoured'[k]]
      BY DEF honoured
  <2> HIDE DEF honoured
  <2> QED BY <2>1, <2>2
<1>9. l \in ActiveLoans
    BY <1>2 DEF ActiveLoans
<1>10. key # NoKey => honoured[key] = 0
  <2> SUFFICES ASSUME key # NoKey PROVE honoured[key] = 0
      OBVIOUS
  <2> DEFINE f == [n \in DOMAIN receipts |->
                      IF receipts[n].idempotency_key = key THEN 1 ELSE 0]
  <2>1. Len(receipts) \in Nat /\ \A n \in 1..Len(receipts) : f[n] = 0 /\ f[n] \in Nat
      BY <1>1, <1>2
  <2>2. honoured[key] = Total(f, Len(receipts))
      BY DEF honoured
  <2> HIDE DEF f
  <2> QED BY <2>1, <2>2, TotalZero
<1> HIDE DEF balance, credit, honoured
<1> QED BY <1>5, <1>6, <1>7, <1>8, <1>9, <1>10 DEF Contract!Pay

\* book_loan: before any payment, the whole schedule is to be received.
LEMMA ReceivableInit ==
    ASSUME Init
    PROVE  Contract!Init
<1>1. receipts = << >> /\ \A l \in Loan : paid[l] = NothingPaid
    BY DEF Init
<1>2. balance = [l \in Loan |-> Total(Due[l], Slots)]
  <2>1. ASSUME NEW l \in Loan PROVE Total(Owed(Due[l], paid[l]), Slots) = Total(Due[l], Slots)
    <3>1. \A k \in 1..Slots : Owed(Due[l], paid[l])[k] = Due[l][k]
      <4>1. \A k \in Slot : paid[l][k] = 0 /\ Due[l][k] \in Nat
          BY <1>1, DueAssumption DEF NothingPaid, Money
      <4> QED BY <4>1 DEF Owed, Slot
    <3> QED BY <3>1, TotalSame, SlotFacts
  <2> QED BY <2>1 DEF balance
<1>3. \A f : Total(f, Len(receipts)) = 0
    BY <1>1, UptoStep DEF Total
<1>4. credit = [l \in Loan |-> 0] /\ honoured = [k \in Key |-> 0]
    BY <1>3 DEF credit, honoured
<1>5. ActiveLoans = Loan
  <2>1. \A l \in Loan : loan[l].status = "ACTIVE"
      BY DEF Init, BookedLoan
  <2> QED BY <2>1 DEF ActiveLoans
<1> QED BY <1>2, <1>4, <1>5 DEF Contract!Init

\* A request is a payment of the receivable or leaves it as it is.
LEMMA ReceivableStep ==
    ASSUME IInv, [Next]_vars
    PROVE  [Contract!Next]_(Contract!vars)
<1>1. ASSUME NEW l \in Loan, NEW amount \in Amount, NEW date \in Date,
             NEW key \in Key \cup {NoKey}, RecordRepayment(l, amount, date, key)
      PROVE  Contract!Next
  <2>1. Contract!Pay(l, amount, key)
      BY <1>1, PaymentPays
  <2> QED BY <2>1 DEF Contract!Next
<1>2. ASSUME NEW asOf \in Date, RunNightly(asOf)
      PROVE  UNCHANGED Contract!vars
  <2>1. paid' = paid /\ receipts' = receipts /\ \A l \in Loan : loan'[l].status = loan[l].status
      BY <1>2, InvariantNightly DEF RunNightly
  <2> QED BY <2>1 DEF Contract!vars, balance, credit, honoured, ActiveLoans
<1>3. CASE UNCHANGED vars
    BY <1>3 DEF vars, Contract!vars, balance, credit, honoured, ActiveLoans
<1> QED BY <1>1, <1>2, <1>3 DEF Next

\* Servicing implements Receivable.
THEOREM Refinement == Spec => ImplementsReceivable
<1>1. Init => Contract!Init
    BY ReceivableInit
<1>2. IInv /\ [Next]_vars => [Contract!Next]_(Contract!vars)
    BY ReceivableStep
<1> QED BY <1>1, <1>2, Invariant, PTL DEF Spec, ImplementsReceivable, Contract!Spec

-------------------------------------------------------------------------------

\* What a request has copied never shows more paid than is owed.
Copies ==
    \A w \in Worker : req[w] # Idle =>
      /\ \A k \in Slot : req[w].paid[k] <= Due[req[w].loan][k]
      /\ req[w].op = "pay" => req[w].amount \in Amount

\* all: a schedule that shows every receipt of loan l.
Backs(all, l) ==
    /\ \A b \in Components : Component(all, b) = Received(receipts, l, b)
    /\ \A k \in Slot : paid[l][k] <= all[k]
    /\ \A w \in Worker : req[w] # Idle /\ req[w].loan = l =>
         \A k \in Slot : req[w].paid[k] <= all[k]

Backed == \A l \in Loan : \E all \in Money : Backs(all, l)

RacesIInv == RacesTypeOK /\ Copies /\ NeverOverpaid /\ Backed /\ OneReceiptPerKey

-------------------------------------------------------------------------------
(* Columns written back.                                                   *)

\* What a request did not change stays as it stands.
LEMMA Written ==
    ASSUME NEW current, NEW old, NEW new
    PROVE  /\ DOMAIN Write(current, old, new) = DOMAIN current
           /\ \A c \in DOMAIN current :
                Write(current, old, new)[c] = IF new[c] = old[c] THEN current[c] ELSE new[c]
    BY DEF Write

\* A row mixed from two rows is a row.
LEMMA LoanWritten ==
    ASSUME NEW current \in LoanRow, NEW old, NEW new \in LoanRow
    PROVE  /\ Write(current, old, new) \in LoanRow
           /\ Write(current, old, new).status =
                IF new.status = old.status THEN current.status ELSE new.status
<1> DEFINE mixed == Write(current, old, new)
<1>1. DOMAIN current = {"status", "days_past_due", "overdue_amount", "outstanding_principal",
                        "total_paid", "installments_paid", "installments_overdue",
                        "classification"}
    BY DEF LoanRow
<1>2. mixed = [status |-> mixed.status, days_past_due |-> mixed.days_past_due,
               overdue_amount |-> mixed.overdue_amount,
               outstanding_principal |-> mixed.outstanding_principal,
               total_paid |-> mixed.total_paid, installments_paid |-> mixed.installments_paid,
               installments_overdue |-> mixed.installments_overdue,
               classification |-> mixed.classification]
    BY <1>1 DEF Write
<1>3. \A c \in DOMAIN current : mixed[c] = current[c] \/ mixed[c] = new[c]
    BY Written
<1>4. mixed.status = IF new.status = old.status THEN current.status ELSE new.status
    BY <1>1, Written
<1> HIDE DEF mixed
<1>5. /\ mixed.status \in {"ACTIVE", "CLOSED"} /\ mixed.days_past_due \in Nat
      /\ mixed.overdue_amount \in Nat /\ mixed.outstanding_principal \in Nat
      /\ mixed.total_paid \in Nat /\ mixed.installments_paid \in Nat
      /\ mixed.installments_overdue \in Nat /\ mixed.classification \in Classification
    BY <1>1, <1>3 DEF LoanRow
<1>6. mixed \in LoanRow
    BY <1>2, <1>5 DEF LoanRow
<1> QED BY <1>4, <1>6 DEF mixed

\* A schedule row mixed from two rows is a schedule row (refresh_position writes columns).
LEMMA RowWritten ==
    ASSUME NEW current \in ScheduleRow, NEW old, NEW new \in ScheduleRow
    PROVE  Write(current, old, new) \in ScheduleRow
<1> DEFINE mixed == Write(current, old, new)
<1>1. DOMAIN current = {"days_past_due", "status"}
    BY DEF ScheduleRow
<1>2. mixed = [days_past_due |-> mixed.days_past_due, status |-> mixed.status]
    BY <1>1 DEF Write
<1>3. \A c \in DOMAIN current : mixed[c] = current[c] \/ mixed[c] = new[c]
    BY Written
<1> HIDE DEF mixed
<1>4. /\ mixed.days_past_due \in Nat
      /\ mixed.status \in {"PENDING", "PARTIAL", "OVERDUE", "PAID"}
    BY <1>1, <1>3 DEF ScheduleRow
<1> QED BY <1>2, <1>4 DEF ScheduleRow, mixed

\* More on every slot is more of every component.
LEMMA ComponentMonotone ==
    ASSUME NEW x \in Money, NEW y \in Money, \A k \in Slot : x[k] <= y[k], NEW b
    PROVE  Component(x, b) <= Component(y, b)
<1> DEFINE z == [k \in Slot |-> y[k] - x[k]]
<1>1. \A k \in Slot : /\ x[k] \in Nat /\ y[k] \in Nat
                      /\ z[k] = y[k] - x[k] /\ z[k] \in Nat /\ y[k] = x[k] + z[k]
    BY DEF Money
<1>2. z \in Money
    BY <1>1 DEF Money
<1> HIDE DEF z
<1>3. Component(y, b) = Component(x, b) + Component(z, b)
    BY <1>1, <1>2, ComponentPlus
<1> QED BY <1>2, <1>3, ComponentType

-------------------------------------------------------------------------------
(* A commit.                                                               *)

\* The flush of a request whose copies stood at r.paid and whose rows now stand at now.
LEMMA Flushed ==
    ASSUME RacesTypeOK, NeverOverpaid, NEW r \in Request,
           NEW now \in Money, \A k \in Slot : now[k] <= Due[r.loan][k],
           NEW row \in LoanRow, Flush(r, now, row)
    PROVE  /\ paid' \in [Loan -> Money] /\ rows' \in [Loan -> [Installment -> ScheduleRow]]
           /\ loan' \in [Loan -> LoanRow]
           /\ \A l \in Loan : l # r.loan => paid'[l] = paid[l] /\ loan'[l] = loan[l]
           /\ \A k \in Slot : paid'[r.loan][k] =
                IF now[k] = r.paid[k] THEN paid[r.loan][k] ELSE now[k]
           /\ loan'[r.loan].status =
                IF row.status = r.row.status THEN loan[r.loan].status ELSE row.status
<1> DEFINE l == r.loan
           new == RefreshedRows(l, now, r.date)
           p == Write(paid[l], r.paid, now)
           s == Write(loan[l], r.row, row)
           rs == [i \in Installment |-> Write(rows[l][i], r.rows[i], new[i])]
<1>1. /\ l \in Loan /\ r.date \in Nat
      /\ paid \in [Loan -> Money] /\ rows \in [Loan -> [Installment -> ScheduleRow]]
      /\ loan \in [Loan -> LoanRow]
    BY DateAssumption DEF RacesTypeOK, TypeOK, Request
<1>2. /\ paid' = [paid EXCEPT ![l] = p] /\ loan' = [loan EXCEPT ![l] = s]
      /\ rows' = [rows EXCEPT ![l] = rs]
    BY DEF Flush
<1>3. DOMAIN paid[l] = Slot /\ \A k \in Slot : paid[l][k] \in Nat /\ now[k] \in Nat
    BY <1>1 DEF Money
<1>4. /\ p \in Money
      /\ \A k \in Slot : p[k] = IF now[k] = r.paid[k] THEN paid[l][k] ELSE now[k]
  <2>1. p = [k \in Slot |-> IF now[k] = r.paid[k] THEN paid[l][k] ELSE now[k]]
      BY <1>3 DEF Write
  <2> HIDE DEF p
  <2> QED BY <1>3, <2>1 DEF Money
<1>5. /\ s \in LoanRow
      /\ s.status = IF row.status = r.row.status THEN loan[l].status ELSE row.status
    BY <1>1, LoanWritten
<1>6. new \in [Installment -> ScheduleRow]
  <2>1. \A i \in Installment : new[i] \in ScheduleRow
      BY <1>1, RowRefreshed
  <2> QED BY <2>1 DEF RefreshedRows
<1> HIDE DEF new, p, s
<1>7. rs \in [Installment -> ScheduleRow]
    BY <1>1, <1>6, RowWritten
<1> HIDE DEF rs
<1> QED BY <1>1, <1>2, <1>4, <1>5, <1>7 DEF l

\* A payment's commit: the receipt, and the schedule it computed from its copy.
LEMMA PaymentCommitted ==
    ASSUME RacesIInv, NEW w \in Worker, CommitPayment(w)
    PROVE  \E taken \in Money, receipt \in Repayment :
             /\ receipts' = Append(receipts, receipt)
             /\ receipt.loan = req[w].loan /\ receipt.idempotency_key = req[w].key
             /\ \A b \in Components : receipt[b] = Component(taken, b)
             /\ \A k \in Slot : /\ req[w].paid[k] \in Nat /\ taken[k] \in Nat
                                /\ req[w].paid[k] + taken[k] <= Due[req[w].loan][k]
                                /\ paid'[req[w].loan][k] =
                                     IF taken[k] = 0 THEN paid[req[w].loan][k]
                                     ELSE req[w].paid[k] + taken[k]
             /\ \A l \in Loan : l # req[w].loan => paid'[l] = paid[l] /\ loan'[l] = loan[l]
             /\ loan'[req[w].loan].status \in {loan[req[w].loan].status, "CLOSED"}
             /\ paid' \in [Loan -> Money] /\ rows' \in [Loan -> [Installment -> ScheduleRow]]
             /\ loan' \in [Loan -> LoanRow]
             /\ req' = [req EXCEPT ![w] = Idle] /\ req[w] # Idle
<1> DEFINE r == req[w]
           owed == Owed(Due[r.loan], r.paid)
           allocation == AllocatePayment(r.amount, owed)
           taken == allocation.taken
           now == [k \in Slot |-> r.paid[k] + taken[k]]
           row == RefreshedLoan(r.loan, r.row, now, r.date)
           receipt == Receipt(r.loan, r.amount, allocation, r.key)
<1>1. /\ r.op = "pay" /\ Flush(r, now, row) /\ receipts' = Append(receipts, receipt)
      /\ req' = [req EXCEPT ![w] = Idle]
    BY DEF CommitPayment, Release
<1>2. r # Idle
    BY <1>1 DEF Idle
<1>3. /\ r \in Request /\ r.loan \in Loan /\ r.paid \in Money /\ r.amount \in Amount
      /\ r.key \in Key \cup {NoKey} /\ r.date \in Nat /\ r.row \in LoanRow
      /\ \A k \in Slot : r.paid[k] <= Due[r.loan][k]
    BY <1>1, <1>2, DateAssumption DEF RacesIInv, RacesTypeOK, TypeOK, Copies, Request
<1>4. /\ taken \in Money /\ now \in Money /\ allocation.unallocated \in Nat
      /\ \A k \in Slot : /\ r.paid[k] \in Nat /\ taken[k] \in Nat
                         /\ now[k] = r.paid[k] + taken[k] /\ now[k] <= Due[r.loan][k]
      /\ Total(taken, Slots) + allocation.unallocated = r.amount
    BY <1>3, PaymentAllocated
<1> HIDE DEF owed, allocation, now
<1>5. /\ receipt \in Repayment /\ receipt.loan = r.loan /\ receipt.idempotency_key = r.key
      /\ \A b \in Components : receipt[b] = Component(taken, b)
  <2>1. /\ allocation.taken \in Money /\ allocation.unallocated \in Nat
        /\ Total(allocation.taken, Slots) + allocation.unallocated = r.amount
      BY <1>4
  <2>2. r.loan \in Loan /\ r.amount \in Amount /\ r.key \in Key \cup {NoKey}
      BY <1>3
  <2> HIDE DEF r
  <2> QED BY <2>1, <2>2, ReceiptWritten
<1> HIDE DEF taken, receipt
<1>6. r.row.status \in {"ACTIVE", "CLOSED"}
    BY <1>3 DEF LoanRow
<1>7. row \in LoanRow
    BY <1>3, <1>4, <1>6, PositionRefreshed
<1>8. row.status \in {r.row.status, "CLOSED"}
    BY DEF RefreshedLoan
<1> HIDE DEF r, row
<1>9. RacesTypeOK /\ NeverOverpaid
    BY DEF RacesIInv
<1>10. /\ paid' \in [Loan -> Money] /\ rows' \in [Loan -> [Installment -> ScheduleRow]]
       /\ loan' \in [Loan -> LoanRow]
       /\ \A l \in Loan : l # r.loan => paid'[l] = paid[l] /\ loan'[l] = loan[l]
       /\ \A k \in Slot : paid'[r.loan][k] =
            IF now[k] = r.paid[k] THEN paid[r.loan][k] ELSE now[k]
       /\ loan'[r.loan].status =
            IF row.status = r.row.status THEN loan[r.loan].status ELSE row.status
  <2>1. now \in Money /\ \A k \in Slot : now[k] <= Due[r.loan][k]
      BY <1>4
  <2> QED BY <1>1, <1>3, <1>7, <1>9, <2>1, Flushed
<1>11. \A k \in Slot : paid'[r.loan][k] =
          IF taken[k] = 0 THEN paid[r.loan][k] ELSE r.paid[k] + taken[k]
  <2>1. \A k \in Slot : /\ r.paid[k] \in Nat /\ taken[k] \in Nat
                         /\ now[k] = r.paid[k] + taken[k]
      BY <1>4
  <2>2. \A k \in Slot : now[k] = r.paid[k] <=> taken[k] = 0
      BY <2>1
  <2> QED BY <1>10, <2>1, <2>2
<1>12. loan'[r.loan].status \in {loan[r.loan].status, "CLOSED"}
    BY <1>8, <1>10
<1>13. \A k \in Slot : r.paid[k] + taken[k] <= Due[r.loan][k]
    BY <1>4
<1> QED BY <1>1, <1>2, <1>4, <1>5, <1>10, <1>11, <1>12, <1>13 DEF r

\* The nightly pass pays nothing: it writes the position its copies add up to.
LEMMA NightlyCommitted ==
    ASSUME RacesIInv, NEW w \in Worker, CommitNightly(w)
    PROVE  /\ paid' = paid /\ receipts' = receipts
           /\ rows' \in [Loan -> [Installment -> ScheduleRow]] /\ loan' \in [Loan -> LoanRow]
           /\ \A l \in Loan : loan'[l].status \in {loan[l].status, "CLOSED"}
           /\ req' = [req EXCEPT ![w] = Idle] /\ req[w] # Idle
<1> DEFINE r == req[w]
           s == RefreshedLoan(r.loan, r.row, r.paid, r.date)
           row == Reclassified(s)
<1>1. /\ r.op = "nightly" /\ Flush(r, r.paid, row) /\ receipts' = receipts
      /\ req' = [req EXCEPT ![w] = Idle]
    BY DEF CommitNightly, Release
<1>2. r # Idle
    BY <1>1 DEF Idle
<1>3. /\ r \in Request /\ r.loan \in Loan /\ r.paid \in Money
      /\ r.date \in Nat /\ r.row \in LoanRow
      /\ \A k \in Slot : r.paid[k] <= Due[r.loan][k]
    BY <1>2, DateAssumption DEF RacesIInv, RacesTypeOK, TypeOK, Copies, Request
<1>4. r.row.status \in {"ACTIVE", "CLOSED"}
    BY <1>3 DEF LoanRow
<1>5. s \in LoanRow /\ Reclassified(s) = s
    BY <1>3, <1>4, PositionRefreshed
<1>6. s.status \in {r.row.status, "CLOSED"}
    BY DEF RefreshedLoan
<1> HIDE DEF r, s
<1>7. row \in LoanRow /\ row.status \in {r.row.status, "CLOSED"}
    BY <1>5, <1>6
<1> HIDE DEF row
<1>8. RacesTypeOK /\ NeverOverpaid
    BY DEF RacesIInv
<1>9. /\ paid' \in [Loan -> Money] /\ rows' \in [Loan -> [Installment -> ScheduleRow]]
      /\ loan' \in [Loan -> LoanRow]
      /\ \A l \in Loan : l # r.loan => paid'[l] = paid[l] /\ loan'[l] = loan[l]
      /\ \A k \in Slot : paid'[r.loan][k] = paid[r.loan][k]
      /\ loan'[r.loan].status =
           IF row.status = r.row.status THEN loan[r.loan].status ELSE row.status
    BY <1>1, <1>3, <1>7, <1>8, Flushed
<1>10. paid' = paid
  <2>1. paid \in [Loan -> Money]
      BY <1>8 DEF RacesTypeOK, TypeOK
  <2>2. paid'[r.loan] = paid[r.loan]
      BY <1>3, <1>9, <2>1 DEF Money
  <2> QED BY <1>9, <2>1, <2>2
<1>11. \A l \in Loan : loan'[l].status \in {loan[l].status, "CLOSED"}
    BY <1>7, <1>9
<1> QED BY <1>1, <1>2, <1>9, <1>10, <1>11 DEF r

-------------------------------------------------------------------------------
(* The invariant, where requests overlap.                                  *)

\* As booked: nothing is paid, nothing received, no request is under way.
LEMMA RacesInvariantInit == RacesInit => RacesIInv
<1> SUFFICES ASSUME RacesInit PROVE RacesIInv
    OBVIOUS
<1>1. /\ paid = [l \in Loan |-> NothingPaid] /\ rows = [l \in Loan |-> BookedRows]
      /\ loan = [l \in Loan |-> BookedLoan(l)] /\ receipts = << >>
      /\ req = [w \in Worker |-> Idle]
    BY DEF RacesInit, Init
<1>2. \A w \in Worker : req[w] = Idle
    BY <1>1
<1>3. /\ paid \in [Loan -> Money] /\ rows \in [Loan -> [Installment -> ScheduleRow]]
      /\ loan \in [Loan -> LoanRow]
    BY <1>1, Booked, NothingPaidFacts
<1>4. RacesTypeOK
  <2>1. receipts \in Seq(Repayment) /\ req \in [Worker -> Request \cup {Idle}]
      BY <1>1
  <2> QED BY <1>3, <2>1 DEF RacesTypeOK, TypeOK
<1>5. NeverOverpaid
  <2> SUFFICES ASSUME NEW l \in Loan, NEW k \in Slot PROVE paid[l][k] <= Due[l][k]
      BY DEF NeverOverpaid
  <2>1. paid[l] = NothingPaid
      BY <1>1
  <2> QED BY <2>1, Booked
<1>6. Backed
  <2> SUFFICES ASSUME NEW l \in Loan PROVE Backs(NothingPaid, l)
      BY NothingPaidFacts DEF Backed
  <2>1. \A b \in Components : Received(receipts, l, b) = 0
    <3> SUFFICES ASSUME NEW b \in Components PROVE Received(receipts, l, b) = 0
        OBVIOUS
    <3> DEFINE f == [n \in DOMAIN receipts |->
                       IF receipts[n].loan = l THEN receipts[n][b] ELSE 0]
    <3>1. Len(receipts) = 0
        BY <1>1
    <3>2. \A k \in 1..0 : f[k] \in Nat /\ f[k] = 0
        OBVIOUS
    <3> HIDE DEF f
    <3>3. Total(f, 0) = 0
        BY <3>2, TotalZero
    <3> QED BY <3>1, <3>3 DEF Received, f
  <2>2. \A k \in Slot : paid[l][k] <= NothingPaid[k]
    <3>1. paid[l] = NothingPaid /\ \A k \in Slot : NothingPaid[k] = 0
        BY <1>1 DEF NothingPaid
    <3> QED BY <3>1
  <2> QED BY <1>2, <2>1, <2>2, NothingPaidFacts DEF Backs
<1>7. OneReceiptPerKey
    BY <1>1 DEF OneReceiptPerKey
<1>8. Copies
    BY <1>2 DEF Copies
<1> QED BY <1>4, <1>5, <1>6, <1>7, <1>8 DEF RacesIInv

\* What worker w may turn to without a commit: no request, or one that has copied nothing, the
\* schedule on file, or what it had copied before.
CopyOf(w, r) ==
    \/ r = Idle
    \/ /\ r \in Request
       /\ r.op = "pay" => r.amount \in Amount
       /\ \/ r.paid = NothingPaid
          \/ r.paid = paid[r.loan]
          \/ req[w] # Idle /\ r.paid = req[w].paid /\ r.loan = req[w].loan

\* A request that only reads, takes a copy no higher than the rows, or ends without writing.
LEMMA RacesInvariantCopied ==
    ASSUME RacesIInv, NEW w \in Worker, NEW r, Advance(w, r), CopyOf(w, r)
    PROVE  RacesIInv'
<1>1. /\ RacesTypeOK /\ Copies /\ NeverOverpaid /\ Backed /\ OneReceiptPerKey
    BY DEF RacesIInv
<1>2. /\ req' = [req EXCEPT ![w] = r] /\ req \in [Worker -> Request \cup {Idle}]
      /\ paid' = paid /\ rows' = rows /\ loan' = loan /\ receipts' = receipts
    BY <1>1 DEF Advance, RacesTypeOK, TypeOK
<1>3. \A v \in Worker : req'[v] = IF v = w THEN r ELSE req[v]
    BY <1>2
<1>4. RacesTypeOK'
  <2>1. req' \in [Worker -> Request \cup {Idle}]
      BY <1>2 DEF CopyOf
  <2> QED BY <1>1, <1>2, <2>1 DEF RacesTypeOK, TypeOK
<1>5. NeverOverpaid' /\ OneReceiptPerKey'
    BY <1>1, <1>2 DEF NeverOverpaid, OneReceiptPerKey
<1>6. Copies'
  <2>1. ASSUME r # Idle, NEW k \in Slot PROVE r.paid[k] <= Due[r.loan][k]
    <3>1. r.loan \in Loan
        BY <2>1 DEF Request, CopyOf
    <3>2. NothingPaid[k] <= Due[r.loan][k]
        BY <3>1, Booked
    <3> QED BY <1>1, <2>1, <3>1, <3>2 DEF NeverOverpaid, Copies, CopyOf
  <2> QED BY <1>1, <1>3, <2>1 DEF Copies, CopyOf
<1>7. Backed'
  <2> SUFFICES ASSUME NEW l \in Loan PROVE \E all \in Money : Backs(all, l)'
      BY DEF Backed
  <2>1. PICK all \in Money : Backs(all, l)
      BY <1>1 DEF Backed
  <2>2. ASSUME r # Idle, r.loan = l, NEW k \in Slot PROVE r.paid[k] <= all[k]
    <3>1. NothingPaid[k] = 0 /\ all[k] \in Nat
        BY DEF NothingPaid, Money
    <3>2. paid[l][k] <= all[k]
        BY <2>1 DEF Backs
    <3>3. req[w] # Idle /\ req[w].loan = l => req[w].paid[k] <= all[k]
        BY <2>1 DEF Backs
    <3> QED BY <2>2, <3>1, <3>2, <3>3 DEF CopyOf
  <2>3. Backs(all, l)'
      BY <1>2, <1>3, <2>1, <2>2 DEF Backs
  <2> QED BY <2>3
<1> QED BY <1>4, <1>5, <1>6, <1>7 DEF RacesIInv

\* After a commit a thread is idle; what the other copies hold is as before.
LEMMA OthersKeepCopies ==
    ASSUME Copies, NEW w \in Worker, req \in [Worker -> Request \cup {Idle}],
           req' = [req EXCEPT ![w] = Idle]
    PROVE  /\ req' \in [Worker -> Request \cup {Idle}] /\ Copies'
           /\ \A v \in Worker : req'[v] # Idle => req'[v] = req[v]
<1>1. \A v \in Worker : req'[v] # Idle => req'[v] = req[v]
    OBVIOUS
<1>2. Copies'
    BY <1>1 DEF Copies
<1> QED BY <1>1, <1>2

\* The commit of record_repayment: a lost update leaves the rows lower, never higher.
LEMMA RacesInvariantPayment ==
    ASSUME RacesIInv, NEW w \in Worker, CommitPayment(w)
    PROVE  RacesIInv'
<1> DEFINE r == req[w]
<1>1. /\ RacesTypeOK /\ Copies /\ NeverOverpaid /\ Backed /\ OneReceiptPerKey
      /\ receipts \in Seq(Repayment) /\ req \in [Worker -> Request \cup {Idle}]
    BY DEF RacesIInv, RacesTypeOK, TypeOK
<1>2. PICK taken \in Money, receipt \in Repayment :
        /\ receipts' = Append(receipts, receipt)
        /\ receipt.loan = r.loan /\ receipt.idempotency_key = r.key
        /\ \A b \in Components : receipt[b] = Component(taken, b)
        /\ \A k \in Slot : /\ r.paid[k] \in Nat /\ taken[k] \in Nat
                           /\ r.paid[k] + taken[k] <= Due[r.loan][k]
                           /\ paid'[r.loan][k] = IF taken[k] = 0 THEN paid[r.loan][k]
                                                 ELSE r.paid[k] + taken[k]
        /\ \A l \in Loan : l # r.loan => paid'[l] = paid[l] /\ loan'[l] = loan[l]
        /\ loan'[r.loan].status \in {loan[r.loan].status, "CLOSED"}
        /\ paid' \in [Loan -> Money] /\ rows' \in [Loan -> [Installment -> ScheduleRow]]
        /\ loan' \in [Loan -> LoanRow]
        /\ req' = [req EXCEPT ![w] = Idle] /\ r # Idle
    BY PaymentCommitted
<1>3. /\ req' \in [Worker -> Request \cup {Idle}] /\ Copies'
      /\ \A v \in Worker : req'[v] # Idle => req'[v] = req[v]
    BY <1>1, <1>2, OthersKeepCopies
<1>4. RacesTypeOK'
  <2>1. receipts' \in Seq(Repayment)
      BY <1>1, <1>2
  <2> QED BY <1>2, <1>3, <2>1 DEF RacesTypeOK, TypeOK
<1>5. NeverOverpaid'
    BY <1>1, <1>2, SMTT(30) DEF NeverOverpaid
<1>6. OneReceiptPerKey'
  <2>1. r.key = NoKey \/ \A n \in DOMAIN receipts : receipts[n].idempotency_key # r.key
      BY DEF CommitPayment, Used
  <2>2. /\ DOMAIN receipts = 1..Len(receipts) /\ DOMAIN receipts' = 1..(Len(receipts) + 1)
        /\ Len(receipts) \in Nat
        /\ \A n \in DOMAIN receipts : receipts'[n] = receipts[n]
        /\ receipts'[Len(receipts) + 1].idempotency_key = r.key
      BY <1>1, <1>2
  <2> SUFFICES ASSUME NEW m \in DOMAIN receipts', NEW n \in DOMAIN receipts', m # n,
                      receipts'[m].idempotency_key # NoKey
               PROVE  receipts'[m].idempotency_key # receipts'[n].idempotency_key
      BY DEF OneReceiptPerKey
  <2>3. CASE m \in DOMAIN receipts /\ n \in DOMAIN receipts
      BY <1>1, <2>2, <2>3 DEF OneReceiptPerKey
  <2>4. CASE m = Len(receipts) + 1
    <3>1. n \in DOMAIN receipts
        BY <2>2, <2>4
    <3> QED BY <2>1, <2>2, <2>4, <3>1
  <2>5. CASE n = Len(receipts) + 1
    <3>1. m \in DOMAIN receipts
        BY <2>2, <2>5
    <3> QED BY <2>1, <2>2, <2>5, <3>1
  <2> QED BY <2>2, <2>3, <2>4, <2>5
<1>7. Backed'
  <2> SUFFICES ASSUME NEW l \in Loan PROVE \E all \in Money : Backs(all, l)'
      BY DEF Backed
  <2>1. PICK before \in Money : Backs(before, l)
      BY <1>1 DEF Backed
  <2>2. \A b \in Components : Received(receipts', l, b) =
          Received(receipts, l, b) + (IF r.loan = l THEN Component(taken, b) ELSE 0)
    <3>1. \A b : Received(receipts', l, b) =
            Received(receipts, l, b) + (IF receipt.loan = l THEN receipt[b] ELSE 0)
        BY <1>1, <1>2, ReceivedMore
    <3> QED BY <1>2, <3>1
  <2>3. CASE l # r.loan
    <3>1. \A b \in Components : Component(before, b) \in Nat
        BY ComponentType
    <3>2. \A b \in Components : Component(before, b) = Received(receipts', l, b)
        BY <2>1, <2>2, <2>3, <3>1 DEF Backs
    <3>3. \A k \in Slot : paid'[l][k] <= before[k]
        BY <1>2, <2>1, <2>3 DEF Backs
    <3>4. \A v \in Worker : req'[v] # Idle /\ req'[v].loan = l =>
            \A k \in Slot : req'[v].paid[k] <= before[k]
        BY <1>3, <2>1 DEF Backs
    <3>5. Backs(before, l)'
        BY <3>2, <3>3, <3>4 DEF Backs
    <3> QED BY <3>5
  <2>4. CASE l = r.loan
    <3> DEFINE all == [k \in Slot |-> before[k] + taken[k]]
    <3>1. \A k \in Slot : /\ before[k] \in Nat /\ taken[k] \in Nat /\ paid[l][k] \in Nat
                          /\ all[k] = before[k] + taken[k] /\ all[k] \in Nat
        BY <1>1 DEF Money, RacesTypeOK, TypeOK
    <3>2. all \in Money
        BY <3>1 DEF Money
    <3> HIDE DEF all
    <3>3. \A b \in Components : Component(all, b) = Component(before, b) + Component(taken, b)
        BY <3>1, <3>2, ComponentPlus
    <3>4. \A b \in Components : Component(all, b) = Received(receipts', l, b)
        BY <2>1, <2>2, <2>4, <3>3 DEF Backs
    <3>5. ASSUME NEW k \in Slot PROVE paid'[l][k] <= all[k]
      <4>1. paid[l][k] <= before[k] /\ r.paid[k] <= before[k]
          BY <1>2, <2>1, <2>4 DEF Backs
      <4>2. /\ r.paid[k] \in Nat
            /\ paid'[l][k] = IF taken[k] = 0 THEN paid[l][k] ELSE r.paid[k] + taken[k]
          BY <1>2, <2>4
      <4> QED BY <3>1, <4>1, <4>2
    <3>6. ASSUME NEW v \in Worker, req'[v] # Idle, req'[v].loan = l, NEW k \in Slot
          PROVE  req'[v].paid[k] <= all[k]
      <4>1. req[v] # Idle /\ req'[v] = req[v]
          BY <1>3, <3>6
      <4>2. req'[v].paid[k] <= before[k]
          BY <2>1, <3>6, <4>1 DEF Backs
      <4>3. req'[v].paid[k] \in Nat
          BY <1>3, <3>6 DEF Request, Money
      <4> QED BY <3>1, <4>2, <4>3
    <3>7. Backs(all, l)'
        BY <3>4, <3>5, <3>6 DEF Backs
    <3> QED BY <3>2, <3>7
  <2> QED BY <2>3, <2>4
<1> QED BY <1>3, <1>4, <1>5, <1>6, <1>7 DEF RacesIInv

\* The commit of the nightly pass: the columns of the loan and its rows, and no money.
LEMMA RacesInvariantNightly ==
    ASSUME RacesIInv, NEW w \in Worker, CommitNightly(w)
    PROVE  RacesIInv'
<1>1. /\ RacesTypeOK /\ Copies /\ NeverOverpaid /\ Backed /\ OneReceiptPerKey
      /\ req \in [Worker -> Request \cup {Idle}]
    BY DEF RacesIInv, RacesTypeOK, TypeOK
<1>2. /\ paid' = paid /\ receipts' = receipts
      /\ rows' \in [Loan -> [Installment -> ScheduleRow]] /\ loan' \in [Loan -> LoanRow]
      /\ req' = [req EXCEPT ![w] = Idle]
    BY NightlyCommitted
<1>3. /\ req' \in [Worker -> Request \cup {Idle}] /\ Copies'
      /\ \A v \in Worker : req'[v] # Idle => req'[v] = req[v]
    BY <1>1, <1>2, OthersKeepCopies
<1>4. RacesTypeOK'
    BY <1>1, <1>2, <1>3 DEF RacesTypeOK, TypeOK
<1>5. NeverOverpaid' /\ OneReceiptPerKey'
    BY <1>1, <1>2 DEF NeverOverpaid, OneReceiptPerKey
<1>6. Backed'
  <2> SUFFICES ASSUME NEW l \in Loan PROVE \E all \in Money : Backs(all, l)'
      BY DEF Backed
  <2>1. PICK all \in Money : Backs(all, l)
      BY <1>1 DEF Backed
  <2>2. Backs(all, l)'
      BY <1>2, <1>3, <2>1 DEF Backs
  <2> QED BY <2>2
<1> QED BY <1>3, <1>4, <1>5, <1>6 DEF RacesIInv

\* A request as it is accepted is one, and has paid nothing yet.
LEMMA RacesInvariantAccepted ==
    ASSUME RacesIInv, NEW w \in Worker,
           NEW op \in {"pay", "nightly"}, NEW stage \in {"listed", "begun"},
           NEW l \in Loan, NEW amount \in Amount \cup {0}, NEW date \in Date,
           NEW key \in Key \cup {NoKey}, op = "pay" => amount \in Amount,
           Accept(w, op, stage, l, amount, date, key)
    PROVE  RacesIInv'
<1> DEFINE r == [op |-> op, stage |-> stage, loan |-> l, amount |-> amount, date |-> date,
                 key |-> key, row |-> loan[l], paid |-> NothingPaid, rows |-> BookedRows]
<1>1. Advance(w, r)
    BY DEF Accept
<1>2. loan[l] \in LoanRow /\ NothingPaid \in Money /\ BookedRows \in [Installment -> ScheduleRow]
    BY Booked, NothingPaidFacts DEF RacesIInv, RacesTypeOK, TypeOK
<1>3. r \in Request
    BY <1>2 DEF Request
<1>4. r.paid = NothingPaid /\ (r.op = "pay" => r.amount \in Amount)
    OBVIOUS
<1> HIDE DEF r
<1>5. CopyOf(w, r)
    BY <1>3, <1>4 DEF CopyOf
<1> QED BY <1>1, <1>5, RacesInvariantCopied

\* Reading the loan or its schedule copies what is on file.
LEMMA RacesInvariantRead ==
    ASSUME RacesIInv, NEW w \in Worker, ReadLoan(w) \/ ReadSchedule(w)
    PROVE  RacesIInv'
<1>1. /\ req[w] # Idle /\ req[w] \in Request
      /\ req[w].op = "pay" => req[w].amount \in Amount
    BY DEF RacesIInv, RacesTypeOK, TypeOK, Copies, ReadLoan, ReadSchedule
<1>2. /\ req[w].loan \in Loan /\ loan[req[w].loan] \in LoanRow
      /\ paid[req[w].loan] \in Money /\ rows[req[w].loan] \in [Installment -> ScheduleRow]
    BY <1>1 DEF RacesIInv, RacesTypeOK, TypeOK, Request
<1>3. CASE ReadLoan(w)
  <2> DEFINE r == [req[w] EXCEPT !.stage = "begun", !.row = loan[req[w].loan]]
  <2>1. Advance(w, r)
      BY <1>3 DEF ReadLoan
  <2>2. /\ r \in Request /\ r.op = req[w].op /\ r.amount = req[w].amount
        /\ r.paid = req[w].paid /\ r.loan = req[w].loan
      BY <1>1, <1>2 DEF Request
  <2> HIDE DEF r
  <2>3. CopyOf(w, r)
      BY <1>1, <2>2 DEF CopyOf
  <2> QED BY <2>1, <2>3, RacesInvariantCopied
<1>4. CASE ReadSchedule(w)
  <2> DEFINE r == [req[w] EXCEPT !.stage = "read", !.paid = paid[req[w].loan],
                                 !.rows = rows[req[w].loan]]
  <2>1. Advance(w, r)
      BY <1>4 DEF ReadSchedule
  <2>2. /\ r \in Request /\ r.op = req[w].op /\ r.amount = req[w].amount
        /\ r.paid = paid[r.loan]
      BY <1>1, <1>2 DEF Request
  <2> HIDE DEF r
  <2>3. CopyOf(w, r)
      BY <1>1, <2>2 DEF CopyOf
  <2> QED BY <2>1, <2>3, RacesInvariantCopied
<1> QED BY <1>3, <1>4

\* Every step of a request keeps the invariant.
LEMMA RacesInvariantStep == RacesIInv /\ [RacesNext]_races_vars => RacesIInv'
<1> SUFFICES ASSUME RacesIInv, [RacesNext]_races_vars PROVE RacesIInv'
    OBVIOUS
<1>1. ASSUME NEW w \in Worker, NEW l \in Loan, NEW amount \in Amount, NEW date \in Date,
             NEW key \in Key \cup {NoKey}, BeginPayment(w, l, amount, date, key)
      PROVE  RacesIInv'
  <2>1. Accept(w, "pay", "begun", l, amount, date, key)
      BY <1>1 DEF BeginPayment
  <2> QED BY <2>1, RacesInvariantAccepted
<1>2. ASSUME NEW w \in Worker, NEW l \in Loan, NEW asOf \in Date, BeginNightly(w, l, asOf)
      PROVE  RacesIInv'
  <2>1. Accept(w, "nightly", "listed", l, 0, asOf, NoKey)
      BY <1>2 DEF BeginNightly
  <2> QED BY <2>1, RacesInvariantAccepted
<1>3. ASSUME NEW w \in Worker, Abort(w) PROVE RacesIInv'
  <2>1. Advance(w, Idle)
      BY <1>3 DEF Abort
  <2> QED BY <2>1, RacesInvariantCopied DEF CopyOf
<1>4. CASE UNCHANGED races_vars
  <2>1. /\ paid' = paid /\ rows' = rows /\ loan' = loan /\ receipts' = receipts /\ req' = req
      BY <1>4 DEF races_vars
  <2>2. RacesTypeOK' /\ Copies' /\ NeverOverpaid' /\ OneReceiptPerKey'
      BY <2>1 DEF RacesIInv, RacesTypeOK, TypeOK, Copies, NeverOverpaid, OneReceiptPerKey
  <2>3. \A l \in Loan, all \in Money : Backs(all, l) => Backs(all, l)'
      BY <2>1 DEF Backs
  <2>4. Backed'
      BY <2>3 DEF RacesIInv, Backed
  <2> QED BY <2>2, <2>4 DEF RacesIInv
<1> QED BY <1>1, <1>2, <1>3, <1>4, RacesInvariantRead, RacesInvariantPayment,
           RacesInvariantNightly DEF RacesNext

\* record_repayment and the nightly pass keep RacesIInv, however their reads and commits alternate.
THEOREM RacesInvariant == RacesSpec => []RacesIInv
<1> QED BY RacesInvariantInit, RacesInvariantStep, PTL DEF RacesSpec

\* Requests, copies and rows have their types.
THEOREM RacesTypeCorrect == RacesSpec => []RacesTypeOK
<1>1. RacesIInv => RacesTypeOK
    BY DEF RacesIInv
<1> QED BY <1>1, RacesInvariant, PTL

\* uq_repay_idem: a key in two requests at once leaves one receipt.
THEOREM OneReceiptPerKeyHolds == RacesSpec => []OneReceiptPerKey
<1>1. RacesIInv => OneReceiptPerKey
    BY DEF RacesIInv
<1> QED BY <1>1, RacesInvariant, PTL

\* No interleaving credits a borrower, in any component, with money nobody received.
THEOREM BackedByReceipts == RacesSpec => []ScheduleBackedByReceipts
<1>1. RacesIInv => ScheduleBackedByReceipts
  <2> SUFFICES ASSUME RacesIInv, NEW l \in Loan, NEW b \in Components
               PROVE  Component(paid[l], b) <= Received(receipts, l, b)
      BY DEF ScheduleBackedByReceipts
  <2>1. PICK all \in Money : Backs(all, l)
      BY DEF RacesIInv, Backed
  <2>2. paid[l] \in Money /\ \A k \in Slot : paid[l][k] <= all[k]
      BY <2>1 DEF RacesIInv, RacesTypeOK, TypeOK, Backs
  <2>3. Component(paid[l], b) <= Component(all, b)
      BY <2>2, ComponentMonotone
  <2> QED BY <2>1, <2>3 DEF Backs
<1> QED BY <1>1, RacesInvariant, PTL

\* allocate_payment: however stale the copies, no slot ends above what it owes.
THEOREM RacesNeverOverpaid == RacesSpec => []NeverOverpaid
<1>1. RacesIInv => NeverOverpaid
    BY DEF RacesIInv
<1> QED BY <1>1, RacesInvariant, PTL

\* refresh_position: a payment or a pass that read the loan before it closed does not open it.
THEOREM ClosedStays == RacesSpec => ClosedStaysClosed
<1>1. ASSUME RacesIInv, [RacesNext]_races_vars, NEW l \in Loan, loan[l].status = "CLOSED"
      PROVE  loan'[l].status = "CLOSED"
  <2>1. CASE loan' = loan
      BY <1>1, <2>1
  <2>2. ASSUME NEW w \in Worker, CommitPayment(w) PROVE loan'[l].status = "CLOSED"
    <3>1. /\ \A m \in Loan : m # req[w].loan => loan'[m] = loan[m]
          /\ loan'[req[w].loan].status \in {loan[req[w].loan].status, "CLOSED"}
        BY <1>1, <2>2, PaymentCommitted
    <3> QED BY <1>1, <3>1
  <2>3. ASSUME NEW w \in Worker, CommitNightly(w) PROVE loan'[l].status = "CLOSED"
    <3>1. loan'[l].status \in {loan[l].status, "CLOSED"}
        BY <1>1, <2>3, NightlyCommitted
    <3> QED BY <1>1, <3>1
  <2> QED BY <1>1, <2>1, <2>2, <2>3
        DEF RacesNext, BeginPayment, BeginNightly, Accept, ReadLoan, ReadSchedule, Abort, Advance,
            races_vars
<1>2. RacesIInv /\ [RacesNext]_races_vars =>
        [\A l \in Loan : loan[l].status = "CLOSED" => loan'[l].status = "CLOSED"]_races_vars
    BY <1>1
<1> QED BY <1>2, RacesInvariant, PTL DEF RacesSpec, ClosedStaysClosed
===============================================================================
