----------------------------- MODULE MCMonitoring -----------------------------
EXTENDS Monitoring

\* A vehicle that ran 100 km on some days of each window, then for the last n days nothing, or did
\* not report, or either by turns.
Run(km) == [daily_km |-> km, estimated_revenue |-> km,
            route_deviation_percent |-> 500, state_of_health |-> 9000]

History(n, Days, Lately(_)) ==
    [d \in 40..41 \cup 72..74 \cup 91..(99 - n) \cup Days |->
        IF d < 100 - n THEN Run(10000) ELSE Lately(d)]

MCHistories ==
    {History(0, 75..79, LAMBDA d : Run(0)),
     History(7, 93..99, LAMBDA d : Run(0)),
     History(7, {}, LAMBDA d : Run(0)),
     History(25, {d \in 85..99 : d % 2 = 0}, LAMBDA d : Run(0))}

MCArrears ==
    {[days_past_due |-> 0, installments_overdue |-> 0, overdue_amount |-> 0],
     [days_past_due |-> 30, installments_overdue |-> 1, overdue_amount |-> 100000],
     [days_past_due |-> 31, installments_overdue |-> 1, overdue_amount |-> 100000]}

\* An answer that is refused stores as much as no answer.
Garbage == [Run(90000) EXCEPT !.state_of_health = 10100]

MCAnswers == {{Run(1000)}, {Garbage}}

\* Bound: requests overlap on one history, of a vehicle in motion, that the passes under way leave
\* as it is: whether a loan is overdue is then what they disagree on.
MCOverlap ==
    Cardinality({w \in Worker : serving[w] # Idle}) > 1 =>
        /\ \A l \in Loan : telemetry[l] = History(0, 75..79, LAMBDA d : Run(0))
        /\ \A w \in Worker :
              serving[w].op \in {"placed", "reviewed"} =>
                  serving[w].answer = [l \in Loan |-> {Garbage}]

MCSeeded ==
    {"EMI_OVERDUE_1_30", "EMI_OVERDUE_30_PLUS", "VEHICLE_INACTIVE_7D",
     "USAGE_COLLAPSE", "TELEMETRY_SILENT_5D"}

MCSwitched == {"EMI_OVERDUE_30_PLUS"}

Symmetric == Permutations(Worker)
===============================================================================
