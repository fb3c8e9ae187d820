------------------------------ MODULE MCSessions ------------------------------
(***************************************************************************)
(* An instance of Sessions for TLC: one account, two threads.              *)
(***************************************************************************)
EXTENDS Sessions, TLC

MCLoginLimit == [max_requests |-> 2, window_seconds |-> 1]

MCSymmetry == Permutations(Worker) \cup Permutations(Acceptable)
===============================================================================
