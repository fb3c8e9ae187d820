-------------------------- MODULE OriginationContract --------------------------
(***************************************************************************)
(* What origination promises a lender, with no mention of statuses,        *)
(* assessments or tables.  A file is opened, put forward, then either      *)
(* sanctioned or refused by someone who did not put it forward, or         *)
(* withdrawn; a sanctioned file is financed at most once, for exactly the  *)
(* sum that was sanctioned.                                                *)
(***************************************************************************)
EXTENDS Integers

CONSTANTS App, User

VARIABLES
    phase,     \* phase[a]: where the file stands
    makers,    \* makers[a]: the officers who raised it or put it forward
    signed,    \* signed[a]: the officers who have ruled on it
    sanction,  \* sanction[a]: the sum sanctioned, 0 when none is
    advanced   \* advanced[a]: the sum lent, 0 when none is

cvars == <<phase, makers, signed, sanction, advanced>>

Init ==
    /\ phase = [a \in App |-> "none"]
    /\ makers = [a \in App |-> {}]
    /\ signed = [a \in App |-> {}]
    /\ sanction = [a \in App |-> 0]
    /\ advanced = [a \in App |-> 0]

Open(a, u) ==
    /\ phase[a] = "none"
    /\ phase' = [phase EXCEPT ![a] = "open"]
    /\ makers' = [makers EXCEPT ![a] = {u}]
    /\ UNCHANGED <<signed, sanction, advanced>>

PutForward(a, u) ==
    /\ phase[a] = "open"
    /\ makers' = [makers EXCEPT ![a] = @ \cup {u}]
    /\ UNCHANGED <<phase, signed, sanction, advanced>>

Sanction(a, u) ==
    /\ phase[a] = "open"
    /\ u \notin makers[a]
    /\ phase' = [phase EXCEPT ![a] = "sanctioned"]
    /\ signed' = [signed EXCEPT ![a] = @ \cup {u}]
    /\ sanction'[a] > 0
    /\ sanction' = [sanction EXCEPT ![a] = sanction'[a]]
    /\ UNCHANGED <<makers, advanced>>

Refuse(a, u) ==
    /\ phase[a] = "open"
    /\ u \notin makers[a]
    /\ phase' = [phase EXCEPT ![a] = "refused"]
    /\ signed' = [signed EXCEPT ![a] = @ \cup {u}]
    /\ UNCHANGED <<makers, sanction, advanced>>

Withdraw(a) ==
    /\ phase[a] = "open"
    /\ phase' = [phase EXCEPT ![a] = "withdrawn"]
    /\ UNCHANGED <<makers, signed, sanction, advanced>>

Finance(a) ==
    /\ phase[a] = "sanctioned"
    /\ phase' = [phase EXCEPT ![a] = "financed"]
    /\ advanced' = [advanced EXCEPT ![a] = sanction[a]]
    /\ UNCHANGED <<makers, signed, sanction>>

Next ==
    \E a \in App :
        \/ \E u \in User : Open(a, u) \/ PutForward(a, u) \/ Sanction(a, u) \/ Refuse(a, u)
        \/ Withdraw(a)
        \/ Finance(a)

Spec == Init /\ [][Next]_cvars

===============================================================================
