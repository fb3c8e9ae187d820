------------------------------- MODULE Identity -------------------------------
(***************************************************************************)
(* The rows of app/models/identity.py that sessions live on.  An instant   *)
(* is a natural; Null stands for a NULL instant.  Passwords are values: a  *)
(* hash verifies its own password and no other, so a row holds the         *)
(* password itself, and likewise a token's hash is the token's number.     *)
(***************************************************************************)
EXTENDS Naturals, Sequences, SequencesExt

CONSTANTS
    User,          \* the people who may hold an account
    Password,      \* passwords; those in Acceptable meet the policy
    Acceptable,
    NoRow          \* the account that has not been created

ASSUME AcceptableAssumption == Acceptable \subseteq Password

Null == 0
Moment == Nat \ {0}

UserRow ==
    [password : Password, is_active : BOOLEAN, must_change_password : BOOLEAN,
     failed_login_attempts : Nat, locked_until : Nat, password_changed_at : Nat]

ASSUME NoRowAssumption == NoRow \notin UserRow

\* parent is not a column: it is the token presented for this one (Null for a login's), kept to
\* say what rotation means.  A family bears the number of its first token.
UserSession ==
    [user : User, family_id : Moment, issued_at : Moment, expires_at : Moment,
     rotated_at : Nat, revoked_at : Nat, parent : Nat]

PasswordResetToken == [user : User, expires_at : Moment, used_at : Nat]

PasswordHistory == [password : Password, changed_at : Moment]

\* AdminService.create_user: the account starts active, and with a password to change.
NewUser(password) ==
    [password |-> password, is_active |-> TRUE, must_change_password |-> TRUE,
     failed_login_attempts |-> 0, locked_until |-> Null, password_changed_at |-> Null]

validate_password_strength(password) == password \in Acceptable

\* lock_seconds_remaining: the stamp stays behind when the lock has run out.
Locked(row, now) == row.locked_until > now

\* Revoke those of the rows numbered in S that are not revoked yet.
Revoke(sessions, S, at) ==
    [n \in DOMAIN sessions |->
        IF n \in S /\ sessions[n].revoked_at = Null
        THEN [sessions[n] EXCEPT !.revoked_at = at]
        ELSE sessions[n]]

\* Faulty variant: the family's first row only.
OfFamilyFirst(sessions, family) == {n \in DOMAIN sessions : n = family}

OfFamily(sessions, family) == {n \in DOMAIN sessions : sessions[n].family_id = family}

OfUser(sessions, user) == {n \in DOMAIN sessions : sessions[n].user = user}

\* record and prune: the rows by changed_at, of which the newest depth are kept.
Remembered(history, password, at, depth) ==
    LET older == {i \in DOMAIN history : history[i].changed_at <= at}
        kept == InsertAt(history, Cardinality(older) + 1,
                         [password |-> password, changed_at |-> at])
    IN  SubSeq(kept, IF Len(kept) > depth THEN Len(kept) - depth + 1 ELSE 1, Len(kept))

\* _reject_reused_password
Reused(row, history, password) ==
    password = row.password \/ \E i \in DOMAIN history : history[i].password = password
===============================================================================
