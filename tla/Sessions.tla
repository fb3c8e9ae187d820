------------------------------- MODULE Sessions -------------------------------
(***************************************************************************)
(* Sign-in, refresh rotation, lockout, passwords and reset links:          *)
(* app/services/auth.py behind app/api/routers/auth.py, and the account    *)
(* operations of app/services/admin.py.                                    *)
(*                                                                         *)
(* A request whose answer depends on rows it read earlier is two steps.    *)
(* The first reads, checks, and keeps its copies in serving[w]; the second *)
(* writes and commits.  Requests that are one UPDATE over whatever is      *)
(* there are one step.  A refused request is rolled back and is no step,   *)
(* but for the hit the limiter has counted.  Of the limiter's buckets the  *)
(* one of sign-in is kept; those of the reset endpoints only make some     *)
(* requests not happen, which is always possible.                          *)
(***************************************************************************)
EXTENDS Identity, RateLimit, UnitOfWork

CONSTANTS
    Worker,                   \* threads serving requests
    MaxFailedAttempts, Lockout,           \* settings
    RefreshLife, AbsoluteTimeout, ResetLife,
    HistoryDepth,             \* PASSWORD_HISTORY_DEPTH
    LOGIN_LIMIT,              \* of the limiter
    MaxMoment, MaxRequests    \* bounds: the clock, and the two-step requests begun

ASSUME SettingsAssumption ==
    /\ {MaxFailedAttempts, Lockout, RefreshLife, AbsoluteTimeout, ResetLife, HistoryDepth}
           \subseteq Nat \ {0}
    /\ LOGIN_LIMIT \in Limit

ASSUME WorkerAssumption == IsFiniteSet(Worker)

VARIABLES
    users, sessions, links, history,   \* the tables
    hits,        \* the limiter's memory of sign-ins
    clock,
    serving,     \* serving[w]: the request worker w has begun, with what it read
    overlapped,  \* auxiliary: the users two of whose requests have overlapped
    begun        \* auxiliary: how many requests have begun, for MaxRequests

vars == <<users, sessions, links, history, hits, clock, serving, overlapped, begun>>

Idle == [op |-> "idle"]

\* copy: the user's row as read; token, link: the row presented (no link for a change);
\* outstanding: the links that a request for a new one retires.
Request ==
    [op : {"login", "failure"}, user : User, at : Moment, copy : UserRow]
        \cup [op : {"refresh"}, user : User, at : Moment, token : Moment]
        \cup [op : {"forgot"}, user : User, at : Moment, outstanding : SUBSET Moment]
        \cup [op : {"change", "reset"}, user : User, at : Moment, copy : UserRow,
              new : Password, link : Nat]

TypeOK ==
    /\ users \in [User -> UserRow \cup {NoRow}]
    /\ sessions \in Seq(UserSession)
    /\ links \in Seq(PasswordResetToken)
    /\ history \in [User -> Seq(PasswordHistory)]
    /\ hits \in Seq(Moment)
    /\ clock \in Moment
    /\ serving \in [Worker -> Request \cup {Idle}]
    /\ overlapped \subseteq User
    /\ begun \in 0..MaxRequests

Init ==
    /\ users = [u \in User |-> NoRow]
    /\ sessions = << >>
    /\ links = << >>
    /\ history = [u \in User |-> << >>]
    /\ hits = << >>
    /\ clock = 1
    /\ serving = [w \in Worker |-> Idle]
    /\ overlapped = {}
    /\ begun = 0

Serving(w, u) == serving[w] # Idle /\ serving[w].user = u

\* Another request of this user is under way when one commits.
NoteOverlap(u, others) ==
    overlapped' = IF \E w \in others : Serving(w, u) THEN overlapped \cup {u} ELSE overlapped

Known(u) == users[u] # NoRow

Begin(w, request) ==
    /\ serving[w] = Idle
    /\ begun < MaxRequests
    /\ begun' = begun + 1
    /\ serving' = [serving EXCEPT ![w] = request]
    /\ UNCHANGED <<users, sessions, links, history, clock, overlapped>>

Refuse == UNCHANGED <<users, sessions, links, history, clock, serving, overlapped, begun>>

\* ratelimit.check
Admit ==
    /\ Admits(hits, LOGIN_LIMIT, clock)
    /\ hits' = Recorded(hits, LOGIN_LIMIT, clock)

-------------------------------------------------------------------------------
(* Sign-in.                                                                *)

Attempt(w, u, p) ==
    Begin(w, [op |-> IF p = users[u].password THEN "login" ELSE "failure",
              user |-> u, at |-> clock, copy |-> users[u]])

\* Faulty variant: the lock is not looked at.
LoginUnlocked(w, u, p) ==
    IF Known(u) /\ (p # users[u].password \/ users[u].is_active)
    THEN Attempt(w, u, p)
    ELSE serving[w] = Idle /\ Refuse

Login(w, u, p) ==
    IF Known(u) /\ ~Locked(users[u], clock) /\ (p # users[u].password \/ users[u].is_active)
    THEN Attempt(w, u, p)
    ELSE serving[w] = Idle /\ Refuse

LoginRequest == [email : User, password : Password]

PostLogin(w) == \E payload \in LoginRequest :
    Admit /\ Login(w, payload.email, payload.password)

\* _register_failed_attempt: the counter, or the lock with the counter at zero.
AfterFailure(row, at) ==
    IF row.failed_login_attempts + 1 >= MaxFailedAttempts
    THEN [row EXCEPT !.failed_login_attempts = 0, !.locked_until = at + Lockout]
    ELSE [row EXCEPT !.failed_login_attempts = @ + 1]

\* _issue, with reset_failures.
AfterLogin(row) == [row EXCEPT !.failed_login_attempts = 0, !.locked_until = Null]

\* Faulty variant: the token has no expiry.
IssueLasting(r, table, presented) ==
    Append(table,
           [user |-> r.user, issued_at |-> r.at, expires_at |-> Null,
            family_id |-> IF presented = 0 THEN Len(table) + 1 ELSE table[presented].family_id,
            rotated_at |-> Null, revoked_at |-> Null, parent |-> presented])

\* _issue: the row of a new token, in the family of the one presented or in its own.
Issue(r, table, presented) ==
    Append(table,
           [user |-> r.user, issued_at |-> r.at, expires_at |-> r.at + RefreshLife,
            family_id |-> IF presented = 0 THEN Len(table) + 1 ELSE table[presented].family_id,
            rotated_at |-> Null, revoked_at |-> Null, parent |-> presented])

-------------------------------------------------------------------------------
(* Refresh and sign-out.  Tokens are known by their number.                *)

\* Faulty variant: revocation is not looked at.
RefreshLiveRevoked(row) ==
    /\ row.rotated_at = Null
    /\ row.expires_at > clock
    /\ row.issued_at + AbsoluteTimeout > clock

\* The absolute timeout is counted from the row presented.
RefreshLive(row) ==
    /\ row.rotated_at = Null
    /\ row.revoked_at = Null
    /\ row.expires_at > clock
    /\ row.issued_at + AbsoluteTimeout > clock

Refresh(w, n) ==
    LET row == sessions[n]
    IN  /\ RefreshLive(row)
        /\ users[row.user].is_active
        /\ Begin(w, [op |-> "refresh", user |-> row.user, at |-> clock, token |-> n])

\* A rotated token presented again: the family is revoked, and that is committed.
RefreshReused(n) ==
    /\ sessions[n].rotated_at # Null
    /\ sessions' = Revoke(sessions, OfFamily(sessions, sessions[n].family_id), clock)
    /\ NoteOverlap(sessions[n].user, Worker)
    /\ UNCHANGED <<users, links, history, clock, serving, begun>>

PostRefresh(w) ==
    /\ \E n \in DOMAIN sessions : Refresh(w, n) \/ RefreshReused(n)
    /\ UNCHANGED hits

\* revoke_family and revoke_all_for_user, from sign-out.
SignOut(S, u) ==
    /\ sessions' = Revoke(sessions, S, clock)
    /\ NoteOverlap(u, Worker)
    /\ UNCHANGED <<users, links, history, hits, clock, serving, begun>>

PostLogout == \E n \in DOMAIN sessions :
    SignOut(OfFamily(sessions, sessions[n].family_id), sessions[n].user)

PostLogoutAll == \E u \in User : Known(u) /\ SignOut(OfUser(sessions, u), u)

-------------------------------------------------------------------------------
(* Passwords and reset links.                                              *)

Outstanding(u) == {n \in DOMAIN links : links[n].user = u /\ links[n].used_at = Null}

NewPasswordAllowed(u, p) ==
    /\ validate_password_strength(p)
    /\ ~Reused(users[u], history[u], p)

StartNewPassword(w, op, u, p, link) ==
    Begin(w, [op |-> op, user |-> u, at |-> clock, copy |-> users[u], new |-> p, link |-> link])

ChangePasswordRequest == [current_password : Password, new_password : Password]

PostChangePassword(w) ==
    /\ \E u \in User, payload \in ChangePasswordRequest :
          /\ Known(u)
          /\ payload.current_password = users[u].password
          /\ NewPasswordAllowed(u, payload.new_password)
          /\ StartNewPassword(w, "change", u, payload.new_password, 0)
    /\ UNCHANGED hits

PostForgotPassword(w) ==
    /\ \E u \in User :
          /\ Known(u)
          /\ users[u].is_active
          /\ Begin(w, [op |-> "forgot", user |-> u, at |-> clock, outstanding |-> Outstanding(u)])
    /\ UNCHANGED hits

Redeemable(n) == links[n].used_at = Null /\ links[n].expires_at > clock

ResetPassword(w, n, p) ==
    LET u == links[n].user
    IN  /\ Redeemable(n)
        /\ users[u].is_active
        /\ NewPasswordAllowed(u, p)
        /\ StartNewPassword(w, "reset", u, p, n)

ResetPasswordRequest == [token : DOMAIN links, new_password : Password]

PostResetPassword(w) ==
    /\ \E payload \in ResetPasswordRequest : ResetPassword(w, payload.token, payload.new_password)
    /\ UNCHANGED hits

\* _set_password
AfterNewPassword(r) ==
    [r.copy EXCEPT !.password = r.new, !.must_change_password = FALSE,
                   !.password_changed_at = r.at]

-------------------------------------------------------------------------------
(* Commit, and what ends a request otherwise.                              *)

Finish(w) ==
    /\ serving' = [serving EXCEPT ![w] = Idle]
    /\ NoteOverlap(serving[w].user, Worker \ {w})

WriteUser(r, row) == users' = [users EXCEPT ![r.user] = Write(@, r.copy, row)]

CommitFailure(w) ==
    /\ serving[w].op = "failure"
    /\ WriteUser(serving[w], AfterFailure(serving[w].copy, serving[w].at))
    /\ Finish(w)
    /\ UNCHANGED <<sessions, links, history, hits, clock, begun>>

CommitLogin(w) ==
    /\ serving[w].op = "login"
    /\ WriteUser(serving[w], AfterLogin(serving[w].copy))
    /\ sessions' = Issue(serving[w], sessions, 0)
    /\ Finish(w)
    /\ UNCHANGED <<links, history, hits, clock, begun>>

\* Faulty variant: the token presented stays good.
CommitRefreshUnrotated(w) ==
    LET r == serving[w]
    IN  /\ r.op = "refresh"
        /\ sessions' = Issue(r, sessions, r.token)
        /\ Finish(w)
        /\ UNCHANGED <<users, links, history, hits, clock, begun>>

CommitRefresh(w) ==
    LET r == serving[w]
    IN  /\ r.op = "refresh"
        /\ sessions' = Issue(r, [sessions EXCEPT ![r.token].rotated_at = r.at], r.token)
        /\ Finish(w)
        /\ UNCHANGED <<users, links, history, hits, clock, begun>>

CommitNewPassword(w) ==
    LET r == serving[w]
    IN  /\ r.op \in {"change", "reset"}
        /\ WriteUser(r, AfterNewPassword(r))
        /\ history' = [history EXCEPT ![r.user] =
              Remembered(@, r.copy.password, r.at, HistoryDepth)]
        /\ links' = IF r.op = "reset" THEN [links EXCEPT ![r.link].used_at = r.at] ELSE links
        /\ sessions' = Revoke(sessions, OfUser(sessions, r.user), r.at)
        /\ Finish(w)
        /\ UNCHANGED <<hits, clock, begun>>

\* Faulty variant: the earlier links stay good.
CommitForgotKeeping(w) ==
    LET r == serving[w]
    IN  /\ r.op = "forgot"
        /\ links' = Append(links,
                           [user |-> r.user, expires_at |-> r.at + ResetLife, used_at |-> Null])
        /\ Finish(w)
        /\ UNCHANGED <<users, sessions, history, hits, clock, begun>>

\* invalidate_outstanding, and the new link.
CommitForgot(w) ==
    LET r == serving[w]
        Retired(n) == n \in r.outstanding /\ links[n].used_at = Null
    IN  /\ r.op = "forgot"
        /\ links' = Append([n \in DOMAIN links |->
                               IF Retired(n) THEN [links[n] EXCEPT !.used_at = r.at] ELSE links[n]],
                           [user |-> r.user, expires_at |-> r.at + ResetLife, used_at |-> Null])
        /\ Finish(w)
        /\ UNCHANGED <<users, sessions, history, hits, clock, begun>>

Commit(w) ==
    \/ CommitFailure(w) \/ CommitLogin(w) \/ CommitRefresh(w)
    \/ CommitNewPassword(w) \/ CommitForgot(w)

\* A request may fail before its commit, and is then rolled back.
Abort(w) ==
    /\ serving[w] # Idle
    /\ serving' = [serving EXCEPT ![w] = Idle]
    /\ UNCHANGED <<users, sessions, links, history, hits, clock, overlapped, begun>>

\* The process restarts: its requests are lost, and so is what the limiter remembers.
Restart ==
    /\ serving' = [w \in Worker |-> Idle]
    /\ hits' = << >>
    /\ UNCHANGED <<users, sessions, links, history, clock, overlapped, begun>>

-------------------------------------------------------------------------------
(* Accounts.                                                               *)

CreateUser(u, p) ==
    /\ ~Known(u)
    /\ validate_password_strength(p)
    /\ users' = [users EXCEPT ![u] = NewUser(p)]
    /\ UNCHANGED <<sessions, links, history, hits, clock, serving, overlapped, begun>>

\* Deactivation revokes every session.
SetUserActive(u, active) ==
    /\ Known(u)
    /\ users[u].is_active # active
    /\ users' = [users EXCEPT ![u].is_active = active]
    /\ sessions' = IF active THEN sessions ELSE Revoke(sessions, OfUser(sessions, u), clock)
    /\ NoteOverlap(u, Worker)
    /\ UNCHANGED <<links, history, hits, clock, serving, begun>>

\* Time passes.  A hit that has left its window never counts again and is dropped here, where
\* the code drops it at the next check.
Tick ==
    /\ clock < MaxMoment
    /\ clock' = clock + 1
    /\ hits' = InWindow(hits, LOGIN_LIMIT, clock + 1)
    /\ UNCHANGED <<users, sessions, links, history, serving, overlapped, begun>>

Next ==
    \/ \E w \in Worker :
          \/ PostLogin(w) \/ PostRefresh(w) \/ PostChangePassword(w)
          \/ PostForgotPassword(w) \/ PostResetPassword(w)
          \/ Commit(w) \/ Abort(w)
    \/ PostLogout \/ PostLogoutAll
    \/ \E u \in User : \E p \in Password : CreateUser(u, p)
    \/ \E u \in User : \E active \in BOOLEAN : SetUserActive(u, active)
    \/ Restart
    \/ Tick

Spec == Init /\ [][Next]_vars

-------------------------------------------------------------------------------
(* Properties.                                                             *)

Unrevoked(n) == sessions[n].revoked_at = Null

\* A refresh token is good for one rotation (auth.py:358), and for one more by each request that
\* had read it before the first committed.
RotatedOnce ==
    \A n \in DOMAIN sessions :
        LET children == {k \in DOMAIN sessions : sessions[k].parent = n}
        IN  Cardinality(children) <=
                IF sessions[n].user \in overlapped THEN Cardinality(Worker) ELSE 1

\* Revocation takes whole families (sign-out, reuse, a new password, deactivation): while a
\* user's requests have not overlapped, a family is revoked altogether or not at all, and only
\* its newest token can be presented.
FamilyRevokedTogether ==
    \A m, n \in DOMAIN sessions :
        (sessions[m].family_id = sessions[n].family_id /\ sessions[m].user \notin overlapped)
            => /\ Unrevoked(m) = Unrevoked(n)
               /\ (m < n => sessions[m].rotated_at # Null)

\* A family revoked to the last token never has a live token again, unless a refresh of it was in
\* flight when it was revoked and is still (auth.py:343, 392).
RevokedStaysDead ==
    [][\A n \in DOMAIN sessions :
          LET family == OfFamily(sessions, sessions[n].family_id)
              renewing == /\ sessions[n].user \in overlapped
                          /\ \E w \in Worker :
                                 serving[w].op = "refresh" /\ serving[w].token \in family
          IN  ((\A k \in family : ~Unrevoked(k)) /\ ~renewing)
                  => \A k \in OfFamily(sessions', sessions[n].family_id) :
                         sessions'[k].revoked_at # Null]_vars

\* While an account is locked, nobody is signed in to it and the lock keeps its end, unless an
\* attempt that read the account before the lock was set is still in flight (auth.py:147-150).
LockoutHolds ==
    [][\A u \in User :
          (/\ Known(u) /\ Locked(users[u], clock)
           /\ ~\E w \in Worker :
                 /\ Serving(w, u) /\ serving[w].op \in {"login", "failure"}
                 /\ serving[w].copy.locked_until # users[u].locked_until)
              => /\ users'[u].locked_until = users[u].locked_until
                 /\ \A n \in DOMAIN sessions' \ DOMAIN sessions :
                        sessions'[n].user = u => sessions'[n].parent # 0]_vars

\* Without overlap, what a new password, a new link or a deactivation retires is gone: none of
\* the last HistoryDepth passwords is the current one (auth.py:637), one link at most is
\* outstanding (auth.py:518), and no live token is older than the password or belongs to an
\* inactive account (auth.py:472, 591, admin.py:484).
OldCredentialsDie ==
    \A u \in User \ overlapped : Known(u) =>
        /\ Len(history[u]) <= HistoryDepth
        /\ \A i \in DOMAIN history[u] : history[u][i].password # users[u].password
        /\ Cardinality(Outstanding(u)) <= 1
        /\ \A n \in OfUser(sessions, u) : Unrevoked(n) =>
              /\ users[u].is_active
              /\ sessions[n].issued_at >= users[u].password_changed_at
===============================================================================
