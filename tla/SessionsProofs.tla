---------------------------- MODULE SessionsProofs ----------------------------
(***************************************************************************)
(* What sign-in, rotation, revocation and new passwords keep, for every    *)
(* number of accounts, threads, tokens and settings.                       *)
(*                                                                         *)
(* A request acts on what it read.  The invariant says what is still true  *)
(* of it when it commits: some of it whatever commits meanwhile (Held),    *)
(* the rest as long as no other request of the same account has           *)
(* (Undisturbed).  Every step changes one account only (Confined), so that *)
(* what is said of the others carries over.                                *)
(***************************************************************************)
EXTENDS Sessions, FiniteSetTheorems, TLAPS

-------------------------------------------------------------------------------
(* The invariant.                                                          *)

\* The types of everything but the limiter's memory and the bound on requests.
Typed ==
    /\ users \in [User -> UserRow \cup {NoRow}]
    /\ sessions \in Seq(UserSession)
    /\ links \in Seq(PasswordResetToken)
    /\ history \in [User -> Seq(PasswordHistory)]
    /\ clock \in Moment
    /\ serving \in [Worker -> Request \cup {Idle}]
    /\ overlapped \subseteq User

\* Rows and requests name accounts that have been created.
AccountsExist ==
    /\ \A n \in DOMAIN sessions : Known(sessions[n].user)
    /\ \A n \in DOMAIN links : Known(links[n].user)
    /\ \A w \in Worker : serving[w] # Idle => Known(serving[w].user)
    /\ \A u \in User : ~Known(u) => history[u] = << >>

\* A family has one owner, and bears the number of one of its tokens; tokens descend from
\* earlier ones.
FamiliesApart ==
    \A n \in DOMAIN sessions :
        /\ sessions[n].family_id <= n /\ sessions[n].parent < n
        /\ \A m \in DOMAIN sessions :
              sessions[m].family_id = sessions[n].family_id => sessions[m].user = sessions[n].user

ClockAhead ==
    /\ \A u \in User : Known(u) => users[u].password_changed_at <= clock
    /\ \A w \in Worker : serving[w] # Idle => serving[w].at <= clock

\* What stays true of a request whatever commits meanwhile.
Held(r) ==
    /\ r.op \in {"login", "failure"} => r.copy.locked_until <= r.at
    /\ r.op = "refresh" => r.token \in DOMAIN sessions /\ sessions[r.token].user = r.user
    /\ r.op = "forgot" =>
          \A n \in r.outstanding : n \in DOMAIN links /\ links[n].user = r.user
    /\ r.op = "reset" => r.link \in DOMAIN links /\ links[r.link].user = r.user

\* What stays true of it while no other request of its account commits.
Undisturbed(r) ==
    /\ r.op \in {"login", "refresh"} =>
          users[r.user].is_active /\ users[r.user].password_changed_at <= r.at
    /\ r.op = "refresh" => sessions[r.token].rotated_at = Null /\ Unrevoked(r.token)
    /\ r.op = "forgot" => Outstanding(r.user) \subseteq r.outstanding
    /\ r.op \in {"change", "reset"} =>
          /\ users[r.user].password = r.copy.password
          /\ ~Reused(users[r.user], history[r.user], r.new)

AllHeld ==
    \A w \in Worker : serving[w] # Idle =>
        /\ Held(serving[w])
        /\ serving[w].user \notin overlapped => Undisturbed(serving[w])

Children(n) == {k \in DOMAIN sessions : sessions[k].parent = n}
Holders(n) == {w \in Worker : serving[w].op = "refresh" /\ serving[w].token = n}

\* A token has its first child when it is rotated, and then at most one more for each request
\* that still holds it.
RotationsCounted ==
    \A n \in DOMAIN sessions :
        /\ sessions[n].rotated_at = Null => Children(n) = {}
        /\ Cardinality(Children(n)) + Cardinality(Holders(n)) <= Cardinality(Worker)
        /\ sessions[n].user \notin overlapped => Cardinality(Children(n)) <= 1

\* FamilyRevokedTogether and OldCredentialsDie, of one account.
Together(u) ==
    \A m, n \in OfUser(sessions, u) :
        sessions[m].family_id = sessions[n].family_id =>
            /\ Unrevoked(m) = Unrevoked(n)
            /\ m < n => sessions[m].rotated_at # Null

OldDead(u) ==
    /\ Len(history[u]) <= HistoryDepth
    /\ \A i \in DOMAIN history[u] : history[u][i].password # users[u].password
    /\ Cardinality(Outstanding(u)) <= 1
    /\ \A n \in OfUser(sessions, u) : Unrevoked(n) =>
          users[u].is_active /\ sessions[n].issued_at >= users[u].password_changed_at

Apart == \A u \in User \ overlapped : Together(u) /\ (Known(u) => OldDead(u))

IInv ==
    /\ Typed /\ AccountsExist /\ FamiliesApart /\ ClockAhead
    /\ AllHeld /\ RotationsCounted /\ Apart

-------------------------------------------------------------------------------
(* What the operations compute.                                            *)

\* Rows have numbers from 1.
LEMMA Numbers ==
    ASSUME Typed
    PROVE  /\ Len(sessions) \in Nat /\ DOMAIN sessions = 1..Len(sessions)
           /\ Len(links) \in Nat /\ DOMAIN links = 1..Len(links)
           /\ \A n \in DOMAIN sessions : sessions[n] \in UserSession
           /\ \A n \in DOMAIN links : links[n] \in PasswordResetToken
    BY DEF Typed

\* Revocation stamps the rows given that have no stamp, and leaves everything else of them.
LEMMA RevokeFacts ==
    ASSUME NEW table \in Seq(UserSession), NEW S, NEW at \in Moment
    PROVE  LET after == Revoke(table, S, at)
           IN  /\ after \in Seq(UserSession) /\ Len(after) = Len(table)
               /\ \A n \in 1..Len(table) :
                     /\ after[n].user = table[n].user
                     /\ after[n].family_id = table[n].family_id
                     /\ after[n].parent = table[n].parent
                     /\ after[n].issued_at = table[n].issued_at
                     /\ after[n].rotated_at = table[n].rotated_at
                     /\ n \notin S => after[n] = table[n]
                     /\ after[n].revoked_at = Null <=>
                           n \notin S /\ table[n].revoked_at = Null
<1> DEFINE after == Revoke(table, S, at)
<1>1. Len(table) \in Nat /\ DOMAIN table = 1..Len(table)
    OBVIOUS
<1>2. after = [n \in 1..Len(table) |->
                  IF n \in S /\ table[n].revoked_at = Null
                  THEN [table[n] EXCEPT !.revoked_at = at] ELSE table[n]]
    BY <1>1 DEF Revoke
<1>3. \A n \in 1..Len(table) : table[n] \in UserSession
    OBVIOUS
<1>4. \A n \in 1..Len(table) : after[n] \in UserSession
    BY <1>2, <1>3, ZenonT(40) DEF UserSession, Moment
<1>5. after \in Seq(UserSession) /\ Len(after) = Len(table)
    BY <1>1, <1>2, <1>4
<1>6. ASSUME NEW n \in 1..Len(table)
      PROVE  /\ after[n].user = table[n].user
             /\ after[n].family_id = table[n].family_id
             /\ after[n].parent = table[n].parent
             /\ after[n].issued_at = table[n].issued_at
             /\ after[n].rotated_at = table[n].rotated_at
             /\ n \notin S => after[n] = table[n]
             /\ after[n].revoked_at = Null <=> n \notin S /\ table[n].revoked_at = Null
    BY <1>2, <1>3 DEF UserSession, Moment, Null
<1> QED BY <1>5, <1>6

\* A new token: the last row, alone in its family or in that of the token presented.
Issued(after, table, r, presented) ==
    LET new == after[Len(table) + 1]
    IN  /\ after \in Seq(UserSession) /\ Len(after) = Len(table) + 1
        /\ \A n \in 1..Len(table) : after[n] = table[n]
        /\ new.user = r.user /\ new.issued_at = r.at /\ new.parent = presented
        /\ new.rotated_at = Null /\ new.revoked_at = Null
        /\ presented = 0 => new.family_id = Len(table) + 1
        /\ presented # 0 => new.family_id = table[presented].family_id

\* What Issue adds to a table of sessions is such a row.
LEMMA IssueFacts ==
    ASSUME NEW table \in Seq(UserSession), NEW r, r.user \in User, r.at \in Moment,
           NEW presented \in 0..Len(table)
    PROVE  Issued(Issue(r, table, presented), table, r, presented)
<1> DEFINE new == [user |-> r.user, issued_at |-> r.at, expires_at |-> r.at + RefreshLife,
                   family_id |-> IF presented = 0 THEN Len(table) + 1
                                 ELSE table[presented].family_id,
                   rotated_at |-> Null, revoked_at |-> Null, parent |-> presented]
<1>1. RefreshLife \in Nat \ {0}
    BY SettingsAssumption
<1>2. Len(table) \in Nat
    OBVIOUS
<1>3. presented # 0 => table[presented].family_id \in Moment
  <2>1. presented # 0 => presented \in 1..Len(table)
      BY <1>2
  <2>2. presented # 0 => table[presented] \in UserSession
      BY <2>1
  <2> QED BY <2>2 DEF UserSession
<1>4. new \in UserSession
    BY <1>1, <1>2, <1>3 DEF UserSession, Moment, Null
<1>5. Issue(r, table, presented) = Append(table, new)
    BY DEF Issue
<1>6. /\ new.user = r.user /\ new.issued_at = r.at /\ new.parent = presented
      /\ new.rotated_at = Null /\ new.revoked_at = Null
      /\ presented = 0 => new.family_id = Len(table) + 1
      /\ presented # 0 => new.family_id = table[presented].family_id
    OBVIOUS
<1> HIDE DEF new
<1>7. /\ Append(table, new) \in Seq(UserSession) /\ Len(Append(table, new)) = Len(table) + 1
      /\ \A n \in 1..Len(table) : Append(table, new)[n] = table[n]
      /\ Append(table, new)[Len(table) + 1] = new
    BY <1>4
<1>8. Issued(Append(table, new), table, r, presented)
    BY <1>6, <1>7 DEF Issued
<1> QED BY <1>5, <1>8

\* Insertion behind the first n, from the community modules.
LEMMA Insertion ==
    ASSUME NEW s, NEW n \in Nat, NEW i, i = n + 1, NEW e
    PROVE  InsertAt(s, i, e) = (SubSeq(s, 1, n) \o <<e>>) \o SubSeq(s, i, Len(s))
<1>1. i - 1 = n
    OBVIOUS
<1> QED BY <1>1 DEF InsertAt

\* The history keeps at most depth passwords, all of which it had or is given.
LEMMA RememberedFacts ==
    ASSUME NEW table \in Seq(PasswordHistory), NEW password \in Password, NEW at \in Moment,
           NEW depth \in Nat \ {0}
    PROVE  LET after == Remembered(table, password, at, depth)
           IN  /\ after \in Seq(PasswordHistory) /\ Len(after) <= depth
               /\ \A i \in DOMAIN after :
                     \/ after[i].password = password
                     \/ \E j \in DOMAIN table : after[i].password = table[j].password
<1> DEFINE older == {i \in DOMAIN table : table[i].changed_at <= at}
           new == [password |-> password, changed_at |-> at]
           n == Cardinality(older)
           spot == n + 1
           kept == InsertAt(table, spot, new)
           first == IF Len(kept) > depth THEN Len(kept) - depth + 1 ELSE 1
<1>1. Len(table) \in Nat /\ DOMAIN table = 1..Len(table)
    OBVIOUS
<1>2. n \in 0..Len(table)
  <2>1. IsFiniteSet(1..Len(table)) /\ Cardinality(1..Len(table)) = Len(table)
      BY <1>1, FS_Interval
  <2>2. older \in SUBSET (1..Len(table))
      BY <1>1
  <2> HIDE DEF older
  <2>3. IsFiniteSet(older) /\ Cardinality(older) <= Cardinality(1..Len(table))
      BY <2>1, <2>2, FS_Subset
  <2> QED BY <2>1, <2>3, FS_CardinalityType
<1>3. new \in PasswordHistory /\ new.password = password
    BY DEF PasswordHistory
<1> HIDE DEF older, new
<1> DEFINE before == SubSeq(table, 1, n)
           behind == SubSeq(table, spot, Len(table))
<1> HIDE DEF n
<1>4. kept = (before \o <<new>>) \o behind
  <2>1. n \in Nat /\ spot = n + 1
      BY <1>2
  <2> HIDE DEF spot
  <2> QED BY <2>1, Insertion DEF kept, before, behind
<1> HIDE DEF kept
<1>5. /\ before \in Seq(PasswordHistory) /\ Len(before) = n
      /\ \A i \in 1..Len(before) : before[i] = table[i]
      /\ behind \in Seq(PasswordHistory) /\ Len(behind) = Len(table) - n
      /\ \A i \in 1..Len(behind) : behind[i] = table[n + i]
  <2>1. \A i \in 1..Len(table) : table[i] \in PasswordHistory
      OBVIOUS
  <2>2. before = [i \in 1..n |-> table[i]]
      BY <1>1, <1>2
  <2>3. behind = [i \in 1..(Len(table) - n) |-> table[n + i]]
      BY <1>1, <1>2
  <2>4. \A i \in 1..n : table[i] \in PasswordHistory
      BY <1>1, <1>2, <2>1
  <2>5. \A i \in 1..(Len(table) - n) : table[n + i] \in PasswordHistory
      BY <1>1, <1>2, <2>1
  <2> HIDE DEF before, behind
  <2>6. before \in Seq(PasswordHistory) /\ Len(before) = n
      BY <1>1, <1>2, <2>2, <2>4
  <2>7. behind \in Seq(PasswordHistory) /\ Len(behind) = Len(table) - n
      BY <1>1, <1>2, <2>3, <2>5
  <2> QED BY <2>2, <2>3, <2>6, <2>7
<1> HIDE DEF before, behind
<1>6. /\ kept \in Seq(PasswordHistory) /\ Len(kept) = Len(table) + 1
      /\ \A i \in 1..Len(kept) :
            kept[i] = IF i <= n THEN before[i] ELSE IF i = n + 1 THEN new ELSE behind[i - n - 1]
    BY <1>1, <1>2, <1>3, <1>4, <1>5
<1>7. ASSUME NEW i \in 1..Len(kept)
      PROVE  \/ kept[i].password = password
             \/ \E j \in DOMAIN table : kept[i].password = table[j].password
  <2>1. CASE i <= n
    <3>1. i \in Nat /\ i >= 1
        BY <1>6
    <3>2. i \in 1..n /\ i \in 1..Len(table)
        BY <1>1, <1>2, <2>1, <3>1
    <3>3. kept[i] = before[i]
        BY <1>6, <2>1
    <3>4. before[i] = table[i] /\ i \in DOMAIN table
        BY <1>5, <3>2
    <3> QED BY <3>3, <3>4
  <2>2. CASE i = n + 1
      BY <1>2, <1>3, <1>6, <2>2
  <2>3. CASE i > n + 1
    <3>1. /\ i \in Nat /\ i <= Len(table) + 1
          /\ ~(i <= n) /\ i # n + 1
        BY <1>1, <1>2, <1>6, <2>3
    <3>2. kept[i] = behind[i - n - 1]
        BY <1>6, <3>1
    <3>3. /\ i - n - 1 \in 1..Len(behind) /\ n + (i - n - 1) = i - 1
          /\ i - 1 \in 1..Len(table)
        BY <1>1, <1>2, <1>5, <2>3, <3>1
    <3>4. behind[i - n - 1] = table[n + (i - n - 1)]
        BY <1>5, <3>3
    <3> QED BY <1>1, <3>2, <3>3, <3>4
  <2> QED BY <1>2, <1>6, <2>1, <2>2, <2>3
<1>8. first \in 1..Len(kept) /\ Len(kept) - first + 1 <= depth /\ Len(kept) \in Nat
    BY <1>1, <1>6
<1>9. Remembered(table, password, at, depth) = SubSeq(kept, first, Len(kept))
    BY DEF Remembered, kept, spot, n, older, new
<1> HIDE DEF first
<1>10. LET after == SubSeq(kept, first, Len(kept))
       IN  /\ after \in Seq(PasswordHistory) /\ Len(after) = Len(kept) - first + 1
           /\ DOMAIN after = 1..(Len(kept) - first + 1)
           /\ \A i \in DOMAIN after : after[i] = kept[first + i - 1]
    BY <1>6, <1>8
<1>11. \A i \in 1..(Len(kept) - first + 1) : first + i - 1 \in 1..Len(kept)
    BY <1>8
<1> DEFINE after == SubSeq(kept, first, Len(kept))
<1>12. ASSUME NEW i \in DOMAIN after
       PROVE  \/ after[i].password = password
              \/ \E j \in DOMAIN table : after[i].password = table[j].password
  <2>1. first + i - 1 \in 1..Len(kept) /\ after[i] = kept[first + i - 1]
      BY <1>10, <1>11
  <2> QED BY <1>7, <2>1
<1>13. after \in Seq(PasswordHistory) /\ Len(after) <= depth
    BY <1>8, <1>10
<1> HIDE DEF after
<1> QED BY <1>9, <1>12, <1>13 DEF after

\* A request under way has its copies, of the types they were read with.
LEMMA RequestFacts ==
    ASSUME Typed, NEW w \in Worker, serving[w] # Idle
    PROVE  LET r == serving[w]
           IN  /\ r \in Request /\ r.user \in User /\ r.at \in Moment
               /\ r.op \in {"login", "failure", "refresh", "forgot", "change", "reset"}
               /\ r.op \in {"login", "failure", "change", "reset"} => r.copy \in UserRow
               /\ r.op = "refresh" => r.token \in Moment
               /\ r.op = "forgot" => r.outstanding \in SUBSET Moment
               /\ r.op \in {"change", "reset"} => r.new \in Password /\ r.link \in Nat
<1>1. serving[w] \in Request
    BY DEF Typed
<1> QED BY <1>1 DEF Request

\* The children of a token are finitely many.
LEMMA ChildrenFinite ==
    ASSUME Typed, NEW n
    PROVE  IsFiniteSet(Children(n)) /\ Cardinality(Children(n)) \in Nat
<1>1. Children(n) \in SUBSET (1..Len(sessions)) /\ Len(sessions) \in Nat
    BY Numbers DEF Children
<1>2. IsFiniteSet(1..Len(sessions))
    BY <1>1, FS_Interval
<1> HIDE DEF Children
<1>3. IsFiniteSet(Children(n))
    BY <1>1, <1>2, FS_Subset
<1> QED BY <1>3, FS_CardinalityType

\* An idle thread holds nothing.
LEMMA IdleFacts == Idle.op = "idle" /\ Idle \notin Request
    BY DEF Idle, Request

-------------------------------------------------------------------------------
(* What one account's step leaves to the others.                           *)

\* Whatever changed belongs to u.  Rows keep who they are, and no row goes.
Confined(u) ==
    /\ clock' = clock
    /\ overlapped \subseteq overlapped' /\ overlapped' \subseteq overlapped \cup {u}
    /\ Known(u) => Known(u)'
    /\ \A x \in User \ {u} : users'[x] = users[x] /\ history'[x] = history[x]
    /\ Len(sessions) <= Len(sessions') /\ Len(links) <= Len(links')
    /\ \A n \in DOMAIN sessions :
          /\ sessions'[n].user = sessions[n].user
          /\ sessions'[n].family_id = sessions[n].family_id
          /\ sessions'[n].parent = sessions[n].parent
          /\ sessions'[n].issued_at = sessions[n].issued_at
          /\ sessions[n].user # u => sessions'[n] = sessions[n]
    /\ \A n \in DOMAIN links :
          /\ links'[n].user = links[n].user
          /\ links[n].user # u => links'[n] = links[n]
    /\ \A n \in DOMAIN sessions' \ DOMAIN sessions : sessions'[n].user = u
    /\ \A n \in DOMAIN links' \ DOMAIN links : links'[n].user = u

\* Requests end, and none begins.
Released == \A w \in Worker : serving'[w] \in {serving[w], Idle}

\* Rows stay where they are.
LEMMA RowsStay ==
    ASSUME Typed, Typed', NEW u \in User, Confined(u)
    PROVE  DOMAIN sessions \subseteq DOMAIN sessions' /\ DOMAIN links \subseteq DOMAIN links'
<1>1. /\ Len(sessions) \in Nat /\ DOMAIN sessions = 1..Len(sessions)
      /\ Len(sessions') \in Nat /\ DOMAIN sessions' = 1..Len(sessions')
      /\ Len(links) \in Nat /\ DOMAIN links = 1..Len(links)
      /\ Len(links') \in Nat /\ DOMAIN links' = 1..Len(links')
    BY DEF Typed
<1> QED BY <1>1 DEF Confined

\* What is said of another account is still true of it.
LEMMA Elsewhere ==
    ASSUME Typed, Typed', NEW u \in User, Confined(u), NEW x \in User, x # u
    PROVE  /\ Known(x)' <=> Known(x)
           /\ OfUser(sessions', x) = OfUser(sessions, x)
           /\ Outstanding(x)' = Outstanding(x)
           /\ x \in overlapped' <=> x \in overlapped
           /\ Together(x) => Together(x)'
           /\ OldDead(x) => OldDead(x)'
<1>1. DOMAIN sessions \subseteq DOMAIN sessions' /\ DOMAIN links \subseteq DOMAIN links'
    BY RowsStay
<1>2. users'[x] = users[x] /\ history'[x] = history[x]
    BY DEF Confined
<1>3. OfUser(sessions', x) = OfUser(sessions, x)
    BY <1>1 DEF Confined, OfUser
<1>4. Outstanding(x)' = Outstanding(x)
  <2>1. \A n : n \in Outstanding(x)' <=>
                  n \in DOMAIN links' /\ links'[n].user = x /\ links'[n].used_at = Null
      BY DEF Outstanding
  <2>2. \A n : n \in Outstanding(x) <=>
                  n \in DOMAIN links /\ links[n].user = x /\ links[n].used_at = Null
      BY DEF Outstanding
  <2>3. \A n : n \in Outstanding(x)' <=> n \in Outstanding(x)
      BY <1>1, <2>1, <2>2 DEF Confined
  <2>4. Outstanding(x)' \subseteq DOMAIN links' /\ Outstanding(x) \subseteq DOMAIN links
      BY DEF Outstanding
  <2> QED BY <2>3
<1>5. \A n \in OfUser(sessions, x) : sessions'[n] = sessions[n]
    BY DEF Confined, OfUser
<1>6. Known(x)' <=> Known(x)
    BY <1>2 DEF Known
<1>7. x \in overlapped' <=> x \in overlapped
    BY DEF Confined
<1>8. Together(x) => Together(x)'
  <2> SUFFICES ASSUME Together(x), NEW m \in OfUser(sessions, x), NEW n \in OfUser(sessions, x),
                      sessions'[m].family_id = sessions'[n].family_id
               PROVE  /\ Unrevoked(m)' = Unrevoked(n)'
                      /\ m < n => sessions'[m].rotated_at # Null
      BY <1>3 DEF Together
  <2>1. sessions'[m] = sessions[m] /\ sessions'[n] = sessions[n]
      BY <1>5
  <2>2. Unrevoked(m) = Unrevoked(n) /\ (m < n => sessions[m].rotated_at # Null)
      BY <2>1 DEF Together
  <2> QED BY <2>1, <2>2 DEF Unrevoked
<1>9. OldDead(x) => OldDead(x)'
    BY <1>2, <1>3, <1>4, <1>5, Zenon DEF OldDead, Unrevoked
<1> QED BY <1>3, <1>4, <1>6, <1>7, <1>8, <1>9

\* A commit leaves the others' requests what they rest on, and notes the overlap with those of
\* its own account.
Noted(u) == \A w \in Worker : (serving'[w] # Idle /\ serving'[w].user = u) => u \in overlapped'

\* So every request under way after the commit rests on what the invariant says it does.
LEMMA RequestsStay ==
    ASSUME IInv, Typed', NEW u \in User, Confined(u), Released, Noted(u)
    PROVE  AllHeld'
<1> SUFFICES ASSUME NEW w \in Worker, serving'[w] # Idle
             PROVE  /\ Held(serving[w])'
                    /\ serving'[w].user \notin overlapped' => Undisturbed(serving[w])'
    BY DEF AllHeld
<1>1. serving'[w] = serving[w] /\ serving[w] # Idle
    BY DEF Released
<1>2. PICK r : r = serving[w]
    OBVIOUS
<1>3. serving'[w] = r
    BY <1>1, <1>2
<1>4. /\ r \in Request /\ r.user \in User /\ r.at \in Moment
      /\ Held(r) /\ (r.user \notin overlapped => Undisturbed(r))
  <2>1. Typed
      BY DEF IInv
  <2>2. r \in Request /\ r.user \in User /\ r.at \in Moment
      BY <1>1, <1>2, <2>1, RequestFacts
  <2>3. Held(r) /\ (r.user \notin overlapped => Undisturbed(r))
      BY <1>1, <1>2, Zenon DEF IInv, AllHeld
  <2> QED BY <2>2, <2>3
<1>5. DOMAIN sessions \subseteq DOMAIN sessions' /\ DOMAIN links \subseteq DOMAIN links'
    BY RowsStay DEF IInv
<1>6. Held(serving[w])'
  <2>1. /\ \A n \in DOMAIN sessions : sessions'[n].user = sessions[n].user
        /\ \A n \in DOMAIN links : links'[n].user = links[n].user
      BY DEF Confined
  <2> QED BY <1>3, <1>4, <1>5, <2>1 DEF Held
<1>7. ASSUME r.user \notin overlapped'
      PROVE  Undisturbed(serving[w])'
  <2>1. r.user # u
      BY <1>1, <1>3, <1>7 DEF Noted
  <2>2. Undisturbed(r)
      BY <1>4, <1>7 DEF Confined
  <2>3. PICK x \in User : x = r.user
      BY <1>4
  <2>4. users'[x] = users[x] /\ history'[x] = history[x]
      BY <2>1, <2>3 DEF Confined
  <2>5. r.op = "refresh" => sessions'[r.token] = sessions[r.token]
      BY <1>4, <2>1 DEF Held, Confined
  <2>6. Outstanding(x)' = Outstanding(x)
      BY <2>1, <2>3, Elsewhere DEF IInv
  <2>7. r.op = "forgot" => Outstanding(x)' \subseteq r.outstanding
      BY <2>2, <2>3, <2>6 DEF Undisturbed
  <2>8. r.op = "refresh" => /\ sessions'[r.token].rotated_at = Null
                            /\ sessions'[r.token].revoked_at = Null
      BY <2>2, <2>5 DEF Undisturbed, Unrevoked
  <2>9. /\ r.op \in {"login", "refresh"} =>
              users'[x].is_active /\ users'[x].password_changed_at <= r.at
        /\ r.op \in {"change", "reset"} =>
              /\ users'[x].password = r.copy.password
              /\ ~Reused(users'[x], history'[x], r.new)
      BY <2>2, <2>3, <2>4 DEF Undisturbed
  <2> QED BY <1>3, <2>3, <2>7, <2>8, <2>9 DEF Undisturbed, Unrevoked
<1> QED BY <1>3, <1>6, <1>7

\* A step after which no more requests hold a token, and that rotates none and has no child for
\* any, keeps the count.
LEMMA RotationsSame ==
    ASSUME IInv, Typed', NEW u \in User, Confined(u), Released,
           \A n \in DOMAIN sessions : sessions'[n].rotated_at = sessions[n].rotated_at,
           \A n \in DOMAIN sessions' \ DOMAIN sessions : sessions'[n].parent = 0
    PROVE  RotationsCounted'
<1> SUFFICES ASSUME NEW n \in DOMAIN sessions'
             PROVE  /\ sessions'[n].rotated_at = Null => Children(n)' = {}
                    /\ Cardinality(Children(n)') + Cardinality(Holders(n)') <= Cardinality(Worker)
                    /\ sessions'[n].user \notin overlapped' => Cardinality(Children(n)') <= 1
    BY DEF RotationsCounted
<1>1. /\ DOMAIN sessions \subseteq DOMAIN sessions'
      /\ DOMAIN sessions = 1..Len(sessions) /\ DOMAIN sessions' = 1..Len(sessions')
      /\ Len(sessions) \in Nat /\ Len(sessions') \in Nat
    BY RowsStay DEF IInv, Typed
<1>2. IsFiniteSet(Worker) /\ Cardinality(Worker) \in Nat
    BY WorkerAssumption, FS_CardinalityType
<1>3. Holders(n) \in SUBSET Worker /\ Holders(n)' \in SUBSET Holders(n)
    BY IdleFacts DEF Holders, Released
<1>4. /\ IsFiniteSet(Holders(n)) /\ Cardinality(Holders(n)) <= Cardinality(Worker)
      /\ IsFiniteSet(Holders(n)') /\ Cardinality(Holders(n)') <= Cardinality(Holders(n))
  <2>1. IsFiniteSet(Holders(n)) /\ Cardinality(Holders(n)) <= Cardinality(Worker)
      BY <1>2, <1>3, FS_Subset
  <2> QED BY <1>3, <2>1, FS_Subset
<1>5. Cardinality(Holders(n)) \in Nat /\ Cardinality(Holders(n)') \in Nat
    BY <1>4, FS_CardinalityType
<1>6. Children(n)' = Children(n)
  <2>1. ASSUME NEW k \in DOMAIN sessions'
        PROVE  k \in Children(n)' <=> k \in Children(n)
    <3>1. CASE k \in DOMAIN sessions
        BY <3>1 DEF Children, Confined
    <3>2. CASE k \notin DOMAIN sessions
        BY <1>1, <3>2 DEF Children
    <3> QED BY <3>1, <3>2
  <2>2. Children(n)' \subseteq DOMAIN sessions' /\ Children(n) \subseteq DOMAIN sessions'
      BY <1>1 DEF Children
  <2> QED BY <2>1, <2>2
<1>7. CASE n \in DOMAIN sessions
  <2>1. /\ sessions[n].rotated_at = Null => Children(n) = {}
        /\ Cardinality(Children(n)) + Cardinality(Holders(n)) <= Cardinality(Worker)
        /\ sessions[n].user \notin overlapped => Cardinality(Children(n)) <= 1
      BY <1>7 DEF IInv, RotationsCounted
  <2>2. Cardinality(Children(n)) \in Nat
      BY ChildrenFinite DEF IInv
  <2>3. /\ sessions'[n].user = sessions[n].user /\ sessions'[n].rotated_at = sessions[n].rotated_at
        /\ sessions'[n].user \notin overlapped' => sessions'[n].user \notin overlapped
      BY <1>7 DEF Confined
  <2> QED BY <1>2, <1>4, <1>5, <1>6, <2>1, <2>2, <2>3
<1>8. CASE n \notin DOMAIN sessions
  <2>1. Children(n) = {}
    <3>1. \A k \in DOMAIN sessions : sessions[k].parent < k
        BY DEF IInv, FamiliesApart
    <3>2. \A k \in DOMAIN sessions : k < n
        BY <1>1, <1>8
    <3>3. \A k \in DOMAIN sessions : sessions[k].parent \in Nat
        BY Numbers DEF IInv, UserSession
    <3>4. \A k \in DOMAIN sessions : sessions[k].parent # n
        BY <1>1, <3>1, <3>2, <3>3
    <3> QED BY <3>4 DEF Children
  <2>2. Cardinality({}) = 0
      BY FS_EmptySet
  <2> QED BY <1>2, <1>4, <1>5, <1>6, <2>1, <2>2
<1> QED BY <1>7, <1>8

\* A commit keeps the invariant when it keeps what is said of its own account.
LEMMA ConfinedKeeps ==
    ASSUME IInv, Typed', NEW u \in User, Confined(u), Released, Noted(u),
           Known(u)',
           users'[u].password_changed_at <= clock,
           \A n \in DOMAIN sessions' \ DOMAIN sessions :
              /\ sessions'[n].family_id <= n /\ sessions'[n].parent < n
              /\ \A m \in DOMAIN sessions :
                    sessions[m].family_id = sessions'[n].family_id => sessions[m].user = u,
           RotationsCounted',
           u \notin overlapped' => Together(u)' /\ OldDead(u)'
    PROVE  IInv'
<1>1. DOMAIN sessions \subseteq DOMAIN sessions' /\ DOMAIN links \subseteq DOMAIN links'
    BY RowsStay DEF IInv
<1>2. \A x \in User : users[x] # NoRow => users'[x] # NoRow
    BY DEF Known, Confined
<1>3. AccountsExist'
  <2>1. ASSUME NEW n \in DOMAIN sessions'
        PROVE  users'[sessions'[n].user] # NoRow
    <3>1. CASE n \in DOMAIN sessions
      <4>1. sessions[n].user \in User
          BY <3>1, Numbers DEF IInv, UserSession
      <4>2. users[sessions[n].user] # NoRow
          BY <3>1 DEF IInv, AccountsExist, Known
      <4> QED BY <1>2, <3>1, <4>1, <4>2 DEF Confined
    <3>2. CASE n \notin DOMAIN sessions
        BY <3>2 DEF Confined, Known
    <3> QED BY <3>1, <3>2
  <2>2. ASSUME NEW n \in DOMAIN links'
        PROVE  users'[links'[n].user] # NoRow
    <3>1. CASE n \in DOMAIN links
      <4>1. links[n].user \in User
          BY <3>1, Numbers DEF IInv, PasswordResetToken
      <4>2. users[links[n].user] # NoRow
          BY <3>1 DEF IInv, AccountsExist, Known
      <4> QED BY <1>2, <3>1, <4>1, <4>2 DEF Confined
    <3>2. CASE n \notin DOMAIN links
        BY <3>2 DEF Confined, Known
    <3> QED BY <3>1, <3>2
  <2>3. ASSUME NEW w \in Worker, serving'[w] # Idle
        PROVE  users'[serving'[w].user] # NoRow
    <3>1. serving'[w] = serving[w] /\ serving[w] # Idle
        BY <2>3 DEF Released
    <3>2. serving[w].user \in User
        BY <3>1, RequestFacts DEF IInv
    <3>3. users[serving[w].user] # NoRow
        BY <3>1 DEF IInv, AccountsExist, Known
    <3> QED BY <1>2, <3>1, <3>2, <3>3
  <2>4. \A x \in User : users'[x] = NoRow => history'[x] = << >>
      BY DEF IInv, AccountsExist, Known, Confined
  <2> QED BY <2>1, <2>2, <2>3, <2>4 DEF AccountsExist, Known
<1>4. FamiliesApart'
  <2>1. \A n \in DOMAIN sessions' :
            sessions'[n].family_id <= n /\ sessions'[n].parent < n
    <3>1. \A n \in DOMAIN sessions :
              sessions[n].family_id <= n /\ sessions[n].parent < n
        BY DEF IInv, FamiliesApart
    <3> QED BY <1>1, <3>1 DEF Confined
  <2>2. ASSUME NEW n \in DOMAIN sessions', NEW m \in DOMAIN sessions',
               sessions'[m].family_id = sessions'[n].family_id
        PROVE  sessions'[m].user = sessions'[n].user
    <3>1. CASE n \in DOMAIN sessions /\ m \in DOMAIN sessions
      <4>1. /\ sessions'[n].user = sessions[n].user /\ sessions'[m].user = sessions[m].user
            /\ sessions[m].family_id = sessions[n].family_id
          BY <2>2, <3>1 DEF Confined
      <4> QED BY <3>1, <4>1 DEF IInv, FamiliesApart
    <3>2. CASE n \notin DOMAIN sessions /\ m \in DOMAIN sessions
      <4>1. sessions'[m].user = sessions[m].user /\ sessions[m].family_id = sessions'[n].family_id
          BY <2>2, <3>2 DEF Confined
      <4> QED BY <3>2, <4>1 DEF Confined
    <3>3. CASE n \in DOMAIN sessions /\ m \notin DOMAIN sessions
      <4>1. sessions'[n].user = sessions[n].user /\ sessions[n].family_id = sessions'[m].family_id
          BY <2>2, <3>3 DEF Confined
      <4> QED BY <3>3, <4>1 DEF Confined
    <3>4. CASE n \notin DOMAIN sessions /\ m \notin DOMAIN sessions
        BY <3>4 DEF Confined
    <3> QED BY <3>1, <3>2, <3>3, <3>4
  <2> QED BY <2>1, <2>2 DEF FamiliesApart
<1>5. ClockAhead'
  <2>1. clock' = clock /\ \A x \in User \ {u} : users'[x] = users[x]
      BY DEF Confined
  <2>2. \A x \in User : Known(x)' => users'[x].password_changed_at <= clock'
      BY <2>1 DEF IInv, ClockAhead, Known
  <2>3. \A w \in Worker : serving'[w] # Idle => serving'[w].at <= clock'
      BY <2>1 DEF IInv, ClockAhead, Released
  <2> QED BY <2>2, <2>3 DEF ClockAhead
<1>6. AllHeld'
    BY RequestsStay
<1>7. Apart'
  <2> SUFFICES ASSUME NEW x \in User, x \notin overlapped'
               PROVE  Together(x)' /\ (Known(x)' => OldDead(x)')
      BY DEF Apart
  <2>1. CASE x = u
      BY <2>1
  <2>2. CASE x # u
    <3>1. x \notin overlapped
        BY DEF Confined
    <3>2. Together(x) /\ (Known(x) => OldDead(x))
        BY <3>1 DEF IInv, Apart
    <3> QED BY <2>2, <3>2, Elsewhere DEF IInv
  <2> QED BY <2>1, <2>2
<1> QED BY <1>3, <1>4, <1>5, <1>6, <1>7 DEF IInv

\* What is said of an account is said of its rows.
LEMMA SaidSame ==
    ASSUME UNCHANGED <<users, sessions, links, history>>, NEW x
    PROVE  (Together(x) => Together(x)') /\ (OldDead(x) => OldDead(x)')
<1>1. Outstanding(x)' = Outstanding(x)
    BY DEF Outstanding
<1>2. OfUser(sessions', x) = OfUser(sessions, x)
    OBVIOUS
<1>3. Together(x) => Together(x)'
    BY <1>2 DEF Together, Unrevoked
<1>4. OldDead(x) => OldDead(x)'
    BY <1>1, <1>2 DEF OldDead, Unrevoked
<1> QED BY <1>3, <1>4

\* Requests that end without a commit, and time, keep it too.
LEMMA NothingWritten ==
    ASSUME IInv, UNCHANGED <<users, sessions, links, history, overlapped>>, Released,
           clock' \in Moment, clock <= clock', serving' \in [Worker -> Request \cup {Idle}]
    PROVE  IInv'
<1>1. Typed'
    BY DEF IInv, Typed
<1>2. AccountsExist' /\ FamiliesApart'
    BY DEF IInv, AccountsExist, FamiliesApart, Known, Released
<1>3. ClockAhead'
  <2>1. clock \in Nat /\ clock' \in Nat
      BY DEF IInv, Typed, Moment
  <2>2. ASSUME NEW x \in User, users[x] # NoRow
        PROVE  users[x].password_changed_at <= clock'
    <3>1. users[x].password_changed_at \in Nat
        BY <2>2 DEF IInv, Typed, UserRow
    <3> QED BY <2>1, <2>2, <3>1 DEF IInv, ClockAhead, Known
  <2>3. ASSUME NEW w \in Worker, serving'[w] # Idle
        PROVE  serving'[w].at <= clock'
    <3>1. serving'[w] = serving[w] /\ serving[w] # Idle
        BY <2>3 DEF Released
    <3>2. serving[w].at \in Nat /\ serving[w].at <= clock
        BY <3>1, RequestFacts DEF IInv, ClockAhead, Moment
    <3> QED BY <2>1, <3>1, <3>2
  <2> QED BY <2>2, <2>3 DEF ClockAhead, Known
<1>4. AllHeld'
    BY DEF IInv, AllHeld, Released, Held, Undisturbed, Unrevoked, Outstanding
<1>5. RotationsCounted'
  <2> SUFFICES ASSUME NEW n \in DOMAIN sessions
               PROVE  Cardinality(Children(n)) + Cardinality(Holders(n)') <= Cardinality(Worker)
      BY DEF IInv, RotationsCounted, Children
  <2>1. Holders(n) \in SUBSET Worker /\ Holders(n)' \in SUBSET Holders(n)
      BY IdleFacts DEF Holders, Released
  <2>2. IsFiniteSet(Holders(n))
      BY <2>1, WorkerAssumption, FS_Subset
  <2>3. IsFiniteSet(Holders(n)') /\ Cardinality(Holders(n)') <= Cardinality(Holders(n))
      BY <2>1, <2>2, FS_Subset
  <2>4. /\ Cardinality(Holders(n)) \in Nat /\ Cardinality(Holders(n)') \in Nat
        /\ Cardinality(Worker) \in Nat
      BY <2>2, <2>3, WorkerAssumption, FS_CardinalityType
  <2>5. Cardinality(Children(n)) \in Nat
      BY ChildrenFinite DEF IInv
  <2>6. Cardinality(Children(n)) + Cardinality(Holders(n)) <= Cardinality(Worker)
      BY DEF IInv, RotationsCounted
  <2> QED BY <2>3, <2>4, <2>5, <2>6
<1>6. Apart'
    BY SaidSame DEF IInv, Apart, Known
<1> QED BY <1>1, <1>2, <1>3, <1>4, <1>5, <1>6 DEF IInv

\* A request that begins holds what it has just read.
LEMMA BeginKeeps ==
    ASSUME IInv, NEW w \in Worker, NEW request \in Request, Begin(w, request),
           request.at = clock, Known(request.user), Held(request), Undisturbed(request)
    PROVE  IInv'
<1>1. /\ UNCHANGED <<users, sessions, links, history, clock, overlapped>>
      /\ serving[w] = Idle /\ serving' = [serving EXCEPT ![w] = request]
    BY DEF Begin
<1>2. /\ serving'[w] = request
      /\ \A v \in Worker \ {w} : serving'[v] = serving[v]
      /\ serving' \in [Worker -> Request \cup {Idle}]
    BY <1>1 DEF IInv, Typed
<1>3. Typed'
    BY <1>1, <1>2 DEF IInv, Typed
<1>4. AccountsExist' /\ FamiliesApart'
    BY <1>1, <1>2 DEF IInv, AccountsExist, FamiliesApart, Known
<1>5. ClockAhead'
    BY <1>1, <1>2 DEF IInv, ClockAhead, Known, Typed, Moment
<1>6. AllHeld'
  <2>1. ASSUME NEW v \in Worker, serving'[v] # Idle
        PROVE  /\ Held(serving[v])'
               /\ serving'[v].user \notin overlapped' => Undisturbed(serving[v])'
    <3>1. PICK r : r = serving'[v]
        OBVIOUS
    <3>2. Held(r) /\ (r.user \notin overlapped => Undisturbed(r))
        BY <1>1, <1>2, <2>1, <3>1, Zenon DEF IInv, AllHeld
    <3> QED BY <1>1, <3>1, <3>2 DEF Held, Undisturbed, Unrevoked, Outstanding
  <2> QED BY <2>1 DEF AllHeld
<1>7. RotationsCounted'
  <2> SUFFICES ASSUME NEW n \in DOMAIN sessions
               PROVE  Cardinality(Children(n)) + Cardinality(Holders(n)') <= Cardinality(Worker)
      BY <1>1 DEF IInv, RotationsCounted, Children
  <2>1. Cardinality(Children(n)) + Cardinality(Holders(n)) <= Cardinality(Worker)
      BY DEF IInv, RotationsCounted
  <2>2. CASE request.op = "refresh" /\ request.token = n
    <3>1. Children(n) = {}
        BY <2>2 DEF IInv, RotationsCounted, Undisturbed
    <3>2. Holders(n)' \in SUBSET Worker
        BY DEF Holders
    <3>3. IsFiniteSet(Holders(n)') /\ Cardinality(Holders(n)') <= Cardinality(Worker)
        BY <3>2, WorkerAssumption, FS_Subset
    <3>4. Cardinality(Children(n)) = 0 /\ Cardinality(Holders(n)') \in Nat
        BY <3>1, <3>3, FS_EmptySet, FS_CardinalityType
    <3> QED BY <3>3, <3>4
  <2>3. CASE ~(request.op = "refresh" /\ request.token = n)
    <3>1. \A v \in Worker : v \in Holders(n)' <=> v \in Holders(n)
        BY <1>1, <1>2, <2>3, IdleFacts DEF Holders
    <3>2. Holders(n)' = Holders(n)
        BY <3>1 DEF Holders
    <3> QED BY <2>1, <3>2
  <2> QED BY <2>2, <2>3
<1>8. Apart'
    BY <1>1, SaidSame DEF IInv, Apart, Known
<1> QED BY <1>3, <1>4, <1>5, <1>6, <1>7, <1>8 DEF IInv

-------------------------------------------------------------------------------
(* What a request holds when it begins.                                    *)

\* An account that has been created is a row of the table.
LEMMA RowFacts ==
    ASSUME Typed, NEW u \in User, Known(u)
    PROVE  users[u] \in UserRow
    BY DEF Typed, Known

\* A login: refused it writes nothing, wrong it counts a failure, right it starts a request.
LEMMA PostLoginKeeps ==
    ASSUME IInv, NEW w \in Worker, PostLogin(w)
    PROVE  IInv'
<1>1. PICK u \in User, p \in Password : Login(w, u, p)
    BY DEF PostLogin, LoginRequest
<1>2. CASE Refuse
    BY <1>2, NothingWritten DEF Refuse, IInv, Typed, Released, Moment
<1>3. CASE Attempt(w, u, p) /\ ~Refuse
  <2>1. /\ Known(u) /\ ~Locked(users[u], clock) /\ (p # users[u].password \/ users[u].is_active)
      BY <1>1, <1>3 DEF Login
  <2>2. users[u] \in UserRow /\ clock \in Moment
      BY <2>1, RowFacts DEF IInv, Typed
  <2> DEFINE request == [op |-> IF p = users[u].password THEN "login" ELSE "failure",
                         user |-> u, at |-> clock, copy |-> users[u]]
  <2>3. request \in Request
      BY <2>2 DEF Request
  <2>4. /\ request.at = clock /\ request.user = u /\ request.copy = users[u]
        /\ request.op = IF p = users[u].password THEN "login" ELSE "failure"
      OBVIOUS
  <2>5. Begin(w, request)
      BY <1>3 DEF Attempt
  <2> HIDE DEF request
  <2>6. Held(request)
      BY <2>1, <2>2, <2>4 DEF Held, Locked, UserRow, Moment
  <2>7. Undisturbed(request)
      BY <2>1, <2>4 DEF Undisturbed, IInv, ClockAhead
  <2> QED BY <2>1, <2>3, <2>4, <2>5, <2>6, <2>7, BeginKeeps
<1> QED BY <1>1, <1>2, <1>3 DEF Login

\* The refresh of a live token starts a request that holds the token.
LEMMA RefreshKeeps ==
    ASSUME IInv, NEW w \in Worker, NEW n \in DOMAIN sessions, Refresh(w, n)
    PROVE  IInv'
<1> DEFINE u == sessions[n].user
           request == [op |-> "refresh", user |-> u, at |-> clock, token |-> n]
<1>1. /\ sessions[n].rotated_at = Null /\ sessions[n].revoked_at = Null
      /\ users[u].is_active /\ Begin(w, request)
    BY DEF Refresh, RefreshLive
<1>2. sessions[n] \in UserSession /\ n \in Moment /\ clock \in Moment
    BY Numbers DEF IInv, Typed, Moment
<1>3. u \in User /\ Known(u)
    BY <1>2 DEF UserSession, IInv, AccountsExist
<1>4. request \in Request
    BY <1>2, <1>3 DEF Request
<1>5. request.op = "refresh" /\ request.user = u /\ request.at = clock /\ request.token = n
    OBVIOUS
<1> HIDE DEF request
<1>6. Held(request)
    BY <1>5 DEF Held
<1>7. Undisturbed(request)
  <2>1. users[u].password_changed_at <= clock
      BY <1>3 DEF IInv, ClockAhead
  <2> QED BY <1>1, <1>5, <2>1 DEF Undisturbed, Unrevoked
<1> QED BY <1>1, <1>3, <1>4, <1>5, <1>6, <1>7, BeginKeeps

\* A password about to be replaced, by its owner or with a link.
LEMMA NewPasswordBegins ==
    ASSUME IInv, NEW w \in Worker, NEW op \in {"change", "reset"}, NEW u \in User, Known(u),
           NEW p \in Password, NewPasswordAllowed(u, p), NEW link \in Nat,
           op = "reset" => link \in DOMAIN links /\ links[link].user = u,
           StartNewPassword(w, op, u, p, link)
    PROVE  IInv'
<1> DEFINE request == [op |-> op, user |-> u, at |-> clock, copy |-> users[u], new |-> p,
                       link |-> link]
<1>1. Begin(w, request)
    BY DEF StartNewPassword
<1>2. users[u] \in UserRow /\ clock \in Moment
    BY RowFacts DEF IInv, Typed
<1>3. request \in Request
    BY <1>2 DEF Request
<1>4. /\ request.op = op /\ request.user = u /\ request.at = clock /\ request.copy = users[u]
      /\ request.new = p /\ request.link = link
    OBVIOUS
<1> HIDE DEF request
<1>5. Held(request)
    BY <1>4 DEF Held
<1>6. Undisturbed(request)
    BY <1>4 DEF Undisturbed, NewPasswordAllowed
<1> QED BY <1>1, <1>3, <1>4, <1>5, <1>6, BeginKeeps

\* A change of password starts a request without a link.
LEMMA PostChangePasswordKeeps ==
    ASSUME IInv, NEW w \in Worker, PostChangePassword(w)
    PROVE  IInv'
<1>1. PICK u \in User, p \in Password :
          Known(u) /\ NewPasswordAllowed(u, p) /\ StartNewPassword(w, "change", u, p, 0)
    BY DEF PostChangePassword, ChangePasswordRequest
<1> QED BY <1>1, NewPasswordBegins

\* A reset starts a request that holds the link.
LEMMA PostResetPasswordKeeps ==
    ASSUME IInv, NEW w \in Worker, PostResetPassword(w)
    PROVE  IInv'
<1>1. PICK n \in DOMAIN links, p \in Password : ResetPassword(w, n, p)
    BY DEF PostResetPassword, ResetPasswordRequest
<1>2. PICK u : u = links[n].user
    OBVIOUS
<1>3. n \in Nat /\ u \in User /\ Known(u)
    BY <1>2, Numbers DEF IInv, AccountsExist, PasswordResetToken
<1>4. NewPasswordAllowed(u, p) /\ StartNewPassword(w, "reset", u, p, n)
    BY <1>1, <1>2 DEF ResetPassword
<1> QED BY <1>2, <1>3, <1>4, NewPasswordBegins

\* A request for a link holds the outstanding links, all the account's own.
LEMMA PostForgotPasswordKeeps ==
    ASSUME IInv, NEW w \in Worker, PostForgotPassword(w)
    PROVE  IInv'
<1>1. PICK u \in User :
          /\ Known(u)
          /\ Begin(w, [op |-> "forgot", user |-> u, at |-> clock, outstanding |-> Outstanding(u)])
    BY DEF PostForgotPassword
<1> DEFINE request == [op |-> "forgot", user |-> u, at |-> clock, outstanding |-> Outstanding(u)]
<1>2. Outstanding(u) \in SUBSET Moment /\ clock \in Moment
    BY Numbers DEF IInv, Typed, Outstanding, Moment
<1>3. request \in Request
    BY <1>2 DEF Request
<1>4. /\ request.op = "forgot" /\ request.user = u /\ request.at = clock
      /\ request.outstanding = Outstanding(u)
    OBVIOUS
<1>5. Begin(w, request)
    BY <1>1
<1> HIDE DEF request
<1>6. Held(request)
    BY <1>4 DEF Held, Outstanding
<1>7. Undisturbed(request)
    BY <1>4 DEF Undisturbed
<1> QED BY <1>1, <1>3, <1>4, <1>5, <1>6, <1>7, BeginKeeps

-------------------------------------------------------------------------------
(* Writing a row, and ending a request.                                    *)

\* The UPDATE carries the columns that the request has changed.
LEMMA WriteFacts ==
    ASSUME NEW current \in UserRow, NEW old \in UserRow, NEW new \in UserRow
    PROVE  LET after == Write(current, old, new)
           IN  /\ after \in UserRow
               /\ after.password = IF new.password = old.password THEN current.password
                                   ELSE new.password
               /\ after.is_active = IF new.is_active = old.is_active THEN current.is_active
                                    ELSE new.is_active
               /\ after.locked_until = IF new.locked_until = old.locked_until
                                       THEN current.locked_until ELSE new.locked_until
               /\ after.password_changed_at =
                     IF new.password_changed_at = old.password_changed_at
                     THEN current.password_changed_at ELSE new.password_changed_at
<1> DEFINE Columns == {"password", "is_active", "must_change_password", "failed_login_attempts",
                       "locked_until", "password_changed_at"}
           after == [c \in Columns |-> IF new[c] = old[c] THEN current[c] ELSE new[c]]
<1>1. DOMAIN current = Columns
    BY DEF UserRow
<1>2. Write(current, old, new) = after
    BY <1>1 DEF Write
<1>3. /\ after["password"] \in Password /\ after["is_active"] \in BOOLEAN
      /\ after["must_change_password"] \in BOOLEAN /\ after["failed_login_attempts"] \in Nat
      /\ after["locked_until"] \in Nat /\ after["password_changed_at"] \in Nat
    BY DEF UserRow
<1>4. after \in UserRow
    BY <1>3 DEF UserRow
<1> QED BY <1>2, <1>4

\* A commit of u notes that requests of u are still under way.
LEMMA NoteFacts ==
    ASSUME Typed, NEW u \in User, NEW others, NoteOverlap(u, others)
    PROVE  /\ overlapped \subseteq overlapped' /\ overlapped' \subseteq overlapped \cup {u}
           /\ overlapped' \subseteq User
           /\ \A v \in others : Serving(v, u) => u \in overlapped'
    BY DEF Typed, NoteOverlap

\* The end of a commit: the thread is idle, and the requests it overtook are noted.
LEMMA FinishFacts ==
    ASSUME Typed, NEW w \in Worker, serving[w] # Idle, Finish(w)
    PROVE  /\ Released /\ Noted(serving[w].user) /\ serving'[w] = Idle
           /\ serving' \in [Worker -> Request \cup {Idle}]
           /\ overlapped \subseteq overlapped' /\ overlapped' \subseteq User
           /\ overlapped' \subseteq overlapped \cup {serving[w].user}
<1>1. PICK u \in User : u = serving[w].user
    BY RequestFacts
<1>2. NoteOverlap(u, Worker \ {w}) /\ serving' = [serving EXCEPT ![w] = Idle]
    BY <1>1 DEF Finish
<1>3. /\ serving'[w] = Idle /\ serving' \in [Worker -> Request \cup {Idle}]
      /\ \A v \in Worker \ {w} : serving'[v] = serving[v]
    BY <1>2 DEF Typed
<1>4. /\ overlapped \subseteq overlapped' /\ overlapped' \subseteq overlapped \cup {u}
      /\ overlapped' \subseteq User
      /\ \A v \in Worker \ {w} : Serving(v, u) => u \in overlapped'
    BY <1>2, NoteFacts
<1> QED BY <1>1, <1>3, <1>4 DEF Released, Noted, Serving

\* Revoking whole families of u, in one UPDATE.
LEMMA RevocationKeeps ==
    ASSUME IInv, NEW u \in User, Known(u), NEW S, sessions' = Revoke(sessions, S, clock),
           UNCHANGED <<users, links, history, clock, serving>>, NoteOverlap(u, Worker),
           \A n \in DOMAIN sessions : n \in S => sessions[n].user = u,
           \A m, n \in DOMAIN sessions :
              (sessions[m].family_id = sessions[n].family_id /\ n \in S) => m \in S
    PROVE  IInv'
<1>1. clock \in Moment /\ sessions \in Seq(UserSession)
    BY DEF IInv, Typed
<1>2. /\ sessions' \in Seq(UserSession) /\ Len(sessions') = Len(sessions)
      /\ DOMAIN sessions' = DOMAIN sessions /\ DOMAIN sessions = 1..Len(sessions)
      /\ Len(sessions) \in Nat
      /\ \A n \in DOMAIN sessions :
            /\ sessions'[n].user = sessions[n].user
            /\ sessions'[n].family_id = sessions[n].family_id
            /\ sessions'[n].parent = sessions[n].parent
            /\ sessions'[n].issued_at = sessions[n].issued_at
            /\ sessions'[n].rotated_at = sessions[n].rotated_at
            /\ n \notin S => sessions'[n] = sessions[n]
            /\ sessions'[n].revoked_at = Null <=> n \notin S /\ sessions[n].revoked_at = Null
  <2>1. Len(sessions) \in Nat /\ DOMAIN sessions = 1..Len(sessions)
      BY <1>1
  <2>2. LET after == sessions'
        IN  /\ after \in Seq(UserSession) /\ Len(after) = Len(sessions)
            /\ \A n \in 1..Len(sessions) :
                  /\ after[n].user = sessions[n].user
                  /\ after[n].family_id = sessions[n].family_id
                  /\ after[n].parent = sessions[n].parent
                  /\ after[n].issued_at = sessions[n].issued_at
                  /\ after[n].rotated_at = sessions[n].rotated_at
                  /\ n \notin S => after[n] = sessions[n]
                  /\ after[n].revoked_at = Null <=> n \notin S /\ sessions[n].revoked_at = Null
      BY <1>1, RevokeFacts
  <2>3. DOMAIN sessions' = 1..Len(sessions')
      BY <2>2
  <2> QED BY <2>1, <2>2, <2>3
<1>3. /\ overlapped \subseteq overlapped' /\ overlapped' \subseteq overlapped \cup {u}
      /\ overlapped' \subseteq User
      /\ \A v \in Worker : Serving(v, u) => u \in overlapped'
    BY NoteFacts DEF IInv
<1>4. Typed'
    BY <1>2, <1>3 DEF IInv, Typed
<1>5. Confined(u) /\ Released /\ Noted(u)
    BY <1>2, <1>3 DEF Confined, Released, Noted, Serving, Known
<1>6. RotationsCounted'
    BY <1>2, <1>4, <1>5, RotationsSame
<1>7. Known(u)' /\ users'[u].password_changed_at <= clock
    BY DEF Known, IInv, ClockAhead
<1>8. ASSUME u \notin overlapped'
      PROVE  Together(u)' /\ OldDead(u)'
  <2>1. Together(u) /\ OldDead(u)
      BY <1>3, <1>8 DEF IInv, Apart
  <2>2. Together(u)'
      BY <1>2, <2>1 DEF Together, OfUser, Unrevoked
  <2>3. OfUser(sessions', u) = OfUser(sessions, u)
      BY <1>2 DEF OfUser
  <2>4. Outstanding(u)' = Outstanding(u)
      BY DEF Outstanding
  <2>5. OldDead(u)'
      BY <1>2, <2>1, <2>3, <2>4 DEF OldDead, OfUser, Unrevoked
  <2> QED BY <2>2, <2>5
<1> QED BY <1>2, <1>4, <1>5, <1>6, <1>7, <1>8, ConfinedKeeps

\* A family, or all of an account's, is such a set.
LEMMA SignOutKeeps ==
    ASSUME IInv, NEW u \in User, Known(u), NEW S,
           \/ S = OfUser(sessions, u)
           \/ \E n \in DOMAIN sessions :
                 u = sessions[n].user /\ S = OfFamily(sessions, sessions[n].family_id),
           sessions' = Revoke(sessions, S, clock),
           UNCHANGED <<users, links, history, clock, serving>>, NoteOverlap(u, Worker)
    PROVE  IInv'
<1>1. \A n \in DOMAIN sessions : n \in S => sessions[n].user = u
    BY DEF IInv, FamiliesApart, OfUser, OfFamily
<1>2. \A m, n \in DOMAIN sessions :
          (sessions[m].family_id = sessions[n].family_id /\ n \in S) => m \in S
    BY DEF IInv, FamiliesApart, OfUser, OfFamily
<1> QED BY <1>1, <1>2, RevocationKeeps

\* The owner of a row has an account.
LEMMA OwnerFacts ==
    ASSUME IInv, NEW n \in DOMAIN sessions
    PROVE  sessions[n].user \in User /\ Known(sessions[n].user)
    BY Numbers DEF IInv, AccountsExist, UserSession

\* Signing out, of one family or of all, keeps the invariant.
LEMMA PostLogoutKeeps ==
    ASSUME IInv, PostLogout \/ PostLogoutAll
    PROVE  IInv'
<1>1. CASE PostLogout
  <2>1. PICK n \in DOMAIN sessions :
            SignOut(OfFamily(sessions, sessions[n].family_id), sessions[n].user)
      BY <1>1 DEF PostLogout
  <2>2. PICK u \in User : u = sessions[n].user
      BY OwnerFacts
  <2>3. PICK S : S = OfFamily(sessions, sessions[n].family_id)
      OBVIOUS
  <2>4. Known(u) /\ SignOut(S, u)
      BY <2>1, <2>2, <2>3, OwnerFacts
  <2> QED BY <2>2, <2>3, <2>4, SignOutKeeps DEF SignOut
<1>2. CASE PostLogoutAll
  <2>1. PICK u \in User : Known(u) /\ SignOut(OfUser(sessions, u), u)
      BY <1>2 DEF PostLogoutAll
  <2>2. PICK S : S = OfUser(sessions, u)
      OBVIOUS
  <2> QED BY <2>1, <2>2, SignOutKeeps DEF SignOut
<1> QED BY <1>1, <1>2

\* A rotated token presented again revokes the family, and keeps the invariant.
LEMMA RefreshReusedKeeps ==
    ASSUME IInv, NEW n \in DOMAIN sessions, RefreshReused(n)
    PROVE  IInv'
<1>1. PICK u \in User : u = sessions[n].user
    BY OwnerFacts
<1>2. PICK S : S = OfFamily(sessions, sessions[n].family_id)
    OBVIOUS
<1>3. Known(u)
    BY <1>1, OwnerFacts
<1> QED BY <1>1, <1>2, <1>3, SignOutKeeps DEF RefreshReused

-------------------------------------------------------------------------------
(* Accounts.                                                               *)

\* The account that did not exist has no rows and no requests.
LEMMA CreateUserKeeps ==
    ASSUME IInv, NEW u \in User, NEW p \in Password, CreateUser(u, p)
    PROVE  IInv'
<1>1. /\ ~Known(u) /\ users' = [users EXCEPT ![u] = NewUser(p)]
      /\ UNCHANGED <<sessions, links, history, clock, serving, overlapped>>
    BY DEF CreateUser
<1>2. NewUser(p) \in UserRow /\ NewUser(p).password_changed_at = 0
    BY DEF NewUser, UserRow, Null
<1>3. Typed'
    BY <1>1, <1>2 DEF IInv, Typed
<1>4. users'[u] = NewUser(p) /\ \A x \in User \ {u} : users'[x] = users[x]
    BY <1>1 DEF IInv, Typed
<1>5. Known(u)'
    BY <1>2, <1>4, NoRowAssumption DEF Known
<1>6. /\ \A n \in DOMAIN sessions : sessions[n].user # u
      /\ \A n \in DOMAIN links : links[n].user # u
      /\ \A w \in Worker : serving[w] # Idle => serving[w].user # u
      /\ history[u] = << >>
    BY <1>1 DEF IInv, AccountsExist
<1>7. Confined(u) /\ Released /\ Noted(u)
    BY <1>1, <1>4, <1>5, <1>6, Numbers DEF Confined, Released, Noted, IInv
<1>8. RotationsCounted'
    BY <1>1, <1>3, <1>7, RotationsSame
<1>9. Together(u)'
    BY <1>1, <1>6 DEF Together, OfUser
<1>10. OldDead(u)'
  <2>1. Outstanding(u)' = {} /\ OfUser(sessions', u) = {}
      BY <1>1, <1>6 DEF Outstanding, OfUser
  <2>2. Cardinality({}) = 0 /\ HistoryDepth \in Nat
      BY FS_EmptySet, SettingsAssumption
  <2>3. history'[u] = << >> /\ Len(<< >>) = 0 /\ DOMAIN << >> = {}
      BY <1>1, <1>6
  <2> QED BY <2>1, <2>2, <2>3 DEF OldDead
<1>11. users'[u].password_changed_at <= clock
    BY <1>2, <1>4 DEF IInv, Typed, Moment
<1> QED BY <1>1, <1>3, <1>5, <1>7, <1>8, <1>9, <1>10, <1>11, ConfinedKeeps

\* An inactive account has no live token to keep, and deactivation leaves it none.
LEMMA SetUserActiveKeeps ==
    ASSUME IInv, NEW u \in User, NEW active \in BOOLEAN, SetUserActive(u, active)
    PROVE  IInv'
<1>1. /\ Known(u) /\ users[u].is_active # active
      /\ users' = [users EXCEPT ![u].is_active = active]
      /\ sessions' = IF active THEN sessions ELSE Revoke(sessions, OfUser(sessions, u), clock)
      /\ NoteOverlap(u, Worker)
      /\ UNCHANGED <<links, history, clock, serving>>
    BY DEF SetUserActive
<1>2. users[u] \in UserRow /\ clock \in Moment /\ sessions \in Seq(UserSession)
    BY <1>1, RowFacts DEF IInv, Typed
<1>3. /\ users'[u] \in UserRow /\ users'[u].is_active = active
      /\ users'[u].password = users[u].password
      /\ users'[u].password_changed_at = users[u].password_changed_at
      /\ \A x \in User \ {u} : users'[x] = users[x]
      /\ users' \in [User -> UserRow \cup {NoRow}]
  <2>1. users'[u] = [users[u] EXCEPT !.is_active = active]
        /\ \A x \in User \ {u} : users'[x] = users[x]
      BY <1>1 DEF IInv, Typed
  <2>2. [users[u] EXCEPT !.is_active = active] \in UserRow
      BY <1>2 DEF UserRow
  <2>3. users' \in [User -> UserRow \cup {NoRow}]
      BY <1>1, <2>2 DEF IInv, Typed
  <2> QED BY <1>2, <2>1, <2>2, <2>3 DEF UserRow
<1>4. Len(sessions) \in Nat /\ DOMAIN sessions = 1..Len(sessions)
    BY <1>2
<1>5. /\ sessions' \in Seq(UserSession) /\ Len(sessions') = Len(sessions)
      /\ DOMAIN sessions' = DOMAIN sessions
      /\ \A n \in DOMAIN sessions :
            /\ sessions'[n].user = sessions[n].user
            /\ sessions'[n].family_id = sessions[n].family_id
            /\ sessions'[n].parent = sessions[n].parent
            /\ sessions'[n].issued_at = sessions[n].issued_at
            /\ sessions'[n].rotated_at = sessions[n].rotated_at
            /\ sessions[n].user # u => sessions'[n] = sessions[n]
            /\ active => sessions'[n] = sessions[n]
            /\ sessions[n].user = u /\ ~active => sessions'[n].revoked_at # Null
  <2>1. CASE active
      BY <1>1, <1>2, <2>1
  <2>2. CASE ~active
    <3>1. sessions' = Revoke(sessions, OfUser(sessions, u), clock)
        BY <1>1, <2>2
    <3>2. LET after == sessions'
              S == OfUser(sessions, u)
          IN  /\ after \in Seq(UserSession) /\ Len(after) = Len(sessions)
              /\ \A n \in 1..Len(sessions) :
                    /\ after[n].user = sessions[n].user
                    /\ after[n].family_id = sessions[n].family_id
                    /\ after[n].parent = sessions[n].parent
                    /\ after[n].issued_at = sessions[n].issued_at
                    /\ after[n].rotated_at = sessions[n].rotated_at
                    /\ n \notin S => after[n] = sessions[n]
                    /\ after[n].revoked_at = Null <=> n \notin S /\ sessions[n].revoked_at = Null
        BY <1>2, <3>1, RevokeFacts
    <3>3. DOMAIN sessions' = 1..Len(sessions')
        BY <3>2
    <3> QED BY <1>4, <2>2, <3>2, <3>3 DEF OfUser
  <2> QED BY <2>1, <2>2
<1>6. /\ overlapped \subseteq overlapped' /\ overlapped' \subseteq overlapped \cup {u}
      /\ overlapped' \subseteq User
      /\ \A v \in Worker : Serving(v, u) => u \in overlapped'
    BY <1>1, NoteFacts DEF IInv
<1>7. Typed'
    BY <1>1, <1>3, <1>5, <1>6 DEF IInv, Typed
<1>8. Known(u)'
    BY <1>3, NoRowAssumption DEF Known
<1>9. Confined(u) /\ Released /\ Noted(u)
  <2>1. Released /\ Noted(u)
      BY <1>1, <1>6 DEF Released, Noted, Serving
  <2>2. Len(sessions) <= Len(sessions') /\ Len(links) <= Len(links')
      BY <1>1, <1>4, <1>5, Numbers DEF IInv
  <2> QED BY <1>1, <1>3, <1>5, <1>6, <1>8, <2>1, <2>2 DEF Confined
<1>10. RotationsCounted'
    BY <1>5, <1>7, <1>9, RotationsSame
<1>11. users'[u].password_changed_at <= clock
    BY <1>1, <1>3 DEF IInv, ClockAhead
<1>12. ASSUME u \notin overlapped'
       PROVE  Together(u)' /\ OldDead(u)'
  <2>1. Together(u) /\ OldDead(u)
      BY <1>1, <1>6, <1>12 DEF IInv, Apart
  <2>2. OfUser(sessions', u) = OfUser(sessions, u)
      BY <1>5 DEF OfUser
  <2>3. Outstanding(u)' = Outstanding(u) /\ history' = history
      BY <1>1 DEF Outstanding
  <2>4. CASE active
    <3>1. \A n \in OfUser(sessions, u) : sessions[n].revoked_at # Null
        BY <1>1, <2>1, <2>4 DEF OldDead, Unrevoked
    <3>2. sessions' = sessions
        BY <1>1, <2>4
    <3>3. OldDead(u)'
        BY <1>3, <2>1, <2>2, <2>3, <3>1, <3>2 DEF OldDead, Unrevoked
    <3> QED BY <2>1, <3>2, <3>3 DEF Together, Unrevoked
  <2>5. CASE ~active
    <3>1. \A n \in OfUser(sessions, u) : sessions'[n].revoked_at # Null
        BY <1>5, <2>5 DEF OfUser
    <3>2. OldDead(u)'
        BY <1>3, <2>1, <2>2, <2>3, <3>1 DEF OldDead, Unrevoked
    <3>3. Together(u)'
        BY <1>5, <2>1, <2>2, <3>1 DEF Together, Unrevoked, OfUser
    <3> QED BY <3>2, <3>3
  <2> QED BY <2>4, <2>5
<1> QED BY <1>5, <1>7, <1>8, <1>9, <1>10, <1>11, <1>12, ConfinedKeeps

-------------------------------------------------------------------------------
(* Commits.                                                                *)

\* What a request has, and what the invariant says of it, when it commits.
LEMMA CommitFacts ==
    ASSUME IInv, NEW w \in Worker, NEW r, r = serving[w], r.op # "idle"
    PROVE  /\ serving[w] # Idle
           /\ r.user \in User /\ r.at \in Moment /\ r.at <= clock
           /\ Known(r.user) /\ users[r.user] \in UserRow
           /\ r.op \in {"login", "failure", "change", "reset"} => r.copy \in UserRow
           /\ r.op = "refresh" => r.token \in DOMAIN sessions /\ sessions[r.token].user = r.user
           /\ r.op = "forgot" =>
                 \A n \in r.outstanding : n \in DOMAIN links /\ links[n].user = r.user
           /\ r.op \in {"change", "reset"} => r.new \in Password
           /\ r.op = "reset" => r.link \in DOMAIN links /\ links[r.link].user = r.user
           /\ r.user \notin overlapped =>
                 Undisturbed(r) /\ Together(r.user) /\ OldDead(r.user)
<1>1. serving[w] # Idle
    BY IdleFacts
<1>2. /\ r.user \in User /\ r.at \in Moment
      /\ r.op \in {"login", "failure", "change", "reset"} => r.copy \in UserRow
      /\ r.op \in {"change", "reset"} => r.new \in Password
    BY <1>1, RequestFacts DEF IInv
<1>3. r.at <= clock /\ Known(r.user)
    BY <1>1 DEF IInv, ClockAhead, AccountsExist
<1>4. Held(r) /\ (r.user \notin overlapped => Undisturbed(r))
    BY <1>1, Zenon DEF IInv, AllHeld
<1>5. r.user \notin overlapped => Together(r.user) /\ OldDead(r.user)
    BY <1>2, <1>3, Zenon DEF IInv, Apart
<1>6. users[r.user] \in UserRow
    BY <1>2, <1>3, RowFacts DEF IInv
<1> QED BY <1>1, <1>2, <1>3, <1>4, <1>5, <1>6 DEF Held

\* The account written at a commit.
LEMMA WriteUserFacts ==
    ASSUME Typed, NEW r, r.user \in User, Known(r.user), r.copy \in UserRow,
           NEW row \in UserRow, WriteUser(r, row)
    PROVE  /\ users' \in [User -> UserRow \cup {NoRow}]
           /\ users'[r.user] \in UserRow /\ Known(r.user)'
           /\ users'[r.user] = Write(users[r.user], r.copy, row)
           /\ \A x \in User \ {r.user} : users'[x] = users[x]
<1>1. users[r.user] \in UserRow
    BY RowFacts
<1>2. Write(users[r.user], r.copy, row) \in UserRow
    BY <1>1, WriteFacts
<1>3. users' = [users EXCEPT ![r.user] = Write(users[r.user], r.copy, row)]
    BY DEF WriteUser
<1> HIDE DEF WriteUser
<1>4. /\ users'[r.user] = Write(users[r.user], r.copy, row)
      /\ \A x \in User \ {r.user} : users'[x] = users[x]
      /\ users' \in [User -> UserRow \cup {NoRow}]
    BY <1>2, <1>3 DEF Typed
<1> QED BY <1>2, <1>4, NoRowAssumption DEF Known

\* A failed attempt moves the counter and the lock only.
LEMMA AfterFailureFacts ==
    ASSUME NEW row \in UserRow, NEW at \in Moment
    PROVE  /\ AfterFailure(row, at) \in UserRow
           /\ AfterFailure(row, at).password = row.password
           /\ AfterFailure(row, at).is_active = row.is_active
           /\ AfterFailure(row, at).password_changed_at = row.password_changed_at
<1>1. at + Lockout \in Nat /\ row.failed_login_attempts + 1 \in Nat
    BY SettingsAssumption DEF UserRow, Moment
<1>2. CASE row.failed_login_attempts + 1 >= MaxFailedAttempts
  <2>1. PICK stamp \in Nat : stamp = at + Lockout
      BY <1>1
  <2>2. AfterFailure(row, at) =
            [row EXCEPT !.failed_login_attempts = 0, !.locked_until = stamp]
      BY <1>2, <2>1 DEF AfterFailure
  <2>3. PICK zeroed \in UserRow : zeroed = [row EXCEPT !.failed_login_attempts = 0]
      BY DEF UserRow
  <2>4. AfterFailure(row, at) = [zeroed EXCEPT !.locked_until = stamp]
      BY <2>2, <2>3
  <2>5. /\ zeroed.password = row.password /\ zeroed.is_active = row.is_active
        /\ zeroed.password_changed_at = row.password_changed_at
      BY <2>3 DEF UserRow
  <2> QED BY <2>4, <2>5 DEF UserRow
<1>3. CASE ~(row.failed_login_attempts + 1 >= MaxFailedAttempts)
  <2>1. PICK attempts \in Nat : attempts = row.failed_login_attempts + 1
      BY <1>1
  <2>2. AfterFailure(row, at) = [row EXCEPT !.failed_login_attempts = attempts]
      BY <1>3, <2>1 DEF AfterFailure
  <2> QED BY <2>2 DEF UserRow
<1> QED BY <1>2, <1>3

\* A wrong password: the counter or the lock.
LEMMA CommitFailureKeeps ==
    ASSUME IInv, NEW w \in Worker, CommitFailure(w)
    PROVE  IInv'
<1>1. PICK r : r = serving[w]
    OBVIOUS
<1>2. /\ r.op = "failure" /\ WriteUser(r, AfterFailure(r.copy, r.at)) /\ Finish(w)
      /\ UNCHANGED <<sessions, links, history, clock>>
    BY <1>1 DEF CommitFailure
<1>3. /\ serving[w] # Idle /\ r.user \in User /\ r.at \in Moment /\ Known(r.user)
      /\ r.copy \in UserRow /\ users[r.user] \in UserRow
      /\ r.user \notin overlapped => Together(r.user) /\ OldDead(r.user)
    BY <1>1, <1>2, CommitFacts
<1>4. PICK u \in User : u = r.user
    BY <1>3
<1>5. /\ AfterFailure(r.copy, r.at) \in UserRow
      /\ AfterFailure(r.copy, r.at).password = r.copy.password
      /\ AfterFailure(r.copy, r.at).is_active = r.copy.is_active
      /\ AfterFailure(r.copy, r.at).password_changed_at = r.copy.password_changed_at
    BY <1>3, AfterFailureFacts
<1>6. /\ users' \in [User -> UserRow \cup {NoRow}] /\ Known(u)'
      /\ users'[u] = Write(users[u], r.copy, AfterFailure(r.copy, r.at))
      /\ \A x \in User \ {u} : users'[x] = users[x]
    BY <1>2, <1>3, <1>4, <1>5, WriteUserFacts DEF IInv, Known
<1>7. /\ users'[u].password = users[u].password /\ users'[u].is_active = users[u].is_active
      /\ users'[u].password_changed_at = users[u].password_changed_at
    BY <1>3, <1>4, <1>5, <1>6, WriteFacts
<1>8. /\ Released /\ Noted(u) /\ serving' \in [Worker -> Request \cup {Idle}]
      /\ overlapped \subseteq overlapped' /\ overlapped' \subseteq User
      /\ overlapped' \subseteq overlapped \cup {u}
    BY <1>1, <1>2, <1>3, <1>4, FinishFacts DEF IInv, Noted
<1>9. Typed'
    BY <1>2, <1>6, <1>8 DEF IInv, Typed
<1>10. Confined(u)
    BY <1>2, <1>6, <1>8, Numbers DEF Confined, IInv
<1>11. RotationsCounted'
    BY <1>2, <1>8, <1>9, <1>10, RotationsSame
<1>12. users'[u].password_changed_at <= clock
    BY <1>3, <1>4, <1>7 DEF IInv, ClockAhead
<1>13. ASSUME u \notin overlapped'
       PROVE  Together(u)' /\ OldDead(u)'
  <2>1. Together(u) /\ OldDead(u)
      BY <1>3, <1>4, <1>8, <1>13
  <2>2. Outstanding(u)' = Outstanding(u) /\ OfUser(sessions', u) = OfUser(sessions, u)
      BY <1>2 DEF Outstanding
  <2>3. Together(u)'
      BY <1>2, <2>1 DEF Together, Unrevoked
  <2>4. OldDead(u)'
      BY <1>2, <1>7, <2>1, <2>2 DEF OldDead, Unrevoked
  <2> QED BY <2>3, <2>4
<1> QED BY <1>2, <1>6, <1>8, <1>9, <1>10, <1>11, <1>12, <1>13, ConfinedKeeps

\* A sign-in clears the counter and the lock only.
LEMMA AfterLoginFacts ==
    ASSUME NEW row \in UserRow
    PROVE  /\ AfterLogin(row) \in UserRow
           /\ AfterLogin(row).password = row.password
           /\ AfterLogin(row).is_active = row.is_active
           /\ AfterLogin(row).password_changed_at = row.password_changed_at
<1>1. PICK zeroed \in UserRow : zeroed = [row EXCEPT !.failed_login_attempts = 0]
    BY DEF UserRow
<1>2. AfterLogin(row) = [zeroed EXCEPT !.locked_until = 0]
    BY <1>1 DEF AfterLogin, Null
<1>3. /\ zeroed.password = row.password /\ zeroed.is_active = row.is_active
      /\ zeroed.password_changed_at = row.password_changed_at
    BY <1>1 DEF UserRow
<1> QED BY <1>2, <1>3 DEF UserRow

\* A sign-in: the first token of a new family.
LEMMA CommitLoginKeeps ==
    ASSUME IInv, NEW w \in Worker, CommitLogin(w)
    PROVE  IInv'
<1>1. PICK r : r = serving[w]
    OBVIOUS
<1>2. /\ r.op = "login" /\ WriteUser(r, AfterLogin(r.copy)) /\ Finish(w)
      /\ sessions' = Issue(r, sessions, 0) /\ UNCHANGED <<links, history, clock>>
    BY <1>1 DEF CommitLogin
<1>3. /\ serving[w] # Idle /\ r.user \in User /\ r.at \in Moment /\ Known(r.user)
      /\ r.copy \in UserRow /\ users[r.user] \in UserRow
      /\ r.user \notin overlapped => Undisturbed(r) /\ Together(r.user) /\ OldDead(r.user)
    BY <1>1, <1>2, CommitFacts
<1>4. PICK u \in User : u = r.user
    BY <1>3
<1>5. /\ users' \in [User -> UserRow \cup {NoRow}] /\ Known(u)'
      /\ users'[u] = Write(users[u], r.copy, AfterLogin(r.copy))
      /\ \A x \in User \ {u} : users'[x] = users[x]
    BY <1>2, <1>3, <1>4, AfterLoginFacts, WriteUserFacts DEF IInv, Known
<1>6. /\ users'[u].password = users[u].password /\ users'[u].is_active = users[u].is_active
      /\ users'[u].password_changed_at = users[u].password_changed_at
    BY <1>3, <1>4, <1>5, AfterLoginFacts, WriteFacts
<1>7. /\ Released /\ Noted(u) /\ serving' \in [Worker -> Request \cup {Idle}]
      /\ overlapped \subseteq overlapped' /\ overlapped' \subseteq User
      /\ overlapped' \subseteq overlapped \cup {u}
    BY <1>1, <1>2, <1>3, <1>4, FinishFacts DEF IInv, Noted
<1> DEFINE N == Len(sessions) + 1
<1>8. /\ Len(sessions) \in Nat /\ DOMAIN sessions = 1..Len(sessions)
      /\ sessions \in Seq(UserSession)
    BY Numbers DEF IInv, Typed
<1>9. /\ sessions' \in Seq(UserSession) /\ Len(sessions') = N
      /\ \A n \in 1..Len(sessions) : sessions'[n] = sessions[n]
      /\ sessions'[N].user = u /\ sessions'[N].issued_at = r.at /\ sessions'[N].parent = 0
      /\ sessions'[N].rotated_at = Null /\ sessions'[N].revoked_at = Null
      /\ sessions'[N].family_id = N
  <2>1. 0 \in 0..Len(sessions)
      BY <1>8
  <2>2. Issued(sessions', sessions, r, 0)
      BY <1>2, <1>3, <1>8, <2>1, IssueFacts
  <2> QED BY <1>4, <2>2 DEF Issued
<1>10. N \notin DOMAIN sessions /\ DOMAIN sessions' = DOMAIN sessions \cup {N}
  <2>1. DOMAIN sessions' = 1..N
      BY <1>9
  <2> QED BY <1>8, <2>1
<1>11. \A n \in DOMAIN sessions : sessions[n].family_id # N
  <2>1. \A n \in DOMAIN sessions : sessions[n].family_id <= n /\ sessions[n].family_id \in Nat
      BY Numbers DEF IInv, FamiliesApart, UserSession, Moment
  <2> QED BY <1>8, <2>1
<1> HIDE DEF N
<1>12. Typed'
    BY <1>2, <1>5, <1>7, <1>9 DEF IInv, Typed
<1>13. Confined(u)
  <2>1. Len(sessions) <= Len(sessions') /\ Len(links) <= Len(links')
      BY <1>2, <1>8, <1>9, Numbers DEF N, IInv
  <2> QED BY <1>2, <1>5, <1>7, <1>8, <1>9, <1>10, <2>1 DEF Confined
<1>14. RotationsCounted'
    BY <1>7, <1>8, <1>9, <1>10, <1>12, <1>13, RotationsSame
<1>15. users'[u].password_changed_at <= clock
    BY <1>3, <1>4, <1>6 DEF IInv, ClockAhead
<1>16. ASSUME NEW n \in DOMAIN sessions' \ DOMAIN sessions
       PROVE  /\ sessions'[n].family_id <= n /\ sessions'[n].parent < n
              /\ \A m \in DOMAIN sessions :
                    sessions[m].family_id = sessions'[n].family_id => sessions[m].user = u
  <2>1. n = N /\ N \in Nat /\ N > 0
      BY <1>8, <1>10 DEF N
  <2> QED BY <1>9, <1>11, <2>1
<1>17. ASSUME u \notin overlapped'
       PROVE  Together(u)' /\ OldDead(u)'
  <2>1. Undisturbed(r) /\ Together(u) /\ OldDead(u)
      BY <1>3, <1>4, <1>7, <1>17
  <2>2. Outstanding(u)' = Outstanding(u)
      BY <1>2 DEF Outstanding
  <2>3. OfUser(sessions', u) = OfUser(sessions, u) \cup {N}
      BY <1>8, <1>9, <1>10 DEF OfUser
  <2>4. \A n \in OfUser(sessions, u) : n \in DOMAIN sessions /\ sessions'[n] = sessions[n]
      BY <1>8, <1>9 DEF OfUser
  <2>5. Together(u)'
    <3> SUFFICES ASSUME NEW m \in OfUser(sessions', u), NEW n \in OfUser(sessions', u),
                        sessions'[m].family_id = sessions'[n].family_id
                 PROVE  /\ Unrevoked(m)' = Unrevoked(n)'
                        /\ m < n => sessions'[m].rotated_at # Null
        BY DEF Together
    <3>1. CASE m \in OfUser(sessions, u) /\ n \in OfUser(sessions, u)
        BY <2>1, <2>4, <3>1 DEF Together, Unrevoked
    <3>2. CASE m = N /\ n = N
        BY <1>8, <3>2 DEF N
    <3> QED BY <1>9, <1>11, <2>3, <2>4, <3>1, <3>2
  <2>6. OldDead(u)'
    <3>1. users[u].is_active /\ r.at >= users[u].password_changed_at
      <4>1. users[u].is_active /\ users[u].password_changed_at <= r.at
          BY <1>2, <1>4, <2>1 DEF Undisturbed
      <4> QED BY <1>3, <1>4, <4>1 DEF UserRow, Moment
    <3>2. \A n \in OfUser(sessions', u) : Unrevoked(n)' =>
              users'[u].is_active /\ sessions'[n].issued_at >= users'[u].password_changed_at
        BY <1>6, <1>9, <2>1, <2>3, <2>4, <3>1 DEF OldDead, Unrevoked
    <3> QED BY <1>2, <1>6, <2>1, <2>2, <3>2 DEF OldDead
  <2> QED BY <2>5, <2>6
<1> QED BY <1>5, <1>7, <1>12, <1>13, <1>14, <1>15, <1>16, <1>17, ConfinedKeeps

\* A rotation: the token presented has its stamp, and the new one joins its family.
Rotated(after, s, t, r, N) ==
    /\ after \in Seq(UserSession) /\ Len(after) = N
    /\ N \notin DOMAIN s /\ DOMAIN after = DOMAIN s \cup {N}
    /\ \A n \in DOMAIN s :
          /\ after[n].user = s[n].user
          /\ after[n].family_id = s[n].family_id
          /\ after[n].parent = s[n].parent
          /\ after[n].issued_at = s[n].issued_at
          /\ after[n].revoked_at = s[n].revoked_at
          /\ n # t => after[n] = s[n]
    /\ after[t].rotated_at = r.at
    /\ after[N].user = r.user /\ after[N].issued_at = r.at
    /\ after[N].parent = t
    /\ after[N].rotated_at = Null /\ after[N].revoked_at = Null
    /\ after[N].family_id = s[t].family_id

\* A rotation does so: it stamps the token presented and issues its successor.
LEMMA RotationFacts ==
    ASSUME NEW s \in Seq(UserSession), NEW t \in DOMAIN s, NEW r, r.user \in User, r.at \in Moment,
           NEW N, N = Len(s) + 1
    PROVE  Rotated(Issue(r, [s EXCEPT ![t].rotated_at = r.at], t), s, t, r, N)
<1> DEFINE stamped == [s[t] EXCEPT !.rotated_at = r.at]
           table == [s EXCEPT ![t] = stamped]
           after == Issue(r, table, t)
<1>1. Len(s) \in Nat /\ DOMAIN s = 1..Len(s) /\ s[t] \in UserSession
    OBVIOUS
<1>2. /\ stamped \in UserSession /\ stamped.rotated_at = r.at
      /\ stamped.user = s[t].user /\ stamped.family_id = s[t].family_id
      /\ stamped.parent = s[t].parent /\ stamped.issued_at = s[t].issued_at
      /\ stamped.revoked_at = s[t].revoked_at
    BY <1>1 DEF UserSession, Moment
<1>3. [s EXCEPT ![t].rotated_at = r.at] = table
    OBVIOUS
<1> HIDE DEF stamped
<1>4. /\ table \in Seq(UserSession) /\ Len(table) = Len(s) /\ table[t] = stamped
      /\ \A n \in 1..Len(s) : n # t => table[n] = s[n]
    BY <1>1, <1>2
<1> HIDE DEF table
<1>5. /\ after \in Seq(UserSession) /\ Len(after) = N
      /\ \A n \in 1..Len(s) : after[n] = table[n]
      /\ after[N].user = r.user /\ after[N].issued_at = r.at /\ after[N].parent = t
      /\ after[N].rotated_at = Null /\ after[N].revoked_at = Null
      /\ after[N].family_id = table[t].family_id
  <2>1. t \in 0..Len(table) /\ t # 0
      BY <1>1, <1>4
  <2>2. Len(table) + 1 = N
      BY <1>4
  <2>3. Issued(after, table, r, t)
      BY <1>4, <2>1, IssueFacts
  <2> QED BY <1>4, <2>1, <2>2, <2>3 DEF Issued
<1> HIDE DEF after
<1>6. N \notin DOMAIN s /\ DOMAIN after = DOMAIN s \cup {N}
  <2>1. DOMAIN after = 1..N
      BY <1>5
  <2> QED BY <1>1, <2>1
<1>7. ASSUME NEW n \in DOMAIN s
      PROVE  /\ after[n].user = s[n].user
             /\ after[n].family_id = s[n].family_id
             /\ after[n].parent = s[n].parent
             /\ after[n].issued_at = s[n].issued_at
             /\ after[n].revoked_at = s[n].revoked_at
             /\ n # t => after[n] = s[n]
    BY <1>1, <1>2, <1>4, <1>5
<1>8. after[t].rotated_at = r.at /\ table[t].family_id = s[t].family_id
    BY <1>1, <1>2, <1>4, <1>5
<1>9. Rotated(after, s, t, r, N)
    BY <1>5, <1>6, <1>7, <1>8 DEF Rotated
<1> QED BY <1>3, <1>9 DEF after

\* The request that rotates a token holds it no longer, and its child is one more.
LEMMA CommitRefreshCounts ==
    ASSUME IInv, NEW w \in Worker, CommitRefresh(w)
    PROVE  RotationsCounted'
<1>1. PICK r : r = serving[w]
    OBVIOUS
<1>2. /\ r.op = "refresh" /\ Finish(w)
      /\ sessions' = Issue(r, [sessions EXCEPT ![r.token].rotated_at = r.at], r.token)
    BY <1>1 DEF CommitRefresh
<1>3. /\ serving[w] # Idle /\ r.user \in User /\ r.at \in Moment
      /\ r.token \in DOMAIN sessions /\ sessions[r.token].user = r.user
      /\ r.user \notin overlapped => Undisturbed(r)
    BY <1>1, <1>2, CommitFacts
<1>4. PICK t \in DOMAIN sessions : t = r.token
    BY <1>3
<1> DEFINE N == Len(sessions) + 1
<1>5. /\ N \notin DOMAIN sessions /\ DOMAIN sessions' = DOMAIN sessions \cup {N}
      /\ \A n \in DOMAIN sessions :
            /\ sessions'[n].user = sessions[n].user /\ sessions'[n].parent = sessions[n].parent
            /\ n # t => sessions'[n] = sessions[n]
      /\ sessions'[t].rotated_at = r.at /\ sessions'[N].parent = t
  <2>1. sessions' = Issue(r, [sessions EXCEPT ![t].rotated_at = r.at], t)
      BY <1>2, <1>4
  <2>2. sessions \in Seq(UserSession)
      BY DEF IInv, Typed
  <2>3. Rotated(sessions', sessions, t, r, N)
      BY <1>3, <2>1, <2>2, RotationFacts
  <2> QED BY <1>3, <1>4, <2>3 DEF Rotated
<1>6. /\ DOMAIN sessions = 1..Len(sessions) /\ Len(sessions) \in Nat
      /\ \A k \in DOMAIN sessions : sessions[k].parent < N /\ sessions[k].parent \in Nat
  <2>1. DOMAIN sessions = 1..Len(sessions) /\ Len(sessions) \in Nat
      BY Numbers DEF IInv
  <2>2. \A k \in DOMAIN sessions : sessions[k].parent < k /\ sessions[k].parent \in Nat
      BY Numbers DEF IInv, FamiliesApart, UserSession
  <2> QED BY <2>1, <2>2
<1>7. N \in Nat
    BY <1>6
<1> HIDE DEF N
<1>8. /\ overlapped \subseteq overlapped'
      /\ serving' = [serving EXCEPT ![w] = Idle] /\ serving'[w] = Idle
      /\ \A v \in Worker \ {w} : serving'[v] = serving[v]
  <2>1. serving' = [serving EXCEPT ![w] = Idle]
      BY <1>2 DEF Finish
  <2> QED BY <1>2, <1>3, <2>1, FinishFacts DEF IInv, Typed
<1>9. IsFiniteSet(Worker) /\ Cardinality(Worker) \in Nat
    BY WorkerAssumption, FS_CardinalityType
<1>10. ASSUME NEW n
       PROVE  /\ IsFiniteSet(Children(n)) /\ Cardinality(Children(n)) \in Nat
              /\ IsFiniteSet(Holders(n)) /\ Cardinality(Holders(n)) \in Nat
              /\ Cardinality(Holders(n)) <= Cardinality(Worker)
  <2>1. Holders(n) \in SUBSET Worker
      BY DEF Holders
  <2> QED BY <1>9, <2>1, ChildrenFinite, FS_Subset, FS_CardinalityType DEF IInv
<1>11. Children(t)' = Children(t) \cup {N} /\ N \notin Children(t)
    BY <1>5 DEF Children
<1>12. Holders(t)' = Holders(t) \ {w} /\ w \in Holders(t)
  <2>1. \A v \in Worker : v \in Holders(t)' <=> v \in Holders(t) /\ v # w
      BY <1>8, IdleFacts DEF Holders
  <2>2. w \in Holders(t)
      BY <1>1, <1>2, <1>4 DEF Holders
  <2> QED BY <2>1, <2>2 DEF Holders
<1>13. ASSUME NEW n, n # t
       PROVE  Children(n)' = Children(n) /\ Holders(n)' = Holders(n)
  <2>1. Children(n)' = Children(n)
      BY <1>5, <1>13 DEF Children
  <2>2. \A v \in Worker : v \in Holders(n)' <=> v \in Holders(n)
      BY <1>1, <1>4, <1>8, <1>13, IdleFacts DEF Holders
  <2> QED BY <2>1, <2>2 DEF Holders
<1>14. ASSUME NEW n \in DOMAIN sessions'
       PROVE  /\ sessions'[n].rotated_at = Null => Children(n)' = {}
              /\ Cardinality(Children(n)') + Cardinality(Holders(n)') <= Cardinality(Worker)
              /\ sessions'[n].user \notin overlapped' => Cardinality(Children(n)') <= 1
  <2>1. CASE n = t
    <3>1. /\ Cardinality(Children(t)') = Cardinality(Children(t)) + 1
          /\ Cardinality(Holders(t)') = Cardinality(Holders(t)) - 1
      <4>1. IsFiniteSet(Children(t)) /\ IsFiniteSet(Holders(t))
          BY <1>10
      <4>2. PICK C, H : C = Children(t) /\ H = Holders(t)
          OBVIOUS
      <4>3. Cardinality(C \cup {N}) = Cardinality(C) + 1
          BY <1>11, <4>1, <4>2, FS_AddElement
      <4>4. Cardinality(H \ {w}) = Cardinality(H) - 1
          BY <1>12, <4>1, <4>2, FS_RemoveElement
      <4> QED BY <1>11, <1>12, <4>2, <4>3, <4>4
    <3>2. Cardinality(Children(t)) + Cardinality(Holders(t)) <= Cardinality(Worker)
        BY DEF IInv, RotationsCounted
    <3>3. ASSUME sessions'[t].user \notin overlapped' PROVE Children(t) = {}
      <4>1. r.user \notin overlapped
          BY <1>3, <1>4, <1>5, <1>8, <3>3
      <4>2. sessions[t].rotated_at = Null
          BY <1>2, <1>3, <1>4, <4>1 DEF Undisturbed
      <4> QED BY <4>2 DEF IInv, RotationsCounted
    <3>4. sessions'[t].rotated_at # Null
        BY <1>3, <1>5 DEF Moment, Null
    <3> QED BY <1>9, <1>10, <2>1, <3>1, <3>2, <3>3, <3>4, FS_EmptySet
  <2>2. CASE n # t /\ n \in DOMAIN sessions
    <3>1. Children(n)' = Children(n) /\ Holders(n)' = Holders(n) /\ sessions'[n] = sessions[n]
        BY <1>5, <1>13, <2>2
    <3> QED BY <1>8, <2>2, <3>1 DEF IInv, RotationsCounted
  <2>3. CASE n = N
    <3>1. Children(n) = {} /\ n # t
        BY <1>5, <1>6, <1>7, <2>3 DEF Children
    <3>2. Children(n)' = {} /\ Cardinality({}) = 0 /\ Holders(n)' = Holders(n)
        BY <1>13, <3>1, FS_EmptySet
    <3> QED BY <1>9, <1>10, <3>2
  <2> QED BY <1>5, <2>1, <2>2, <2>3
<1> QED BY <1>14 DEF RotationsCounted

\* The commit of a rotation keeps the invariant.
LEMMA CommitRefreshKeeps ==
    ASSUME IInv, NEW w \in Worker, CommitRefresh(w)
    PROVE  IInv'
<1>1. PICK r : r = serving[w]
    OBVIOUS
<1>2. /\ r.op = "refresh" /\ Finish(w) /\ UNCHANGED <<users, links, history, clock>>
      /\ sessions' = Issue(r, [sessions EXCEPT ![r.token].rotated_at = r.at], r.token)
    BY <1>1 DEF CommitRefresh
<1>3. /\ serving[w] # Idle /\ r.user \in User /\ r.at \in Moment /\ Known(r.user)
      /\ r.token \in DOMAIN sessions /\ sessions[r.token].user = r.user
      /\ users[r.user] \in UserRow
      /\ r.user \notin overlapped => Undisturbed(r) /\ Together(r.user) /\ OldDead(r.user)
    BY <1>1, <1>2, CommitFacts
<1>4. PICK t \in DOMAIN sessions : t = r.token
    BY <1>3
<1>5. PICK u \in User : u = r.user
    BY <1>3
<1> DEFINE N == Len(sessions) + 1
<1>6. /\ sessions' \in Seq(UserSession) /\ Len(sessions') = N
      /\ N \notin DOMAIN sessions /\ DOMAIN sessions' = DOMAIN sessions \cup {N}
      /\ \A n \in DOMAIN sessions :
            /\ sessions'[n].user = sessions[n].user
            /\ sessions'[n].family_id = sessions[n].family_id
            /\ sessions'[n].parent = sessions[n].parent
            /\ sessions'[n].issued_at = sessions[n].issued_at
            /\ sessions'[n].revoked_at = sessions[n].revoked_at
            /\ n # t => sessions'[n] = sessions[n]
      /\ sessions'[t].rotated_at = r.at
      /\ sessions'[N].user = r.user /\ sessions'[N].issued_at = r.at
      /\ sessions'[N].parent = t
      /\ sessions'[N].rotated_at = Null /\ sessions'[N].revoked_at = Null
      /\ sessions'[N].family_id = sessions[t].family_id
  <2>1. sessions' = Issue(r, [sessions EXCEPT ![t].rotated_at = r.at], t)
      BY <1>2, <1>4
  <2>2. sessions \in Seq(UserSession)
      BY DEF IInv, Typed
  <2>3. Rotated(sessions', sessions, t, r, N)
      BY <1>3, <2>1, <2>2, RotationFacts
  <2> QED BY <1>5, <2>3 DEF Rotated
<1>7. Len(sessions) \in Nat /\ DOMAIN sessions = 1..Len(sessions) /\ t < N /\ N \in Nat
    BY Numbers DEF IInv
<1>8. /\ Released /\ Noted(u) /\ serving' \in [Worker -> Request \cup {Idle}]
      /\ overlapped \subseteq overlapped' /\ overlapped' \subseteq User
      /\ overlapped' \subseteq overlapped \cup {u}
    BY <1>1, <1>2, <1>3, <1>5, FinishFacts DEF IInv, Noted
<1>9. Len(sessions) <= Len(sessions') /\ Len(links) <= Len(links')
    BY <1>2, <1>6, <1>7, Numbers DEF IInv
<1> HIDE DEF N
<1>10. Typed'
    BY <1>2, <1>6, <1>8 DEF IInv, Typed
<1>11. Confined(u)
    BY <1>2, <1>3, <1>4, <1>5, <1>6, <1>8, <1>9, ZenonT(40) DEF Confined, Known
<1>12. RotationsCounted'
    BY CommitRefreshCounts
<1>13. Known(u)' /\ users'[u].password_changed_at <= clock
    BY <1>2, <1>3, <1>5 DEF IInv, ClockAhead, Known
<1>14. ASSUME NEW n \in DOMAIN sessions' \ DOMAIN sessions
       PROVE  /\ sessions'[n].family_id <= n /\ sessions'[n].parent < n
              /\ \A m \in DOMAIN sessions :
                    sessions[m].family_id = sessions'[n].family_id => sessions[m].user = u
  <2>1. n = N
      BY <1>6
  <2>2. sessions[t].family_id <= t /\ sessions[t].family_id \in Nat
      BY Numbers DEF IInv, FamiliesApart, UserSession, Moment
  <2>3. \A m \in DOMAIN sessions :
            sessions[m].family_id = sessions[t].family_id => sessions[m].user = u
      BY <1>3, <1>4, <1>5 DEF IInv, FamiliesApart
  <2> QED BY <1>6, <1>7, <2>1, <2>2, <2>3
<1>15. ASSUME u \notin overlapped'
       PROVE  Together(u)' /\ OldDead(u)'
  <2>1. Undisturbed(r) /\ Together(u) /\ OldDead(u)
      BY <1>3, <1>5, <1>8, <1>15
  <2>2. Outstanding(u)' = Outstanding(u)
      BY <1>2 DEF Outstanding
  <2>3. OfUser(sessions', u) = OfUser(sessions, u) \cup {N} /\ t \in OfUser(sessions, u)
      BY <1>3, <1>4, <1>5, <1>6 DEF OfUser
  <2>4. sessions[t].rotated_at = Null /\ sessions[t].revoked_at = Null
      BY <1>2, <1>4, <2>1 DEF Undisturbed, Unrevoked
  <2>5. ASSUME NEW n \in OfUser(sessions, u), sessions[n].family_id = sessions[t].family_id
        PROVE  sessions[n].revoked_at = Null /\ sessions'[n].rotated_at # Null
    <3>1. n \in Nat /\ n \in DOMAIN sessions /\ t \in Nat
        BY <1>7 DEF OfUser
    <3>2. sessions[n].revoked_at = Null /\ (n < t => sessions[n].rotated_at # Null)
          /\ (t < n => sessions[t].rotated_at # Null)
        BY <2>1, <2>3, <2>4, <2>5 DEF Together, Unrevoked
    <3>3. n <= t
        BY <2>4, <3>1, <3>2
    <3>4. r.at # Null
        BY <1>3 DEF Moment, Null
    <3> QED BY <1>6, <3>1, <3>2, <3>3, <3>4
  <2>6. Together(u)'
    <3> SUFFICES ASSUME NEW m \in OfUser(sessions', u), NEW n \in OfUser(sessions', u),
                        sessions'[m].family_id = sessions'[n].family_id
                 PROVE  /\ Unrevoked(m)' = Unrevoked(n)'
                        /\ m < n => sessions'[m].rotated_at # Null
        BY DEF Together
    <3>1. CASE m \in OfUser(sessions, u) /\ n \in OfUser(sessions, u)
      <4>1. m \in DOMAIN sessions /\ n \in DOMAIN sessions
          BY <3>1 DEF OfUser
      <4>2. /\ Unrevoked(m) = Unrevoked(n)
            /\ m < n => sessions[m].rotated_at # Null
          BY <1>6, <2>1, <3>1, <4>1 DEF Together
      <4>3. r.at # Null
          BY <1>3 DEF Moment, Null
      <4> QED BY <1>6, <4>1, <4>2, <4>3 DEF Unrevoked
    <3>2. CASE m \in OfUser(sessions, u) /\ n = N
      <4>1. m \in DOMAIN sessions
          BY <3>2 DEF OfUser
      <4> QED BY <1>6, <2>5, <3>2, <4>1 DEF Unrevoked
    <3>3. CASE m = N /\ n \in OfUser(sessions, u)
      <4>1. n \in DOMAIN sessions /\ ~(N < n)
          BY <1>7, <3>3 DEF OfUser, N
      <4> QED BY <1>6, <2>5, <3>3, <4>1 DEF Unrevoked
    <3>4. CASE m = N /\ n = N
        BY <1>7, <3>4
    <3> QED BY <2>3, <3>1, <3>2, <3>3, <3>4
  <2>7. OldDead(u)'
    <3>1. users[u].is_active /\ r.at >= users[u].password_changed_at
      <4>1. users[u].is_active /\ users[u].password_changed_at <= r.at
          BY <1>2, <1>5, <2>1 DEF Undisturbed
      <4> QED BY <1>3, <1>5, <4>1 DEF UserRow, Moment
    <3>2. ASSUME NEW n \in OfUser(sessions', u), sessions'[n].revoked_at = Null
          PROVE  users[u].is_active /\ sessions'[n].issued_at >= users[u].password_changed_at
      <4>1. CASE n = N
          BY <1>6, <3>1, <4>1
      <4>2. CASE n \in OfUser(sessions, u)
        <5>1. sessions'[n].revoked_at = sessions[n].revoked_at
              /\ sessions'[n].issued_at = sessions[n].issued_at
            BY <1>6, <4>2 DEF OfUser
        <5> QED BY <2>1, <3>2, <4>2, <5>1 DEF OldDead, Unrevoked
      <4> QED BY <2>3, <4>1, <4>2
    <3> QED BY <1>2, <2>1, <2>2, <3>2 DEF OldDead, Unrevoked
  <2> QED BY <2>6, <2>7
<1> QED BY <1>8, <1>10, <1>11, <1>12, <1>13, <1>14, <1>15, ConfinedKeeps

\* A new password: the password and its date, and the change that was due.
LEMMA AfterNewPasswordFacts ==
    ASSUME NEW r, r.copy \in UserRow, r.new \in Password, r.at \in Moment
    PROVE  /\ AfterNewPassword(r) \in UserRow
           /\ AfterNewPassword(r).password = r.new
           /\ AfterNewPassword(r).password_changed_at = r.at
           /\ AfterNewPassword(r).locked_until = r.copy.locked_until
<1> DEFINE a == [r.copy EXCEPT !.password = r.new]
           b == [a EXCEPT !.must_change_password = FALSE]
           c == [b EXCEPT !.password_changed_at = r.at]
<1>1. a \in UserRow /\ a.password = r.new /\ a.locked_until = r.copy.locked_until
    BY DEF UserRow
<1>2. AfterNewPassword(r) = c
    BY DEF AfterNewPassword
<1> HIDE DEF a
<1>3. b \in UserRow /\ b.password = r.new /\ b.locked_until = r.copy.locked_until
    BY <1>1 DEF UserRow
<1> HIDE DEF b
<1>4. /\ c \in UserRow /\ c.password = r.new /\ c.password_changed_at = r.at
      /\ c.locked_until = r.copy.locked_until
    BY <1>3 DEF UserRow, Moment
<1> QED BY <1>2, <1>4

\* A link spent has its stamp.
Spent(after, s, k, at) ==
    /\ after \in Seq(PasswordResetToken) /\ Len(after) = Len(s)
    /\ \A n \in 1..Len(s) : after[n].user = s[n].user /\ (n # k => after[n] = s[n])
    /\ after[k].used_at = at

\* Stamping the link presented spends that link and no other.
LEMMA SpentFacts ==
    ASSUME NEW s \in Seq(PasswordResetToken), NEW k \in DOMAIN s, NEW at \in Moment
    PROVE  Spent([s EXCEPT ![k].used_at = at], s, k, at)
<1> DEFINE spent == [s[k] EXCEPT !.used_at = at]
           after == [s EXCEPT ![k] = spent]
<1>1. Len(s) \in Nat /\ DOMAIN s = 1..Len(s) /\ s[k] \in PasswordResetToken
    OBVIOUS
<1>2. spent \in PasswordResetToken /\ spent.user = s[k].user /\ spent.used_at = at
    BY <1>1 DEF PasswordResetToken, Moment
<1>3. [s EXCEPT ![k].used_at = at] = after
    OBVIOUS
<1> HIDE DEF spent
<1>4. /\ after \in Seq(PasswordResetToken) /\ Len(after) = Len(s) /\ after[k] = spent
      /\ \A n \in 1..Len(s) : n # k => after[n] = s[n]
    BY <1>1, <1>2
<1> HIDE DEF after
<1>5. \A n \in 1..Len(s) : after[n].user = s[n].user
    BY <1>2, <1>4
<1>6. Spent(after, s, k, at)
    BY <1>2, <1>4, <1>5 DEF Spent
<1> QED BY <1>3, <1>6 DEF after

\* The links of an account are finitely many.
LEMMA OutstandingFinite ==
    ASSUME Typed, NEW u
    PROVE  IsFiniteSet(Outstanding(u))
<1>1. Outstanding(u) \in SUBSET (1..Len(links)) /\ Len(links) \in Nat
    BY Numbers DEF Outstanding
<1>2. IsFiniteSet(1..Len(links))
    BY <1>1, FS_Interval
<1> HIDE DEF Outstanding
<1> QED BY <1>1, <1>2, FS_Subset

\* A new password: what it retires is gone, unless another request of the account came between.
LEMMA CommitNewPasswordKeeps ==
    ASSUME IInv, NEW w \in Worker, CommitNewPassword(w)
    PROVE  IInv'
<1>1. PICK r : r = serving[w]
    OBVIOUS
<1>2. /\ r.op \in {"change", "reset"} /\ WriteUser(r, AfterNewPassword(r)) /\ Finish(w)
      /\ history' = [history EXCEPT ![r.user] =
            Remembered(@, r.copy.password, r.at, HistoryDepth)]
      /\ links' = IF r.op = "reset" THEN [links EXCEPT ![r.link].used_at = r.at] ELSE links
      /\ sessions' = Revoke(sessions, OfUser(sessions, r.user), r.at)
      /\ clock' = clock
    BY <1>1 DEF CommitNewPassword
<1>3. /\ serving[w] # Idle /\ r.user \in User /\ r.at \in Moment /\ r.at <= clock
      /\ Known(r.user) /\ r.copy \in UserRow /\ users[r.user] \in UserRow
      /\ r.new \in Password
      /\ r.op = "reset" => r.link \in DOMAIN links /\ links[r.link].user = r.user
      /\ r.user \notin overlapped => Undisturbed(r) /\ Together(r.user) /\ OldDead(r.user)
    BY <1>1, <1>2, CommitFacts
<1>4. PICK u \in User : u = r.user
    BY <1>3
<1>5. /\ users' \in [User -> UserRow \cup {NoRow}] /\ Known(u)'
      /\ users'[u] = Write(users[u], r.copy, AfterNewPassword(r))
      /\ \A x \in User \ {u} : users'[x] = users[x]
    BY <1>2, <1>3, <1>4, AfterNewPasswordFacts, WriteUserFacts DEF IInv, Known
<1>6. /\ users'[u].password = IF r.new = r.copy.password THEN users[u].password ELSE r.new
      /\ users'[u].password_changed_at \in {users[u].password_changed_at, r.at}
    BY <1>3, <1>4, <1>5, AfterNewPasswordFacts, WriteFacts
<1>7. /\ Released /\ Noted(u) /\ serving' \in [Worker -> Request \cup {Idle}]
      /\ overlapped \subseteq overlapped' /\ overlapped' \subseteq User
      /\ overlapped' \subseteq overlapped \cup {u}
    BY <1>1, <1>2, <1>3, <1>4, FinishFacts DEF IInv, Noted
<1>8. /\ sessions \in Seq(UserSession) /\ Len(sessions) \in Nat
      /\ DOMAIN sessions = 1..Len(sessions)
      /\ links \in Seq(PasswordResetToken) /\ Len(links) \in Nat /\ DOMAIN links = 1..Len(links)
    BY Numbers DEF IInv, Typed
<1>9. /\ sessions' \in Seq(UserSession) /\ Len(sessions') = Len(sessions)
      /\ DOMAIN sessions' = DOMAIN sessions
      /\ \A n \in DOMAIN sessions :
            /\ sessions'[n].user = sessions[n].user
            /\ sessions'[n].family_id = sessions[n].family_id
            /\ sessions'[n].parent = sessions[n].parent
            /\ sessions'[n].issued_at = sessions[n].issued_at
            /\ sessions'[n].rotated_at = sessions[n].rotated_at
            /\ sessions[n].user # u => sessions'[n] = sessions[n]
            /\ sessions[n].user = u => sessions'[n].revoked_at # Null
  <2>1. PICK S : S = OfUser(sessions, u)
      OBVIOUS
  <2>2. sessions' = Revoke(sessions, S, r.at)
      BY <1>2, <1>4, <2>1
  <2>3. LET after == sessions'
        IN  /\ after \in Seq(UserSession) /\ Len(after) = Len(sessions)
            /\ \A n \in 1..Len(sessions) :
                  /\ after[n].user = sessions[n].user
                  /\ after[n].family_id = sessions[n].family_id
                  /\ after[n].parent = sessions[n].parent
                  /\ after[n].issued_at = sessions[n].issued_at
                  /\ after[n].rotated_at = sessions[n].rotated_at
                  /\ n \notin S => after[n] = sessions[n]
                  /\ after[n].revoked_at = Null <=> n \notin S /\ sessions[n].revoked_at = Null
      BY <1>3, <1>8, <2>2, RevokeFacts
  <2>4. DOMAIN sessions' = 1..Len(sessions')
      BY <2>3
  <2> QED BY <1>8, <2>1, <2>3, <2>4 DEF OfUser
<1>10. /\ links' \in Seq(PasswordResetToken) /\ Len(links') = Len(links)
       /\ DOMAIN links' = DOMAIN links
       /\ \A n \in DOMAIN links :
             /\ links'[n].user = links[n].user
             /\ links[n].user # u => links'[n] = links[n]
             /\ links'[n].used_at = Null => links[n].used_at = Null
  <2>1. CASE r.op = "reset"
    <3>1. PICK k \in DOMAIN links : k = r.link
        BY <1>3, <2>1
    <3>2. /\ links' \in Seq(PasswordResetToken) /\ Len(links') = Len(links)
          /\ \A n \in 1..Len(links) :
                links'[n].user = links[n].user /\ (n # k => links'[n] = links[n])
          /\ links'[k].used_at = r.at
      <4>1. links' = [links EXCEPT ![k].used_at = r.at]
          BY <1>2, <2>1, <3>1
      <4>2. Spent(links', links, k, r.at)
          BY <1>3, <1>8, <4>1, SpentFacts
      <4> QED BY <4>2 DEF Spent
    <3>3. DOMAIN links' = 1..Len(links')
        BY <3>2
    <3>4. links[k].user = u /\ r.at # Null
        BY <1>3, <1>4, <2>1, <3>1 DEF Moment, Null
    <3> QED BY <1>8, <3>2, <3>3, <3>4
  <2>2. CASE r.op # "reset"
      BY <1>2, <1>8, <2>2
  <2> QED BY <2>1, <2>2
<1>11. /\ history' \in [User -> Seq(PasswordHistory)]
       /\ \A x \in User \ {u} : history'[x] = history[x]
       /\ Len(history'[u]) <= HistoryDepth
       /\ \A i \in DOMAIN history'[u] :
             \/ history'[u][i].password = r.copy.password
             \/ \E j \in DOMAIN history[u] : history'[u][i].password = history[u][j].password
  <2>1. history \in [User -> Seq(PasswordHistory)] /\ history[u] \in Seq(PasswordHistory)
      BY DEF IInv, Typed
  <2>2. HistoryDepth \in Nat \ {0} /\ r.copy.password \in Password
      BY <1>3, SettingsAssumption DEF UserRow
  <2>3. PICK h : h = Remembered(history[u], r.copy.password, r.at, HistoryDepth)
      OBVIOUS
  <2>4. /\ h \in Seq(PasswordHistory) /\ Len(h) <= HistoryDepth
        /\ \A i \in DOMAIN h :
              \/ h[i].password = r.copy.password
              \/ \E j \in DOMAIN history[u] : h[i].password = history[u][j].password
      BY <1>3, <2>1, <2>2, <2>3, RememberedFacts
  <2>5. history' = [history EXCEPT ![u] = h]
      BY <1>2, <1>4, <2>3
  <2>6. history'[u] = h /\ \A x \in User \ {u} : history'[x] = history[x]
      BY <2>1, <2>5
  <2>7. history' \in [User -> Seq(PasswordHistory)]
      BY <2>1, <2>4, <2>5
  <2> QED BY <2>4, <2>6, <2>7
<1>12. Typed'
    BY <1>2, <1>5, <1>7, <1>9, <1>10, <1>11 DEF IInv, Typed
<1>13. Confined(u)
  <2>1. Len(sessions) <= Len(sessions') /\ Len(links) <= Len(links')
      BY <1>8, <1>9, <1>10
  <2> QED BY <1>2, <1>5, <1>7, <1>9, <1>10, <1>11, <2>1 DEF Confined
<1>14. RotationsCounted'
    BY <1>7, <1>9, <1>12, <1>13, RotationsSame
<1>15. users'[u].password_changed_at <= clock
    BY <1>3, <1>4, <1>6 DEF IInv, ClockAhead
<1>16. ASSUME u \notin overlapped'
       PROVE  Together(u)' /\ OldDead(u)'
  <2>1. Undisturbed(r) /\ Together(u) /\ OldDead(u)
      BY <1>3, <1>4, <1>7, <1>16
  <2>2. Together(u)'
      BY <1>9, <2>1 DEF Together, OfUser, Unrevoked
  <2>3. /\ users[u].password = r.copy.password
        /\ r.new # users[u].password
        /\ \A j \in DOMAIN history[u] : history[u][j].password # r.new
      BY <1>2, <1>4, <2>1 DEF Undisturbed, Reused
  <2>4. \A i \in DOMAIN history'[u] : history'[u][i].password # users'[u].password
      BY <1>6, <1>11, <2>3
  <2>5. Cardinality(Outstanding(u)') <= 1
    <3>1. PICK before, after : before = Outstanding(u) /\ after = Outstanding(u)'
        OBVIOUS
    <3>2. after \subseteq before
        BY <1>10, <3>1 DEF Outstanding
    <3>3. IsFiniteSet(before) /\ Cardinality(before) <= 1
        BY <2>1, <3>1, OutstandingFinite DEF IInv, OldDead
    <3>4. IsFiniteSet(after) /\ Cardinality(after) <= Cardinality(before)
        BY <3>2, <3>3, FS_Subset
    <3> QED BY <3>1, <3>3, <3>4, FS_CardinalityType
  <2>6. \A n \in OfUser(sessions', u) : sessions'[n].revoked_at # Null
      BY <1>9 DEF OfUser
  <2>7. OldDead(u)'
      BY <1>11, <2>4, <2>5, <2>6 DEF OldDead, Unrevoked
  <2> QED BY <2>2, <2>7
<1> QED BY <1>5, <1>7, <1>9, <1>12, <1>13, <1>14, <1>15, <1>16, ConfinedKeeps

\* The links requested before are spent, and the new one is the last row.
NewLink(after, s, r) ==
    LET N == Len(s) + 1
    IN  /\ after \in Seq(PasswordResetToken) /\ Len(after) = N
        /\ \A n \in 1..Len(s) :
              /\ after[n].user = s[n].user
              /\ n \notin r.outstanding => after[n] = s[n]
              /\ n \in r.outstanding => after[n].used_at # Null
        /\ after[N].user = r.user /\ after[N].used_at = Null

\* What a request for a link writes: the outstanding ones are spent, and one is added.
LEMMA NewLinkFacts ==
    ASSUME NEW s \in Seq(PasswordResetToken), NEW r, r.user \in User, r.at \in Moment
    PROVE  NewLink(Append([n \in DOMAIN s |->
                              IF n \in r.outstanding /\ s[n].used_at = Null
                              THEN [s[n] EXCEPT !.used_at = r.at] ELSE s[n]],
                          [user |-> r.user, expires_at |-> r.at + ResetLife, used_at |-> Null]),
                   s, r)
<1> DEFINE new == [user |-> r.user, expires_at |-> r.at + ResetLife, used_at |-> Null]
           spent == [n \in DOMAIN s |-> IF n \in r.outstanding /\ s[n].used_at = Null
                                        THEN [s[n] EXCEPT !.used_at = r.at] ELSE s[n]]
           after == Append(spent, new)
<1>1. Len(s) \in Nat /\ DOMAIN s = 1..Len(s) /\ \A n \in 1..Len(s) : s[n] \in PasswordResetToken
    OBVIOUS
<1>2. new \in PasswordResetToken /\ new.user = r.user /\ new.used_at = Null
  <2>1. r.at + ResetLife \in Moment
      BY SettingsAssumption DEF Moment
  <2> QED BY <2>1 DEF PasswordResetToken, Null
<1>3. \A n \in 1..Len(s) :
          /\ spent[n] \in PasswordResetToken /\ spent[n].user = s[n].user
          /\ n \notin r.outstanding => spent[n] = s[n]
          /\ n \in r.outstanding => spent[n].used_at # Null
    BY <1>1 DEF PasswordResetToken, Moment, Null
<1> HIDE DEF new
<1>4. spent \in Seq(PasswordResetToken) /\ Len(spent) = Len(s)
    BY <1>1, <1>3
<1> HIDE DEF spent
<1>5. /\ after \in Seq(PasswordResetToken) /\ Len(after) = Len(s) + 1
      /\ \A n \in 1..Len(s) : after[n] = spent[n]
      /\ after[Len(s) + 1] = new
    BY <1>2, <1>4
<1> HIDE DEF after
<1>6. NewLink(after, s, r)
    BY <1>2, <1>3, <1>5 DEF NewLink
<1> QED BY <1>6 DEF after, spent, new

\* The commit of a request for a link keeps the invariant.
LEMMA CommitForgotKeeps ==
    ASSUME IInv, NEW w \in Worker, CommitForgot(w)
    PROVE  IInv'
<1>1. PICK r : r = serving[w]
    OBVIOUS
<1>2. /\ r.op = "forgot" /\ Finish(w) /\ UNCHANGED <<users, sessions, history, clock>>
      /\ links' = Append([n \in DOMAIN links |->
                             IF n \in r.outstanding /\ links[n].used_at = Null
                             THEN [links[n] EXCEPT !.used_at = r.at] ELSE links[n]],
                         [user |-> r.user, expires_at |-> r.at + ResetLife, used_at |-> Null])
    BY <1>1 DEF CommitForgot
<1>3. /\ serving[w] # Idle /\ r.user \in User /\ r.at \in Moment /\ Known(r.user)
      /\ \A n \in r.outstanding : n \in DOMAIN links /\ links[n].user = r.user
      /\ r.user \notin overlapped => Undisturbed(r) /\ Together(r.user) /\ OldDead(r.user)
    BY <1>1, <1>2, CommitFacts
<1>4. PICK u \in User : u = r.user
    BY <1>3
<1> DEFINE N == Len(links) + 1
<1>5. NewLink(links', links, r)
  <2>1. links \in Seq(PasswordResetToken)
      BY DEF IInv, Typed
  <2>2. PICK after : after = Append([n \in DOMAIN links |->
                             IF n \in r.outstanding /\ links[n].used_at = Null
                             THEN [links[n] EXCEPT !.used_at = r.at] ELSE links[n]],
                         [user |-> r.user, expires_at |-> r.at + ResetLife, used_at |-> Null])
      OBVIOUS
  <2>3. NewLink(after, links, r)
      BY <1>3, <2>1, <2>2, NewLinkFacts
  <2> QED BY <1>2, <2>2, <2>3, Zenon
<1>6. /\ links' \in Seq(PasswordResetToken) /\ Len(links') = N
      /\ \A n \in 1..Len(links) :
            /\ links'[n].user = links[n].user
            /\ links[n].user # u => links'[n] = links[n]
            /\ n \notin r.outstanding => links'[n] = links[n]
            /\ n \in r.outstanding => links'[n].used_at # Null
      /\ links'[N].user = u
    BY <1>3, <1>4, <1>5 DEF NewLink
<1>7. /\ Len(links) \in Nat /\ DOMAIN links = 1..Len(links)
      /\ DOMAIN links' = DOMAIN links \cup {N} /\ N \notin DOMAIN links
  <2>1. Len(links) \in Nat /\ DOMAIN links = 1..Len(links)
      BY Numbers DEF IInv
  <2>2. DOMAIN links' = 1..N
      BY <1>6
  <2> QED BY <2>1, <2>2
<1>8. Len(sessions) <= Len(sessions') /\ Len(links) <= Len(links')
    BY <1>2, <1>6, <1>7, Numbers DEF IInv
<1> HIDE DEF N
<1>9. /\ Released /\ Noted(u) /\ serving' \in [Worker -> Request \cup {Idle}]
      /\ overlapped \subseteq overlapped' /\ overlapped' \subseteq User
      /\ overlapped' \subseteq overlapped \cup {u}
    BY <1>1, <1>2, <1>3, <1>4, FinishFacts DEF IInv, Noted
<1>10. Typed'
    BY <1>2, <1>6, <1>9 DEF IInv, Typed
<1>11. Confined(u)
    BY <1>2, <1>6, <1>7, <1>8, <1>9 DEF Confined, Known
<1>12. RotationsCounted'
    BY <1>2, <1>9, <1>10, <1>11, RotationsSame
<1>13. Known(u)' /\ users'[u].password_changed_at <= clock
    BY <1>2, <1>3, <1>4 DEF IInv, ClockAhead, Known
<1>14. ASSUME u \notin overlapped'
       PROVE  Together(u)' /\ OldDead(u)'
  <2>1. Undisturbed(r) /\ Together(u) /\ OldDead(u)
      BY <1>3, <1>4, <1>9, <1>14
  <2>2. Outstanding(u) \subseteq r.outstanding
      BY <1>2, <1>4, <2>1 DEF Undisturbed
  <2>3. ASSUME NEW n \in Outstanding(u)'
        PROVE  n = N
    <3>1. n \in DOMAIN links' /\ links'[n].user = u /\ links'[n].used_at = Null
        BY DEF Outstanding
    <3>2. CASE n \in DOMAIN links
      <4>1. n \notin r.outstanding /\ links'[n] = links[n]
          BY <1>6, <1>7, <3>1, <3>2
      <4>2. n \in Outstanding(u)
          BY <3>1, <3>2, <4>1 DEF Outstanding
      <4> QED BY <2>2, <4>1, <4>2
    <3> QED BY <1>7, <3>1, <3>2
  <2>4. Cardinality(Outstanding(u)') <= 1
    <3>1. PICK after : after = Outstanding(u)'
        OBVIOUS
    <3>2. after \subseteq {N}
        BY <2>3, <3>1
    <3>3. IsFiniteSet({N}) /\ Cardinality({N}) = 1
        BY FS_Singleton
    <3>4. Cardinality(after) <= Cardinality({N})
        BY <3>2, <3>3, FS_Subset
    <3> QED BY <3>1, <3>3, <3>4
  <2>5. Together(u)'
      BY <1>2, <2>1 DEF Together, Unrevoked
  <2>6. OldDead(u)'
      BY <1>2, <2>1, <2>4 DEF OldDead, Unrevoked
  <2> QED BY <2>5, <2>6
<1> QED BY <1>2, <1>9, <1>10, <1>11, <1>12, <1>13, <1>14, ConfinedKeeps

-------------------------------------------------------------------------------
(* The invariant holds.                                                    *)

\* Before the first request every table is empty.
LEMMA InvariantInit == Init => IInv
<1> SUFFICES ASSUME Init PROVE IInv
    OBVIOUS
<1>1. /\ sessions = << >> /\ links = << >> /\ clock = 1 /\ overlapped = {}
      /\ users = [u \in User |-> NoRow] /\ history = [u \in User |-> << >>]
      /\ serving = [w \in Worker |-> Idle]
    BY DEF Init
<1>2. Typed
    BY <1>1 DEF Typed, Moment
<1>3. DOMAIN sessions = {} /\ DOMAIN links = {}
    BY <1>1
<1>4. \A u \in User : ~Known(u)
    BY <1>1 DEF Known
<1>5. \A w \in Worker : serving[w] = Idle
    BY <1>1
<1>6. AccountsExist /\ FamiliesApart /\ ClockAhead /\ AllHeld /\ RotationsCounted
    BY <1>1, <1>3, <1>4, <1>5
       DEF AccountsExist, FamiliesApart, ClockAhead, AllHeld, RotationsCounted
<1>7. Apart
    BY <1>3, <1>4 DEF Apart, Together, OfUser
<1> QED BY <1>2, <1>6, <1>7 DEF IInv

\* A thread's request is refused, begun, committed, or lost.
LEMMA AbortKeeps ==
    ASSUME IInv, \/ \E w \in Worker : Abort(w)
                 \/ Restart \/ Tick \/ UNCHANGED vars
    PROVE  IInv'
<1>1. clock \in Moment /\ serving \in [Worker -> Request \cup {Idle}]
    BY DEF IInv, Typed
<1>2. ASSUME NEW w \in Worker, Abort(w) PROVE IInv'
    BY <1>1, <1>2, NothingWritten DEF Abort, Released, Moment
<1>3. CASE Restart
    BY <1>1, <1>3, NothingWritten DEF Restart, Released, Moment
<1>4. CASE Tick
    BY <1>1, <1>4, NothingWritten DEF Tick, Released, Moment
<1>5. CASE UNCHANGED vars
    BY <1>1, <1>5, NothingWritten DEF vars, Released, Moment
<1> QED BY <1>2, <1>3, <1>4, <1>5

\* Every step keeps the invariant: each request, each commit, an abort, a restart, the clock.
LEMMA InvariantStep == IInv /\ [Next]_vars => IInv'
<1> SUFFICES ASSUME IInv, [Next]_vars PROVE IInv'
    OBVIOUS
<1>1. ASSUME NEW w \in Worker, PostLogin(w) PROVE IInv'
    BY <1>1, PostLoginKeeps
<1>2. ASSUME NEW w \in Worker, PostRefresh(w) PROVE IInv'
    BY <1>2, RefreshKeeps, RefreshReusedKeeps DEF PostRefresh
<1>3. ASSUME NEW w \in Worker, PostChangePassword(w) PROVE IInv'
    BY <1>3, PostChangePasswordKeeps
<1>4. ASSUME NEW w \in Worker, PostForgotPassword(w) PROVE IInv'
    BY <1>4, PostForgotPasswordKeeps
<1>5. ASSUME NEW w \in Worker, PostResetPassword(w) PROVE IInv'
    BY <1>5, PostResetPasswordKeeps
<1>6. ASSUME NEW w \in Worker, Commit(w) PROVE IInv'
    BY <1>6, CommitFailureKeeps, CommitLoginKeeps, CommitRefreshKeeps, CommitNewPasswordKeeps,
       CommitForgotKeeps DEF Commit
<1>7. CASE PostLogout \/ PostLogoutAll
    BY <1>7, PostLogoutKeeps
<1>8. ASSUME NEW u \in User, NEW p \in Password, CreateUser(u, p) PROVE IInv'
    BY <1>8, CreateUserKeeps
<1>9. ASSUME NEW u \in User, NEW active \in BOOLEAN, SetUserActive(u, active) PROVE IInv'
    BY <1>9, SetUserActiveKeeps
<1>10. CASE \/ \E w \in Worker : Abort(w)
            \/ Restart \/ Tick \/ UNCHANGED vars
    BY <1>10, AbortKeeps
<1> QED BY <1>1, <1>2, <1>3, <1>4, <1>5, <1>6, <1>7, <1>8, <1>9, <1>10 DEF Next

\* However requests interleave, what they rest on is there when they commit, or the account is
\* one whose requests have overlapped.
THEOREM Invariant == Spec => []IInv
<1> QED BY InvariantInit, InvariantStep, PTL DEF Spec

\* refresh_session: a token is rotated once, and again only by requests that had read it before.
THEOREM RotatedOnceHolds == Spec => []RotatedOnce
<1>1. IInv => RotatedOnce
  <2> SUFFICES ASSUME IInv, NEW n \in DOMAIN sessions
               PROVE  Cardinality(Children(n)) <=
                          IF sessions[n].user \in overlapped THEN Cardinality(Worker) ELSE 1
      BY DEF RotatedOnce, Children
  <2>1. IsFiniteSet(Worker) /\ Cardinality(Worker) \in Nat
      BY WorkerAssumption, FS_CardinalityType
  <2>2. Holders(n) \in SUBSET Worker
      BY DEF Holders
  <2>3. Cardinality(Holders(n)) \in Nat
      BY <2>1, <2>2, FS_Subset, FS_CardinalityType
  <2>4. Cardinality(Children(n)) \in Nat
      BY ChildrenFinite DEF IInv
  <2>5. /\ Cardinality(Children(n)) + Cardinality(Holders(n)) <= Cardinality(Worker)
        /\ sessions[n].user \notin overlapped => Cardinality(Children(n)) <= 1
      BY DEF IInv, RotationsCounted
  <2> QED BY <2>1, <2>3, <2>4, <2>5
<1> QED BY <1>1, Invariant, PTL

\* revoke_family, revoke_all_for_user: a family is revoked altogether or not at all.
THEOREM FamilyHolds == Spec => []FamilyRevokedTogether
<1>1. IInv => FamilyRevokedTogether
  <2> SUFFICES ASSUME IInv, NEW m \in DOMAIN sessions, NEW n \in DOMAIN sessions,
                      sessions[m].family_id = sessions[n].family_id,
                      sessions[m].user \notin overlapped
               PROVE  /\ Unrevoked(m) = Unrevoked(n)
                      /\ m < n => sessions[m].rotated_at # Null
      BY DEF FamilyRevokedTogether
  <2>1. PICK u \in User : u = sessions[m].user
      BY OwnerFacts
  <2>2. m \in OfUser(sessions, u) /\ n \in OfUser(sessions, u)
      BY <2>1 DEF IInv, FamiliesApart, OfUser
  <2>3. Together(u)
      BY <2>1 DEF IInv, Apart
  <2> QED BY <2>2, <2>3 DEF Together
<1> QED BY <1>1, Invariant, PTL

\* _set_password, invalidate_outstanding, set_user_active: what they retire is gone.
THEOREM OldCredentialsHold == Spec => []OldCredentialsDie
<1>1. IInv => OldCredentialsDie
    BY DEF IInv, Apart, OldDead, OldCredentialsDie
<1> QED BY <1>1, Invariant, PTL

-------------------------------------------------------------------------------
(* What a step does to the tokens, and what it never does.                 *)

\* Tokens may be stamped, and no row is added.
OnlyStamped ==
    /\ DOMAIN sessions' = DOMAIN sessions
    /\ \A n \in DOMAIN sessions :
          /\ sessions'[n].family_id = sessions[n].family_id
          /\ sessions[n].revoked_at # Null => sessions'[n].revoked_at # Null

\* A row is added, of this user and family and below this token, and none is revoked.
Joined(u, parent, family) ==
    LET N == Len(sessions) + 1
    IN  /\ N \notin DOMAIN sessions /\ DOMAIN sessions' = DOMAIN sessions \cup {N}
        /\ \A n \in DOMAIN sessions :
              /\ sessions'[n].family_id = sessions[n].family_id
              /\ sessions'[n].revoked_at = sessions[n].revoked_at
        /\ sessions'[N].user = u /\ sessions'[N].parent = parent
        /\ sessions'[N].family_id = family

SignedIn(w) == serving[w].op = "login" /\ Joined(serving[w].user, 0, Len(sessions) + 1)

Renewed(w) ==
    /\ serving[w].op = "refresh"
    /\ Joined(serving[w].user, serving[w].token, sessions[serving[w].token].family_id)

\* A revocation stamps rows and issues none.
LEMMA RevokeOnlyStamps ==
    ASSUME Typed, NEW S, NEW at \in Moment, sessions' = Revoke(sessions, S, at)
    PROVE  OnlyStamped
<1>1. sessions \in Seq(UserSession) /\ DOMAIN sessions = 1..Len(sessions)
    BY Numbers DEF Typed
<1>2. LET after == sessions'
      IN  /\ after \in Seq(UserSession) /\ Len(after) = Len(sessions)
          /\ \A n \in 1..Len(sessions) :
                /\ after[n].family_id = sessions[n].family_id
                /\ after[n].revoked_at = Null <=> n \notin S /\ sessions[n].revoked_at = Null
    BY <1>1, RevokeFacts
<1>3. DOMAIN sessions' = 1..Len(sessions')
    BY <1>2
<1> QED BY <1>1, <1>2, <1>3 DEF OnlyStamped

\* The commit of a login adds one row, which heads a family of its own.
LEMMA LoginJoins ==
    ASSUME IInv, NEW w \in Worker, CommitLogin(w)
    PROVE  SignedIn(w)
<1>1. PICK r : r = serving[w]
    OBVIOUS
<1>2. r.op = "login" /\ sessions' = Issue(r, sessions, 0)
    BY <1>1 DEF CommitLogin
<1>3. r.user \in User /\ r.at \in Moment
    BY <1>1, <1>2, CommitFacts
<1>4. Len(sessions) \in Nat /\ DOMAIN sessions = 1..Len(sessions) /\ sessions \in Seq(UserSession)
    BY Numbers DEF IInv, Typed
<1> DEFINE N == Len(sessions) + 1
<1>5. /\ sessions' \in Seq(UserSession) /\ Len(sessions') = N
      /\ \A n \in 1..Len(sessions) : sessions'[n] = sessions[n]
      /\ sessions'[N].user = r.user /\ sessions'[N].issued_at = r.at /\ sessions'[N].parent = 0
      /\ sessions'[N].rotated_at = Null /\ sessions'[N].revoked_at = Null
      /\ sessions'[N].family_id = N
  <2>1. 0 \in 0..Len(sessions)
      BY <1>4
  <2>2. Issued(sessions', sessions, r, 0)
      BY <1>2, <1>3, <1>4, <2>1, IssueFacts
  <2> QED BY <2>2 DEF Issued
<1>6. N \notin DOMAIN sessions /\ DOMAIN sessions' = DOMAIN sessions \cup {N}
  <2>1. DOMAIN sessions' = 1..N
      BY <1>5
  <2> QED BY <1>4, <2>1
<1> QED BY <1>1, <1>2, <1>4, <1>5, <1>6 DEF SignedIn, Joined

\* The commit of a rotation adds one row, to the family of the token presented.
LEMMA RefreshJoins ==
    ASSUME IInv, NEW w \in Worker, CommitRefresh(w)
    PROVE  Renewed(w)
<1>1. PICK r : r = serving[w]
    OBVIOUS
<1>2. /\ r.op = "refresh"
      /\ sessions' = Issue(r, [sessions EXCEPT ![r.token].rotated_at = r.at], r.token)
    BY <1>1 DEF CommitRefresh
<1>3. r.user \in User /\ r.at \in Moment /\ r.token \in DOMAIN sessions
    BY <1>1, <1>2, CommitFacts
<1>4. PICK t \in DOMAIN sessions : t = r.token
    BY <1>3
<1>5. sessions \in Seq(UserSession)
    BY DEF IInv, Typed
<1>6. sessions' = Issue(r, [sessions EXCEPT ![t].rotated_at = r.at], t)
    BY <1>2, <1>4
<1>7. Rotated(sessions', sessions, t, r, Len(sessions) + 1)
    BY <1>3, <1>5, <1>6, RotationFacts
<1>8. Joined(r.user, t, sessions[t].family_id)
    BY <1>7 DEF Rotated, Joined
<1> QED BY <1>1, <1>2, <1>4, <1>8 DEF Renewed

\* Every step stamps tokens, signs somebody in, or renews a token.
LEMMA SessionSteps ==
    ASSUME IInv, [Next]_vars
    PROVE  OnlyStamped \/ \E w \in Worker : SignedIn(w) \/ Renewed(w)
<1>1. clock \in Moment
    BY DEF IInv, Typed
<1>2. (sessions' = sessions) => OnlyStamped
    BY DEF OnlyStamped
<1>3. ASSUME NEW w \in Worker, PostRefresh(w)
      PROVE  OnlyStamped
  <2>1. ASSUME NEW n \in DOMAIN sessions, Refresh(w, n) PROVE OnlyStamped
    <3>1. sessions' = sessions
        BY <2>1 DEF Refresh, Begin
    <3> QED BY <1>2, <3>1
  <2>2. ASSUME NEW n \in DOMAIN sessions, RefreshReused(n) PROVE OnlyStamped
    <3>1. PICK S : S = OfFamily(sessions, sessions[n].family_id)
        OBVIOUS
    <3> QED BY <1>1, <2>2, <3>1, RevokeOnlyStamps DEF RefreshReused, IInv
  <2> QED BY <1>3, <2>1, <2>2 DEF PostRefresh
<1>4. ASSUME NEW w \in Worker, PostLogin(w) PROVE UNCHANGED sessions
    BY <1>4 DEF PostLogin, Login, Attempt, Begin, Refuse
<1>5. ASSUME NEW w \in Worker,
             PostChangePassword(w) \/ PostForgotPassword(w) \/ PostResetPassword(w)
      PROVE  UNCHANGED sessions
    BY <1>5 DEF PostChangePassword, PostForgotPassword, PostResetPassword, ResetPassword,
                StartNewPassword, Begin
<1>6. ASSUME NEW w \in Worker, Commit(w)
      PROVE  OnlyStamped \/ SignedIn(w) \/ Renewed(w)
  <2>1. CASE CommitFailure(w) \/ CommitForgot(w)
    <3>1. sessions' = sessions
        BY <2>1 DEF CommitFailure, CommitForgot
    <3> QED BY <1>2, <3>1
  <2>2. CASE CommitLogin(w)
      BY <2>2, LoginJoins
  <2>3. CASE CommitRefresh(w)
      BY <2>3, RefreshJoins
  <2>4. CASE CommitNewPassword(w)
    <3>1. PICK r : r = serving[w]
        OBVIOUS
    <3>2. PICK S : S = OfUser(sessions, r.user)
        OBVIOUS
    <3>3. r.op # "idle" /\ sessions' = Revoke(sessions, S, r.at)
        BY <2>4, <3>1, <3>2 DEF CommitNewPassword
    <3>4. r.at \in Moment
        BY <3>1, <3>3, CommitFacts
    <3> QED BY <3>3, <3>4, RevokeOnlyStamps DEF IInv
  <2> QED BY <1>6, <2>1, <2>2, <2>3, <2>4 DEF Commit
<1>7. ASSUME NEW S, NEW u, SignOut(S, u) PROVE OnlyStamped
    BY <1>1, <1>7, RevokeOnlyStamps DEF SignOut, IInv
<1>8. CASE PostLogout
  <2>1. PICK n \in DOMAIN sessions :
            SignOut(OfFamily(sessions, sessions[n].family_id), sessions[n].user)
      BY <1>8 DEF PostLogout
  <2>2. PICK S, u : S = OfFamily(sessions, sessions[n].family_id) /\ u = sessions[n].user
      OBVIOUS
  <2> QED BY <1>7, <2>1, <2>2
<1>9. CASE PostLogoutAll
  <2>1. PICK u \in User : SignOut(OfUser(sessions, u), u)
      BY <1>9 DEF PostLogoutAll
  <2>2. PICK S : S = OfUser(sessions, u)
      OBVIOUS
  <2> QED BY <1>7, <2>1, <2>2
<1>10. ASSUME NEW u \in User, NEW active \in BOOLEAN, SetUserActive(u, active)
       PROVE  OnlyStamped
  <2>1. CASE active
    <3>1. sessions' = sessions
        BY <1>10, <2>1 DEF SetUserActive
    <3> QED BY <1>2, <3>1
  <2>2. CASE ~active
    <3>1. PICK S : S = OfUser(sessions, u)
        OBVIOUS
    <3> QED BY <1>1, <1>10, <2>2, <3>1, RevokeOnlyStamps DEF SetUserActive, IInv
  <2> QED BY <2>1, <2>2
<1>11. ASSUME \/ \E w \in Worker : Abort(w)
              \/ \E u \in User, p \in Password : CreateUser(u, p)
              \/ Restart \/ Tick \/ UNCHANGED vars
       PROVE  UNCHANGED sessions
    BY <1>11 DEF Abort, CreateUser, Restart, Tick, vars
<1> QED BY <1>2, <1>3, <1>4, <1>5, <1>6, <1>8, <1>9, <1>10, <1>11 DEF Next

\* A family revoked to the last token stays dead.
THEOREM RevokedStays == Spec => RevokedStaysDead
<1> DEFINE Renewing(n) ==
              /\ sessions[n].user \in overlapped
              /\ \E w \in Worker : /\ serving[w].op = "refresh"
                                   /\ serving[w].token \in OfFamily(sessions, sessions[n].family_id)
           Dead(n) == \A k \in OfFamily(sessions, sessions[n].family_id) : ~Unrevoked(k)
           StaysDead(n) == \A k \in OfFamily(sessions', sessions[n].family_id) :
                              sessions'[k].revoked_at # Null
<1>1. ASSUME IInv, [Next]_vars, NEW n \in DOMAIN sessions, Dead(n), ~Renewing(n)
      PROVE  StaysDead(n)
  <2>1. \A k \in DOMAIN sessions : sessions[k].family_id = sessions[n].family_id =>
            sessions[k].revoked_at # Null
      BY <1>1 DEF OfFamily, Unrevoked
  <2>2. CASE OnlyStamped
      BY <2>1, <2>2 DEF OnlyStamped, OfFamily
  <2> DEFINE N == Len(sessions) + 1
  <2>3. ASSUME NEW w \in Worker, SignedIn(w)
        PROVE  StaysDead(n)
    <3>1. sessions[n].family_id # N
      <4>1. n \in 1..Len(sessions) /\ Len(sessions) \in Nat
          BY <1>1, Numbers DEF IInv
      <4>2. sessions[n].family_id <= n /\ sessions[n].family_id \in Nat
          BY <1>1, Numbers DEF IInv, FamiliesApart, UserSession, Moment
      <4> QED BY <4>1, <4>2
    <3> QED BY <2>1, <2>3, <3>1 DEF SignedIn, Joined, OfFamily
  <2>4. ASSUME NEW w \in Worker, Renewed(w)
        PROVE  StaysDead(n)
    <3>1. PICK r : r = serving[w]
        OBVIOUS
    <3>2. /\ r.op = "refresh" /\ r.token \in DOMAIN sessions /\ sessions[r.token].user = r.user
          /\ r.user \notin overlapped => Undisturbed(r)
      <4>1. r.op = "refresh"
          BY <2>4, <3>1 DEF Renewed
      <4> QED BY <1>1, <3>1, <4>1, CommitFacts
    <3>3. sessions[r.token].family_id # sessions[n].family_id
      <4> SUFFICES ASSUME sessions[r.token].family_id = sessions[n].family_id PROVE FALSE
          OBVIOUS
      <4>1. sessions[r.token].revoked_at # Null
          BY <2>1, <3>2
      <4>2. r.user \in overlapped
          BY <3>2, <4>1 DEF Undisturbed, Unrevoked
      <4>3. sessions[n].user = r.user
          BY <1>1, <3>2 DEF IInv, FamiliesApart
      <4> QED BY <1>1, <3>1, <3>2, <4>2, <4>3 DEF OfFamily
    <3> QED BY <2>1, <2>4, <3>1, <3>3 DEF Renewed, Joined, OfFamily
  <2> QED BY <1>1, <2>2, <2>3, <2>4, SessionSteps
<1>2. IInv /\ [Next]_vars => [\A n \in DOMAIN sessions :
          LET family == OfFamily(sessions, sessions[n].family_id)
              renewing == /\ sessions[n].user \in overlapped
                          /\ \E w \in Worker :
                                 serving[w].op = "refresh" /\ serving[w].token \in family
          IN  ((\A k \in family : ~Unrevoked(k)) /\ ~renewing)
                  => \A k \in OfFamily(sessions', sessions[n].family_id) :
                         sessions'[k].revoked_at # Null]_vars
    BY <1>1, Zenon
<1> QED BY <1>2, Invariant, PTL DEF Spec, RevokedStaysDead

\* _issue, _register_failed_attempt: a locked account stays locked and lets nobody in.
THEOREM LockoutStays == Spec => LockoutHolds
<1> DEFINE Attempting(u) ==
              \E w \in Worker :
                 /\ Serving(w, u) /\ serving[w].op \in {"login", "failure"}
                 /\ serving[w].copy.locked_until # users[u].locked_until
           Stays(u) ==
              /\ users'[u].locked_until = users[u].locked_until
              /\ \A n \in DOMAIN sessions' \ DOMAIN sessions :
                     sessions'[n].user = u => sessions'[n].parent # 0
<1>1. ASSUME IInv, [Next]_vars, NEW u \in User, Known(u), Locked(users[u], clock), ~Attempting(u)
      PROVE  Stays(u)
  <2>1. users[u] \in UserRow /\ clock \in Nat
      BY <1>1, RowFacts DEF IInv, Typed, Moment
  <2>2. ASSUME NEW w \in Worker, serving[w].op \in {"login", "failure"}
        PROVE  serving[w].user # u
    <3> SUFFICES ASSUME serving[w].user = u PROVE FALSE
        OBVIOUS
    <3>1. serving[w] # Idle
        BY <2>2, IdleFacts
    <3>2. /\ serving[w].copy \in UserRow /\ serving[w].at \in Nat
          /\ serving[w].copy.locked_until <= serving[w].at /\ serving[w].at <= clock
        BY <1>1, <2>2, <3>1, RequestFacts DEF IInv, AllHeld, Held, ClockAhead, Moment
    <3>3. serving[w].copy.locked_until # users[u].locked_until
        BY <1>1, <2>1, <3>2 DEF Locked, UserRow
    <3> QED BY <1>1, <2>2, <3>1, <3>3 DEF Serving
  <2>3. \A n \in DOMAIN sessions' \ DOMAIN sessions :
            sessions'[n].user = u => sessions'[n].parent # 0
    <3>1. CASE OnlyStamped
        BY <3>1 DEF OnlyStamped
    <3>2. ASSUME NEW w \in Worker, SignedIn(w)
          PROVE  \A n \in DOMAIN sessions' \ DOMAIN sessions : sessions'[n].user # u
        BY <2>2, <3>2 DEF SignedIn, Joined
    <3>3. ASSUME NEW w \in Worker, Renewed(w)
          PROVE  \A n \in DOMAIN sessions' \ DOMAIN sessions : sessions'[n].parent # 0
      <4>1. PICK r : r = serving[w]
          OBVIOUS
      <4>2. r.op = "refresh"
          BY <3>3, <4>1 DEF Renewed
      <4>3. r.token \in DOMAIN sessions
          BY <1>1, <4>1, <4>2, CommitFacts
      <4>4. r.token # 0
          BY <1>1, <4>3, Numbers DEF IInv
      <4> QED BY <3>3, <4>1, <4>4 DEF Renewed, Joined
    <3> QED BY <1>1, <3>1, <3>2, <3>3, SessionSteps
  <2>4. users'[u].locked_until = users[u].locked_until
    <3>1. CASE UNCHANGED users
        BY <3>1
    <3>2. ASSUME NEW w \in Worker, CommitFailure(w) \/ CommitLogin(w)
          PROVE  users'[u] = users[u]
      <4>1. PICK row : WriteUser(serving[w], row) /\ serving[w].op \in {"login", "failure"}
          BY <3>2 DEF CommitFailure, CommitLogin
      <4> QED BY <1>1, <2>2, <4>1 DEF WriteUser, IInv, Typed
    <3>3. ASSUME NEW w \in Worker, CommitNewPassword(w)
          PROVE  users'[u].locked_until = users[u].locked_until
      <4>1. PICK r : r = serving[w]
          OBVIOUS
      <4>2. r.op \in {"change", "reset"} /\ WriteUser(r, AfterNewPassword(r))
          BY <3>3, <4>1 DEF CommitNewPassword
      <4>3. /\ r.user \in User /\ Known(r.user) /\ r.copy \in UserRow /\ r.new \in Password
            /\ r.at \in Moment /\ users[r.user] \in UserRow
          BY <1>1, <4>1, <4>2, CommitFacts
      <4>4. /\ users'[r.user] = Write(users[r.user], r.copy, AfterNewPassword(r))
            /\ \A x \in User \ {r.user} : users'[x] = users[x]
          BY <1>1, <4>2, <4>3, AfterNewPasswordFacts, WriteUserFacts DEF IInv
      <4>5. users'[r.user].locked_until = users[r.user].locked_until
          BY <4>3, <4>4, AfterNewPasswordFacts, WriteFacts
      <4> QED BY <4>4, <4>5
    <3>4. ASSUME NEW x \in User, NEW p \in Password, CreateUser(x, p)
          PROVE  users'[u] = users[u]
        BY <1>1, <3>4 DEF CreateUser, IInv, Typed
    <3>5. ASSUME NEW x \in User, NEW active \in BOOLEAN, SetUserActive(x, active)
          PROVE  users'[u].locked_until = users[u].locked_until
      <4>1. users' = [users EXCEPT ![x].is_active = active]
          BY <3>5 DEF SetUserActive
      <4> QED BY <1>1, <2>1, <4>1 DEF IInv, Typed, UserRow
    <3>6. ASSUME NEW w \in Worker,
                 \/ PostLogin(w) \/ PostRefresh(w) \/ PostChangePassword(w)
                 \/ PostForgotPassword(w) \/ PostResetPassword(w)
                 \/ CommitRefresh(w) \/ CommitForgot(w) \/ Abort(w)
          PROVE  UNCHANGED users
        BY <3>6 DEF PostLogin, Login, Attempt, Refuse, PostRefresh, Refresh, RefreshReused,
                    PostChangePassword, PostForgotPassword, PostResetPassword, ResetPassword,
                    StartNewPassword, Begin, CommitRefresh, CommitForgot, Abort
    <3>7. ASSUME PostLogout \/ PostLogoutAll \/ Restart \/ Tick \/ UNCHANGED vars
          PROVE  UNCHANGED users
        BY <3>7 DEF PostLogout, PostLogoutAll, SignOut, Restart, Tick, vars
    <3> QED BY <1>1, <3>1, <3>2, <3>3, <3>4, <3>5, <3>6, <3>7 DEF Next, Commit
  <2> QED BY <2>3, <2>4
<1>2. IInv /\ [Next]_vars => [\A u \in User :
          (/\ Known(u) /\ Locked(users[u], clock)
           /\ ~\E w \in Worker :
                 /\ Serving(w, u) /\ serving[w].op \in {"login", "failure"}
                 /\ serving[w].copy.locked_until # users[u].locked_until)
              => /\ users'[u].locked_until = users[u].locked_until
                 /\ \A n \in DOMAIN sessions' \ DOMAIN sessions :
                        sessions'[n].user = u => sessions'[n].parent # 0]_vars
    BY <1>1, Zenon
<1> QED BY <1>2, Invariant, PTL DEF Spec, LockoutHolds
===============================================================================
