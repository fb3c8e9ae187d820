------------------------- MODULE ConfigurationProofs -------------------------
(***************************************************************************)
(* One version is in force, an archived one never comes back, and every    *)
(* score is computed and stored under one that was: for any          *)
(* definitions, processes, threads and number of versions.                 *)
(***************************************************************************)
EXTENDS Configuration, FiniteSetTheorems, TLAPS

SoleActive == \E v \in DOMAIN versions : Active = {v}

\* An entry of the cache is the scorecard of its key.
CacheKeyed ==
    \A p \in Process, v \in Version : cache[p][v] # NotCached => cache[p][v].version = v

\* Where a request stands, and what its history has seen: the version it has read is on file
\* (none is ever deleted), and the history has whatever is ACTIVE now and the request's own.
Sound(standing, seen) ==
    /\ standing.step \in {"editing", "validated", "publishing", "resolving"}
           => standing.version \in DOMAIN versions
    /\ standing.step \in {"resolving", "scored", "stored"} => Active \subseteq seen
    /\ standing.step = "resolving" => standing.version \in seen
    /\ standing.step \in {"scored", "stored"} => standing.used \in seen
    /\ standing.step = "stored" => standing.config \in seen

AllSound == \A r \in Request : Sound(requests[r], activeDuring[r])

IInv == TypeOK /\ SoleActive /\ CacheKeyed /\ AllSound

-----------------------------------------------------------------------------
(* The initial states, and the steps of one request.                       *)

\* A seeded database satisfies the invariant: version 1 is there and ACTIVE (config_loader.py:37).
LEMMA InitIInv == Init => IInv
<1> SUFFICES ASSUME Init PROVE IInv
  OBVIOUS
<1> USE ConfigurationAssumption
<1>1. PICK d \in Loadable : versions = <<[status |-> "ACTIVE", definition |-> d]>>
  BY DEF Init
<1>2. d \in Definition /\ 1 \in Version
  BY <1>1 DEF Loadable, Version
<1>3. versions \in Seq(Row) /\ Len(versions) = 1 /\ DOMAIN versions = {1}
  BY <1>1, <1>2 DEF Row
<1>4. Active = {1}
  BY <1>1, <1>3 DEF Active, StatusOf
<1>5. TypeOK
  <2>1. Len(versions) <= MaxVersions
    BY <1>3
  <2>2. cache \in [Process -> [Version -> Scorecard \cup {NotCached}]]
    BY DEF Init
  <2>3. requests \in [Request -> Standing]
    BY DEF Init, Standing
  <2>4. activeDuring \in [Request -> SUBSET Version]
    BY DEF Init
  <2> QED BY <1>3, <2>1, <2>2, <2>3, <2>4 DEF TypeOK
<1>6. AllSound
  BY DEF Init, AllSound, Sound, Idle
<1>7. CacheKeyed
  BY DEF Init, CacheKeyed
<1> QED BY <1>3, <1>4, <1>5, <1>6, <1>7 DEF IInv, SoleActive

\* What one request does without touching the status of a version, in any handler: it moves to
\* a sound standing, and rows are added or edited (get_db, database.py:76-86).
LEMMA OneRequest ==
    ASSUME IInv, NEW r \in Request, NEW standing \in Standing, NEW seen \in SUBSET Version,
           requests' = [requests EXCEPT ![r] = standing],
           activeDuring' = [activeDuring EXCEPT ![r] = seen],
           Sound(standing, seen),
           versions' \in Seq(Row), Len(versions') <= MaxVersions,
           DOMAIN versions \subseteq DOMAIN versions', Active' = Active,
           cache' \in [Process -> [Version -> Scorecard \cup {NotCached}]], CacheKeyed'
    PROVE  IInv'
<1>1. TypeOK'
  BY DEF IInv, TypeOK
<1>2. SoleActive'
  BY DEF IInv, SoleActive
<1>3. ASSUME NEW s \in Request PROVE Sound(requests[s], activeDuring[s])'
  <2>1. CASE s = r
    <3>1. requests'[s] = standing /\ activeDuring'[s] = seen
      BY <2>1 DEF IInv, TypeOK
    <3> QED BY <3>1 DEF Sound
  <2>2. CASE s # r
    <3>1. requests'[s] = requests[s] /\ activeDuring'[s] = activeDuring[s]
      BY <2>2 DEF IInv, TypeOK
    <3>2. Sound(requests[s], activeDuring[s])
      BY DEF IInv, AllSound
    <3> QED BY <3>1, <3>2 DEF Sound
  <2> QED BY <2>1, <2>2
<1> QED BY <1>1, <1>2, <1>3 DEF IInv, AllSound

\* The same where the tables and the cache stay as they are.
LEMMA OnlyStands ==
    ASSUME IInv, NEW r \in Request, NEW standing \in Standing,
           requests' = [requests EXCEPT ![r] = standing],
           UNCHANGED <<versions, cache, activeDuring>>,
           Sound(standing, activeDuring[r])
    PROVE  IInv'
<1>1. activeDuring[r] \in SUBSET Version
      /\ activeDuring' = [activeDuring EXCEPT ![r] = activeDuring[r]]
  BY DEF IInv, TypeOK
<1>2. versions' \in Seq(Row) /\ Len(versions') <= MaxVersions
      /\ cache' \in [Process -> [Version -> Scorecard \cup {NotCached}]]
  BY DEF IInv, TypeOK
<1>3. DOMAIN versions \subseteq DOMAIN versions' /\ Active' = Active /\ CacheKeyed'
  BY DEF IInv, Active, StatusOf, CacheKeyed
<1> QED BY <1>1, <1>2, <1>3, OneRequest

\* Version numbers are the positions of a sequence no longer than MaxVersions.
LEMMA DomainOfVersions ==
    ASSUME TypeOK
    PROVE  DOMAIN versions = 1..Len(versions) /\ DOMAIN versions \subseteq Version
           /\ \A v \in DOMAIN versions : versions[v] \in Row
BY ConfigurationAssumption DEF TypeOK, Version

\* A read that begins a request records only what it has read (admin.py:105-212).
LEMMA BeginKeeps ==
    ASSUME IInv, NEW r \in Request
    PROVE  /\ \A d \in Definition : BeginDraft(r, d) => IInv'
           /\ \A v \in DOMAIN versions, d \in Definition : BeginEdit(r, v, d) => IInv'
           /\ \A v \in DOMAIN versions : BeginPublish(r, v) => IInv'
<1> USE DomainOfVersions, ConfigurationAssumption
<1>1. ASSUME NEW d \in Definition, BeginDraft(r, d) PROVE IInv'
  <2> DEFINE s == [step |-> "drafting", version |-> Len(versions) + 1, definition |-> d]
  <2>1. s \in Standing
    BY <1>1 DEF BeginDraft, Standing, Version, IInv, TypeOK
  <2>2. Sound(s, activeDuring[r])
    BY DEF Sound
  <2> QED BY <1>1, <2>1, <2>2, OnlyStands DEF BeginDraft, Begin
<1>2. ASSUME NEW v \in DOMAIN versions, NEW d \in Definition, BeginEdit(r, v, d) PROVE IInv'
  <2> DEFINE s == [step |-> "editing", version |-> v, definition |-> d]
  <2>1. s \in Standing
    BY DEF Standing, IInv
  <2>2. Sound(s, activeDuring[r])
    BY DEF Sound
  <2> QED BY <1>2, <2>1, <2>2, OnlyStands DEF BeginEdit, Begin
<1>3. ASSUME NEW v \in DOMAIN versions, BeginPublish(r, v) PROVE IInv'
  <2> DEFINE s == [step |-> "validated", version |-> v]
  <2>1. s \in Standing
    BY DEF Standing, IInv
  <2>2. Sound(s, activeDuring[r])
    BY DEF Sound
  <2> QED BY <1>3, <2>1, <2>2, OnlyStands DEF BeginPublish, Begin
<1> QED BY <1>1, <1>2, <1>3

\* The row to archive is one on file (admin.py:215).
LEMMA FindPreviousKeeps == ASSUME IInv, NEW r \in Request, FindPrevious(r) PROVE IInv'
<1>1. PICK previous \in Active \cup {NoVersion} :
        requests' = [requests EXCEPT ![r] =
           [step |-> "publishing", version |-> requests[r].version, previous |-> previous]]
  BY DEF FindPrevious
<1>2. requests[r].version \in DOMAIN versions
  BY DEF FindPrevious, IInv, AllSound, Sound
<1> DEFINE s == [step |-> "publishing", version |-> requests[r].version, previous |-> previous]
<1>3. s \in Standing
  BY <1>1, <1>2, DomainOfVersions DEF Standing, IInv, Active
<1>4. Sound(s, activeDuring[r])
  BY <1>2 DEF Sound
<1> QED BY <1>1, <1>3, <1>4, OnlyStands DEF FindPrevious

-----------------------------------------------------------------------------
(* The steps that write.                                                   *)

\* The request is over, or has failed: nothing is left to be sound.
LEMMA Over ==
    ASSUME NEW standing \in {Idle} \cup {Failed(op) : op \in {"draft", "publish", "assess"}}
    PROVE  standing \in Standing /\ \A seen : Sound(standing, seen)
BY DEF Standing, Sound, Idle, Failed

\* A draft's number is below the bound if it is not on file, and a row so added is not ACTIVE.
LEMMA DraftKeepsActive ==
    ASSUME IInv, NEW r \in Request, CommitDraft(r)
    PROVE  /\ Active' = Active /\ DOMAIN versions \subseteq DOMAIN versions'
           /\ versions' \in Seq(Row) /\ Len(versions') <= MaxVersions
<1> DEFINE req == requests[r]
<1>1. req \in Standing /\ req.step = "drafting" /\ TypeOK
  BY DEF CommitDraft, IInv, TypeOK
<1>2. req.version \in Version /\ req.definition \in Definition
  BY <1>1 DEF Standing, Idle
<1>3. CASE req.version \in DOMAIN versions
  BY <1>1, <1>3 DEF CommitDraft, Active, StatusOf, TypeOK
<1>4. CASE req.version \notin DOMAIN versions
  <2> DEFINE row == [status |-> "DRAFT", definition |-> req.definition]
  <2>1. versions' = Append(versions, row)
    BY <1>4 DEF CommitDraft
  <2>2. row \in Row
    BY <1>2 DEF Row
  <2>3. Len(versions) < MaxVersions
    BY <1>1, <1>2, <1>4, DomainOfVersions, ConfigurationAssumption DEF Version, TypeOK
  <2>4. versions \in Seq(Row) /\ Len(versions) \in Nat
    BY <1>1 DEF TypeOK
  <2>5. versions' \in Seq(Row) /\ Len(versions') = Len(versions) + 1
    BY <2>1, <2>2, <2>4
  <2>6. DOMAIN versions' = DOMAIN versions \cup {Len(versions) + 1}
    BY <2>4, <2>5
  <2>7. \A v \in DOMAIN versions : versions'[v] = versions[v]
    BY <2>1, <2>2, <2>4
  <2>8. versions'[Len(versions) + 1] = row
    BY <2>1, <2>2, <2>4
  <2>9. Active' = Active
    BY <2>6, <2>7, <2>8 DEF Active, StatusOf
  <2>10. Len(versions') <= MaxVersions
    BY <2>3, <2>4, <2>5, ConfigurationAssumption
  <2> QED BY <2>5, <2>6, <2>9, <2>10
<1> QED BY <1>3, <1>4

\* The request that drafts is over, or has failed (create, replace_components).
LEMMA CommitDraftKeeps == ASSUME IInv, NEW r \in Request, CommitDraft(r) PROVE IInv'
<1>1. PICK standing \in {Idle} \cup {Failed(op) : op \in {"draft", "publish", "assess"}} :
        requests' = [requests EXCEPT ![r] = standing]
  BY DEF CommitDraft, Finish
<1>2. activeDuring[r] \in SUBSET Version
      /\ activeDuring' = [activeDuring EXCEPT ![r] = activeDuring[r]]
      /\ cache' \in [Process -> [Version -> Scorecard \cup {NotCached}]] /\ CacheKeyed'
  BY DEF CommitDraft, IInv, TypeOK, CacheKeyed
<1> QED BY <1>1, <1>2, DraftKeepsActive, Over, OneRequest

\* An edit leaves every status as it finds it (admin.py:160-179).
LEMMA EditKeepsActive ==
    ASSUME IInv, NEW r \in Request, CommitEdit(r)
    PROVE  /\ Active' = Active /\ DOMAIN versions \subseteq DOMAIN versions'
           /\ versions' \in Seq(Row) /\ Len(versions') <= MaxVersions
<1> DEFINE req == requests[r]
<1>1. req \in Standing /\ req.step = "editing" /\ TypeOK
  BY DEF CommitEdit, IInv, TypeOK
<1>2. req.definition \in Definition /\ req.version \in DOMAIN versions
  BY <1>1 DEF Standing, Idle, IInv, AllSound, Sound
<1>3. versions' = [versions EXCEPT ![req.version].definition = req.definition]
  BY DEF CommitEdit
<1>4. DOMAIN versions' = DOMAIN versions
  BY <1>3
<1>5. \A v \in DOMAIN versions : versions'[v].status = versions[v].status /\ versions'[v] \in Row
  BY <1>1, <1>2, <1>3, DomainOfVersions DEF Row
<1>6. versions' \in Seq(Row) /\ Len(versions') = Len(versions)
  BY <1>1, <1>2, <1>3, <1>5 DEF TypeOK
<1>7. Active' = Active
  BY <1>4, <1>5 DEF Active, StatusOf
<1> QED BY <1>1, <1>4, <1>6, <1>7 DEF TypeOK

\* The request that edits is over.
LEMMA CommitEditKeeps == ASSUME IInv, NEW r \in Request, CommitEdit(r) PROVE IInv'
<1>1. requests' = [requests EXCEPT ![r] = Idle]
  BY DEF CommitEdit, Finish
<1>2. activeDuring[r] \in SUBSET Version
      /\ activeDuring' = [activeDuring EXCEPT ![r] = activeDuring[r]]
      /\ cache' \in [Process -> [Version -> Scorecard \cup {NotCached}]] /\ CacheKeyed'
  BY DEF CommitEdit, IInv, TypeOK, CacheKeyed
<1> QED BY <1>1, <1>2, EditKeepsActive, Over, OneRequest

\* A publish that the index accepts leaves its own version the only ACTIVE one, no lower than
\* the one before (admin.py:214-225).
LEMMA PublishedIsActive ==
    ASSUME TypeOK, NEW v \in DOMAIN versions, NEW previous, PublishAccepted(v, previous),
           versions' = Published(v, previous)
    PROVE  /\ versions' \in Seq(Row) /\ Len(versions') = Len(versions)
           /\ DOMAIN versions' = DOMAIN versions
           /\ Active' = {v} /\ \A w \in Active : w <= v
<1>1. DOMAIN versions = 1..Len(versions) /\ \A w \in DOMAIN versions : versions[w] \in Row
  BY DomainOfVersions
<1>2. DOMAIN versions' = DOMAIN versions
  BY DEF Published
<1>3. \A w \in DOMAIN versions : versions'[w] \in Row
  BY <1>1 DEF Published, Row
<1>4. versions' \in Seq(Row) /\ Len(versions') = Len(versions)
  <2>1. versions' \in [1..Len(versions) -> Row]
    BY <1>1, <1>2, <1>3 DEF Published
  <2>2. Len(versions) \in Nat
    BY DEF TypeOK
  <2> QED BY <2>1, <2>2
<1>5. \A w \in Active \ {v} : w = previous /\ w <= v
  BY <1>1 DEF PublishAccepted, StillActive, Active
<1>6. versions'[v].status = "ACTIVE"
  BY <1>1 DEF Published, Row
<1>7. \A w \in DOMAIN versions \ {v} : versions'[w].status # "ACTIVE"
  BY <1>1, <1>5 DEF Published, Row, Active, StatusOf
<1>8. Active' = {v}
  BY <1>2, <1>6, <1>7 DEF Active, StatusOf
<1>9. \A w \in Active : w <= v
  BY <1>1, <1>5 DEF Active
<1> QED BY <1>2, <1>4, <1>8, <1>9

\* Clearing a process's scorecards leaves every entry that remains under its own key (config.py:37).
LEMMA ClearedCache ==
    ASSUME IInv, NEW p \in Process
    PROVE  LET cleared == [cache EXCEPT ![p] = EmptyCache] IN
           /\ cleared \in [Process -> [Version -> Scorecard \cup {NotCached}]]
           /\ \A q \in Process, v \in Version :
                 cleared[q][v] # NotCached => cleared[q][v].version = v
BY DEF IInv, TypeOK, CacheKeyed, EmptyCache

\* A publish is refused and changes no row, or its version joins every assessment's history
\* (admin.py:214-245).
LEMMA CommitPublishKeeps == ASSUME IInv, NEW r \in Request, CommitPublish(r) PROVE IInv'
<1> DEFINE v == requests[r].version
           previous == requests[r].previous
<1>1. requests[r] \in Standing /\ requests[r].step = "publishing" /\ TypeOK
  BY DEF CommitPublish, IInv, TypeOK
<1>2. v \in DOMAIN versions
  BY <1>1 DEF IInv, AllSound, Sound
<1>3. r[1] \in Process
  BY DEF Request
<1>4. cache' \in [Process -> [Version -> Scorecard \cup {NotCached}]] /\ CacheKeyed'
  <2>1. CASE cache' = cache
    BY <2>1 DEF IInv, TypeOK, CacheKeyed
  <2>2. CASE cache' = [cache EXCEPT ![r[1]] = EmptyCache]
    BY <1>3, <2>2, ClearedCache DEF CacheKeyed
  <2> QED BY <2>1, <2>2 DEF CommitPublish
<1>5. CASE PublishAccepted(v, previous)
  <2>1. versions' = Published(v, previous)
        /\ activeDuring' = [s \in Request |->
              IF activeDuring[s] = {} THEN {} ELSE activeDuring[s] \cup {v}]
        /\ requests' = [requests EXCEPT ![r] = Idle]
    BY <1>5 DEF CommitPublish, Finish
  <2>2. versions' \in Seq(Row) /\ Len(versions') = Len(versions)
        /\ DOMAIN versions' = DOMAIN versions /\ Active' = {v}
    BY <1>1, <1>2, <1>5, <2>1, PublishedIsActive
  <2>3. TypeOK'
    <3>1. Len(versions') <= MaxVersions
      BY <1>1, <2>2 DEF TypeOK
    <3>2. requests' \in [Request -> Standing]
      BY <1>1, <2>1, Over DEF TypeOK
    <3>3. activeDuring' \in [Request -> SUBSET Version]
      BY <1>1, <1>2, <2>1, DomainOfVersions DEF TypeOK
    <3> QED BY <1>4, <2>2, <3>1, <3>2, <3>3 DEF TypeOK
  <2>4. SoleActive'
    BY <1>2, <2>2 DEF SoleActive
  <2>5. ASSUME NEW s \in Request PROVE Sound(requests[s], activeDuring[s])'
    <3>1. CASE s = r
      BY <1>1, <2>1, <3>1 DEF Sound, Idle, TypeOK
    <3>2. CASE s # r
      <4>1. requests'[s] = requests[s] /\ Sound(requests[s], activeDuring[s])
        BY <1>1, <2>1, <3>2 DEF TypeOK, IInv, AllSound
      <4>2. requests[s].step \in {"resolving", "scored", "stored"} => activeDuring[s] # {}
        BY <4>1 DEF Sound, IInv, SoleActive
      <4>3. requests[s].step \in {"resolving", "scored", "stored"}
              => activeDuring'[s] = activeDuring[s] \cup {v}
        BY <2>1, <4>2
      <4> QED BY <2>2, <4>1, <4>3 DEF Sound
    <3> QED BY <3>1, <3>2
  <2> QED BY <1>4, <2>3, <2>4, <2>5 DEF IInv, AllSound
<1>6. CASE ~PublishAccepted(v, previous)
  <2>1. requests' = [requests EXCEPT ![r] = Failed("publish")]
        /\ UNCHANGED <<versions, activeDuring>>
    BY <1>6 DEF CommitPublish, Finish
  <2>4. PICK s \in Standing :
          requests' = [requests EXCEPT ![r] = s] /\ Sound(s, activeDuring[r])
    BY <2>1, Over
  <2>2. activeDuring[r] \in SUBSET Version
        /\ activeDuring' = [activeDuring EXCEPT ![r] = activeDuring[r]]
    BY <1>1, <2>1 DEF TypeOK
  <2>3. versions' \in Seq(Row) /\ Len(versions') <= MaxVersions
        /\ DOMAIN versions \subseteq DOMAIN versions' /\ Active' = Active
    BY <1>1, <2>1 DEF TypeOK, Active, StatusOf
  <2> HIDE DEF v, previous
  <2> QED BY <1>4, <2>2, <2>3, <2>4, OneRequest
<1> QED BY <1>5, <1>6

\* An assessment starts its history with the row it resolves (config.py:60).
LEMMA BeginAssessKeeps == ASSUME IInv, NEW r \in Request, BeginAssess(r) PROVE IInv'
<1>1. PICK v \in Active :
        /\ requests' = [requests EXCEPT ![r] = [step |-> "resolving", version |-> v]]
        /\ activeDuring' = [activeDuring EXCEPT ![r] = Active]
  BY DEF BeginAssess
<1> DEFINE s == [step |-> "resolving", version |-> v]
<1>2. Active \in SUBSET Version /\ v \in DOMAIN versions
  BY DomainOfVersions DEF IInv, Active
<1>3. s \in Standing
  BY <1>2 DEF Standing
<1>4. Sound(s, Active)
  BY <1>2 DEF Sound
<1>5. versions' \in Seq(Row) /\ Len(versions') <= MaxVersions
      /\ DOMAIN versions \subseteq DOMAIN versions' /\ Active' = Active
      /\ cache' \in [Process -> [Version -> Scorecard \cup {NotCached}]] /\ CacheKeyed'
  BY DEF BeginAssess, IInv, TypeOK, Active, StatusOf, CacheKeyed
<1> QED BY <1>1, <1>2, <1>3, <1>4, <1>5, OneRequest

\* The scorecard scored with, cached or built, is the one of the row resolved (config.py:82-90).
LEMMA ScoreKeeps == ASSUME IInv, NEW r \in Request, Score(r) PROVE IInv'
<1> DEFINE p == r[1]
           v == requests[r].version
           hit == cache[p][v]
           scorecard == IF hit = NotCached THEN Build(v) ELSE hit
<1>1. requests[r].step = "resolving" /\ TypeOK /\ p \in Process
  BY DEF Score, IInv, Request
<1>2. v \in DOMAIN versions /\ v \in Version /\ v \in activeDuring[r]
      /\ Active \subseteq activeDuring[r]
  BY <1>1, DomainOfVersions DEF IInv, AllSound, Sound
<1>3. versions' \in Seq(Row) /\ Len(versions') <= MaxVersions
      /\ DOMAIN versions \subseteq DOMAIN versions' /\ Active' = Active
  BY <1>1 DEF Score, TypeOK, Active, StatusOf
<1>4. CASE hit = NotCached /\ versions[v].definition \notin Loadable
  <2>1. requests' = [requests EXCEPT ![r] = Failed("assess")]
        /\ activeDuring' = [activeDuring EXCEPT ![r] = {}] /\ cache' = cache
    BY <1>4 DEF Score, Finish, CacheKey
  <2>2. cache' \in [Process -> [Version -> Scorecard \cup {NotCached}]] /\ CacheKeyed'
    BY <2>1 DEF IInv, TypeOK, CacheKeyed
  <2>3. PICK s \in Standing : requests' = [requests EXCEPT ![r] = s] /\ Sound(s, {})
    BY <2>1, Over
  <2>4. {} \in SUBSET Version
    OBVIOUS
  <2> HIDE DEF p, v, hit, scorecard
  <2> QED BY <1>3, <2>1, <2>2, <2>3, <2>4, OneRequest
<1>5. CASE ~(hit = NotCached /\ versions[v].definition \notin Loadable)
  <2>1. requests' = [requests EXCEPT ![r] = [step |-> "scored", used |-> scorecard.version]]
        /\ cache' = [cache EXCEPT ![p][v] = scorecard] /\ activeDuring' = activeDuring
    BY <1>5 DEF Score, Finish, CacheKey
  <2>2. Build(v) \in Scorecard /\ Build(v).version = v
    BY <1>1, <1>2, DomainOfVersions DEF Build, Scorecard, Row
  <2>3. hit \in Scorecard \cup {NotCached} /\ (hit # NotCached => hit.version = v)
    BY <1>1, <1>2 DEF TypeOK, IInv, CacheKeyed
  <2>4. scorecard \in Scorecard /\ scorecard.version = v
    BY <2>2, <2>3
  <2>5. cache' \in [Process -> [Version -> Scorecard \cup {NotCached}]] /\ CacheKeyed'
    BY <1>1, <1>2, <2>1, <2>4 DEF IInv, TypeOK, CacheKeyed
  <2>6. [step |-> "scored", used |-> v] \in Standing
    BY <1>2 DEF Standing
  <2>7. Sound([step |-> "scored", used |-> v], activeDuring[r])
    BY <1>2 DEF Sound
  <2>8. activeDuring[r] \in SUBSET Version
        /\ activeDuring' = [activeDuring EXCEPT ![r] = activeDuring[r]]
    BY <1>1, <2>1 DEF TypeOK
  <2>9. PICK s \in Standing :
          requests' = [requests EXCEPT ![r] = s] /\ Sound(s, activeDuring[r])
    BY <2>1, <2>4, <2>6, <2>7
  <2> HIDE DEF scorecard, hit, v, p
  <2> QED BY <1>3, <2>5, <2>8, <2>9, OneRequest
<1> QED BY <1>4, <1>5

\* The version a score is stored under is the one ACTIVE at that moment (_persist).
LEMMA StoreKeeps == ASSUME IInv, NEW r \in Request, Store(r) PROVE IInv'
<1>1. PICK v \in Active :
        requests' = [requests EXCEPT ![r] =
           [step |-> "stored", used |-> requests[r].used, config |-> v]]
  BY DEF Store, Finish
<1> DEFINE s == [step |-> "stored", used |-> requests[r].used, config |-> v]
<1>2. requests[r].step = "scored" /\ requests[r] \in Standing
  BY DEF Store, IInv, TypeOK
<1>3. requests[r].used \in Version /\ v \in Version
  BY <1>2, DomainOfVersions DEF Standing, Idle, IInv, Active
<1>4. s \in Standing
  BY <1>3 DEF Standing
<1>5. Sound(s, activeDuring[r])
  BY <1>2 DEF Sound, IInv, AllSound
<1> QED BY <1>1, <1>4, <1>5, OnlyStands DEF Store

\* The answer ends the history (database.py:76-86).
LEMMA AnswerKeeps == ASSUME IInv, NEW r \in Request, Answer(r) PROVE IInv'
<1>1. requests' = [requests EXCEPT ![r] = Idle]
      /\ activeDuring' = [activeDuring EXCEPT ![r] = {}]
  BY DEF Answer, Finish
<1>2. versions' \in Seq(Row) /\ Len(versions') <= MaxVersions
      /\ DOMAIN versions \subseteq DOMAIN versions' /\ Active' = Active
      /\ cache' \in [Process -> [Version -> Scorecard \cup {NotCached}]] /\ CacheKeyed'
  BY DEF Answer, IInv, TypeOK, Active, StatusOf, CacheKeyed
<1>3. Idle \in Standing /\ Sound(Idle, {})
  BY Over
<1>4. {} \in SUBSET Version
  OBVIOUS
<1> QED BY <1>1, <1>2, <1>3, <1>4, OneRequest

\* A restart ends the process's requests and empties its cache, and touches no row.
LEMMA RestartKeeps == ASSUME IInv, NEW p \in Process, Restart(p) PROVE IInv'
<1>1. TypeOK'
  <2>1. cache' \in [Process -> [Version -> Scorecard \cup {NotCached}]]
    BY ClearedCache DEF Restart
  <2>2. requests' \in [Request -> Standing] /\ activeDuring' \in [Request -> SUBSET Version]
    BY Over DEF Restart, IInv, TypeOK
  <2> QED BY <2>1, <2>2 DEF Restart, IInv, TypeOK
<1>2. SoleActive' /\ Active' = Active
  BY DEF Restart, IInv, SoleActive, Active, StatusOf
<1>3. CacheKeyed'
  BY ClearedCache DEF Restart, CacheKeyed
<1>4. ASSUME NEW r \in Request PROVE Sound(requests[r], activeDuring[r])'
  <2>1. CASE r[1] = p
    BY <2>1 DEF Restart, Sound, Idle
  <2>2. CASE r[1] # p
    BY <1>2, <2>2 DEF Restart, Sound, IInv, AllSound
  <2> QED BY <2>1, <2>2
<1> QED BY <1>1, <1>2, <1>3, <1>4 DEF IInv, AllSound

\* Every step of every handler keeps the invariant.
LEMMA NextKeeps == IInv /\ [Next]_vars => IInv'
<1> SUFFICES ASSUME IInv, [Next]_vars PROVE IInv'
  OBVIOUS
<1>1. CASE UNCHANGED vars
  BY <1>1 DEF vars, IInv, TypeOK, SoleActive, Active, StatusOf, CacheKeyed, AllSound, Sound
<1>2. ASSUME NEW r \in Request, NEW d \in Definition, BeginDraft(r, d) PROVE IInv'
  BY <1>2, BeginKeeps
<1>3. ASSUME NEW r \in Request, NEW v \in DOMAIN versions, NEW d \in Definition,
             BeginEdit(r, v, d)
      PROVE IInv'
  BY <1>3, BeginKeeps
<1>4. ASSUME NEW r \in Request, NEW v \in DOMAIN versions, BeginPublish(r, v) PROVE IInv'
  BY <1>4, BeginKeeps
<1>5. ASSUME NEW r \in Request, FindPrevious(r) PROVE IInv'
  BY <1>5, FindPreviousKeeps
<1>6. ASSUME NEW r \in Request, CommitDraft(r) PROVE IInv'
  BY <1>6, CommitDraftKeeps
<1>7. ASSUME NEW r \in Request, CommitEdit(r) PROVE IInv'
  BY <1>7, CommitEditKeeps
<1>8. ASSUME NEW r \in Request, CommitPublish(r) PROVE IInv'
  BY <1>8, CommitPublishKeeps
<1>9. ASSUME NEW r \in Request, BeginAssess(r) PROVE IInv'
  BY <1>9, BeginAssessKeeps
<1>10. ASSUME NEW r \in Request, Score(r) PROVE IInv'
  BY <1>10, ScoreKeeps
<1>11. ASSUME NEW r \in Request, Store(r) PROVE IInv'
  BY <1>11, StoreKeeps
<1>12. ASSUME NEW r \in Request, Answer(r) PROVE IInv'
  BY <1>12, AnswerKeeps
<1>13. ASSUME NEW p \in Process, Restart(p) PROVE IInv'
  BY <1>13, RestartKeeps
<1>14. CASE \E p \in Process : Restart(p)
  BY <1>13, <1>14
<1>15. CASE Next /\ ~\E p \in Process : Restart(p)
  <2>1. PICK r \in Request :
          \/ \E d \in Definition : BeginDraft(r, d)
          \/ \E v \in DOMAIN versions, d \in Definition : BeginEdit(r, v, d)
          \/ \E v \in DOMAIN versions : BeginPublish(r, v)
          \/ FindPrevious(r) \/ CommitDraft(r) \/ CommitEdit(r) \/ CommitPublish(r)
          \/ BeginAssess(r) \/ Score(r) \/ Store(r) \/ Answer(r)
    BY <1>15 DEF Next
  <2> QED BY <1>2, <1>3, <1>4, <1>5, <1>6, <1>7, <1>8, <1>9, <1>10, <1>11, <1>12, <2>1
<1> QED BY <1>1, <1>14, <1>15

-----------------------------------------------------------------------------
(* The theorems.                                                           *)

\* The inductive invariant holds of every behaviour of the handlers.
THEOREM Invariant == Spec => []IInv
BY InitIInv, NextKeeps, PTL DEF Spec

\* Rows, caches and requests keep their types (catalog.py:253-306).
THEOREM TypeCorrect == Spec => []TypeOK
<1>1. IInv => TypeOK
  BY DEF IInv
<1> QED BY <1>1, Invariant, PTL

\* However publications overlap, one version is ACTIVE (admin.py:215, uq_config_active).
THEOREM OneActiveHolds == Spec => []OneActive
<1>1. IInv => OneActive
  BY FS_Singleton DEF IInv, SoleActive, OneActive
<1> QED BY <1>1, Invariant, PTL

\* Whatever its process had cached, a score rests on versions in force during its request
\* (config.py:82-90).
THEOREM ScoredUnderActiveHolds == Spec => []ScoredUnderActive
<1>1. IInv => ScoredUnderActive
  BY DEF IInv, AllSound, Sound, ScoredUnderActive
<1> QED BY <1>1, Invariant, PTL

\* Archived versions lie behind the one in force: what the index makes of the order in which
\* the flush writes the rows.
ArchivedBehind ==
    \A v \in DOMAIN versions, w \in Active : StatusOf(v) = "ARCHIVED" => v < w

\* The row a publish is to archive has been in force (admin.py:214).
PreviousWasActive ==
    \A r \in Request : requests[r].step = "publishing" =>
        /\ requests[r].previous \in DOMAIN versions
        /\ StatusOf(requests[r].previous) \in {"ACTIVE", "ARCHIVED"}

Onward == ArchivedBehind /\ PreviousWasActive

\* Any step but an accepted publish leaves the statuses of the rows on file, and adds only a
\* DRAFT (admin.py:105-179).
LEMMA StatusesKept ==
    ASSUME IInv, [Next]_vars,
           \A r \in Request : ~(CommitPublish(r)
               /\ PublishAccepted(requests[r].version, requests[r].previous))
    PROVE  /\ \A v \in DOMAIN versions : v \in DOMAIN versions' /\ StatusOf(v)' = StatusOf(v)
           /\ \A v \in DOMAIN versions' : v \in DOMAIN versions \/ StatusOf(v)' = "DRAFT"
<1>1. CASE UNCHANGED versions
  BY <1>1 DEF StatusOf
<1>2. ASSUME NEW r \in Request, CommitDraft(r), versions' # versions
      PROVE  /\ \A v \in DOMAIN versions : v \in DOMAIN versions' /\ StatusOf(v)' = StatusOf(v)
             /\ \A v \in DOMAIN versions' : v \in DOMAIN versions \/ StatusOf(v)' = "DRAFT"
  <2> DEFINE row == [status |-> "DRAFT", definition |-> requests[r].definition]
  <2>1. versions' = Append(versions, row)
    BY <1>2 DEF CommitDraft
  <2>2. row \in Row
    <3>1. requests[r] \in Standing /\ requests[r].step = "drafting"
      BY <1>2 DEF CommitDraft, IInv, TypeOK
    <3> QED BY <3>1 DEF Standing, Idle, Row
  <2>3. row.status = "DRAFT"
    OBVIOUS
  <2>4. versions \in Seq(Row)
    BY DEF IInv, TypeOK
  <2> HIDE DEF row
  <2> QED BY <2>1, <2>2, <2>3, <2>4 DEF StatusOf
<1>3. ASSUME NEW r \in Request, CommitEdit(r)
      PROVE  \A v \in DOMAIN versions : StatusOf(v)' = StatusOf(v)
  <2>1. requests[r].version \in DOMAIN versions
    BY <1>3 DEF CommitEdit, IInv, AllSound, Sound
  <2> QED BY <1>3, <2>1, DomainOfVersions DEF CommitEdit, StatusOf, IInv, Row
<1>4. ASSUME NEW r \in Request, CommitEdit(r) PROVE DOMAIN versions' = DOMAIN versions
  BY <1>4 DEF CommitEdit
<1>5. CASE Next
  BY <1>1, <1>2, <1>3, <1>4, <1>5
  DEF Next, BeginDraft, BeginEdit, BeginPublish, Begin, FindPrevious, CommitPublish,
      BeginAssess, Score, Store, Answer, Restart
<1> QED BY <1>1, <1>5 DEF vars

\* A version that a publish puts in force was not archived, all that were lie behind it, and
\* what was in force is still on file as such (admin.py:214-225).
LEMMA PublishMovesOn ==
    ASSUME IInv, Onward, NEW r \in Request, CommitPublish(r),
           PublishAccepted(requests[r].version, requests[r].previous)
    PROVE  /\ ArchivedBehind' /\ DOMAIN versions' = DOMAIN versions
           /\ \A v \in DOMAIN versions :
                 /\ StatusOf(v) = "ARCHIVED" => StatusOf(v)' = "ARCHIVED"
                 /\ StatusOf(v) = "ACTIVE" => StatusOf(v)' \in {"ACTIVE", "ARCHIVED"}
<1>0. requests[r].version \in DOMAIN versions /\ TypeOK
  BY DEF CommitPublish, IInv, AllSound, Sound
<1>1. PICK n, previous : /\ n \in DOMAIN versions /\ n = requests[r].version
                         /\ previous = requests[r].previous
                         /\ versions' = Published(n, previous)
                         /\ PublishAccepted(n, previous)
  BY <1>0 DEF CommitPublish
<1>2. DOMAIN versions' = DOMAIN versions /\ Active' = {n} /\ \A w \in Active : w <= n
  BY <1>0, <1>1, PublishedIsActive
<1>3. PICK a \in DOMAIN versions : Active = {a}
  BY DEF IInv, SoleActive
<1>4. n \in DOMAIN versions /\ \A v \in DOMAIN versions : v \in Nat
  BY <1>0, <1>1, DomainOfVersions
<1>5. a <= n /\ \A v \in DOMAIN versions : StatusOf(v) = "ARCHIVED" => v < a
  BY <1>2, <1>3 DEF Onward, ArchivedBehind
<1>6. \A v \in DOMAIN versions \ {n} :
         StatusOf(v)' = IF v = previous THEN "ARCHIVED" ELSE StatusOf(v)
  BY <1>0, <1>1, DomainOfVersions DEF Published, StatusOf, Row
<1>7. previous \in DOMAIN versions /\ (previous = a \/ previous < a)
  <2>1. previous \in DOMAIN versions /\ StatusOf(previous) \in {"ACTIVE", "ARCHIVED"}
    BY <1>1 DEF CommitPublish, Onward, PreviousWasActive
  <2>2. StatusOf(previous) = "ACTIVE" => previous = a
    BY <1>3, <2>1 DEF Active
  <2> QED BY <1>5, <2>1, <2>2
<1>8. StatusOf(n)' = "ACTIVE"
  BY <1>2 DEF Active, StatusOf
<1>9. ArchivedBehind'
  <2> SUFFICES ASSUME NEW v \in DOMAIN versions, StatusOf(v)' = "ARCHIVED"
               PROVE  v < n
    BY <1>2 DEF ArchivedBehind
  <2>1. v # n
    BY <1>8 DEF StatusOf
  <2>2. CASE v = previous
    BY <1>4, <1>5, <1>7, <2>1, <2>2
  <2>3. CASE v # previous
    <3>1. StatusOf(v)' = StatusOf(v)
      BY <1>6, <2>1, <2>3
    <3> QED BY <1>4, <1>5, <3>1
  <2> QED BY <2>2, <2>3
<1>10. StatusOf(n) # "ARCHIVED"
  BY <1>1, <1>4, <1>5
<1>11. ASSUME NEW v \in DOMAIN versions
       PROVE  /\ StatusOf(v) = "ARCHIVED" => StatusOf(v)' = "ARCHIVED"
              /\ StatusOf(v) = "ACTIVE" => StatusOf(v)' \in {"ACTIVE", "ARCHIVED"}
  <2>1. CASE v = n
    BY <1>8, <1>10, <2>1 DEF StatusOf
  <2>2. CASE v # n
    BY <1>6, <2>2
  <2> QED BY <2>1, <2>2
<1> QED BY <1>2, <1>9, <1>11

\* No row goes back from what it has become, and the versions in force only move on.
LEMMA OnwardStep ==
    ASSUME IInv, Onward, [Next]_vars
    PROVE  /\ Onward'
           /\ \A v \in DOMAIN versions :
                 StatusOf(v) = "ARCHIVED" => StatusOf(v)' = "ARCHIVED"
<1>1. /\ ArchivedBehind' /\ DOMAIN versions \subseteq DOMAIN versions'
      /\ \A v \in DOMAIN versions :
            /\ StatusOf(v) = "ARCHIVED" => StatusOf(v)' = "ARCHIVED"
            /\ StatusOf(v) = "ACTIVE" => StatusOf(v)' \in {"ACTIVE", "ARCHIVED"}
  <2>1. CASE \E r \in Request : /\ CommitPublish(r)
                                /\ PublishAccepted(requests[r].version, requests[r].previous)
    BY <2>1, PublishMovesOn
  <2>2. CASE \A r \in Request : ~(CommitPublish(r)
                /\ PublishAccepted(requests[r].version, requests[r].previous))
    <3>1. /\ \A v \in DOMAIN versions : v \in DOMAIN versions' /\ StatusOf(v)' = StatusOf(v)
          /\ \A v \in DOMAIN versions' : v \in DOMAIN versions \/ StatusOf(v)' = "DRAFT"
      BY <2>2, StatusesKept
    <3> QED BY <3>1 DEF ArchivedBehind, Onward, Active
  <2> QED BY <2>1, <2>2
<1>2. ASSUME NEW r \in Request, requests'[r].step = "publishing"
      PROVE  /\ requests'[r].previous \in DOMAIN versions
             /\ StatusOf(requests'[r].previous) \in {"ACTIVE", "ARCHIVED"}
  <2>1. CASE requests'[r] = requests[r]
    <3>1. requests[r].step = "publishing"
      BY <1>2, <2>1
    <3> QED BY <2>1, <3>1 DEF Onward, PreviousWasActive, StatusOf
  <2>2. ASSUME NEW s \in Request, FindPrevious(s)
        PROVE  requests'[r] = requests[r] \/ requests'[r].previous \in Active
    <3>1. Active # {}
      BY DEF IInv, SoleActive
    <3> QED BY <2>2, <3>1 DEF FindPrevious, IInv, TypeOK
  <2>3. ASSUME NEW s \in Request, NEW standing, standing.step # "publishing",
               requests' = [requests EXCEPT ![s] = standing]
        PROVE  requests'[r] = requests[r]
    BY <1>2, <2>3 DEF IInv, TypeOK
  <2>4. CASE \E p \in Process : Restart(p)
    BY <1>2, <2>1, <2>4 DEF Restart, Idle
  <2>5. CASE \E s \in Request : CommitDraft(s) \/ CommitEdit(s) \/ CommitPublish(s)
    BY <2>1, <2>3, <2>5 DEF CommitDraft, CommitEdit, CommitPublish, Finish, Idle, Failed
  <2>6. CASE \E s \in Request : Score(s) \/ Store(s) \/ Answer(s) \/ BeginAssess(s)
    BY <2>1, <2>3, <2>6 DEF Score, Store, Answer, BeginAssess, Finish, Idle, Failed
  <2>7. CASE \E s \in Request : \/ \E d \in Definition : BeginDraft(s, d)
                                \/ \E v \in DOMAIN versions, d \in Definition : BeginEdit(s, v, d)
                                \/ \E v \in DOMAIN versions : BeginPublish(s, v)
    BY <2>1, <2>3, <2>7 DEF BeginDraft, BeginEdit, BeginPublish, Begin
  <2>8. CASE UNCHANGED vars
    BY <2>1, <2>8 DEF vars
  <2>9. requests'[r].previous \in Active =>
           /\ requests'[r].previous \in DOMAIN versions
           /\ StatusOf(requests'[r].previous) \in {"ACTIVE", "ARCHIVED"}
    BY DEF Active
  <2>10. CASE \E s \in Request : FindPrevious(s)
    <3>1. requests'[r] = requests[r] \/ requests'[r].previous \in Active
      BY <2>2, <2>10
    <3> QED BY <2>1, <2>9, <3>1
  <2>11. \/ \E s \in Request : FindPrevious(s)
         \/ \E p \in Process : Restart(p)
         \/ \E s \in Request : CommitDraft(s) \/ CommitEdit(s) \/ CommitPublish(s)
         \/ \E s \in Request : Score(s) \/ Store(s) \/ Answer(s) \/ BeginAssess(s)
         \/ \E s \in Request : \/ \E d \in Definition : BeginDraft(s, d)
                               \/ \E v \in DOMAIN versions, d \in Definition : BeginEdit(s, v, d)
                               \/ \E v \in DOMAIN versions : BeginPublish(s, v)
         \/ UNCHANGED vars
    BY Zenon DEF Next
  <2> QED BY <2>4, <2>5, <2>6, <2>7, <2>8, <2>10, <2>11
<1>3. PreviousWasActive'
  BY <1>1, <1>2 DEF PreviousWasActive
<1> QED BY <1>1, <1>3 DEF Onward

\* However publishes overlap, what is archived stays archived (admin.py:190-225).
THEOREM ArchivedForGoodHolds == Spec => ArchivedForGood
<1>1. IInv /\ Init => Onward
  <2> SUFFICES ASSUME IInv, Init PROVE Onward
    OBVIOUS
  <2>1. \A v \in DOMAIN versions : StatusOf(v) = "ACTIVE"
    BY DEF Init, StatusOf
  <2>2. \A r \in Request : requests[r].step # "publishing"
    BY DEF Init, Idle
  <2> QED BY <2>1, <2>2 DEF Onward, ArchivedBehind, PreviousWasActive
<1>2. IInv /\ Onward /\ [Next]_vars => Onward'
  BY OnwardStep
<1>3. IInv /\ Onward /\ [Next]_vars =>
        [\A v \in DOMAIN versions : StatusOf(v) = "ARCHIVED" => StatusOf(v)' = "ARCHIVED"]_vars
  BY OnwardStep
<1> QED BY <1>1, <1>2, <1>3, Invariant, PTL DEF Spec, ArchivedForGood
=============================================================================
