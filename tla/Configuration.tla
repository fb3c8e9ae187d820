---------------------------- MODULE Configuration ----------------------------
(***************************************************************************)
(* The versions of one scorecard (services/admin.py), the assessments that *)
(* resolve the active one, and each process's cache of built scorecards    *)
(* (services/config.py), when requests overlap.  A request reads row by    *)
(* row at READ COMMITTED and keeps the copies it read; its writes reach    *)
(* the table in one flush at its end, so its last step is the flush and    *)
(* the commit together.  What the database adds: one ACTIVE version of a   *)
(* type, one row for a version number, and a check of the weights when a   *)
(* version becomes ACTIVE.                                                 *)
(*                                                                         *)
(* The types (ROUTE, CUSTOMER, FINAL) share nothing, so one is modelled.   *)
(* A version is its position: numbers and ids are both given in order.     *)
(***************************************************************************)
EXTENDS Naturals, Sequences, FiniteSets

CONSTANTS
    Definition,    \* what a version may say: components, weights, grade bands
    Balanced,      \* the definitions whose active weights sum to 1.0000
    Banded,        \* the definitions whose grade bands cover 0-100 without overlap
    Process,       \* server processes, each with a cache of its own
    Thread,        \* request threads of a process
    MaxVersions    \* bound: versions of the scorecard

ASSUME ConfigurationAssumption ==
    /\ Balanced \subseteq Definition /\ Banded \subseteq Definition
    /\ Balanced \cap Banded # {}
    /\ MaxVersions \in Nat \ {0}

VARIABLES
    versions,     \* the scoring_configurations rows, with their components
    cache,        \* cache[p]: _CONFIG_CACHE of process p
    requests,     \* requests[r]: where request thread r stands
    activeDuring  \* history: the versions ACTIVE at some moment of r's assessment

vars == <<versions, cache, requests, activeDuring>>

Request == Process \X Thread
Version == 1..MaxVersions
NoVersion == 0

Row == [status : {"DRAFT", "ACTIVE", "ARCHIVED"}, definition : Definition]

\* What config_from_db_rows builds; NotCached where the cache has no entry.
Scorecard == [version : Version, definition : Definition]
NotCached == [version |-> NoVersion]

Idle == [step |-> "idle"]

\* The answer is an error no handler foresees.
Failed(op) == [step |-> "failed", op |-> op]

\* previous: the ACTIVE row a publish has found.  used: the scorecard's own version number.
Standing ==
    {Idle} \cup [step : {"failed"}, op : {"draft", "publish", "assess"}]
      \cup [step : {"drafting", "editing"}, version : Version, definition : Definition]
      \cup [step : {"validated"}, version : Version]
      \cup [step : {"publishing"}, version : Version, previous : Version \cup {NoVersion}]
      \cup [step : {"resolving"}, version : Version]
      \cup [step : {"scored"}, used : Version]
      \cup [step : {"stored"}, used : Version, config : Version]

TypeOK ==
    /\ versions \in Seq(Row) /\ Len(versions) <= MaxVersions
    /\ cache \in [Process -> [Version -> Scorecard \cup {NotCached}]]
    /\ requests \in [Request -> Standing]
    /\ activeDuring \in [Request -> SUBSET Version]

StatusOf(v) == versions[v].status
Active == {v \in DOMAIN versions : StatusOf(v) = "ACTIVE"}

Loadable == Balanced \cap Banded

\* A seeded database: the shipped scorecard is version 1 and ACTIVE.
Init ==
    /\ \E d \in Loadable : versions = <<[status |-> "ACTIVE", definition |-> d]>>
    /\ cache = [p \in Process |-> [v \in Version |-> NotCached]]
    /\ requests = [r \in Request |-> Idle]
    /\ activeDuring = [r \in Request |-> {}]

-----------------------------------------------------------------------------
(* What the three write handlers read, and refuse.                         *)

Begin(r, standing) ==
    /\ requests[r] = Idle
    /\ requests' = [requests EXCEPT ![r] = standing]
    /\ UNCHANGED <<versions, cache, activeDuring>>

\* The next number is the highest on file plus one.
BeginDraft(r, d) ==
    /\ Len(versions) < MaxVersions
    /\ Begin(r, [step |-> "drafting", version |-> Len(versions) + 1, definition |-> d])

BeginEdit(r, v, d) ==
    /\ StatusOf(v) = "DRAFT"
    /\ Begin(r, [step |-> "editing", version |-> v, definition |-> d])

BeginPublish(r, v) ==
    /\ StatusOf(v) = "DRAFT"
    /\ versions[v].definition \in Balanced
    /\ Begin(r, [step |-> "validated", version |-> v])

\* The row to archive is read after the checks.
FindPrevious(r) ==
    /\ requests[r].step = "validated"
    /\ \E previous \in IF Active = {} THEN {NoVersion} ELSE Active :
          requests' = [requests EXCEPT ![r] =
             [step |-> "publishing", version |-> requests[r].version, previous |-> previous]]
    /\ UNCHANGED <<versions, cache, activeDuring>>

-----------------------------------------------------------------------------
(* What they write.                                                        *)

Finish(r, standing) == requests' = [requests EXCEPT ![r] = standing]

\* uq_config_type_version: the number may have been taken since it was read.
CommitDraft(r) ==
    LET req == requests[r] IN
    /\ req.step = "drafting"
    /\ IF req.version \in DOMAIN versions
       THEN Finish(r, Failed("draft")) /\ UNCHANGED versions
       ELSE /\ versions' = Append(versions, [status |-> "DRAFT", definition |-> req.definition])
            /\ Finish(r, Idle)
    /\ UNCHANGED <<cache, activeDuring>>

\* The UPDATE leaves the status column alone, whatever it is by now.
CommitEdit(r) ==
    LET req == requests[r] IN
    /\ req.step = "editing"
    /\ versions' = [versions EXCEPT ![req.version].definition = req.definition]
    /\ Finish(r, Idle)
    /\ UNCHANGED <<cache, activeDuring>>

\* Faulty variant: no unique index on the ACTIVE row.
StillActiveUnindexed(v, previous) == {}

\* The flush updates rows in the order of their ids.  The versions uq_config_active still
\* finds ACTIVE when v's turn comes: previous has been archived only if its id is lower.
StillActive(v, previous) ==
    {w \in Active \ {v} : w # previous \/ w > v}

\* The weights trigger fires at commit, and only for a row that was not ACTIVE before.
PublishAccepted(v, previous) ==
    /\ StillActive(v, previous) = {}
    /\ StatusOf(v) = "ACTIVE" \/ versions[v].definition \in Balanced

Published(v, previous) ==
    [w \in DOMAIN versions |->
        IF w = v THEN [versions[w] EXCEPT !.status = "ACTIVE"]
        ELSE IF w = previous THEN [versions[w] EXCEPT !.status = "ARCHIVED"]
        ELSE versions[w]]

EmptyCache == [v \in Version |-> NotCached]

\* The publishing process forgets its scorecards; a refusal by the index comes before that.
CommitPublish(r) ==
    LET v == requests[r].version
        previous == requests[r].previous IN
    /\ requests[r].step = "publishing"
    /\ IF PublishAccepted(v, previous)
       THEN /\ versions' = Published(v, previous)
            /\ activeDuring' = [s \in Request |->
                  IF activeDuring[s] = {} THEN {} ELSE activeDuring[s] \cup {v}]
            /\ Finish(r, Idle)
       ELSE Finish(r, Failed("publish")) /\ UNCHANGED <<versions, activeDuring>>
    /\ cache' = IF StillActive(v, previous) = {}
                THEN [cache EXCEPT ![r[1]] = EmptyCache] ELSE cache

-----------------------------------------------------------------------------
(* An assessment: resolve the active row, build or fetch its scorecard,    *)
(* score, and read the active row once more for the stored config_id.      *)

\* Without an ACTIVE version the request is refused (CONFIG_NOT_PUBLISHED).
BeginAssess(r) ==
    /\ requests[r] = Idle
    /\ \E v \in Active :
          /\ requests' = [requests EXCEPT ![r] = [step |-> "resolving", version |-> v]]
          /\ activeDuring' = [activeDuring EXCEPT ![r] = Active]
    /\ UNCHANGED <<versions, cache>>

\* Faulty variant: the cache is keyed by the type alone.
KeyOfType(v) == 1

CacheKey(v) == v

Build(v) == [version |-> v, definition |-> versions[v].definition]

\* A scorecard the engine cannot load fails the request and is not cached.
Score(r) ==
    LET p == r[1]
        v == requests[r].version
        hit == cache[p][CacheKey(v)] IN
    /\ requests[r].step = "resolving"
    /\ IF hit = NotCached /\ versions[v].definition \notin Loadable
       THEN /\ Finish(r, Failed("assess"))
            /\ activeDuring' = [activeDuring EXCEPT ![r] = {}]
            /\ UNCHANGED cache
       ELSE LET scorecard == IF hit = NotCached THEN Build(v) ELSE hit IN
            /\ cache' = [cache EXCEPT ![p][CacheKey(v)] = scorecard]
            /\ Finish(r, [step |-> "scored", used |-> scorecard.version])
            /\ UNCHANGED activeDuring
    /\ UNCHANGED versions

Store(r) ==
    /\ requests[r].step = "scored"
    /\ \E v \in Active :
          Finish(r, [step |-> "stored", used |-> requests[r].used, config |-> v])
    /\ UNCHANGED <<versions, cache, activeDuring>>

-----------------------------------------------------------------------------
\* The answer of a stored assessment or a failed request has been sent.
Answer(r) ==
    /\ requests[r].step \in {"stored", "failed"}
    /\ Finish(r, Idle)
    /\ activeDuring' = [activeDuring EXCEPT ![r] = {}]
    /\ UNCHANGED <<versions, cache>>

\* A process is restarted: its transactions roll back and its cache is gone.
Restart(p) ==
    /\ cache' = [cache EXCEPT ![p] = EmptyCache]
    /\ requests' = [r \in Request |-> IF r[1] = p THEN Idle ELSE requests[r]]
    /\ activeDuring' = [r \in Request |-> IF r[1] = p THEN {} ELSE activeDuring[r]]
    /\ UNCHANGED versions

Next ==
    \/ \E r \in Request :
          \/ \E d \in Definition : BeginDraft(r, d)
          \/ \E v \in DOMAIN versions, d \in Definition : BeginEdit(r, v, d)
          \/ \E v \in DOMAIN versions : BeginPublish(r, v)
          \/ FindPrevious(r)
          \/ CommitDraft(r)
          \/ CommitEdit(r)
          \/ CommitPublish(r)
          \/ BeginAssess(r)
          \/ Score(r)
          \/ Store(r)
          \/ Answer(r)
    \/ \E p \in Process : Restart(p)

Spec == Init /\ [][Next]_vars

-----------------------------------------------------------------------------
\* Whatever publishes overlap, exactly one version is ACTIVE: uq_config_active
\* (db/schema.sql:507) refuses the second of two, and a publish archives only the version it
\* replaces (services/admin.py:215-220).
OneActive == Cardinality(Active) = 1

\* An archived version never comes back into force: the way back is a clone of it
\* (docs/02-TRD.md:266), and only a DRAFT is published (services/admin.py:190-194), even when
\* the publish that read the draft is still under way while others publish and archive it.
ArchivedForGood ==
    [][\A v \in DOMAIN versions : StatusOf(v) = "ARCHIVED" => StatusOf(v)' = "ARCHIVED"]_vars

\* A score is computed under a scorecard that was ACTIVE at some moment of its request,
\* whichever process served it and whatever its cache held (services/config.py:82-90), and so
\* is the version it is stored under (services/credit.py:264, services/route_assessment.py:226,
\* services/application.py:519).
ScoredUnderActive ==
    \A r \in Request :
        /\ requests[r].step \in {"scored", "stored"} => requests[r].used \in activeDuring[r]
        /\ requests[r].step = "stored" => requests[r].config \in activeDuring[r]

\* "Publish a draft, archiving whatever was active" (services/admin.py:184): with one request
\* at a time, a publish that has passed its checks takes effect.
PublishSucceeds ==
    Cardinality(Request) = 1 => \A r \in Request : requests[r] # Failed("publish")
=============================================================================
