# EV route credit: a verification development

TLA+ models, TLC runs and TLAPS proofs kept beside the EV Route Credit backend
(`backend/app`): a FastAPI service over PostgreSQL in which a lender's officers raise loan
applications for electric vehicles, assess and decide them, book and service the loans, watch
them for risk, and administer the scorecards behind it all.

## 1. The system

Every HTTP request runs in a thread of its own with one SQLAlchemy session and one transaction
(`core/database.py`, `get_db`): committed if the handler returns, rolled back if it raises. The
isolation level is READ COMMITTED. A session keeps the first copy of a row it reads
(`expire_on_commit=False`, `autoflush=False`), and its UPDATE carries only the columns whose
value changed. No service takes a row lock, and none compares the `version` column of
`OptimisticLockMixin`. Components therefore meet in the database only: through rows, unique
indexes, and the locks an UPDATE or an INSERT takes. Two things live in a process's memory
instead: the rate limiter's hits and the cache of built scorecards.

| Component | State | Operations | What is hard | What makes it correct |
|---|---|---|---|---|
| Applications (`services/application.py`) | `loan_applications`, `loan_assessments`, `underwriting_decisions` | create, edit, submit, withdraw, assess, decide | read-check-write without a lock; the submitter inferred from `updated_by` | four eyes; assessed and decided on one set of terms; an approval under the ceiling; statuses move along the table |
| Booking (`services/loan.py`) | `loans`, `repayment_schedules`, `vehicles.status` | book | two bookings at once; all or nothing | one loan per application, for the sum approved |
| Servicing (`services/loan.py`, `engines/servicing.py`) | schedule rows, `repayments`, the loan's position | record a repayment, refresh | lost updates, retries, back-dated payments | money in = money allocated + left over; closed exactly when settled |
| Scoring (`engines/`, `services/credit.py`, `services/route_assessment.py`, `services/scoring.py`) | assessments; the engines keep none | assess a route, a customer, an application; what-if | some forty figures through six ratios, curves, bands, gates; unknown values; rounding | worse never helps; what is recommended can be paid; no decision without its reasons |
| Configuration (`services/admin.py`, `services/config.py`) | `scoring_configurations`, a cache per process | draft, edit, publish, resolve | cached scorecards, several processes, overlapping publications | one active version per type, none archived comes back; every score under a version in force |
| Telemetry and jobs (`services/telemetry.py`, `services/servicing_jobs.py`) | daily rows, snapshots, `job_runs` | the nightly passes | silence and standstill told apart; re-runs; three writers of `risk_status`; payments while the pass runs | a re-run changes nothing; a vehicle that stands still is noticed |
| Alerts (`services/alert.py`, `risk/`) | `risk_alerts`, `risk_rules` | evaluate, acknowledge, assign, start, escalate, resolve | deduplication by a partial index; escalated alerts fall out of it; evaluation against officers | what is closed stays closed; queue and traffic light match the rules after a pass |
| Sessions (`services/auth.py`) | `user_sessions`, failure counter, reset tokens, password history | login, refresh, logout, change, forgot, reset | concurrent rotation, revocation against rotation, lockout against attempts in flight | a token is rotated once; revoked stays revoked; a lock holds |
| Rate limiter (`core/ratelimit.py`) | hits per bucket, in memory | check, reset | the window's edge, restarts | never more than the limit inside a window |
| Customers, bureau, routes, catalogue, portfolio, audit, API, integrations | rows, or none | CRUD, reports, adapters | - | - |

`PROJECT.json` lists the components with their files, and the hazards with the line each bites at.

## 2. Modules

    ApplicationStatus          statuses, the transition table, maker-checker
      ApplicationRules         money: override, ceiling, bookable sum
        Underwriting           the workflow, one request = one step   --implements--> OriginationContract
          MCUnderwriting       TLC instance
          UnderwritingProofs   the inductive invariant, the moves, the contract
      UnderwritingRaces        the same handlers, overlapping (with UnitOfWork)
        MCUnderwritingRaces    TLC instance
        UnderwritingRacesProofs   what overlapping requests cannot break

    RepaymentSchedule          allocation, arrears, classification: the engine
      LoanPosition             the rows booked, refreshed and receipted
        Servicing              payments and passes, one request = one step   --implements--> Receivable
          MCServicing          TLC instance
          ServicingRaces       the same handlers, overlapping (with UnitOfWork)
            MCServicingRaces   TLC instance
            ServicingProofs    what allocation and refresh_position compute; the invariant, the
                               position, the excess, the receivable; what overlap cannot break

    Decimals                   fixed-point numbers, optional values
      Scorecard                rules, components, bands: how a scorecard is applied
        RouteScoring           the route engine
          Financing            instalments, vehicle economics
            CustomerScoring    the customer engine, the knock-outs
              FinalDecision    the combined score, structuring, gates, reasons
                CreditDecision the rows of a file, assessed as its figures get worse
                  MCCreditDecision       TLC instance
                  CreditDecisionProofs   what is recommended can be paid; no decision without
                                         reasons; the unchargeable route
      RiskRules                metrics, conditions, the shipped catalogue
      Telemetry                what a day's bundle stores, and what is derived of it
        Monitoring             the nightly pass, the alerts, the officers (with RiskRules, UnitOfWork)
          MCMonitoring         TLC instance
          MonitoringProofs     requests and passes that overlap, the pass as a fixed point, the shipped bands,
                               the vehicle that stands still

    Configuration              versions of a scorecard, publication, the caches
      MCConfiguration          TLC instance
      ConfigurationProofs      the inductive invariant and what follows

    Identity, RateLimit        rows of accounts, sessions, links; the sliding window
      Sessions                 sign-in, rotation, revocation, passwords (with UnitOfWork)
        MCSessions             TLC instance
        SessionsProofs         what holds of requests in flight, and what follows

    UnitOfWork                 the column-wise UPDATE of a session's copy
    InductionProofs            induction, and sums in any order, as lemmas about sets

### Origination

**Underwriting.** One application row (`app`), the users its APPLICATION_SUBMITTED audit rows name
(`submitters`), its assessments and decisions in order, the loans and the vehicles' status. Each
action is a whole handler: its guard is the conjunction of the handler's checks, in its order, and a
request refused is no step, since it is rolled back. Money is counted in the smallest unit of
`NUMERIC(14,2)`; the ceiling is rounded half to even, as `Decimal.quantize` does. The scoring
engines may answer anything; only the sum they recommend is bounded, by the LTV cap structuring
applies. An assessment keeps the figures it saw: the terms (what is asked for, and the route), the
vehicle, and the price. Four things in the code are easy to miss and are in the model: an approved
application can be assessed again; MANUAL_REVIEW given as the *final* decision closes the file as
REJECTED; and a withdrawal is accepted from PENDING_DECISION too, although the endpoint's
description stops at UNDER_ASSESSMENT; and an edit may change the vehicle and the route, while the
price stays that of the vehicle the file was raised for. The schema `ApplicationUpdate` would not
let it, but nothing uses that schema: the endpoint takes a plain dict, and `EDITABLE_FIELDS` of the
service names both.

**OriginationContract.** What this promises a lender, without statuses or tables: open, put
forward, sanctioned or refused by somebody who did neither, financed once for the sum
sanctioned. `Underwriting` maps its state onto it (`phase`, `makers`, `signed`, `sanction`,
`advanced`).

**UnderwritingRaces.** Each worker serves a request in stages: it reads the row and checks that
copy (`Begin...`), takes the locks or reads the other tables its handler does (`Claim`, `Score`,
`Consult`, `CheckBooking`), then commits by writing the columns that differ from the copy
(`Write`). A request may fail at any point (`Abort`). The row's lock is held by an assessment
from its first flush (UNDER_ASSESSMENT); `uq_cs_latest` makes two assessments of one file take
turns; `uq_loan_application` refuses a second loan. Decisions carry the clock of their beginning,
which is what booking sorts by.

### Servicing

**RepaymentSchedule.** A schedule is one line of *slots*, three to an instalment, in the order
`allocate_payment` visits them: by due date, and in an instalment penalty, interest, principal.
Allocation is then a walk along the line (`Remaining`), and the position is sums and counts over
it. The code's skips (a settled row, a bucket that owes nothing, nothing left) are slots that
take nothing. `penalty_for` has no caller and nothing else writes `penalty_due`, so no penalty is
ever charged: the slot is there because the allocator has it. Sums and the walk are recursive
functions over `0..n`, which both TLC and the prover can unfold.

**LoanPosition** and **Servicing.** `paid` is the schedule's three paid columns, `rows` its
derived ones, `loan` the servicing columns of `loans`, `receipts` the `repayments` table.
`RecordRepayment` is the whole handler: closed check, key lookup, allocation, receipt,
`refresh_position` as of the *payment's* date. `RunNightly` is the pass as the endpoint runs it,
arrears then classification, in one transaction. A date may be any, in any order: an officer
records a back-dated payment, an operator re-runs a past date. Two things are easy to miss:
`uq_repay_idem` is unique over the table while the lookup is per loan, so a key another loan has
used is refused; and the excess of a payment is in `amount_paid` and in no other column.

**Receivable.** What servicing promises about money: a sum to be received falls by each payment,
down to nothing; the rest is the borrower's credit; the loan ends when nothing is left; a key is
taken once.

**ServicingRaces** is `Servicing` with the requests in flight (`RacesInit`, `RacesNext`,
`RacesSpec`, `RacesTypeOK`), over the same tables. A request copies the loan's row (`BeginPayment`,
`ReadLoan`), then the schedule (`ReadSchedule`), and commits the columns that differ (`Flush`). The
first write of both handlers comes after all they read, so the locks it takes order commits and
nothing else; where two flushes could wait for each other PostgreSQL ends one of them, which is
`Abort`, as is a receipt number or a key refused by its index.

### Scoring

**Decimals.** A decimal is an integer that counts the unit its column keeps, and an optional
value is a set of at most one: "it is known and above 650" is `\E v \in x : v > 650`, and what
is unknown satisfies nothing, which is also what the code's `is not None` guards do.

**Scorecard** is `engines/base.py`, `normalizer.py` and `factors.py`: rules (`LINEAR`, `BANDED`,
`PASSTHROUGH`, `COMPOSITE`, one sub-card per applicant class), their interpolation, the default
of an unknown value (50, or what the rule says), weights and grade bands. The shipped JSON
scorecards are the constants of **RouteScoring**, **CustomerScoring** and **FinalDecision**, with
their curves point by point. Scores count hundredths; the code keeps 28 digits inside a
component, the model rounds each sub-score, so a component may be off by one hundredth. The
engines follow the code's order: the charging verdict that caps a route's class, the knock-outs
before the customer's score, the structure (tenure capped, four amounts of which the least
binds, rounded down, the instalment computed again), the reject gates, the approval gates, the
reasons. **Financing** computes an instalment from the annuity's present value kept to 1/2000.
What income and vehicle can carry is exact, in paisa, as it is in the code; an instalment and the
sum that a capacity supports are rounded half up, as in the code, to tens of NPR where the code
rounds to the paisa, so that TLC's 32-bit integers hold every product. Both roundings are there,
and with them the case in which the instalment of the recommended sum passes the capacity.

**CreditDecision** is the path of a file: how `services/credit.py` and
`services/route_assessment.py` turn rows into the engines' inputs, including what they leave
out, and the assessment of an application with `force_route_reassessment`. Each step makes one
of the file's figures worse by `Scale` and assesses it again: a sequential program has no other
interleavings worth having, but a stored file is edited and assessed again, and the property of
interest relates two assessments.

### Configuration

**Configuration** takes the versions of one scorecard in order. A request reads row by row and
flushes once, at its end, so its last step is flush and commit together. `CommitDraft` may lose
its number to another (`uq_config_type_version`); `CommitEdit` writes the copy it read, whatever
has happened to the row since; `CommitPublish` writes the archived and the published row in one
flush. SQLAlchemy sorts the UPDATEs of a flush by primary key, and `uq_config_active` is checked
row by row: that order is in `StillActive` and decides whether a publish succeeds. `uq_config_active`
and the trigger on weights are the database's part. An assessment resolves the active version
(`BeginAssess`), takes the scorecard from its process's cache or builds it (`Score`), and resolves
the active version a second time for the id it stores (`Store`). `Restart` drops a process's
requests and cache. The publishing code clears the cache of its own process before its commit;
as a cache is keyed by version, neither that nor the caches left alone elsewhere do harm.

### Monitoring

**Telemetry** is what `services/telemetry.py` stores of a provider's bundle, the checks that
refuse an implausible one included, and the snapshot the rules read: windows of days, the
baseline, the streak without a kilometre, the silence. **RiskRules** is the shipped catalogue
with its evaluation, in which an unknown metric makes a condition false, and in which of the
rules of one family that fire the most intense outranks the rest.

**Monitoring** composes them. The nightly pass is one transaction and three steps. In `BeginNightly`
its first three jobs read the days, the book and the schedules, and compute rows, snapshots and
positions. In `EvaluateNightly` its last two read again: the book, the rules and the alerts as they
are by now, with the positions flushed, whose rows stay locked until the end (`Unlocked`).
`CommitNightly` writes what changed of each row, column by column, and the run rows. Anything may
commit between the steps. Two passes for one date take turns, or one fails, at the run row
(`uq_job_success`); passes for two dates overlap. `outdated` notes the passes under way that
something they read has overtaken: payments, days and other passes at any time, evaluations,
officers and switches once the pass has read the alerts. `BeginEvaluation`/`CommitEvaluation` is the
evaluation on request, of the active book or of one loan whatever its status, and `Acknowledge`,
`Assign`, `StartWork`, `Escalate`, `Resolve` with `CommitWork` the officers' endpoints, each reading
in one step and writing the columns that changed in another, so that every pair overlaps; the
partial unique index over live alerts, which the database enforces, is the guard `Indexed`. `Pay` is
a payment's effect on the loan's light, `SetRuleEnabled` and `UpdateRule` the administrator's
switches. An evaluation is three operators: what the rules say of a loan (`Outcomes`), what becomes
of an alert on file (`Reviewed`), which new ones are raised (`Raised`); a pass and a request use the
same. What a schedule shows on a day is an input (`Arrears`): `Servicing` says how it comes about.

### Sessions

**Identity** has the rows, **RateLimit** the sliding window. A hash stands for what it hashes.
In **Sessions** a request whose answer depends on rows it read earlier is two steps; those that
are one UPDATE over whatever is there (sign-out, deactivation) are one. A failed sign-in is
committed by the handler before it raises; any other refusal is rolled back. Revocation of a
family and the creation of a rotated child may pass each other, as may two rotations of one
token, two redemptions of one link, and failed attempts that each write the counter they read.
`overlapped` remembers the users this has happened to: what the code guarantees only without
overlap is stated for the others, and what it guarantees regardless for all.

## 3. Runs

| Run | Instance | Shows |
|---|---|---|
| `underwriting` | 1 application, 3 officers (one may override), 2 vehicles, 2 sets of terms, sums 0/4/5, caps 50 % and 75 %, 2 assessments | the invariants, the transition table, the contract |
| `races` | 1 application, 2 officers, 2 workers, 3 assessments, decision moments up to 2 | what survives overlap, and that every request ends |
| `races_four_eyes` | the same, 2 assessments | *violated*: an edit in flight across a submission clears the submitter |
| `servicing` | 2 loans of 2 instalments, amounts 1/2/5, dates 10/40/41/200, 1 key, 3 receipts | the books balance, the position is coherent, the receivable |
| `servicing_races` | 1 loan of 2 instalments, 2 workers, amounts 1/4, 2 receipts, dates 10/41 | one receipt per key, no money from nowhere, CLOSED stays |
| `servicing_retry` | as `servicing` | *violated*: the retry of the payment that closed a loan gets 409, not its receipt |
| `scoring` | 8 files, some forty figures, 2 revisions | worse never helps; affordable; explained; an unchargeable route is never Class A |
| `scoring_what_if` | the same | *violated*: the what-if approves a thin file whose assessment is a referral |
| `configuration` | 2 processes of 1 thread, 3 definitions, 4 versions | one version in force, none archived comes back; every score under one that was |
| `configuration_publish` | 1 process of 1 thread, 3 versions | *violated*: publishing a draft older than the active version is a database error |
| `risk` | 1 loan, 2 workers, 1 officer, 5 rules, 4 telemetry histories, 2 answers, 3 arrears, 1 night, 2 events | queue, light and data agree after a pass; standstill noticed; worse is never greener; closed stays closed; a re-run changes nothing |
| `sessions` | 1 account, 2 threads, 4 two-step requests, clock to 3, 3 passwords | rotation, revocation, lockout, retired credentials |

**Bounds: origination.** Applications share nothing but vehicles, so one application shows every
interleaving of its own requests; the proofs cover any number. Three officers are the fewest for
a maker, a submitter and a checker who are all different; one of them holds
`application:override`. Two vehicles priced 9 and 4 and two caps put a sum below, on and above a
ceiling, and a half on its rounding (50 % of 9). `MaxAssessments = 2` is the fewest for an
approval to cite an assessment that is not the latest. In `races`, two workers are enough for
every pair of handlers to overlap, three assessments for two to overlap on a file that has one,
and `MaxMoment = 2` for two decisions in flight whose moments and commits are in opposite orders.

**Bounds: servicing.** Instalments fall due on days 10 and 40: date 10 is the first on its due
date, 40 exactly 30 days late and the second on its due date, 41 one day past each of these, 200
beyond 180 days, so that the edges of the bands and of "due" are met. Amount 1 pays half an
instalment's interest, 2 all of it, 5 more than an instalment and, after any other, more than the
loan owes (6). Three receipts are enough to fill a loan in pieces and be refused, with another
loan in between; two loans are needed for the key that is unique over the table. In the races,
4 settles the loan at once and 1 does not, so that a payment overlaps the one that closes.

**Bounds: scoring.** The eight files are one the system approves with margin, one it approves as
a fleet, one it refers, one whose capacity is just below what the sum it supports will cost, one
just above rejection, one without a bureau report, one that owes more than its low income, so that
an income of nothing leaves FOIR and DTI without a value where they were at their worst, and one
whose vehicle earns so little that a step takes its payback away; their routes
are a corridor, a trunk road whose charging gap strands the vehicle, and a hill road. Each figure
has a step for the worse large enough to cross a band somewhere, and two revisions cross two.
For `WorseNeverHelps` this is a sample: it compares decisions that no example-based test
compares, on about six thousand files, not on all; the three invariants are proved of every
file. What a file may hold is `IsFile`, read off `db/schema.sql` and `RouteBase`: a column with
no check may hold any number, one without NOT NULL nothing.

**Bounds: configuration.** Of the definitions one loads, one has weights and one has grade bands
the engine refuses. Two processes with a thread each have every overlap of two requests and two
caches; four versions allow two publications to overlap over a third that is active while a
fourth is drafted. A refused draft keeps its number free, so the bound is on rows, not requests.

**Bounds: monitoring.** The histories have a few days in motion in each window that is read, and end
in a week at zero kilometres, a week of silence, 25 days without motion of which some of the last 15
are reported, or in motion, with active days enough for a green light; the arrears stand on both
sides of the 30-day bound. The five rules are one of each pair that outranks another and the silence
rule between them; an administrator switches the severe overdue rule. One night lets a day pass
between two passes and during one. What a vehicle's days give is a question of data, and what
requests do to one another one of overlap, so the constraint `MCOverlap` keeps the two apart. On the
history in motion, with answers that add no row to it, two workers have every overlap of two passes,
of a pass with an evaluation or with an officer's work, and of two of these; arrears are then what
they disagree on. On the other histories, and when a night's answer is stored, requests are served
one at a time, and what lies between the steps of a pass are payments, days and switches; a pass may
be repeated. The proofs need no such constraint. `WorseIsNeverGreener` is evaluated where a pass has
just committed and nothing is in flight: it depends on the days and the rules alone.

**Bounds: sessions.** Two failures lock, a lock lasts 1 moment, a refresh token 3, the absolute
timeout 2, a link 1, and the clock reaches 3: every deadline can be met and passed. Four requests
are enough to sign in, rotate twice and overlap; three passwords, of which the policy accepts
two, for a wrong one and a change. Threads and acceptable passwords are interchangeable
(`SYMMETRY`), as are processes and workers in the other runs that declare it; each property run
under symmetry is an invariant or an action property.

`CHECK_DEADLOCK FALSE` is given wherever a bound or a closed file, loan or account leaves nothing
to do. `configuration` keeps the check: a process can always restart, so it only says that every
state is one the model goes on from.

**Fairness** is assumed in `races` only, for `EveryRequestEnds`: strong fairness of `Proceed(w)`.
A thread that serves a request keeps being scheduled, and PostgreSQL grants a lock to its waiters
in turn; weak fairness would let a waiter be passed over for ever by a stream of later requests
that take and drop the lock. Nothing is assumed of `Begin` and `Abort`. No other component waits
for anything: its requests end by their own steps, and the nightly pass is started from outside.

**Auxiliary variables.** `submitters` (the audit rows), `activeDuring`, `overlapped`, `outdated`,
`fresh`, `begun` and `events` are read by properties and bounds and guard nothing the code would do.

### What the violations say

Two kinds of cause. `races_four_eyes` comes from the missing version check: `models/base.py`
promises that "a stale write returns 409 rather than silently clobbering", and no service
compares the version. `servicing_retry`, `scoring_what_if` and `configuration_publish` need no
overlap: the closed check that precedes the key lookup, the inputs the what-if leaves out, and the
order of the UPDATEs in one flush.

### Observed

Things met while modelling that are in the models as they are in the code. Where a comment or a
document promises otherwise and a run shows it, it is a finding in `PROJECT.json`; these are not.

- *Vehicles of drafts.* An edit may put another vehicle, given by its row's id, on a draft whose
  price stays the first one's. LTV and ceiling are then taken of that price, and a loan can exceed
  what its vehicle costs, although `loan.py:279` says "Cannot finance more than the vehicle costs".
- *Overlap in origination and servicing.* A request that read a file before its withdrawal may bring
  it back. Of two overlapping payments one may be on file as a receipt and missing from the
  schedule, which is why `PaymentsAccounted`, an equality in `servicing`, is the inequality
  `ScheduleBackedByReceipts` in `servicing_races`. A payment may be posted on a loan closed
  meanwhile, and a payment that overlaps a nightly pass may leave days past due and classification
  from different requests (`servicing_jobs.py:158-159`).
- *Overlap of the nightly pass.* A pass computes on the copies it has read and commits at its end.
  What commits meanwhile and is overtaken by it leaves a queue and a light of figures that are gone:
  a payment may be followed by the alert of the arrears it cured, and a row may mix the columns a
  payment changed with those the pass did, since each writes only what it changed.
  `QueueMatchesRules` therefore speaks of the passes that commit what they read; that such a pass
  puts right whatever overtaken ones left is part of what it says.
- *Configuration.* An edit still in flight when its draft is published rewrites the published
  version, and the weights trigger, which fires on the status, does not look at it. The second of
  two publishers of one draft finds the draft itself as the version to archive, and leaves it ACTIVE
  with an `archived_at`. Publishing checks the weights and not the grade bands, so a scorecard can
  be published that the engine then refuses, for every assessment, until another is. The id stored
  with a score may be of a later version than computed it. `config_version()` has no caller.
- *Identity of callers.* `_user_id` in the routers of applications, loans, alerts and admin answers
  1 for a subject that is not an integer (`applications.py:55-60`), and token subjects are UUIDs:
  through the API every officer is user 1, and the maker-checker rule refuses every decision. The
  models take the caller's identity as given.
- *Sessions.* The absolute timeout is measured from the presented row's own issue, which each
  rotation renews (`auth.py:369-373`), and the revocation it performs is rolled back with the
  refusal. The failed-attempt window and the idle timeout are settings nothing reads.
  `change_password` does not look at `is_active`.
- *Alerts.* An ESCALATED alert is not live, so the next evaluation opens a second for its rule; the
  alerts of disabled rules and of closed loans never resolve themselves. A payment writes
  `risk_status` from arrears alone, over what the rules gave. Suppression, SLA timers and
  notifications are declared and not implemented. With every rule disabled the shipped catalogue is
  used again.
- *Telemetry and rules.* No code writes charging sessions; `projected_revenue_30d` and
  `partial_payment_count_90d` are read from the loan by name and are no columns of it, so the rules
  on them never fire. A silence of more than 90 days has left the window and counts as no silence. A
  vehicle that alternates between idle and silent for longer than 27 days is taken out of RED. The
  latest battery row is taken whatever its date. A FAILED job's row is rolled back with the pass it
  belongs to, although `_tracked` promises the record.
- *Scoring.* An unknown value scores 50: losing the history can raise the score, and so can an
  income that falls to nothing, or a vehicle that comes to earn nothing, since FOIR, DTI and payback
  then have no value where their worst values scored nothing. `WorseNeverHelps` compares scores only
  while no further ratio is lost; the recommendation and the amount never improve, lost or not. No
  code writes the `DATA_INCOMPLETE` factor that `docs/07-SCORING-ENGINE.md:33` promises for a value
  that is missing. And removing a slow charger can raise the share of fast ones. `validate_bands`
  misses gaps. The gates use the instalment requested while the structure recommends another. The
  stored assessment never has the warranty cap on the tenure, `assess` passes the engines' factors
  to no one, so the reasons do not carry them, and the waiver of a route, the knock-out on vehicle
  age, the driver's wage, insurance and permit, and `direction` in the scorecards are never used. An
  expired bureau report is used when there is no other; the age knock-out is skipped without a date
  of birth.

## 4. Proofs

`UnderwritingProofs` proves, for every set of applications, officers, vehicles, sums and caps, that
`IInv` is invariant, and from it the safety properties the run checks and, beyond them,
`VehicleFinanced`. `FourEyes` alone is not inductive: the handler compares the decider with
`updated_by`, the property speaks of the audit trail. `SubmissionOnFile` ties them together: from
submission to decision the trail names exactly the officer in `updated_by`, because editing stops
at submission and a withdrawal closes the file. Likewise `SanctionWithinPolicy` needs to know that
the assessment a decision cites exists and stays where it is (`AssessedOnCarriedTerms`), and
`VehicleFinanced` that a loan's file is never booked twice (`StatusBacked`). That assessments saw
the terms, the vehicle and the price on file (`TermsHold`) rests on there being none of a draft,
the only file that can be edited (`SubmissionOnFile`). There is one lemma per
action and one step per conjunct. On it rest that statuses move along the table only and that `Spec
=> Contract!Spec`.

`InductionProofs` is what the proofs about data rest on. An induction theorem whose parameter is
an operator cannot be instantiated, so both inductions are stated of a set: one of numbers that
holds each after the one before (`UpTo`), one of subsets that holds each after the smaller ones
(`SmallerFirst`), by way of `WFMin`. The sums of the models are folds of the community modules, in
an order nobody chose; `SumAny` shows that any element may be taken out first, by showing that a
table of the partial sums exists and that two such tables agree. That a sum is an integer, is
added member by member, or is zero because its terms are, follow.

`ServicingProofs` begins with what the engine and `refresh_position` compute for every schedule
and amount; both accounts of servicing, one request at a time and overlapping, rest on it. Its
operators are recursive functions, over which `UpTo` is the induction. `Allocated` is the heart:
each slot takes at most what it owes, nothing before the older ones are full, an excess only when
all are, and nothing is created or lost.

Of requests one at a time it proves `IInv`, the conjunction of the type, `NeverOverpaid`,
`OldestFirst`, `ClosedExactlyWhenSettled` and `PaymentsAccounted`. They need each other: the type of
every derived column needs `NeverOverpaid` (a balance must not be negative), and that a pass neither
closes nor opens a loan needs `ClosedExactlyWhenSettled`. On it rest `PositionCoherent`, proved by
showing that `refresh_position` makes row, rows and loan agree whatever it finds
(`PositionRefreshed`), `ClosedIsFinal`, `ExcessOnlyAtTheEnd`, and that `Spec => Contract!Spec`: the
balance falls by exactly the payment (`BalanceFalls`), and an excess closes the loan, so that no
payment can follow it. All of this holds for any loans, schedules, amounts, keys and dates.

Of requests that overlap it proves the three properties of `servicing_races` for any number of
threads, from an invariant of their own (`RacesInvariant`).
How much a schedule falls short of its receipts depends on who overwrote whom, so
`ScheduleBackedByReceipts` cannot be proved by keeping account of what was lost. `RacesIInv` instead
keeps, for each loan, that *some* schedule shows every receipt and that neither the rows nor any
copy a request holds stands above it (`Backed`). A payment adds what it took to that schedule and
to its own copy; whatever column it then fails to write only leaves the rows lower.

`UnderwritingRacesProofs` proves the four safety properties of `races`, for any finite set of
threads. What a request holds may be stale, so the invariant says what stays true of a copy
whatever commits meanwhile (`Trusted`): `created_by` is never written after the file is created,
and decisions and assessments are only added (`Grown`), so an approval read once is one for ever.
Of assessments one thing more is needed: from the flush of its credit score to its commit a request
holds the entry of the file in `uq_cs_latest`, so at most one request holds a score of a file, and
the assessment it read as the latest is still the last (`ScoringAlone`). Finding the latest
decision needs a latest moment among finitely many; it is the set of later moments that no other is
strictly contained in (`Largest`).

`ConfigurationProofs` proves, for any processes, threads, definitions and versions, the three
properties of `configuration`. `OneActive` is a cardinality and is not inductive in that form;
`SoleActive` names the version. That a publish leaves one active version needs nothing of the
requests in flight, only `StillActive`; that a score is under a version that was in force needs two
facts more: a cache entry under a key *is* the scorecard of that key (`CacheKeyed`), which is why
stale caches are harmless, and whatever a request has resolved is in its `activeDuring`, as is
whatever is active now while it runs (`AllSound`). `IInv` is the type and these three. That no
archived version comes back (`ArchivedForGoodHolds`) is a question of the publish that read it while
it was a draft and is still in flight when others have published and archived it: the row it would
archive is then a later one, since archived versions lie behind the one in force (`Onward`), and the
index refuses the flush, which writes the earlier row first. Were that order repaired without a
check of the version, this property would fail.

`SessionsProofs` proves the five properties of `sessions`, for any accounts, any finite set of
threads, any settings and any number of requests. None is inductive: a request acts on what it
read, and a property speaks of the tables. The invariant says of every request in flight what is
true when it commits, in two parts. `Held` is what no commit can undo: the rows it names exist and
are the account's. `Undisturbed` is what only a request of the same account could undo: the
account is active, the token unrotated and unrevoked, the password the one checked, the links to
retire all that are outstanding. It is claimed of accounts outside `overlapped`, and a request
that commits while another of its account is in flight puts the account there. Every step changes
one account (`Confined`), which carries the claims about all the others over at once. A token's
children are counted together with the requests that still hold it (`RotationsCounted`): a
rotation turns a holder into a child, so their sum never grows past the number of threads. The
limiter's memory and the bound on requests are not in the type proved: what `SelectSeq` leaves of a
sequence is induction over data.

`MonitoringProofs` proves, for any finite book of loans, any threads, any rules seeded and
switched, any histories and answers, the five properties of `risk`. For
`ClosedStaysClosed` the invariant compares a request's copy with the table (`Copied`): the copy of
an alert is the alert, or the alert is in `overlapped`; an evaluation, a pass's included, leaves the
closed alerts of its copy alone, and officers' work has begun on one that was open. The rest speaks
of passes, and needs two facts. The first is what a pass under way holds (`UpToDate`): unless it is
`outdated`, its snapshots are what the days on file give, its positions what the schedules show, and
once it has evaluated, its alerts and lights are what the rules make of them now. Each step of
another either leaves that true or puts the pass into `outdated` (`UpToDateStep`). The second is
what its commit leaves (`PassSettles`): a fixed point (`Settled`), in which for each active loan
storing the day again, deriving again, evaluating again would give what is there. That evaluating
twice is evaluating once (`EvaluatedOnce`) is where the design of the rules matters: a rule that
fires is never cleared by the same figures, and an alert just raised is found live. From `Settled`
follows `QueueMatchesRules`, and with `UpToDate` of the second pass `RerunChangesNothing`.
`WorseFigures` is stronger than the property that the run checks: of *any* two values of days past
due, idle days or usage change, with any other figures, the worse never has the better light. It
rests on `LightOfFired`: a rule that is outranked is outranked by one at least as severe, so that
the light can be read off all the rules that fire.

`StandstillHolds` proves the last of the five, `StandstillNoticed`. A week in which nothing moved
either has rows, all at zero, or has none (`WeekStill`). With rows the mean of the week is zero
while the baseline's is not (`Means`), the change is a fall of a hundred percent
(`FallToNothing`), and USAGE_COLLAPSE fires, on the active days counted back from the pass
(`CountedBack`); without rows the last one is a week old and TELEMETRY_SILENT_5D fires
(`StandstillFires`). Both are red, and what outranks a red rule is red (`RedShown`). The proof
needs that no row on file has run less than nothing, which is an invariant of what the checks on
a bundle let in (`Logged`), and that a rule in force asks what it was shipped asking
(`AsShipped`). An earlier form of the property, without `Ran`, is false, and the proof showed
why: the baseline is kept to hundredths of a kilometre, so that a vehicle whose sixty days add up
to less than 0.30 km has a baseline of 0.00, and a fall from nothing is no fall. The property
therefore asks for one baseline day of 0.30 km. It asks that the two rules that watch for a
standstill are both in force, whichever others are.

`CreditDecisionProofs` proves, for any files the tables can hold, any scale along their columns,
any tenures and rates the columns allow that include those recommended, the three invariants of
`scoring`. Its `IInv` says that the rows are a file's and that the assessment, if there is one, is
the assessment of just these rows, whose route is complete; the work is in what `assess` answers.

- *What is recommended can be paid* (`StructureAffordableHolds`). The annuity's present value is a
  recursive function over months; that it grows by at most 2000 a month and is positive
  (`AnnuityBounds`) makes every quotient by it defined. The amount is the least of four and rounded
  down (`StructureSound`), and the instalment computed from it again exceeds what the amount was
  computed from by less than the unit of its rounding (`SupportedByInstalment`): the sum that a
  capacity supports is rounded half up and so is its instalment, which may therefore pass the
  capacity, as that of `AtTheEdge` in the run does.
- *No decision without its reasons* (`DecisionExplainedHolds`). Each gate that can fail is matched
  with the reason the matrix gives for it (`GatesHaveReasons`), a FOIR that is unknown apart. For
  an approval, no factor of the engines denies it: the factors' bounds on DSCR, FOIR and the
  length of the history are compared with those of the gates (`CustomerFactorsAre`,
  `RouteFactorsAre`), which read the same ratios of the same rows (`RatiosOf`).
- *An unchargeable route is never of Class A* (`UnchargeableNeverClassAHolds`). The code caps the
  charging sub-score and leaves the rest to the weights. Every curve and band answers a score
  between 0 and 100 (`CurveType`, `CompositeType`, `RouteNormalized`), a component at most its
  weight (`ComponentBounds`), so that with the cap on charging the total is at most 77.5
  (`UnchargeableTotal`), and Class A begins at 88 (`BelowClassA`). The sum over components needs
  `SumAny`, five times.

The assumptions are those on the constants. For servicing: due dates increase with the
instalment's number, every instalment owes something, amounts paid are positive, dates are
naturals. For underwriting: `NoUser` is no user, overriders are users, sums and caps are
naturals, prices are positive; where requests overlap, finitely many threads. For configuration:
some definition loads, and the bound on versions is positive. For sessions: the settings are
positive, threads are finitely many, and `NoRow` is not a row. For monitoring: the rules seeded
are shipped rules, arrears are naturals, loans are finitely many, business dates and days on file
are whole days, and no row on file has run less than nothing (`ck_tel_km`), while an answer may
claim any distance. For scoring: tenures are 6 to 120 months and rates more than nothing a month
(`ck_app_tenure`, `ck_app_rate`), both include what structuring may recommend, files are what the
columns can hold, and figures move among the values of their columns. The shipped scorecards are
definitions; that their weights add up and their bands cover every score TLC evaluates, as
assumptions, at each run.

Only model-checked: `EveryRequestEnds`, a liveness property and so out of the prover's reach, and
`WorseNeverHelps`, which says of each of some thirty figures that everything downstream of it is
monotone, along scales that a run gives; `StructureAffordable` and the bounds of the curves are
proved by facts about single values, and this needs the same of pairs, for every curve and ratio.
The properties of the runs that expect a violation are false and have no proof.

## 5. Plan, and what is not modelled

Modelled, checked and proved: origination, servicing, scoring, configuration, monitoring,
sessions. Worth proving next: `WorseNeverHelps` figure by figure, beginning with the instalment
(`calculate_emi` grows with the principal and falls with the tenure) and the curves (each is
monotone between its points, and the points are).

Not modelled, and why:

- the numbering of financial-profile versions: a read and two writes under a unique index, as
  drafts are in `Configuration`; the bureau's fetch: a read and an insert under a unique reference;
- routes, catalogue, users and settings as rows: single-row writes nothing waits for; portfolio
  and monitoring reports: reads;
- the rows of an amortisation schedule: their sums are a constant of `LoanPosition`, which the
  assumptions describe;
- the API's rendering, validation and permission table: permissions enter as the sets of officers
  who may act; access tokens, which are stateless;
- integrations, notifications and the two frontends: input and output.
