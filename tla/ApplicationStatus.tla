--------------------------- MODULE ApplicationStatus ---------------------------
(***************************************************************************)
(* The statuses of a loan application, the moves between them and the      *)
(* maker-checker rule, apart from any storage or money: the part of        *)
(* app/services/application.py that Underwriting (requests one at a time)  *)
(* and UnderwritingRaces (requests that overlap) share.                    *)
(***************************************************************************)
EXTENDS Integers

CONSTANTS
    App,     \* loan applications
    User,    \* officers
    NoUser,  \* SQL NULL in a user column
    Terms    \* the commercial terms an applicant may ask for, as opaque values

ASSUME UserAssumption == NoUser \notin User

-------------------------------------------------------------------------------
(* Statuses and the moves between them.                                    *)

Status == {"DRAFT", "SUBMITTED", "UNDER_ASSESSMENT", "PENDING_DECISION",
           "APPROVED", "REJECTED", "WITHDRAWN", "DISBURSED", "EXPIRED"}

Decision == {"APPROVE", "MANUAL_REVIEW", "REJECT"}

AllowedTransitions ==
    ({"DRAFT"} \X {"SUBMITTED", "WITHDRAWN", "EXPIRED"})
      \cup ({"SUBMITTED"} \X {"UNDER_ASSESSMENT", "WITHDRAWN", "EXPIRED"})
      \cup ({"UNDER_ASSESSMENT"} \X {"PENDING_DECISION", "WITHDRAWN", "EXPIRED"})
      \cup ({"PENDING_DECISION"} \X {"APPROVED", "REJECTED", "WITHDRAWN", "EXPIRED"})
      \cup ({"APPROVED"} \X {"DISBURSED", "EXPIRED"})

CanTransition(current, target) == <<current, target>> \in AllowedTransitions

\* The statuses assess_application accepts: it refuses the closed ones and a draft.
Assessable == {"SUBMITTED", "UNDER_ASSESSMENT", "PENDING_DECISION", "APPROVED"}

\* What one assessment leaves as the status.  From SUBMITTED both moves are made in one
\* transaction; a file already PENDING_DECISION or APPROVED is re-scored where it stands.
StatusAfterAssessment(current) ==
    IF current \in {"SUBMITTED", "UNDER_ASSESSMENT"} THEN "PENDING_DECISION" ELSE current

\* Faulty variant: a decision that is no approval becomes the status under its own name.
StatusNamedByDecision(final) == IF final = "APPROVE" THEN "APPROVED" ELSE final

\* Anything that is not an approval, MANUAL_REVIEW included, closes the file.
StatusAfterDecision(final) == IF final = "APPROVE" THEN "APPROVED" ELSE "REJECTED"

-------------------------------------------------------------------------------
(* Maker and checker.                                                      *)

\* Faulty variants: only the creator, or only the last to touch the file, is kept from deciding.
MakersCreatorOnly(row) == {row.created_by} \ {NoUser}
MakersUpdaterOnly(row) == (IF row.submitted THEN {row.updated_by} ELSE {}) \ {NoUser}

\* The officers who may not decide: who raised the file, and whoever updated_by names once
\* the file has been submitted.
Makers(row) ==
    ({row.created_by} \cup (IF row.submitted THEN {row.updated_by} ELSE {})) \ {NoUser}

================================================================================
