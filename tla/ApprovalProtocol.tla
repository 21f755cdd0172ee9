-------------------------- MODULE ApprovalProtocol --------------------------
(***************************************************************************)
(* What the approval gate promises about one parked run, with no requests, *)
(* claims or store calls in sight.                                         *)
(*                                                                         *)
(* The run is parked with a pending approval.  Somebody decides it, once.  *)
(* An approval lets the money move, once: ledger row first, payment row    *)
(* second; the run then settles as executed, or as an error if the ERP     *)
(* refused.  A rejection is redrafted and resubmitted as a new pending     *)
(* approval while revisions are left, and holds the run after that.        *)
(*                                                                         *)
(* ApprovalResume implements this protocol.                                *)
(***************************************************************************)
EXTENDS Naturals

CONSTANT MAX_REVISIONS

VARIABLES step,       \* the run's step
          revision,   \* how many revisions were started
          verdict,    \* status of the run's current approval
          posted,     \* the run has its ledger row
          paid        \* how many payment rows the run has

vars == <<step, revision, verdict, posted, paid>>

Approved == {"approved", "edit_approved"}

Init ==
  /\ step = "awaiting_approval"
  /\ revision = 0
  /\ verdict = "pending"
  /\ posted = FALSE
  /\ paid = 0

Decide ==
  /\ step = "awaiting_approval"
  /\ verdict = "pending"
  /\ verdict' \in Approved \cup {"rejected"}
  /\ UNCHANGED <<step, revision, posted, paid>>

Post ==
  /\ step = "awaiting_approval"
  /\ verdict \in Approved
  /\ ~posted
  /\ posted' = TRUE
  /\ UNCHANGED <<step, revision, verdict, paid>>

Pay ==
  /\ step = "awaiting_approval"
  /\ verdict \in Approved
  /\ posted /\ paid = 0
  /\ paid' = 1
  /\ UNCHANGED <<step, revision, verdict, posted>>

\* The run ends: as executed once paid, as an error whenever the ERP refused
\* (paid or not: the inbox or the trace may refuse after the payment).
Settle ==
  /\ step = "awaiting_approval"
  /\ verdict \in Approved
  /\ \/ step' = "executed" /\ paid = 1
     \/ step' = "error"
  /\ UNCHANGED <<revision, verdict, posted, paid>>

Redraft ==
  /\ step = "awaiting_approval"
  /\ verdict = "rejected"
  /\ revision < MAX_REVISIONS
  /\ step' = "decided"
  /\ revision' = revision + 1
  /\ UNCHANGED <<verdict, posted, paid>>

Resubmit ==
  /\ step = "decided"
  /\ verdict = "rejected"
  /\ verdict' = "pending"
  /\ UNCHANGED <<step, revision, posted, paid>>

Park ==
  /\ step = "decided"
  /\ verdict = "pending"
  /\ step' = "awaiting_approval"
  /\ UNCHANGED <<revision, verdict, posted, paid>>

Hold ==
  /\ step = "awaiting_approval"
  /\ verdict = "rejected"
  /\ revision >= MAX_REVISIONS
  /\ step' = "held"
  /\ UNCHANGED <<revision, verdict, posted, paid>>

Next ==
  \/ Decide \/ Post \/ Pay \/ Settle
  \/ Redraft \/ Resubmit \/ Park \/ Hold

Spec == Init /\ [][Next]_vars

=============================================================================
