---------------------- MODULE ApprovalResumeInvariant ----------------------
(***************************************************************************)
(* The inductive invariants of ApprovalResume: who may act, how far the    *)
(* money has moved, and which effects and events the outcome rests on.     *)
(*                                                                         *)
(* Why no two requests act on one run: whoever acts holds the claim of the *)
(* approval it decided, and the run record cannot change behind its back.  *)
(* A request that wins a free claim decides a pending approval, a pending  *)
(* approval is the run's current one, and while somebody else is acting    *)
(* the current approval is claimed (or not yet offered to anyone, because  *)
(* the run still stands at "decided" and a request must load it at         *)
(* "awaiting_approval").                                                   *)
(***************************************************************************)
EXTENDS ApprovalResume

\* Past the load and before the claim, with a machine in memory.
Loaded == {"pointing", "reading", "claiming"}

\* With the claim of its target taken and not given back.
Holding == Acting \cup InCatch \cup {"ending", "summarising"}

\* The stages of an acting request.
Undecided == {"claimed", "deciding"}
Recorded  == {"resuming", "recording"}
Redrafted == {"noting", "saving", "requesting"}
Minted    == {"repointing"}
Repointed == {"announcing", "parking"}
Rejecting == {"redrafting", "holding", "shelving"}
               \cup Redrafted \cup Minted \cup Repointed
Executing == InGate \cup InPayment
               \cup {"profiling", "profile_tracing", "profile_recording",
                     "settling", "failing", "erring"}

Pending(a) == approvals[a] = "pending"

-----------------------------------------------------------------------------
(* Claims.                                                                 *)

DecidedIsClaimed ==
  \A a \in ApprovalIds : approvals[a] \in Decided => claims[a] > 0

HolderIsClaimed ==
  \A r \in Requests : pc[r] \in Holding => claims[target[r]] > 0

OneHolder ==
  \A r, s \in Requests :
    pc[r] \in Holding /\ pc[s] \in Holding /\ target[r] = target[s] => r = s

ReleaserIsPending ==
  \A r \in Requests : pc[r] = "releasing" => Pending(target[r])

ClaimInv ==
  DecidedIsClaimed /\ HolderIsClaimed /\ OneHolder /\ ReleaserIsPending

-----------------------------------------------------------------------------
(* The by-run pointer and what requests saw of it.                         *)

PendingIsCurrent ==
  \A a \in ApprovalIds :
    Pending(a) => a = byRun \/ runstate.step = "decided"

TargetExists ==
  \A r \in Requests : pc[r] # "idle" => Exists(target[r])

ReaderSawCurrent ==
  \A r \in Requests :
    pc[r] = "reading" =>
      Exists(fetched[r]) /\ (Pending(fetched[r]) => byRun = fetched[r])

ClaimerSawCurrent ==
  \A r \in Requests :
    pc[r] = "claiming" =>
      /\ Pending(target[r]) => byRun = target[r]
      /\ decision[r] # "edit_malformed"

LoadedIsFresh ==
  \A r \in Requests :
    pc[r] \in Loaded /\ Pending(target[r]) =>
      runstate = machine[r] /\ machine[r].step = "awaiting_approval"

PointerInv ==
  /\ Exists(byRun)
  /\ OnlyCurrentApproved
  /\ PendingIsCurrent /\ TargetExists
  /\ ReaderSawCurrent /\ ClaimerSawCurrent /\ LoadedIsFresh

-----------------------------------------------------------------------------
(* The acting request owns the run.                                        *)

Owns(r) ==
  /\ runstate = machine[r]
  /\ decision[r] # "edit_malformed"
  /\ pc[r] \notin Repointed => byRun = target[r]
  /\ pc[r] \in Undecided => Pending(target[r])
  /\ pc[r] \notin Undecided => approvals[target[r]] = StatusOf(decision[r])
  /\ pc[r] \in Rejecting => decision[r] = "reject"
  /\ pc[r] \in Executing => decision[r] # "reject"
  /\ pc[r] \in Undecided \cup Recorded \cup Executing
                 \cup {"redrafting", "holding"}
       => runstate.step = "awaiting_approval"
  /\ pc[r] = "redrafting" => runstate.revision < MAX_REVISIONS
  /\ pc[r] = "holding" => runstate.revision >= MAX_REVISIONS
  /\ pc[r] = "shelving" => runstate.step = "held"
  /\ pc[r] \in Redrafted =>
       runstate.step = "decided" /\ \A a \in ApprovalIds : ~Pending(a)
  /\ pc[r] \in Minted \cup Repointed =>
       /\ runstate.step = "decided"
       /\ \A a \in ApprovalIds : Pending(a) <=> a = revised[r]
  /\ pc[r] \in Repointed => byRun = revised[r]

OwnerInv == \A r \in Requests : pc[r] \in Acting => Owns(r)

Exclusion == ClaimInv /\ PointerInv /\ OwnerInv /\ OneActor

-----------------------------------------------------------------------------
(* The money, as long as no reply is lost.                                 *)

Unposted == Recorded \cup {"gating", "gate_reading", "posting", "post_writing"}
Unpaid   == {"post_tracing", "retrying", "giving_up"} \cup InPayment
Paid     == {"processing", "pay_tracing", "profiling", "profile_tracing",
             "profile_recording", "settling"}

MoneyIsApproved ==
  "this_run" \in ledger \/ payments # <<>> => approvals[byRun] \in Approved

\* Where an acting request stands is how far the money has moved.
MoneyFollowsActor ==
  \A r \in Requests :
    /\ pc[r] \in Unposted => "this_run" \notin ledger /\ payments = <<>>
    /\ pc[r] = "post_writing" => ledgerCopy[r] = {}
    /\ pc[r] \in Unpaid => "this_run" \in ledger /\ payments = <<>>
    /\ pc[r] = "pay_writing" => paymentCopy[r] = <<>>
    /\ pc[r] \in Paid => Len(payments) = 1

MoneyInv == MoneyIsApproved /\ MoneyFollowsActor /\ PaymentFollowsDecision

IInv == Exclusion /\ MoneyInv

-----------------------------------------------------------------------------
(* The outcome, whatever store call fails.  An approval that is not yet    *)
(* decided has no effects behind it, so the request that decides it starts *)
(* from none; from then on its place tells which ones it has had.          *)

Unprofiled == Recorded \cup InGate \cup InPayment \cup {"profiling"}
Profiled   == {"profile_tracing", "profile_recording", "settling"}
Processed  == Profiled \cup {"pay_tracing", "profiling"}

EffectsAreApproved ==
  "this_run" \in ledger \/ payments # <<>> \/ profileRuns # 0 =>
    approvals[byRun] \in Approved

EffectsFollowActor ==
  \A r \in Requests :
    /\ pc[r] \in Paid => payments # <<>>
    /\ pc[r] \in Processed => inbox = "processed"
    /\ pc[r] \in Unprofiled => profileRuns = 0
    /\ pc[r] \in Profiled => profileRuns = 1

OutcomeInv ==
  /\ runstate.revision <= MAX_REVISIONS
  /\ EffectsAreApproved /\ EffectsFollowActor
  /\ SettledTruthfully

-----------------------------------------------------------------------------
(* The audit trail, whatever store call fails.                             *)

\* Event e is the k-th step of the audit trail of approval a.
AuditTypes   == <<"approval.decided", "backend.write", "backend.write",
                  "memory.write">>
AuditRefs(a) == <<a, "ledger", "payment_schedule", "vendor_profiles">>

IsStep(e, a, k) == e.type = AuditTypes[k] /\ e.ref = AuditRefs(a)[k]

Marks(tr, a, k) == {i \in DOMAIN tr : IsStep(tr[i], a, k)}

\* Trace tr holds the first k steps of it, once and in order, and no other.
Audited(tr, a, k) ==
  /\ \A j \in 1..k : \E i \in DOMAIN tr : Marks(tr, a, j) = {i}
  /\ \A j \in 1..(k - 1) :
       \A x \in Marks(tr, a, j), y \in Marks(tr, a, j + 1) : x < y
  /\ \A j \in (k + 1)..4 : Marks(tr, a, j) = {}

\* The places at which one and two steps of it have been traced.
Gated  == {"gating", "gate_reading", "posting", "post_writing",
           "post_tracing"}
Posted == InPayment \cup {"retrying", "giving_up", "processing",
                          "pay_tracing"}

UndecidedIsUntraced ==
  \A a \in ApprovalIds :
    approvals[a] \notin Decided => Marks(trace, a, 1) = {}

WritesAreApproved ==
  approvals[byRun] \notin Approved =>
    \A k \in 2..4 : Marks(trace, byRun, k) = {}

TrailFollowsActor ==
  \A r \in Requests :
    /\ pc[r] \in Recorded => Audited(trace, byRun, 0)
    /\ pc[r] \in Gated => Audited(trace, byRun, 1)
    /\ pc[r] \in Posted => Audited(trace, byRun, 2)
    /\ pc[r] \in {"profiling", "profile_tracing", "profile_recording"} =>
         Audited(trace, byRun, 3)
    /\ pc[r] = "settling" => Audited(trace, byRun, 4)

AuditInv ==
  /\ UndecidedIsUntraced /\ WritesAreApproved /\ TrailFollowsActor
  /\ runstate.step = "executed" => Audited(trace, byRun, 4)

=============================================================================
