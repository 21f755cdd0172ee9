----------------------- MODULE ApprovalOutcomeProofs -----------------------
(***************************************************************************)
(* Proofs about what a resumed run ends in, for any number of requests,    *)
(* approvals and revisions, with refused calls and crashes.                *)
(*                                                                         *)
(* The payment, and the protocol the resume implements, hold as long as no *)
(* reply is lost (Reliable): the executor makes a payment call again whose *)
(* reply it did not see.  PaymentFollowsDecision needs MoneyInv (module    *)
(* ApprovalResumeInvariant): how far the money has moved can be told from  *)
(* where the acting request stands, and there is one of those (Exclusion). *)
(*                                                                         *)
(* The settled step and the audit trail hold even when replies are lost.   *)
(* Their invariants, OutcomeInv and AuditInv, have the same two halves:    *)
(* an approval that is not decided has no effects and no trail behind it,  *)
(* and how many of them there are can be told from where the acting        *)
(* request stands.                                                         *)
(***************************************************************************)
EXTENDS ApprovalResumeProofs

Reliable == "late" \notin FaultKinds

\* The three stages of an execution, by how far the money has moved.
MoneyAt == Unposted \cup Unpaid \cup Paid

LEMMA MoneyPlaces ==
  /\ MoneyAt \subseteq Acting
  /\ MoneyAt \subseteq Working
  /\ Unpaid \cup Paid \subseteq Executing
BY DEF MoneyAt, Unposted, Unpaid, Paid, Recorded, InPayment, Acting, InGate,
       InBody, Working, Executing

\* Without lost replies a call returns, or its expiry was refused after a push.
LEMMA ReliableReturns ==
  ASSUME Reliable, NEW p \in Procs, NEW l, Returns(p, l)
  PROVE  \/ Goto(p, l)
         \/ pc[p] \in Appending \cup {"summarising"} /\ Goto(p, OnThrow(p))
BY DEF Reliable, Returns

-----------------------------------------------------------------------------
(* Steps that leave the money and the approvals alone.                     *)

\* A request may only go on to a place that asks no more of the money than
\* the one it comes from.
LEMMA MoneyQuiet ==
  ASSUME MoneyInv, UNCHANGED <<approvals, byRun, ledger, payments>>,
         \A s \in Requests :
           /\ pc'[s] \in Unposted => pc[s] \in Unposted
           /\ pc'[s] \in Unpaid => pc[s] \in Unpaid
           /\ pc'[s] \in Paid => pc[s] \in Paid
           /\ pc'[s] = "post_writing" => ledgerCopy'[s] = {}
           /\ pc'[s] = "pay_writing" => paymentCopy'[s] = <<>>
  PROVE  MoneyInv'
BY DEF MoneyInv, MoneyIsApproved, MoneyFollowsActor, PaymentFollowsDecision

\* One request moves from l to m; the tables others read stay as they are.
LEMMA MoneyMove ==
  ASSUME TypeOK, MoneyInv, NEW r \in Requests, NEW m, Goto(r, m),
         UNCHANGED <<approvals, byRun, ledger, payments>>,
         \A s \in Requests \ {r} : /\ ledgerCopy'[s] = ledgerCopy[s]
                                   /\ paymentCopy'[s] = paymentCopy[s],
         m \in Unposted => pc[r] \in Unposted,
         m \in Unpaid => pc[r] \in Unpaid,
         m \in Paid => pc[r] \in Paid,
         m = "post_writing" => ledgerCopy'[r] = {},
         m = "pay_writing" => paymentCopy'[r] = <<>>
  PROVE  MoneyInv'
<1>1. r \in Procs /\ pc'[r] = m /\ \A s \in Requests \ {r} : pc'[s] = pc[s]
  BY DEF Goto, TypeOK, Procs
<1>2. \A s \in Requests :
        /\ pc[s] = "post_writing" => ledgerCopy[s] = {}
        /\ pc[s] = "pay_writing" => paymentCopy[s] = <<>>
  BY DEF MoneyInv, MoneyFollowsActor
<1> QED
  BY <1>1, <1>2, MoneyQuiet

\* A throw leads out of the execution, or to the second attempt.
LEMMA MoneyThrow ==
  ASSUME TypeOK, MoneyInv, NEW r \in Requests, pc[r] \in Working,
         Goto(r, OnThrow(r)),
         UNCHANGED <<approvals, byRun, ledger, payments, ledgerCopy,
                     paymentCopy>>
  PROVE  MoneyInv'
<1>1. /\ OnThrow(r) \in {"retrying", "giving_up", "failing", "refused",
                         "failed", "recovering"}
      /\ OnThrow(r) \in {"retrying", "giving_up"} => pc[r] \in InPayment
  BY DEF OnThrow, Working, BeforeClaim, InGate, InPayment, InCatch, InBody
<1> HIDE DEF OnThrow
<1>2. /\ OnThrow(r) \notin Unposted \cup Paid
      /\ OnThrow(r) \in Unpaid => pc[r] \in Unpaid
      /\ OnThrow(r) \notin {"post_writing", "pay_writing"}
  BY <1>1 DEF Unposted, Recorded, Unpaid, Paid, InPayment
<1> QED
  BY <1>2, MoneyMove

\* The calls before the claim, of the rejection, and of the end.
LEMMA MoneyElsewhere ==
  ASSUME Reliable, TypeOK, MoneyInv, NEW r \in Requests,
         \/ Receive(r) \/ LoadRun(r) \/ CheckApproval(r) \/ Claim(r)
         \/ DecideRead(r) \/ Redraft(r) \/ NoteRedraft(r)
         \/ SaveDisposition(r) \/ Announce(r) \/ Park(r) \/ Hold(r)
         \/ Shelve(r) \/ Settle(r) \/ TraceFailure(r) \/ Err(r)
         \/ EndTrace(r) \/ Summarise(r) \/ Recheck(r) \/ Release(r)
  PROVE  MoneyInv'
<1>1. UNCHANGED <<approvals, byRun, ledger, payments, ledgerCopy,
                  paymentCopy>>
  BY DEF Receive, LoadRun, CheckApproval, Claim, DecideRead, Redraft,
         NoteRedraft, SaveDisposition, Announce, Park, Hold, Shelve, Settle,
         TraceFailure, Err, EndTrace, Summarise, Recheck, Release, Persist,
         runVars, erpVars, localVars, tableCopies
<1>2. r \in Procs /\ r # FirstPass
  BY ResumeAssumption DEF Procs
<1>3. \/ pc[r] \in Working /\ Goto(r, OnThrow(r))
      \/ \E m \in {"loading", "pointing", "refused", "claiming", "claimed",
                   "deciding", "recovering", "noting", "saving",
                   "requesting", "parking", "ending", "shelving", "erring",
                   "summarising", "done", "releasing", "failed"} : Goto(r, m)
  <2>1. \/ Receive(r)
        \/ \E l \in {"pointing", "refused", "claiming", "claimed",
                     "deciding", "recovering", "noting", "saving",
                     "requesting", "parking", "ending", "shelving", "erring",
                     "summarising", "done", "releasing", "failed",
                     OnThrow(r)} : Returns(r, l) /\ pc[r] \in Working
    BY <1>2
       DEF LoadRun, CheckApproval, Claim, DecideRead, Redraft,
           NoteRedraft, SaveDisposition, Announce, Park, Hold, Shelve, Settle,
           TraceFailure, Err, EndTrace, Summarise, Recheck, Release, Persist,
           At, Working, BeforeClaim, InGate, InPayment, InCatch, InBody
  <2> QED
    BY <2>1 DEF Receive, Returns
<1>4. ASSUME NEW m \in {"loading", "pointing", "refused", "claiming",
                        "claimed", "deciding", "recovering", "noting",
                        "saving", "requesting", "parking", "ending",
                        "shelving", "erring", "summarising", "done",
                        "releasing", "failed"}, Goto(r, m)
      PROVE  MoneyInv'
  <2>1. m \notin MoneyAt
    BY DEF MoneyAt, Unposted, Recorded, Unpaid, Paid, InPayment
  <2>2. m \notin {"post_writing", "pay_writing"}
    OBVIOUS
  <2> QED
    BY <1>1, <1>4, <2>1, <2>2, MoneyMove DEF MoneyAt
<1> QED
  BY <1>1, <1>3, <1>4, MoneyThrow

\* The calls of an execution that move no money.
LEMMA MoneyWithin ==
  ASSUME Reliable, TypeOK, MoneyInv, NEW r \in Requests,
         \/ ReadPointer(r) \/ ResumeTrace(r) \/ RecordDecision(r)
         \/ GateCheck(r) \/ PostRead(r) \/ TracePost(r) \/ PayToggle(r)
         \/ FireToggle(r) \/ PayRead(r) \/ Retry(r) \/ GiveUp(r)
         \/ MarkProcessed(r) \/ TracePayment(r) \/ WriteProfile(r)
         \/ TraceProfile(r)
  PROVE  MoneyInv'
<1>1. /\ UNCHANGED <<approvals, byRun, ledger, payments>>
      /\ \A s \in Requests \ {r} : /\ ledgerCopy'[s] = ledgerCopy[s]
                                   /\ paymentCopy'[s] = paymentCopy[s]
  <2>1. CASE PostRead(r) \/ PayRead(r)
    <3>1. UNCHANGED <<approvals, byRun, ledger, payments>>
      BY <2>1 DEF PostRead, PayRead, runVars, erpVars
    <3>2. \A s \in Requests \ {r} : ledgerCopy'[s] = ledgerCopy[s]
      BY <2>1 DEF PostRead, PayRead, tableCopies, TypeOK, Procs
    <3>3. \A s \in Requests \ {r} : paymentCopy'[s] = paymentCopy[s]
      BY <2>1 DEF PostRead, PayRead, tableCopies, TypeOK, Procs
    <3> QED
      BY <3>1, <3>2, <3>3
  <2>2. CASE ~(PostRead(r) \/ PayRead(r))
    BY <2>2
       DEF ReadPointer, ResumeTrace, RecordDecision, GateCheck, TracePost,
           PayToggle, FireToggle, Retry, GiveUp, MarkProcessed, TracePayment,
           WriteProfile, TraceProfile, runVars, erpVars, localVars,
           tableCopies
  <2> QED
    BY <2>1, <2>2
<1>2. r \in Procs /\ pc[r] \in Working
  BY DEF Procs, ReadPointer, ResumeTrace, RecordDecision, GateCheck, PostRead,
         TracePost, PayToggle, FireToggle, PayRead, Retry, GiveUp,
         MarkProcessed, TracePayment, WriteProfile, TraceProfile, At, Working,
         BeforeClaim, InGate, InPayment, InCatch, InBody
<1>3. CASE /\ Goto(r, OnThrow(r))
           /\ UNCHANGED <<ledgerCopy, paymentCopy>>
  BY <1>1, <1>2, <1>3, MoneyThrow
<1>4. CASE PostRead(r)
  <2>1. Goto(r, "post_writing") \/ Goto(r, "failing")
    BY <1>2, <1>4, ReliableReturns DEF PostRead, At, Appending
  <2>2. pc[r] = "posting" /\ pc[r] \in Unposted
    BY <1>4 DEF PostRead, At, Unposted, InPayment
  <2>3. Goto(r, "post_writing") => ledgerCopy'[r] = {}
    BY <1>2, <1>4 DEF PostRead, TypeOK, Returns, Goto, OnThrow, At,
                      BeforeClaim, InPayment, InGate
  <2>4. "failing" \notin MoneyAt /\ "post_writing" \notin Unpaid \cup Paid
    BY DEF MoneyAt, Unposted, Recorded, Unpaid, Paid, InPayment
  <2> QED
    BY <1>1, <2>1, <2>2, <2>3, <2>4, MoneyMove DEF MoneyAt
<1>5. CASE PayRead(r)
  <2>1. Goto(r, "pay_writing")
    BY <1>2, <1>5, ReliableReturns DEF PayRead, At, Appending
  <2>2. pc[r] \in Unpaid
    BY <1>5 DEF PayRead, At, Unpaid, InPayment
  <2>3. paymentCopy'[r] = <<>>
    BY <1>2, <1>5, <2>2 DEF PayRead, TypeOK, MoneyInv, MoneyFollowsActor
  <2>4. "pay_writing" \notin Unposted \cup Paid
    BY DEF Unposted, Recorded, Paid
  <2> QED
    BY <1>1, <2>1, <2>2, <2>3, <2>4, MoneyMove
<1>6. CASE ~PostRead(r) /\ ~PayRead(r)
  <2>1. UNCHANGED <<ledgerCopy, paymentCopy>>
    BY <1>6
       DEF ReadPointer, ResumeTrace, RecordDecision, GateCheck,
           TracePost, PayToggle, FireToggle, Retry, GiveUp, MarkProcessed,
           TracePayment, WriteProfile, TraceProfile, localVars, tableCopies
  <2>2. \/ Goto(r, OnThrow(r))
        \/ \E m \in {"reading", "gate_reading", "rechecking", "recording",
                     "gating", "redrafting", "holding", "posting", "failing",
                     "paying", "firing", "pay_reading", "pay_tracing",
                     "profiling", "profile_tracing", "profile_recording",
                     "settling"} :
             /\ Goto(r, m)
             /\ m \in Unposted => pc[r] \in Unposted
             /\ m \in Unpaid => pc[r] \in Unpaid
             /\ m \in Paid => pc[r] \in Paid
    <3>1. CASE ReadPointer(r) \/ ResumeTrace(r) \/ RecordDecision(r)
      BY <3>1
         DEF ReadPointer, ResumeTrace, RecordDecision, Returns, At, Unposted,
             Recorded, Unpaid, Paid, InPayment
    <3>2. CASE GateCheck(r) \/ TracePost(r) \/ PayToggle(r) \/ FireToggle(r)
      BY <3>2
         DEF GateCheck, TracePost, PayToggle, FireToggle, Returns, At,
             Unposted, Recorded, Unpaid, Paid, InPayment
    <3>3. CASE Retry(r) \/ GiveUp(r) \/ MarkProcessed(r) \/ TracePayment(r)
      BY <3>3
         DEF Retry, GiveUp, MarkProcessed, TracePayment, Returns, At,
             Unposted, Recorded, Unpaid, Paid, InPayment
    <3>4. CASE WriteProfile(r) \/ TraceProfile(r)
      BY <3>4
         DEF WriteProfile, TraceProfile, Returns, At,
             Unposted, Recorded, Unpaid, Paid, InPayment
    <3> QED
      BY <1>6, <3>1, <3>2, <3>3, <3>4
  <2>3. ASSUME NEW m, Goto(r, m), m \notin {"post_writing", "pay_writing"},
               m \in Unposted => pc[r] \in Unposted,
               m \in Unpaid => pc[r] \in Unpaid,
               m \in Paid => pc[r] \in Paid
        PROVE  MoneyInv'
    BY <1>1, <2>3, MoneyMove
  <2> QED
    BY <1>3, <2>1, <2>2, <2>3
<1> QED
  BY <1>4, <1>5, <1>6

-----------------------------------------------------------------------------
(* The steps that decide, that move the pointer, and that move the money.  *)

\* Wherever the money is, one request is, and it owns the run.
LEMMA MoneyOwner ==
  ASSUME Exclusion, NEW r \in Requests, pc[r] \in Acting
  PROVE  /\ Owns(r)
         /\ \A s \in Requests : s # r => pc[s] \notin MoneyAt
BY MoneyPlaces DEF Exclusion, OwnerInv, OneActor

\* A pending approval has moved no money, so neither has whoever decides it.
LEMMA MoneyDecide ==
  ASSUME Reliable, TypeOK, Exclusion, MoneyInv, NEW r \in Requests,
         DecideWrite(r)
  PROVE  MoneyInv'
<1>1. /\ r \in Procs /\ pc[r] = "deciding" /\ pc[r] \in Acting /\ Owns(r)
      /\ UNCHANGED <<byRun, ledger, payments, ledgerCopy, paymentCopy>>
  BY DEF DecideWrite, At, Acting, InBody, Exclusion, OwnerInv, Procs, erpVars,
         localVars, tableCopies
<1>2. approvals[byRun] = "pending"
  BY <1>1 DEF Owns, Undecided, Repointed, Pending
<1>3. "this_run" \notin ledger /\ payments = <<>>
  BY <1>2 DEF MoneyInv, MoneyIsApproved, Approved
<1>4. Goto(r, "resuming")
  BY <1>1, ReliableReturns DEF DecideWrite, Appending
<1>5. /\ pc'[r] = "resuming"
      /\ \A s \in Requests : s # r => pc'[s] = pc[s] /\ pc[s] \notin MoneyAt
  BY <1>1, <1>4, MoneyOwner DEF Goto, TypeOK, Procs
<1>6. "resuming" \notin Unpaid \cup Paid \cup {"post_writing", "pay_writing"}
  BY DEF Unpaid, Paid, InPayment
<1>7. \A s \in Requests :
        pc'[s] \notin Unpaid \cup Paid \cup {"post_writing", "pay_writing"}
  BY <1>5, <1>6 DEF MoneyAt, Unposted, Unpaid, InPayment
<1> QED
  BY <1>1, <1>3, <1>7
     DEF MoneyInv, MoneyIsApproved, MoneyFollowsActor, PaymentFollowsDecision

\* A rejected run has moved no money; its revision starts with none.
LEMMA MoneyRevise ==
  ASSUME Reliable, TypeOK, Exclusion, MoneyInv, NEW r \in Requests,
         CreateApproval(r) \/ PointRun(r)
  PROVE  MoneyInv'
<1>1. /\ r \in Procs /\ pc[r] \in {"requesting", "repointing"}
      /\ pc[r] \in Acting /\ Owns(r)
      /\ UNCHANGED <<ledger, payments, ledgerCopy, paymentCopy>>
  BY DEF CreateApproval, PointRun, At, Acting, InBody, Exclusion, OwnerInv,
         Procs, erpVars, localVars, tableCopies
<1>2. approvals[byRun] = "rejected"
  BY <1>1
     DEF Owns, Undecided, Redrafted, Minted, Repointed, Rejecting, StatusOf
<1>3. "this_run" \notin ledger /\ payments = <<>>
  BY <1>2 DEF MoneyInv, MoneyIsApproved, Approved
<1>4. Goto(r, "repointing") \/ Goto(r, "announcing")
  BY <1>1, ReliableReturns DEF CreateApproval, PointRun, Appending
<1>5. /\ pc'[r] \in {"repointing", "announcing"}
      /\ \A s \in Requests : s # r => pc'[s] = pc[s] /\ pc[s] \notin MoneyAt
  BY <1>1, <1>4, MoneyOwner DEF Goto, TypeOK, Procs
<1>6. {"repointing", "announcing"} \cap MoneyAt = {}
  BY DEF MoneyAt, Unposted, Recorded, Unpaid, Paid, InPayment
<1>7. \A s \in Requests : pc'[s] \notin MoneyAt
  BY <1>5, <1>6
<1>8. {"post_writing", "pay_writing"} \subseteq MoneyAt
  BY DEF MoneyAt, Unposted, Unpaid, InPayment
<1> QED
  BY <1>1, <1>3, <1>7, <1>8
     DEF MoneyAt, MoneyInv, MoneyIsApproved, MoneyFollowsActor,
         PaymentFollowsDecision

\* Whoever executes does it under an approved current approval.
LEMMA ExecutesApproved ==
  ASSUME TypeOK, Exclusion, NEW r \in Requests, pc[r] \in Executing
  PROVE  /\ approvals[byRun] \in Approved
         /\ decision[r] = "edit_approve" <=>
              approvals[byRun] = "edit_approved"
         /\ runstate = machine[r] /\ runstate.step = "awaiting_approval"
<1>1. pc[r] \in Acting
  BY DEF Executing, Acting, InGate, InPayment, InBody
<1>2. Owns(r) /\ decision[r] \in Decisions
  BY <1>1 DEF Exclusion, OwnerInv, TypeOK, Procs
<1>3. byRun = target[r] /\ approvals[target[r]] = StatusOf(decision[r])
  BY <1>2
     DEF Owns, Executing, Undecided, Repointed, InGate, InPayment
<1> QED
  BY <1>2, <1>3 DEF Owns, StatusOf, Approved, Decisions

\* The ledger row.
LEMMA MoneyPost ==
  ASSUME Reliable, TypeOK, Exclusion, MoneyInv, NEW r \in Requests,
         PostWrite(r)
  PROVE  MoneyInv' /\ "this_run" \notin ledger /\ ledger' = {"this_run"}
<1>1. /\ r \in Procs /\ pc[r] = "post_writing"
      /\ pc[r] \in Unposted /\ pc[r] \in Acting /\ pc[r] \in Executing
      /\ UNCHANGED <<approvals, byRun, payments, ledgerCopy, paymentCopy>>
  BY DEF PostWrite, At, Unposted, Acting, Executing, InGate, Procs, runVars,
         localVars, tableCopies, InPayment
<1>2. /\ "this_run" \notin ledger /\ payments = <<>>
      /\ ledger' = {"this_run"}
  BY <1>1 DEF PostWrite, MoneyInv, MoneyFollowsActor
<1>3. Goto(r, "post_tracing")
  BY <1>1, ReliableReturns DEF PostWrite, Appending
<1>4. /\ pc'[r] = "post_tracing"
      /\ \A s \in Requests : s # r => pc'[s] = pc[s] /\ pc[s] \notin MoneyAt
  BY <1>1, <1>3, MoneyOwner DEF Goto, TypeOK, Procs
<1>5. "post_tracing" \notin Unposted \cup Paid
                              \cup {"post_writing", "pay_writing"}
  BY DEF Unposted, Recorded, Paid
<1>6. {"post_writing", "pay_writing"} \subseteq MoneyAt
  BY DEF MoneyAt, Unposted, Unpaid, InPayment
<1>7. \A s \in Requests : pc'[s] \notin Unposted \cup Paid
                                          \cup {"post_writing", "pay_writing"}
  BY <1>4, <1>5, <1>6 DEF MoneyAt
<1>8. approvals[byRun] \in Approved
  BY <1>1, ExecutesApproved
<1> QED
  BY <1>1, <1>2, <1>7, <1>8
     DEF MoneyInv, MoneyIsApproved, MoneyFollowsActor, PaymentFollowsDecision

\* The payment row.
LEMMA MoneyPay ==
  ASSUME Reliable, TypeOK, Exclusion, MoneyInv, NEW r \in Requests,
         PayWrite(r)
  PROVE  /\ MoneyInv' /\ "this_run" \in ledger
         /\ payments = <<>> /\ Len(payments') = 1
<1>1. /\ r \in Procs /\ pc[r] = "pay_writing"
      /\ pc[r] \in Unpaid /\ pc[r] \in Acting /\ pc[r] \in Executing
      /\ UNCHANGED <<approvals, byRun, ledger, ledgerCopy, paymentCopy>>
  BY DEF PayWrite, At, Unpaid, Acting, Executing, InPayment, Procs, runVars,
         localVars, tableCopies
<1>2. /\ "this_run" \in ledger /\ payments = <<>>
      /\ payments' = <<[edited |-> decision[r] = "edit_approve"]>>
  <2>1. "this_run" \in ledger /\ payments = <<>> /\ paymentCopy[r] = <<>>
    BY <1>1 DEF MoneyInv, MoneyFollowsActor
  <2>2. payments' = Append(<<>>, [edited |-> decision[r] = "edit_approve"])
    BY <2>1 DEF PayWrite
  <2> QED
    BY <2>1, <2>2
<1>3. Goto(r, "processing")
  BY <1>1, ReliableReturns DEF PayWrite, Appending
<1>4. /\ pc'[r] = "processing"
      /\ \A s \in Requests : s # r => pc'[s] = pc[s] /\ pc[s] \notin MoneyAt
  BY <1>1, <1>3, MoneyOwner DEF Goto, TypeOK, Procs
<1>5. "processing" \notin Unposted \cup Unpaid
                              \cup {"post_writing", "pay_writing"}
  BY DEF Unposted, Recorded, Unpaid, InPayment
<1>6. {"post_writing", "pay_writing"} \subseteq MoneyAt
  BY DEF MoneyAt, Unposted, Unpaid, InPayment
<1>7. \A s \in Requests : pc'[s] \notin Unposted \cup Unpaid
                                          \cup {"post_writing", "pay_writing"}
  BY <1>4, <1>5, <1>6 DEF MoneyAt
<1>8. /\ approvals[byRun] \in Approved
      /\ decision[r] = "edit_approve" <=> approvals[byRun] = "edit_approved"
  BY <1>1, ExecutesApproved
<1>9. Len(payments') = 1 /\ payments' # <<>>
      /\ (payments'[1].edited <=> decision[r] = "edit_approve")
  BY <1>2
<1> QED
  BY <1>1, <1>2, <1>7, <1>8, <1>9
     DEF MoneyInv, MoneyIsApproved, MoneyFollowsActor, PaymentFollowsDecision

-----------------------------------------------------------------------------
LEMMA InitMoney == ASSUME Init PROVE MoneyInv
<1>1. \A r \in Requests : pc[r] = "idle"
  BY ResumeAssumption DEF Init, Procs
<1>2. "idle" \notin MoneyAt /\ "this_run" \notin ledger /\ payments = <<>>
  BY DEF Init, MoneyAt, Unposted, Recorded, Unpaid, Paid, InPayment
<1> QED
  BY <1>1, <1>2
     DEF MoneyAt, MoneyInv, MoneyIsApproved, MoneyFollowsActor,
         PaymentFollowsDecision

LEMMA NextMoney ==
  ASSUME Reliable, TypeOK, Exclusion, MoneyInv, [Next]_vars
  PROVE  MoneyInv'
<1>1. CASE SetToggle \/ UNCHANGED vars
  <2>1. UNCHANGED <<approvals, byRun, ledger, payments, pc, ledgerCopy,
                    paymentCopy>>
    BY <1>1 DEF SetToggle, vars, runVars, erpVars, localVars, tableCopies
  <2> QED
    BY <2>1, MoneyQuiet DEF MoneyInv, MoneyFollowsActor
<1>2. ASSUME NEW p \in Procs, Report(p) PROVE MoneyInv'
  <2>1. CASE p \in Requests
    BY <1>2, <2>1, MoneyElsewhere DEF Report
  <2>2. CASE p \notin Requests
    <3>1. /\ UNCHANGED <<approvals, byRun, ledger, payments, ledgerCopy,
                         paymentCopy>>
          /\ \A s \in Requests : pc'[s] = pc[s]
      BY <1>2, <2>2
         DEF Report, Announce, EndTrace, Summarise, Returns, Goto, TypeOK,
             Procs, runVars, erpVars, localVars, tableCopies
    <3> QED
      BY <3>1, MoneyQuiet DEF MoneyInv, MoneyFollowsActor
  <2> QED
    BY <2>1, <2>2
<1>3. ASSUME NEW r \in Requests, Throw(r) PROVE MoneyInv'
  BY <1>3, MoneyThrow DEF Throw, runVars, erpVars, localVars, tableCopies
<1>4. ASSUME NEW r \in Requests, Crash(r) PROVE MoneyInv'
  <2>1. "crashed" \notin MoneyAt \cup {"post_writing", "pay_writing"}
    BY DEF MoneyAt, Unposted, Recorded, Unpaid, Paid, InPayment
  <2> QED
    BY <1>4, <2>1, MoneyMove
       DEF Crash, MoneyAt, runVars, erpVars, localVars, tableCopies
<1>5. ASSUME NEW r \in Requests, Receive(r) \/ Call(r) PROVE MoneyInv'
  BY <1>5, MoneyElsewhere, MoneyWithin, MoneyDecide, MoneyRevise, MoneyPost,
     MoneyPay DEF Call
<1> QED
  BY <1>1, <1>2, <1>3, <1>4, <1>5 DEF Next

\* Where the money is can be told from the approval and from where the acting
\* request stands: the inductive invariant of the resume.
THEOREM MoneyHolds ==
  ASSUME Reliable
  PROVE  Spec => []IInv
<1>1. Init => MoneyInv
  BY InitMoney
<1>2. TypeOK /\ Exclusion /\ MoneyInv /\ [Next]_vars => MoneyInv'
  BY NextMoney
<1>3. Exclusion /\ MoneyInv => IInv
  BY DEF IInv
<1> QED
  BY <1>1, <1>2, <1>3, TypeCorrect, ExclusionHolds, PTL DEF Spec

\* For any number of requests, approvals and revisions, with refused calls and
\* crashes: at most one payment, backed by the ledger, as it was approved.
THEOREM PaymentFollows ==
  ASSUME Reliable
  PROVE  Spec => []PaymentFollowsDecision
<1>1. IInv => PaymentFollowsDecision
  BY DEF IInv, MoneyInv
<1> QED
  BY <1>1, MoneyHolds, PTL

-----------------------------------------------------------------------------
(* The resume implements the protocol.                                     *)

\* A step that writes none of what the protocol is about is a stutter.
LEMMA ProtocolStutter ==
  ASSUME UNCHANGED <<runstate, ledger, payments>>,
         approvals'[byRun'] = approvals[byRun]
  PROVE  UNCHANGED Protocol!vars
BY DEF Protocol!vars

\* The decision and the revision.
LEMMA ProtocolDecision ==
  ASSUME TypeOK, Exclusion, NEW r \in Requests,
         DecideWrite(r) \/ CreateApproval(r) \/ PointRun(r)
  PROVE  [Protocol!Next]_(Protocol!vars)
<1>0. /\ pc[r] \in {"deciding", "requesting", "repointing"}
      /\ r \in Procs /\ Owns(r)
      /\ UNCHANGED <<runstate, ledger, payments>>
  BY DEF DecideWrite, CreateApproval, PointRun, At, Acting, InBody, Exclusion,
         OwnerInv, Procs, erpVars
<1>1. CASE DecideWrite(r)
  <2>1. pc[r] = "deciding" /\ byRun' = byRun
    BY <1>1 DEF DecideWrite, At
  <2>2. /\ runstate.step = "awaiting_approval"
        /\ byRun = target[r] /\ approvals[byRun] = "pending"
    BY <1>0, <2>1 DEF Owns, Undecided, Repointed, Pending
  <2>3. approvals'[byRun'] \in Approved \cup {"rejected"}
    BY <1>0, <1>1, <2>1, <2>2 DEF DecideWrite, StatusOf, Approved, TypeOK
  <2>4. Protocol!Decide
    BY <1>0, <2>2, <2>3 DEF Protocol!Decide, Protocol!Approved, Approved
  <2> QED
    BY <2>4 DEF Protocol!Next
<1>2. CASE CreateApproval(r)
  <2>1. Exists(byRun) /\ byRun' = byRun /\ byRun \in ApprovalIds
    BY <1>2 DEF CreateApproval, Exclusion, PointerInv, TypeOK
  <2>2. approvals'[byRun] = approvals[byRun]
    BY <1>2, <2>1 DEF CreateApproval, Exists, TypeOK
  <2> QED
    BY <1>0, <2>1, <2>2, ProtocolStutter
<1>3. CASE PointRun(r)
  <2>1. /\ pc[r] = "repointing" /\ byRun' = revised[r]
        /\ UNCHANGED approvals /\ revised[r] \in ApprovalIds
    BY <1>0, <1>3 DEF PointRun, At, TypeOK
  <2>2. /\ runstate.step = "decided" /\ approvals[byRun] = "rejected"
        /\ approvals[revised[r]] = "pending"
    BY <1>0, <2>1
       DEF Owns, Undecided, Minted, Repointed, Rejecting, StatusOf, Pending
  <2>3. Protocol!Resubmit
    BY <1>0, <2>1, <2>2 DEF Protocol!Resubmit
  <2> QED
    BY <2>3 DEF Protocol!Next
<1> QED
  BY <1>1, <1>2, <1>3

\* The transitions of the run: each is the protocol's, or was refused.
LEMMA ProtocolTransition ==
  ASSUME TypeOK, Exclusion, MoneyInv, NEW r \in Requests,
         Redraft(r) \/ Park(r) \/ Hold(r) \/ Settle(r) \/ Err(r)
  PROVE  [Protocol!Next]_(Protocol!vars)
<1>1. /\ pc[r] \in {"redrafting", "parking", "holding", "settling", "erring"}
      /\ r \in Procs /\ Owns(r) /\ machine[r] = runstate
      /\ runstate \in RunRecords
      /\ UNCHANGED <<approvals, byRun, ledger, payments>>
  BY DEF Redraft, Park, Hold, Settle, Err, Persist, At, Acting, InBody,
         Exclusion, OwnerInv, Owns, Procs, erpVars, TypeOK
<1>2. CASE runstate' = runstate
  BY <1>1, <1>2, ProtocolStutter
<1>3. CASE Redraft(r) /\ runstate' # runstate
  <2>1. /\ runstate.step = "awaiting_approval"
        /\ approvals[byRun] = "rejected"
        /\ runstate.revision < MAX_REVISIONS
    BY <1>1, <1>3
       DEF Redraft, At, Owns, Undecided, Repointed, Rejecting, StatusOf,
           Redrafted, Minted
  <2>2. runstate' = Transition(runstate, "decided")
    BY <1>1, <1>3 DEF Redraft, Persist
  <2>3. Protocol!Redraft
    BY <1>1, <2>1, <2>2 DEF Transition, Revises, Protocol!Redraft
  <2> QED
    BY <2>3 DEF Protocol!Next
<1>4. CASE Park(r) /\ runstate' # runstate
  <2>1. runstate.step = "decided" /\ approvals[byRun] = "pending"
    BY <1>1, <1>4
       DEF Park, At, Owns, Undecided, Repointed, Minted, Pending, TypeOK
  <2>2. runstate' = Transition(runstate, "awaiting_approval")
    BY <1>1, <1>4 DEF Park, Persist
  <2>3. Protocol!Park
    BY <1>1, <2>1, <2>2 DEF Transition, Revises, Protocol!Park
  <2> QED
    BY <2>3 DEF Protocol!Next
<1>5. CASE Hold(r) /\ runstate' # runstate
  <2>1. /\ runstate.step = "awaiting_approval"
        /\ approvals[byRun] = "rejected"
        /\ runstate.revision >= MAX_REVISIONS
    BY <1>1, <1>5
       DEF Hold, At, Owns, Undecided, Repointed, Rejecting, StatusOf,
           Redrafted, Minted
  <2>2. runstate' = Transition(runstate, "held")
    BY <1>1, <1>5 DEF Hold, Persist
  <2>3. Protocol!Hold
    BY <1>1, <2>1, <2>2 DEF Transition, Revises, Protocol!Hold
  <2> QED
    BY <2>3 DEF Protocol!Next
<1>6. CASE (Settle(r) \/ Err(r)) /\ runstate' # runstate
  <2>1. pc[r] \in {"settling", "erring"}
    BY <1>6 DEF Settle, Err, At
  <2>2. pc[r] \in Executing
    BY <2>1 DEF Executing
  <2>3. /\ approvals[byRun] \in Approved
        /\ runstate.step = "awaiting_approval"
    BY <2>2, ExecutesApproved
  <2>4. Settle(r) => Len(payments) = 1
    BY DEF Settle, At, MoneyInv, MoneyFollowsActor, Paid
  <2>5. runstate' = Transition(runstate, IF Settle(r) THEN "executed"
                                                      ELSE "error")
    BY <1>1, <1>6 DEF Settle, Err, Persist
  <2>6. Protocol!Settle
    BY <1>1, <1>6, <2>3, <2>4, <2>5
       DEF Transition, Revises, Protocol!Settle, Protocol!Approved, Approved
  <2> QED
    BY <2>6 DEF Protocol!Next
<1> QED
  BY <1>2, <1>3, <1>4, <1>5, <1>6

\* The ledger row and the payment row.
LEMMA ProtocolMoney ==
  ASSUME Reliable, TypeOK, Exclusion, MoneyInv, NEW r \in Requests,
         PostWrite(r) \/ PayWrite(r)
  PROVE  [Protocol!Next]_(Protocol!vars)
<1>1. pc[r] \in {"post_writing", "pay_writing"}
  BY DEF PostWrite, PayWrite, At
<1>2. pc[r] \in Executing
  BY <1>1 DEF Executing, InGate, InPayment
<1>3. /\ approvals[byRun] \in Approved
      /\ runstate.step = "awaiting_approval"
  BY <1>2, ExecutesApproved
<1>4. UNCHANGED <<runstate, approvals, byRun>>
  BY DEF PostWrite, PayWrite, runVars
<1>5. CASE PostWrite(r)
  <2>1. "this_run" \notin ledger /\ "this_run" \in ledger'
    BY <1>5, MoneyPost
  <2>2. UNCHANGED payments
    BY <1>5 DEF PostWrite
  <2>3. Protocol!Post
    BY <1>3, <1>4, <2>1, <2>2
       DEF Protocol!Post, Protocol!Approved, Approved
  <2> QED
    BY <2>3 DEF Protocol!Next
<1>6. CASE PayWrite(r)
  <2>1. /\ "this_run" \in ledger /\ Len(payments) = 0 /\ Len(payments') = 1
        /\ UNCHANGED ledger
    BY <1>6, MoneyPay DEF PayWrite
  <2>2. Protocol!Pay
    BY <1>3, <1>4, <2>1 DEF Protocol!Pay, Protocol!Approved, Approved
  <2> QED
    BY <2>2 DEF Protocol!Next
<1> QED
  BY <1>5, <1>6

\* No other step writes what the protocol is about.
LEMMA ProtocolQuiet ==
  ASSUME [Next]_vars
  PROVE  \/ UNCHANGED Protocol!vars
         \/ \E r \in Requests :
              \/ DecideWrite(r) \/ CreateApproval(r) \/ PointRun(r)
              \/ Redraft(r) \/ Park(r) \/ Hold(r) \/ Settle(r) \/ Err(r)
              \/ PostWrite(r) \/ PayWrite(r)
<1>1. CASE SetToggle \/ (\E p \in Procs : Report(p)) \/ UNCHANGED vars
  <2>1. UNCHANGED <<runstate, approvals, byRun, ledger, payments>>
    BY <1>1
       DEF SetToggle, Report, Announce, EndTrace, Summarise, vars, runVars,
           erpVars
  <2> QED
    BY <2>1, ProtocolStutter
<1>2. ASSUME NEW r \in Requests, Receive(r) \/ Throw(r) \/ Crash(r)
      PROVE  UNCHANGED Protocol!vars
  <2>1. UNCHANGED <<runstate, approvals, byRun, ledger, payments>>
    BY <1>2 DEF Receive, Throw, Crash, runVars, erpVars
  <2> QED
    BY <2>1, ProtocolStutter
<1>3. ASSUME NEW r \in Requests,
             \/ LoadRun(r) \/ ReadPointer(r) \/ CheckApproval(r) \/ Claim(r)
             \/ DecideRead(r) \/ ResumeTrace(r) \/ RecordDecision(r)
             \/ NoteRedraft(r) \/ SaveDisposition(r) \/ Shelve(r)
             \/ GateCheck(r) \/ PostRead(r) \/ TracePost(r) \/ PayToggle(r)
             \/ FireToggle(r) \/ PayRead(r) \/ Retry(r) \/ GiveUp(r)
             \/ MarkProcessed(r) \/ TracePayment(r) \/ WriteProfile(r)
             \/ TraceProfile(r) \/ TraceFailure(r) \/ Recheck(r)
             \/ Release(r)
      PROVE  UNCHANGED Protocol!vars
  <2>1. UNCHANGED <<runstate, approvals, byRun, ledger, payments>>
    BY <1>3
       DEF LoadRun, ReadPointer, CheckApproval, Claim, DecideRead,
           ResumeTrace, RecordDecision, NoteRedraft, SaveDisposition, Shelve,
           GateCheck, PostRead, TracePost, PayToggle, FireToggle, PayRead,
           Retry, GiveUp, MarkProcessed, TracePayment, WriteProfile,
           TraceProfile, TraceFailure, Recheck, Release, runVars, erpVars
  <2> QED
    BY <2>1, ProtocolStutter
<1> QED
  BY <1>1, <1>2, <1>3 DEF Next, Call

\* Every behaviour of the resume, seen through the run's record, its current
\* approval and its money, is one the approval gate promises.
THEOREM ImplementsTheProtocol ==
  ASSUME Reliable
  PROVE  Spec => ImplementsProtocol
<1>1. Init => Protocol!Init
  BY ResumeAssumption DEF Init, Protocol!Init
<1>2. TypeOK /\ IInv /\ [Next]_vars => [Protocol!Next]_(Protocol!vars)
  BY ProtocolQuiet, ProtocolDecision, ProtocolTransition, ProtocolMoney
     DEF IInv
<1> QED
  BY <1>1, <1>2, TypeCorrect, MoneyHolds, PTL
     DEF Spec, ImplementsProtocol, Protocol!Spec

-----------------------------------------------------------------------------
(* The outcome of the run, whatever store call fails.                      *)

\* A request moves and changes nothing the outcome is read from: it may only
\* go on to a place that claims no more effects than the one it comes from.
LEMMA OutcomeMove ==
  ASSUME TypeOK, OutcomeInv, NEW r \in Requests, NEW m, Goto(r, m),
         UNCHANGED <<runstate, approvals, byRun, ledger, payments, inbox,
                     profileRuns>>,
         m \in Paid => pc[r] \in Paid,
         m \in Processed => pc[r] \in Processed,
         m \in Unprofiled => pc[r] \in Unprofiled,
         m \in Profiled => pc[r] \in Profiled
  PROVE  OutcomeInv'
<1>1. pc'[r] = m /\ \A s \in Requests \ {r} : pc'[s] = pc[s]
  BY DEF Goto, TypeOK, Procs
<1>2. EffectsAreApproved' /\ SettledTruthfully'
  BY DEF OutcomeInv, EffectsAreApproved, SettledTruthfully
<1>3. EffectsFollowActor'
  BY <1>1 DEF OutcomeInv, EffectsFollowActor
<1> QED
  BY <1>2, <1>3 DEF OutcomeInv

\* A throw leads out of the effects, or to another try of the payment.
LEMMA ThrowClaimsNoMore ==
  ASSUME NEW r, pc[r] \in Working
  PROVE  /\ OnThrow(r) \notin Paid \cup Processed \cup Profiled
         /\ OnThrow(r) \in Unprofiled => pc[r] \in Unprofiled
<1>1. /\ OnThrow(r) \in {"retrying", "giving_up", "failing", "refused",
                         "failed", "recovering"}
      /\ OnThrow(r) \in {"retrying", "giving_up"} => pc[r] \in InPayment
  BY DEF OnThrow, Working, BeforeClaim, InGate, InPayment, InCatch, InBody
<1> QED
  BY <1>1
     DEF Paid, Processed, Profiled, Unprofiled, Recorded, InGate, InPayment

LEMMA OutcomeThrow ==
  ASSUME TypeOK, OutcomeInv, NEW r \in Requests, pc[r] \in Working,
         Goto(r, OnThrow(r)),
         UNCHANGED <<runstate, approvals, byRun, ledger, payments, inbox,
                     profileRuns>>
  PROVE  OutcomeInv'
BY ThrowClaimsNoMore, OutcomeMove

\* The calls with no effect: everything before the decision, the reads, the
\* trace, and the end.
LEMMA OutcomeQuiet ==
  ASSUME TypeOK, OutcomeInv, NEW r \in Requests,
         \/ Receive(r) \/ LoadRun(r) \/ ReadPointer(r) \/ CheckApproval(r)
         \/ Claim(r) \/ DecideRead(r) \/ ResumeTrace(r) \/ RecordDecision(r)
         \/ NoteRedraft(r) \/ SaveDisposition(r) \/ Announce(r)
         \/ GateCheck(r) \/ PostRead(r) \/ TracePost(r) \/ PayToggle(r)
         \/ FireToggle(r) \/ PayRead(r) \/ Retry(r) \/ GiveUp(r)
         \/ TracePayment(r) \/ TraceProfile(r) \/ TraceFailure(r)
         \/ EndTrace(r) \/ Summarise(r) \/ Recheck(r) \/ Release(r)
  PROVE  OutcomeInv'
<1>1. UNCHANGED <<runstate, approvals, byRun, ledger, payments, inbox,
                  profileRuns>>
  BY DEF Receive, LoadRun, ReadPointer, CheckApproval, Claim, DecideRead,
         ResumeTrace, RecordDecision, NoteRedraft, SaveDisposition, Announce,
         GateCheck, PostRead, TracePost, PayToggle, FireToggle, PayRead,
         Retry, GiveUp, TracePayment, TraceProfile, TraceFailure, EndTrace,
         Summarise, Recheck, Release, runVars, erpVars
<1>2. r \in Procs /\ r # FirstPass
  BY ResumeAssumption DEF Procs
<1>3. \/ pc[r] \in Working /\ Goto(r, OnThrow(r))
      \/ \E m : /\ Goto(r, m)
                /\ m \in Paid => pc[r] \in Paid
                /\ m \in Processed => pc[r] \in Processed
                /\ m \in Unprofiled => pc[r] \in Unprofiled
                /\ m \in Profiled => pc[r] \in Profiled
  <2>1. CASE \/ Receive(r) \/ LoadRun(r) \/ ReadPointer(r)
             \/ CheckApproval(r) \/ Claim(r) \/ DecideRead(r)
    BY <2>1
       DEF Receive, LoadRun, ReadPointer, CheckApproval, Claim, DecideRead,
           Returns, At, Working, BeforeClaim, InGate, InPayment, InCatch,
           InBody, Paid, Processed, Unprofiled, Recorded, Profiled
  <2>2. CASE \/ ResumeTrace(r) \/ RecordDecision(r) \/ NoteRedraft(r)
             \/ SaveDisposition(r) \/ Announce(r) \/ GateCheck(r)
    BY <1>2, <2>2
       DEF ResumeTrace, RecordDecision, NoteRedraft, SaveDisposition,
           Announce, GateCheck, Returns, At, Working, BeforeClaim, InGate,
           InPayment, InCatch, InBody, Paid, Processed, Unprofiled, Recorded,
           Profiled
  <2>3. CASE \/ PostRead(r) \/ TracePost(r) \/ PayToggle(r) \/ FireToggle(r)
             \/ PayRead(r) \/ Retry(r) \/ GiveUp(r)
    BY <2>3
       DEF PostRead, TracePost, PayToggle, FireToggle, PayRead, Retry, GiveUp,
           Returns, At, Working, BeforeClaim, InGate, InPayment, InCatch,
           InBody, Paid, Processed, Unprofiled, Recorded, Profiled
  <2>4. CASE \/ TracePayment(r) \/ TraceProfile(r) \/ TraceFailure(r)
             \/ EndTrace(r) \/ Summarise(r) \/ Recheck(r) \/ Release(r)
    BY <2>4
       DEF TracePayment, TraceProfile, TraceFailure, EndTrace, Summarise,
           Recheck, Release, Returns, At, Working, BeforeClaim, InGate,
           InPayment, InCatch, InBody, Paid, Processed, Unprofiled, Recorded,
           Profiled
  <2> QED
    BY <2>1, <2>2, <2>3, <2>4
<1> QED
  BY <1>1, <1>3, OutcomeMove, OutcomeThrow

\* Where effects are claimed, and where no request but the acting one stands.
EffectPlaces == Paid \cup Processed \cup Unprofiled \cup Profiled

LEMMA OneEffectPlace ==
  ASSUME Exclusion, NEW r \in Requests, pc[r] \in Acting
  PROVE  \A s \in Requests \ {r} : pc[s] \notin EffectPlaces
<1>1. EffectPlaces \subseteq Acting
  BY DEF EffectPlaces, Paid, Processed, Unprofiled, Recorded, Profiled,
         Acting, InGate, InPayment, InBody
<1> QED
  BY <1>1 DEF Exclusion, OneActor

\* The acting request moves: what others claim does not matter.
LEMMA ActorClaims ==
  ASSUME TypeOK, Exclusion, NEW r \in Requests, pc[r] \in Acting,
         NEW m, Goto(r, m),
         m \in Paid => payments' # <<>>,
         m \in Processed => inbox' = "processed",
         m \in Unprofiled => profileRuns' = 0,
         m \in Profiled => profileRuns' = 1
  PROVE  EffectsFollowActor'
<1>1. pc'[r] = m /\ \A s \in Requests \ {r} : pc'[s] = pc[s]
  BY DEF Goto, TypeOK, Procs
<1> QED
  BY <1>1, OneEffectPlace DEF EffectPlaces, EffectsFollowActor

\* A pending approval has no effects behind it, so neither has its decision.
LEMMA OutcomeDecide ==
  ASSUME TypeOK, Exclusion, OutcomeInv, NEW r \in Requests, DecideWrite(r)
  PROVE  OutcomeInv'
<1>1. /\ pc[r] = "deciding" /\ pc[r] \in Acting /\ Owns(r)
      /\ UNCHANGED <<runstate, byRun, ledger, payments, inbox, profileRuns>>
  BY DEF DecideWrite, At, Acting, InBody, Exclusion, OwnerInv, erpVars
<1>2. approvals[byRun] = "pending" /\ runstate.step = "awaiting_approval"
  BY <1>1 DEF Owns, Undecided, Repointed, Pending
<1>3. "this_run" \notin ledger /\ payments = <<>> /\ profileRuns = 0
  BY <1>2 DEF OutcomeInv, EffectsAreApproved, Approved
<1>4. PICK m \in {"resuming", "recovering"} : Goto(r, m)
  BY <1>1
     DEF DecideWrite, Returns, OnThrow, BeforeClaim, InGate, InPayment, InCatch
<1>5. EffectsFollowActor'
  <2>1. m \notin Paid \cup Processed \cup Profiled
    BY DEF Paid, Processed, Profiled
  <2> QED
    BY <1>1, <1>3, <1>4, <2>1, ActorClaims
<1>6. SettledTruthfully' /\ EffectsAreApproved'
  BY <1>1, <1>2, <1>3 DEF SettledTruthfully, EffectsAreApproved
<1> QED
  BY <1>1, <1>5, <1>6 DEF OutcomeInv

\* A revision is filed for a rejected approval, which has no effects either.
LEMMA OutcomeRevise ==
  ASSUME TypeOK, Exclusion, OutcomeInv, NEW r \in Requests,
         CreateApproval(r) \/ PointRun(r)
  PROVE  OutcomeInv'
<1>1. /\ pc[r] \in {"requesting", "repointing"} /\ pc[r] \in Acting /\ Owns(r)
      /\ UNCHANGED <<runstate, ledger, payments, inbox, profileRuns>>
  BY DEF CreateApproval, PointRun, At, Acting, InBody, Exclusion, OwnerInv,
         erpVars
<1>2. /\ approvals[byRun] = "rejected" /\ runstate.step = "decided"
      /\ byRun \in ApprovalIds
  BY <1>1
     DEF Owns, Undecided, Repointed, Rejecting, Redrafted, Minted, StatusOf,
         TypeOK
<1>3. "this_run" \notin ledger /\ payments = <<>> /\ profileRuns = 0
  BY <1>2 DEF OutcomeInv, EffectsAreApproved, Approved
<1>4. PICK m \in {"repointing", "announcing", "recovering"} : Goto(r, m)
  BY <1>1
     DEF CreateApproval, PointRun, Returns, OnThrow, BeforeClaim, InGate,
         InPayment, InCatch
<1>5. EffectsFollowActor'
  <2>1. m \notin Paid \cup Processed \cup Profiled \cup Unprofiled
    BY DEF Paid, Processed, Profiled, Unprofiled, Recorded, InGate, InPayment
  <2> QED
    BY <1>1, <1>4, <2>1, ActorClaims
<1>6. SettledTruthfully' /\ EffectsAreApproved'
  BY <1>1, <1>2, <1>3 DEF SettledTruthfully, EffectsAreApproved
<1> QED
  BY <1>1, <1>5, <1>6 DEF OutcomeInv

\* What a transition persists is the copy of the acting request, moved on.
LEMMA OutcomePersist ==
  ASSUME TypeOK, Exclusion, OutcomeInv, NEW r \in Requests, pc[r] \in Acting,
         NEW to \in RunSteps, NEW m, Persist(r, to, m),
         UNCHANGED <<ledger, payments, inbox, profileRuns>>,
         m \notin EffectPlaces, OnThrow(r) \notin EffectPlaces,
         to = "executed" =>
           payments # <<>> /\ inbox = "processed" /\ profileRuns = 1,
         to = "held" => /\ approvals[byRun] = "rejected"
                        /\ runstate.revision = MAX_REVISIONS,
         to = "error" => approvals[byRun] \in Approved
  PROVE  OutcomeInv'
<1>1. /\ machine[r] = runstate /\ runstate \in RunRecords
      /\ UNCHANGED <<approvals, byRun>>
  BY DEF Persist, Exclusion, OwnerInv, Owns, TypeOK
<1>2. Goto(r, m) \/ Goto(r, OnThrow(r))
  BY DEF Persist, Returns
<1>3. EffectsFollowActor'
  BY <1>2, ActorClaims DEF EffectPlaces
<1>4. EffectsAreApproved'
  BY <1>1 DEF OutcomeInv, EffectsAreApproved
<1>5. CASE runstate' = runstate
  BY <1>1, <1>3, <1>4, <1>5 DEF OutcomeInv, SettledTruthfully
<1>6. CASE runstate' # runstate
  <2>1. /\ CanTransition(runstate, to)
        /\ runstate' = Transition(runstate, to)
    BY <1>1, <1>6 DEF Persist
  <2>2. runstate'.revision <= MAX_REVISIONS
    BY <1>1, <2>1, MaxRevisionsAssumption
       DEF CanTransition, Transition, OutcomeInv, RunRecords, Revises
  <2>3. runstate'.step = to
    BY <2>1 DEF Transition
  <2>4. to = "held" => runstate'.revision = MAX_REVISIONS
    BY <2>1 DEF Transition, Revises
  <2>5. to = "held" => "this_run" \notin ledger /\ payments = <<>>
    BY DEF OutcomeInv, EffectsAreApproved, Approved
  <2>6. SettledTruthfully'
    BY <1>1, <2>3, <2>4, <2>5 DEF SettledTruthfully
  <2> QED
    BY <1>3, <1>4, <2>2, <2>6 DEF OutcomeInv
<1> QED
  BY <1>5, <1>6

LEMMA OutcomeTransition ==
  ASSUME TypeOK, Exclusion, OutcomeInv, NEW r \in Requests,
         Redraft(r) \/ Park(r) \/ Hold(r) \/ Settle(r) \/ Err(r)
  PROVE  OutcomeInv'
<1>1. /\ pc[r] \in {"redrafting", "parking", "holding", "settling", "erring"}
      /\ pc[r] \in Acting /\ Owns(r) /\ r \in Procs
      /\ UNCHANGED <<ledger, payments, inbox, profileRuns>>
  BY DEF Redraft, Park, Hold, Settle, Err, At, Acting, InBody, Exclusion,
         OwnerInv, erpVars, Procs
<1>2. /\ {"noting", "ending", "shelving"} \cap EffectPlaces = {}
      /\ OnThrow(r) \notin EffectPlaces
  <2>1. OnThrow(r) = "recovering"
    BY <1>1 DEF OnThrow, BeforeClaim, InGate, InPayment, InCatch
  <2> QED
    BY <2>1
       DEF EffectPlaces, Paid, Processed, Unprofiled, Recorded, Profiled,
           InGate, InPayment
<1>3. /\ pc[r] = "holding" => approvals[byRun] = "rejected"
                              /\ runstate.revision = MAX_REVISIONS
      /\ pc[r] \in {"settling", "erring"} => approvals[byRun] \in Approved
  <2>1. CASE pc[r] = "holding"
    <3>1. /\ decision[r] = "reject" /\ byRun = target[r]
          /\ approvals[target[r]] = StatusOf(decision[r])
          /\ runstate.revision >= MAX_REVISIONS
      BY <1>1, <2>1 DEF Owns, Undecided, Repointed, Rejecting
    <3>2. runstate.revision \in Nat /\ runstate.revision <= MAX_REVISIONS
      BY DEF TypeOK, RunRecords, OutcomeInv
    <3> QED
      BY <2>1, <3>1, <3>2, MaxRevisionsAssumption DEF StatusOf
  <2>2. CASE pc[r] \in {"settling", "erring"}
    BY <2>2, ExecutesApproved DEF Executing
  <2> QED
    BY <1>1, <2>1, <2>2
<1>4. pc[r] = "settling" =>
        payments # <<>> /\ inbox = "processed" /\ profileRuns = 1
  BY DEF OutcomeInv, EffectsFollowActor, Paid, Processed, Profiled
<1>5. /\ Redraft(r) => Persist(r, "decided", "noting")
      /\ Park(r) => Persist(r, "awaiting_approval", "ending")
      /\ Hold(r) => Persist(r, "held", "shelving") /\ pc[r] = "holding"
      /\ Settle(r) => Persist(r, "executed", "ending") /\ pc[r] = "settling"
      /\ Err(r) => Persist(r, "error", "ending") /\ pc[r] = "erring"
  BY DEF Redraft, Park, Hold, Settle, Err, At
<1>6. {"decided", "awaiting_approval", "held", "executed", "error"}
        \subseteq RunSteps
  BY DEF RunSteps, TerminalSteps
<1> HIDE DEF EffectPlaces, OnThrow
<1>7. CASE Redraft(r) \/ Park(r)
  BY <1>1, <1>2, <1>5, <1>6, <1>7, OutcomePersist
<1>8. CASE Hold(r)
  BY <1>1, <1>2, <1>3, <1>5, <1>6, <1>8, OutcomePersist
<1>9. CASE Settle(r)
  BY <1>1, <1>2, <1>4, <1>5, <1>6, <1>9, OutcomePersist
<1>10. CASE Err(r)
  BY <1>1, <1>2, <1>3, <1>5, <1>6, <1>10, OutcomePersist
<1> QED
  BY <1>7, <1>8, <1>9, <1>10

\* The effects of an execution: each is one the approval stands for, and the
\* run is not settled yet.
LEMMA OutcomeEffect ==
  ASSUME TypeOK, Exclusion, OutcomeInv, NEW r \in Requests,
         \/ PostWrite(r) \/ PayWrite(r) \/ MarkProcessed(r) \/ WriteProfile(r)
  PROVE  OutcomeInv'
<1>1. /\ pc[r] \in {"post_writing", "pay_writing", "processing", "profiling"}
      /\ pc[r] \in Executing /\ pc[r] \in Acting
      /\ UNCHANGED <<runstate, approvals, byRun>>
  BY DEF PostWrite, PayWrite, MarkProcessed, WriteProfile, At, Executing,
         Acting, InGate, InPayment, InBody, runVars
<1>2. /\ approvals[byRun] \in Approved
      /\ runstate.step = "awaiting_approval"
  BY <1>1, ExecutesApproved
<1>3. SettledTruthfully' /\ EffectsAreApproved'
  BY <1>1, <1>2 DEF SettledTruthfully, EffectsAreApproved
<1>4. /\ pc[r] \in Paid => payments # <<>>
      /\ pc[r] \in Processed => inbox = "processed"
      /\ pc[r] \in Unprofiled => profileRuns = 0
  BY DEF OutcomeInv, EffectsFollowActor
<1>5. EffectsFollowActor'
  <2>1. CASE Goto(r, OnThrow(r))
    <3>1. /\ OnThrow(r) \notin Paid \cup Processed \cup Profiled
          /\ OnThrow(r) \in Unprofiled => pc[r] \in Unprofiled \ {"profiling"}
      BY <1>1
         DEF OnThrow, BeforeClaim, InGate, InPayment, InCatch, Paid,
             Processed, Profiled, Unprofiled, Recorded
    <3>2. OnThrow(r) \in Unprofiled => profileRuns' = 0
      BY <1>1, <1>4, <3>1
         DEF PostWrite, PayWrite, MarkProcessed, WriteProfile, At
    <3> QED
      BY <1>1, <2>1, <3>1, <3>2, ActorClaims
  <2>2. CASE PostWrite(r) /\ Goto(r, "post_tracing")
    <3>1. pc[r] \in Unprofiled /\ profileRuns' = profileRuns
      BY <2>2 DEF PostWrite, At, Unprofiled, InGate
    <3>2. "post_tracing" \notin Paid \cup Processed \cup Profiled
      BY DEF Paid, Processed, Profiled
    <3> QED
      BY <1>1, <1>4, <2>2, <3>1, <3>2, ActorClaims
  <2>3. CASE PayWrite(r) /\ Goto(r, "processing")
    <3>1. pc[r] \in Unprofiled /\ profileRuns' = profileRuns
      BY <2>3 DEF PayWrite, At, Unprofiled, InPayment
    <3>2. "processing" \notin Processed \cup Profiled
      BY DEF Processed, Profiled
    <3>3. payments' # <<>>
      <4>1. paymentCopy[r] \in Seq([edited : BOOLEAN])
        BY DEF TypeOK, PaymentTables, Procs
      <4> QED
        BY <2>3, <4>1 DEF PayWrite
    <3> QED
      BY <1>1, <1>4, <2>3, <3>1, <3>2, <3>3, ActorClaims
  <2>4. CASE MarkProcessed(r) /\ Goto(r, "pay_tracing")
    <3>1. /\ pc[r] \in Unprofiled /\ pc[r] \in Paid
          /\ UNCHANGED <<payments, profileRuns>> /\ inbox' = "processed"
      BY <2>4 DEF MarkProcessed, SetInbox, At, Unprofiled, InGate, Paid
    <3>2. "pay_tracing" \notin Profiled
      BY DEF Profiled
    <3> QED
      BY <1>1, <1>4, <2>4, <3>1, <3>2, ActorClaims
  <2>5. CASE WriteProfile(r) /\ Goto(r, "profile_tracing")
    <3>1. /\ pc[r] \in Unprofiled /\ pc[r] \in Paid /\ pc[r] \in Processed
          /\ UNCHANGED <<payments, inbox>> /\ profileRuns' = profileRuns + 1
      BY <2>5 DEF WriteProfile, At, Unprofiled, Paid, Processed
    <3>2. "profile_tracing" \notin Unprofiled
      BY DEF Unprofiled, Recorded, InGate, InPayment
    <3>3. payments' # <<>> /\ inbox' = "processed" /\ profileRuns' = 1
      BY <1>4, <3>1
    <3> QED
      BY <1>1, <2>5, <3>2, <3>3, ActorClaims
  <2> QED
    BY <2>1, <2>2, <2>3, <2>4, <2>5
       DEF PostWrite, PayWrite, MarkProcessed, WriteProfile, Returns
<1> QED
  BY <1>1, <1>3, <1>5 DEF OutcomeInv

\* The inbox item of a run that is held: it was not executed.
LEMMA OutcomeShelve ==
  ASSUME TypeOK, Exclusion, OutcomeInv, NEW r \in Requests, Shelve(r)
  PROVE  OutcomeInv'
<1>1. /\ pc[r] = "shelving" /\ pc[r] \in Acting /\ Owns(r)
      /\ UNCHANGED <<runstate, approvals, byRun, ledger, payments,
                     profileRuns>>
  BY DEF Shelve, At, Acting, InBody, Exclusion, OwnerInv, runVars
<1>2. PICK m \in {"ending", "recovering"} : Goto(r, m)
  BY <1>1
     DEF Shelve, Returns, OnThrow, BeforeClaim, InGate, InPayment, InCatch
<1>3. m \notin EffectPlaces
  BY DEF EffectPlaces, Paid, Processed, Profiled, Unprofiled, Recorded,
         InGate, InPayment
<1>4. EffectsFollowActor'
  BY <1>1, <1>2, <1>3, ActorClaims DEF EffectPlaces
<1>5. runstate.step = "held"
  BY <1>1 DEF Owns
<1>6. SettledTruthfully' /\ EffectsAreApproved'
  BY <1>1, <1>5 DEF OutcomeInv, SettledTruthfully, EffectsAreApproved
<1> QED
  BY <1>1, <1>4, <1>6 DEF OutcomeInv

LEMMA InitOutcome == ASSUME Init PROVE OutcomeInv
<1>1. \A r \in Requests : pc[r] = "idle"
  BY ResumeAssumption DEF Init, Procs
<1>2. "idle" \notin EffectPlaces
  BY DEF EffectPlaces, Paid, Processed, Profiled, Unprofiled, Recorded,
         InGate, InPayment
<1>3. EffectsFollowActor
  BY <1>1, <1>2 DEF EffectPlaces, EffectsFollowActor
<1>4. EffectsAreApproved /\ SettledTruthfully
  BY DEF Init, EffectsAreApproved, SettledTruthfully
<1>5. runstate.revision <= MAX_REVISIONS
  BY MaxRevisionsAssumption DEF Init
<1> QED
  BY <1>3, <1>4, <1>5 DEF OutcomeInv

LEMMA NextOutcome ==
  ASSUME TypeOK, Exclusion, OutcomeInv, [Next]_vars
  PROVE  OutcomeInv'
<1>1. CASE SetToggle \/ UNCHANGED vars
  BY <1>1
     DEF SetToggle, vars, runVars, erpVars, OutcomeInv, EffectsAreApproved,
         EffectsFollowActor, SettledTruthfully
<1>2. ASSUME NEW p \in Procs, Report(p) PROVE OutcomeInv'
  <2>1. CASE p \in Requests
    BY <1>2, <2>1, OutcomeQuiet DEF Report
  <2>2. CASE p \notin Requests
    <3>1. /\ UNCHANGED <<runstate, approvals, byRun, ledger, payments, inbox,
                         profileRuns>>
          /\ \A s \in Requests : pc'[s] = pc[s]
      BY <1>2, <2>2
         DEF Report, Announce, EndTrace, Summarise, Returns, Goto, TypeOK,
             Procs, runVars, erpVars
    <3> QED
      BY <3>1
         DEF OutcomeInv, EffectsAreApproved, EffectsFollowActor,
             SettledTruthfully
  <2> QED
    BY <2>1, <2>2
<1>3. ASSUME NEW r \in Requests, Throw(r) PROVE OutcomeInv'
  BY <1>3, OutcomeThrow DEF Throw, runVars, erpVars
<1>4. ASSUME NEW r \in Requests, Crash(r) PROVE OutcomeInv'
  <2>1. "crashed" \notin EffectPlaces
    BY DEF EffectPlaces, Paid, Processed, Profiled, Unprofiled, Recorded,
           InGate, InPayment
  <2> QED
    BY <1>4, <2>1, OutcomeMove DEF Crash, EffectPlaces, runVars, erpVars
<1>5. ASSUME NEW r \in Requests, Receive(r) \/ Call(r) PROVE OutcomeInv'
  BY <1>5, OutcomeQuiet, OutcomeDecide, OutcomeRevise, OutcomeTransition,
     OutcomeEffect, OutcomeShelve DEF Call
<1> QED
  BY <1>1, <1>2, <1>3, <1>4, <1>5 DEF Next

\* For any number of requests, approvals and revisions and under every kind of
\* store fault: the step a run is left at tells what happened to it.
THEOREM SettlesTruthfully == Spec => []SettledTruthfully
<1>1. Init => OutcomeInv
  BY InitOutcome
<1>2. TypeOK /\ Exclusion /\ OutcomeInv /\ [Next]_vars => OutcomeInv'
  BY NextOutcome
<1>3. OutcomeInv => SettledTruthfully
  BY DEF OutcomeInv
<1> QED
  BY <1>1, <1>2, <1>3, TypeCorrect, ExclusionHolds, PTL DEF Spec

-----------------------------------------------------------------------------
(* The audit trail, whatever store call fails.                             *)

\* An event is at most one step of the trail of an approval.
LEMMA StepsDiffer ==
  ASSUME NEW e, NEW a, NEW i \in 1..4, NEW j \in 1..4,
         IsStep(e, a, i), IsStep(e, a, j)
  PROVE  i = j
<1>1. /\ AuditTypes[1] = "approval.decided" /\ AuditTypes[2] = "backend.write"
      /\ AuditTypes[3] = "backend.write" /\ AuditTypes[4] = "memory.write"
      /\ AuditRefs(a)[2] = "ledger" /\ AuditRefs(a)[3] = "payment_schedule"
  BY DEF AuditTypes, AuditRefs
<1>2. i \in {1, 2, 3, 4} /\ j \in {1, 2, 3, 4}
  OBVIOUS
<1> QED
  BY <1>1, <1>2 DEF IsStep

\* What an event appended to a trace marks.
LEMMA MarksAppend ==
  ASSUME NEW tr \in Seq(Events), NEW e \in Events, NEW a, NEW k \in 1..4
  PROVE  /\ IsStep(e, a, k) =>
              Marks(Append(tr, e), a, k) = Marks(tr, a, k) \cup {Len(tr) + 1}
         /\ ~IsStep(e, a, k) => Marks(Append(tr, e), a, k) = Marks(tr, a, k)
<1>1. /\ DOMAIN tr = 1..Len(tr) /\ Len(tr) \in Nat
      /\ DOMAIN Append(tr, e) = 1..(Len(tr) + 1)
      /\ Append(tr, e)[Len(tr) + 1] = e
      /\ \A i \in 1..Len(tr) : Append(tr, e)[i] = tr[i]
  OBVIOUS
<1>2. \A i \in 1..(Len(tr) + 1) : i = Len(tr) + 1 \/ i \in 1..Len(tr)
  BY <1>1
<1> HIDE DEF IsStep
<1> QED
  BY <1>1, <1>2 DEF Marks

\* Only the marks matter to whether a trail is complete.
LEMMA AuditedSame ==
  ASSUME NEW tr, NEW new, NEW a, NEW k \in 0..4, Audited(tr, a, k),
         DOMAIN tr \subseteq DOMAIN new,
         \A j \in 1..4 : Marks(new, a, j) = Marks(tr, a, j)
  PROVE  Audited(new, a, k)
<1>1. \A j \in 1..k : \E i \in DOMAIN new : Marks(new, a, j) = {i}
  BY DEF Audited
<1>2. \A j \in 1..(k - 1) :
        \A x \in Marks(new, a, j), y \in Marks(new, a, j + 1) : x < y
  BY DEF Audited
<1>3. \A j \in (k + 1)..4 : Marks(new, a, j) = {}
  BY DEF Audited
<1> QED
  BY <1>1, <1>2, <1>3 DEF Audited

\* An event that is no step of a trail leaves it where it was.
LEMMA AuditedIgnores ==
  ASSUME NEW tr \in Seq(Events), NEW e \in Events, NEW a, NEW k \in 0..4,
         Audited(tr, a, k), \A j \in 1..4 : ~IsStep(e, a, j)
  PROVE  Audited(Append(tr, e), a, k)
<1>1. \A j \in 1..4 : Marks(Append(tr, e), a, j) = Marks(tr, a, j)
  BY MarksAppend
<1>2. DOMAIN tr \subseteq DOMAIN Append(tr, e)
  OBVIOUS
<1> QED
  BY <1>1, <1>2, AuditedSame

\* The next step of a trail, traced after the ones before it.
LEMMA AuditedNext ==
  ASSUME NEW tr \in Seq(Events), NEW e \in Events, NEW a, NEW k \in 0..3,
         Audited(tr, a, k), IsStep(e, a, k + 1)
  PROVE  Audited(Append(tr, e), a, k + 1)
<1> DEFINE new == Append(tr, e)
<1>1. \A j \in 1..4 : j # k + 1 => Marks(new, a, j) = Marks(tr, a, j)
  BY MarksAppend, StepsDiffer
<1>2. Marks(new, a, k + 1) = {Len(tr) + 1}
  <2>1. Marks(tr, a, k + 1) = {}
    BY DEF Audited
  <2> QED
    BY <2>1, MarksAppend
<1>3. /\ DOMAIN tr \subseteq DOMAIN new /\ Len(tr) + 1 \in DOMAIN new
      /\ \A j, x : x \in Marks(tr, a, j) => x \in Nat /\ x < Len(tr) + 1
  BY DEF Marks
<1> HIDE DEF new
<1>4. ASSUME NEW j \in 1..(k + 1)
      PROVE  \E i \in DOMAIN new : Marks(new, a, j) = {i}
  <2>1. CASE j = k + 1
    BY <1>2, <1>3, <2>1
  <2>2. CASE j # k + 1
    <3>1. j \in 1..k /\ Marks(new, a, j) = Marks(tr, a, j)
      BY <1>1, <2>2
    <3>2. \E i \in DOMAIN tr : Marks(tr, a, j) = {i}
      BY <3>1 DEF Audited
    <3> QED
      BY <1>3, <3>1, <3>2
  <2> QED
    BY <2>1, <2>2
<1>5. ASSUME NEW j \in 1..k, NEW x \in Marks(new, a, j),
             NEW y \in Marks(new, a, j + 1)
      PROVE  x < y
  <2>1. x \in Marks(tr, a, j)
    BY <1>1
  <2>2. CASE j = k
    BY <1>2, <1>3, <2>1, <2>2
  <2>3. CASE j # k
    BY <1>1, <2>1, <2>3 DEF Audited
  <2> QED
    BY <2>2, <2>3
<1>6. \A j \in (k + 2)..4 : Marks(new, a, j) = {}
  BY <1>1 DEF Audited
<1> QED
  BY <1>4, <1>5, <1>6 DEF Audited, new

\* A whole trail, in the words of the property.
LEMMA AuditedMeans ==
  ASSUME Audited(trace, byRun, 4)
  PROVE  /\ \A k \in 1..4 : \E i \in DOMAIN trace : AuditTrail[k] = {i}
         /\ \A k \in 1..3 :
              \A i \in AuditTrail[k], j \in AuditTrail[k + 1] : i < j
<1>1. \A k \in 1..4 : AuditTrail[k] = Marks(trace, byRun, k)
  <2>1. AuditTrail[1] = Marks(trace, byRun, 1)
    BY DEF AuditTrail, Marks, IsStep, Traced, AuditTypes, AuditRefs
  <2>2. AuditTrail[2] = Marks(trace, byRun, 2)
    BY DEF AuditTrail, Marks, IsStep, Traced, AuditTypes, AuditRefs
  <2>3. AuditTrail[3] = Marks(trace, byRun, 3)
    BY DEF AuditTrail, Marks, IsStep, Traced, AuditTypes, AuditRefs
  <2>4. AuditTrail[4] = Marks(trace, byRun, 4)
    BY DEF AuditTrail, Marks, IsStep, Traced, AuditTypes, AuditRefs
  <2> QED
    BY <2>1, <2>2, <2>3, <2>4
<1>2. \A k \in 1..4 : \E i \in DOMAIN trace : Marks(trace, byRun, k) = {i}
  BY DEF Audited
<1>3. \A k \in 1..3 : \A i \in Marks(trace, byRun, k),
                         j \in Marks(trace, byRun, k + 1) : i < j
  BY DEF Audited
<1>4. \A k \in 1..3 : k \in 1..4 /\ k + 1 \in 1..4
  OBVIOUS
<1> QED
  BY <1>1, <1>2, <1>3, <1>4

\* The writes of an execution are the same steps of every approval's trail.
LEMMA WritesOfAll ==
  ASSUME NEW tr, NEW a, NEW b, NEW k \in 2..4
  PROVE  Marks(tr, a, k) = Marks(tr, b, k)
<1>1. AuditRefs(a)[k] = AuditRefs(b)[k]
  BY k \in {2, 3, 4} DEF AuditRefs
<1> QED
  BY <1>1 DEF Marks, IsStep

-----------------------------------------------------------------------------
(* Steps that are no step of a trail.                                      *)

SameMarks ==
  /\ DOMAIN trace \subseteq DOMAIN trace'
  /\ \A a : \A k \in 1..4 : Marks(trace', a, k) = Marks(trace, a, k)

Unaudited == EventTypes \ {"approval.decided", "backend.write", "memory.write"}

LEMMA AppendedEvent ==
  ASSUME TypeOK, NEW p \in Procs, NEW type \in EventTypes, NEW ref \in Refs,
         Append1(p, type, ref)
  PROVE  \E e \in Events :
           e.type = type /\ e.ref = ref /\ trace' = Append(trace, e)
<1>1. [seq |-> seq[p], type |-> type, ref |-> ref] \in Events
  BY DEF TypeOK, Events
<1> QED
  BY <1>1 DEF Append1

LEMMA UnauditedMarks ==
  ASSUME TypeOK, NEW p \in Procs, NEW type \in Unaudited, NEW ref \in Refs,
         Append1(p, type, ref)
  PROVE  SameMarks
<1>1. PICK e \in Events : e.type = type /\ trace' = Append(trace, e)
  BY AppendedEvent DEF Unaudited
<1>2. \A a : \A k \in 1..4 : ~IsStep(e, a, k)
  <2>1. \A k \in {1, 2, 3, 4} : AuditTypes[k] # type
    BY DEF AuditTypes, Unaudited
  <2>2. \A k \in 1..4 : k \in {1, 2, 3, 4}
    OBVIOUS
  <2> QED
    BY <1>1, <2>1, <2>2 DEF IsStep
<1>3. trace \in Seq(Events)
  BY DEF TypeOK
<1>4. DOMAIN trace \subseteq DOMAIN trace'
  BY <1>1, <1>3
<1> QED
  BY <1>1, <1>2, <1>3, <1>4, MarksAppend DEF SameMarks

\* A request moves and no step of a trail is traced: it may only go on to a
\* place at which as much has been traced as at the one it comes from.
LEMMA AuditMove ==
  ASSUME TypeOK, AuditInv, NEW r \in Requests, NEW m, Goto(r, m), SameMarks,
         UNCHANGED <<runstate, approvals, byRun>>,
         m \in Recorded => pc[r] \in Recorded,
         m \in Gated => pc[r] \in Gated,
         m \in Posted => pc[r] \in Posted,
         m \in {"profile_tracing", "profile_recording"} =>
           pc[r] \in {"profiling", "profile_tracing"},
         m \notin {"profiling", "settling"}
  PROVE  AuditInv'
<1>1. pc'[r] = m /\ \A s \in Requests \ {r} : pc'[s] = pc[s]
  BY DEF Goto, TypeOK, Procs
<1>2. \A k \in 0..4 : Audited(trace, byRun, k) => Audited(trace, byRun, k)'
  BY AuditedSame DEF SameMarks
<1>3. UndecidedIsUntraced' /\ WritesAreApproved'
  BY DEF AuditInv, UndecidedIsUntraced, WritesAreApproved, SameMarks
<1>4. TrailFollowsActor'
  BY <1>1, <1>2 DEF AuditInv, TrailFollowsActor
<1> QED
  BY <1>2, <1>3, <1>4 DEF AuditInv

\* A throw leads off the trail, or to another try of the payment.
LEMMA AuditThrow ==
  ASSUME TypeOK, AuditInv, NEW r \in Requests, pc[r] \in Working,
         Goto(r, OnThrow(r)), SameMarks,
         UNCHANGED <<runstate, approvals, byRun>>
  PROVE  AuditInv'
<1>1. /\ OnThrow(r) \in {"retrying", "giving_up", "failing", "refused",
                         "failed", "recovering"}
      /\ OnThrow(r) \in {"retrying", "giving_up"} => pc[r] \in InPayment
  BY DEF OnThrow, Working, BeforeClaim, InGate, InPayment, InCatch, InBody
<1> HIDE DEF OnThrow
<1>2. /\ OnThrow(r) \notin Recorded \cup Gated
      /\ OnThrow(r) \in Posted => pc[r] \in Posted
  BY <1>1 DEF Recorded, Gated, Posted, InPayment
<1> QED
  BY <1>1, <1>2, AuditMove

\* The calls that trace nothing, or an event that is no step of a trail.
LEMMA AuditQuiet ==
  ASSUME TypeOK, AuditInv, NEW r \in Requests,
         \/ Receive(r) \/ LoadRun(r) \/ ReadPointer(r) \/ CheckApproval(r)
         \/ Claim(r) \/ DecideRead(r) \/ ResumeTrace(r)
         \/ NoteRedraft(r) \/ SaveDisposition(r) \/ Announce(r) \/ Shelve(r)
         \/ GateCheck(r) \/ PostRead(r) \/ PostWrite(r) \/ PayToggle(r)
         \/ FireToggle(r) \/ PayRead(r) \/ PayWrite(r) \/ Retry(r)
         \/ GiveUp(r) \/ MarkProcessed(r) \/ WriteProfile(r)
         \/ TraceProfile(r) /\ At(r, "profile_tracing")
         \/ TraceFailure(r) \/ EndTrace(r) \/ Summarise(r) \/ Recheck(r)
         \/ Release(r)
  PROVE  AuditInv'
<1>0. r \in Procs /\ r # FirstPass
  BY ResumeAssumption DEF Procs
<1>1. UNCHANGED <<runstate, approvals, byRun>>
  BY DEF Receive, LoadRun, ReadPointer, CheckApproval, Claim, DecideRead,
         ResumeTrace, NoteRedraft, SaveDisposition, Announce, Shelve,
         GateCheck, PostRead, PostWrite, PayToggle, FireToggle, PayRead,
         PayWrite, Retry, GiveUp, MarkProcessed, WriteProfile, TraceProfile,
         TraceFailure, EndTrace, Summarise, Recheck, Release, runVars
<1>2. SameMarks
  <2>1. CASE UNCHANGED trace
    BY <2>1 DEF SameMarks
  <2>2. CASE trace' # trace
    <3>1. \E type \in Unaudited, ref \in Refs : Append1(r, type, ref)
      <4>1. CASE \/ NoteRedraft(r) \/ Retry(r) \/ GiveUp(r)
                 \/ TraceFailure(r)
                 \/ TraceProfile(r) /\ At(r, "profile_tracing")
        BY <4>1
           DEF NoteRedraft, Retry, GiveUp, TraceFailure, TraceProfile, At,
               Unaudited, EventTypes, Refs
      <4>2. CASE Announce(r)
        BY <1>0, <4>2 DEF Announce, Unaudited, EventTypes, Refs, TypeOK
      <4>3. CASE EndTrace(r)
        BY <1>0, <4>3
           DEF EndTrace, Unaudited, EventTypes, Refs, TypeOK, RunRecords
      <4> QED
        BY <2>2, <4>1, <4>2, <4>3
           DEF Receive, LoadRun, ReadPointer, CheckApproval, Claim,
               DecideRead, ResumeTrace, SaveDisposition, Shelve, GateCheck,
               PostRead, PostWrite, PayToggle, FireToggle, PayRead, PayWrite,
               MarkProcessed, WriteProfile, Summarise, Recheck, Release,
               auditVars
    <3> QED
      BY <1>0, <3>1, UnauditedMarks
  <2> QED
    BY <2>1, <2>2
<1>3. \/ pc[r] \in Working /\ Goto(r, OnThrow(r))
      \/ \E m : /\ Goto(r, m)
                /\ m \in Recorded => pc[r] \in Recorded
                /\ m \in Gated => pc[r] \in Gated
                /\ m \in Posted => pc[r] \in Posted
                /\ m \in {"profile_tracing", "profile_recording"} =>
                     pc[r] \in {"profiling", "profile_tracing"}
                /\ m \notin {"profiling", "settling"}
  <2>1. CASE \/ Receive(r) \/ LoadRun(r) \/ ReadPointer(r)
             \/ CheckApproval(r) \/ Claim(r) \/ DecideRead(r)
    BY <2>1
       DEF Receive, LoadRun, ReadPointer, CheckApproval, Claim, DecideRead,
           Returns, At, Working, BeforeClaim, InGate, InPayment, InCatch,
           InBody, Recorded, Gated, Posted
  <2>2. CASE \/ ResumeTrace(r) \/ NoteRedraft(r) \/ SaveDisposition(r)
             \/ Announce(r) \/ Shelve(r) \/ GateCheck(r)
    BY <1>0, <2>2
       DEF ResumeTrace, NoteRedraft, SaveDisposition, Announce, Shelve,
           GateCheck, Returns, At, Working, BeforeClaim, InGate, InPayment,
           InCatch, InBody, Recorded, Gated, Posted
  <2>3. CASE \/ PostRead(r) \/ PostWrite(r) \/ PayToggle(r) \/ FireToggle(r)
             \/ PayRead(r) \/ PayWrite(r) \/ Retry(r)
    BY <2>3
       DEF PostRead, PostWrite, PayToggle, FireToggle, PayRead, PayWrite,
           Retry, Returns, At, Working, BeforeClaim, InGate, InPayment,
           InCatch, InBody, Recorded, Gated, Posted
  <2>4. CASE \/ GiveUp(r) \/ MarkProcessed(r) \/ WriteProfile(r)
             \/ TraceProfile(r) /\ At(r, "profile_tracing")
    BY <2>4
       DEF GiveUp, MarkProcessed, WriteProfile, TraceProfile, Returns, At,
           Working, BeforeClaim, InGate, InPayment, InCatch, InBody,
           Recorded, Gated, Posted
  <2>5. CASE \/ TraceFailure(r) \/ EndTrace(r) \/ Summarise(r) \/ Recheck(r)
             \/ Release(r)
    BY <2>5
       DEF TraceFailure, EndTrace, Summarise, Recheck, Release, Returns, At,
           Working, BeforeClaim, InGate, InPayment, InCatch, InBody,
           Recorded, Gated, Posted
  <2> QED
    BY <2>1, <2>2, <2>3, <2>4, <2>5
<1> QED
  BY <1>1, <1>2, <1>3, AuditMove, AuditThrow

-----------------------------------------------------------------------------
(* Steps of a trail, and steps that decide or move the pointer.            *)

TrailPlaces ==
  Recorded \cup Gated \cup Posted
    \cup {"profiling", "profile_tracing", "profile_recording", "settling"}

\* The acting request moves: nobody else is on the trail.
LEMMA ActorTrail ==
  ASSUME TypeOK, Exclusion, NEW r \in Requests, pc[r] \in Acting,
         NEW m, Goto(r, m),
         m \in Recorded => Audited(trace, byRun, 0)',
         m \in Gated => Audited(trace, byRun, 1)',
         m \in Posted => Audited(trace, byRun, 2)',
         m \in {"profiling", "profile_tracing", "profile_recording"} =>
           Audited(trace, byRun, 3)',
         m = "settling" => Audited(trace, byRun, 4)'
  PROVE  TrailFollowsActor'
<1>1. pc'[r] = m /\ \A s \in Requests \ {r} : pc'[s] = pc[s]
  BY DEF Goto, TypeOK, Procs
<1>2. TrailPlaces \subseteq Acting
  BY DEF TrailPlaces, Recorded, Gated, Posted, Acting, InGate, InPayment,
         InBody
<1>3. \A s \in Requests \ {r} : pc'[s] \notin TrailPlaces
  BY <1>1, <1>2 DEF Exclusion, OneActor
<1> QED
  BY <1>1, <1>3 DEF TrailPlaces, TrailFollowsActor

\* The acting request traces the next step of the trail of its approval.
LEMMA TrailStep ==
  ASSUME TypeOK, Exclusion, AuditInv, NEW r \in Requests, pc[r] \in Acting,
         UNCHANGED <<runstate, approvals, byRun>>,
         approvals[byRun] \in Decided, runstate.step # "executed",
         NEW k \in 0..3, Audited(trace, byRun, k),
         k > 0 => approvals[byRun] \in Approved,
         NEW type \in EventTypes, NEW ref \in Refs, Append1(r, type, ref),
         type = AuditTypes[k + 1], ref = AuditRefs(byRun)[k + 1],
         NEW m, Goto(r, m),
         m \notin Recorded,
         m \in Gated => k = 0,
         m \in Posted => k = 1,
         m \in {"profiling", "profile_tracing", "profile_recording"} => k = 2,
         m = "settling" => k = 3
  PROVE  AuditInv'
<1>1. PICK e \in Events : IsStep(e, byRun, k + 1) /\ trace' = Append(trace, e)
  <2>1. r \in Procs
    BY DEF Procs
  <2>2. PICK e \in Events :
          e.type = type /\ e.ref = ref /\ trace' = Append(trace, e)
    BY <2>1, AppendedEvent
  <2> QED
    BY <2>2 DEF IsStep
<1>2. Audited(trace', byRun, k + 1)
  <2>1. trace \in Seq(Events)
    BY DEF TypeOK
  <2> QED
    BY <1>1, <2>1, AuditedNext
<1>3. TrailFollowsActor'
  <2>1. Audited(trace', byRun', k + 1)
    BY <1>2
  <2>2. /\ m \in Gated => Audited(trace', byRun', 1)
        /\ m \in Posted => Audited(trace', byRun', 2)
        /\ m \in {"profiling", "profile_tracing", "profile_recording"} =>
             Audited(trace', byRun', 3)
        /\ m = "settling" => Audited(trace', byRun', 4)
    BY <2>1
  <2> QED
    BY <2>2, ActorTrail
<1>4. UndecidedIsUntraced'
  <2> SUFFICES ASSUME NEW a \in ApprovalIds, approvals[a] \notin Decided
               PROVE  Marks(trace', a, 1) = {}
    BY DEF UndecidedIsUntraced
  <2>1. ~IsStep(e, a, 1)
    <3>1. AuditTypes[1] = "approval.decided" /\ AuditRefs(a)[1] = a
          /\ AuditRefs(byRun)[1] = byRun
      BY DEF AuditTypes, AuditRefs
    <3>2. \A j \in {2, 3, 4} : AuditTypes[j] # "approval.decided"
      BY DEF AuditTypes
    <3>3. k = 0 \/ k + 1 \in {2, 3, 4}
      OBVIOUS
    <3> QED
      BY <1>1, <3>1, <3>2, <3>3 DEF IsStep
  <2>2. Marks(trace, a, 1) = {} /\ trace \in Seq(Events)
    BY DEF AuditInv, UndecidedIsUntraced, TypeOK
  <2> QED
    BY <1>1, <2>1, <2>2, MarksAppend
<1>5. WritesAreApproved'
  <2>1. CASE k > 0
    BY <2>1 DEF WritesAreApproved
  <2>2. CASE k = 0
    <3>1. \A j \in 2..4 : ~IsStep(e, byRun, j)
      BY <1>1, <2>2, StepsDiffer
    <3>2. trace \in Seq(Events)
      BY DEF TypeOK
    <3>3. \A j \in 2..4 : Marks(trace', byRun, j) = Marks(trace, byRun, j)
      BY <1>1, <3>1, <3>2, MarksAppend
    <3> QED
      BY <3>3 DEF AuditInv, WritesAreApproved
  <2> QED
    BY <2>1, <2>2
<1> QED
  BY <1>3, <1>4, <1>5 DEF AuditInv

\* The four calls that trace a step of the trail.
LEMMA AuditTraces ==
  ASSUME TypeOK, Exclusion, AuditInv, NEW r \in Requests,
         \/ RecordDecision(r) \/ TracePost(r) \/ TracePayment(r)
         \/ TraceProfile(r) /\ At(r, "profile_recording")
  PROVE  AuditInv'
<1>1. /\ pc[r] \in {"recording", "post_tracing", "pay_tracing",
                    "profile_recording"}
      /\ pc[r] \in Acting /\ Owns(r) /\ target[r] \in ApprovalIds
      /\ UNCHANGED <<runstate, approvals, byRun>>
  BY DEF RecordDecision, TracePost, TracePayment, TraceProfile, At, Acting,
         InGate, InBody, Exclusion, OwnerInv, runVars, TypeOK, Procs
<1>2. /\ runstate.step = "awaiting_approval" /\ byRun = target[r]
      /\ approvals[byRun] = StatusOf(decision[r])
  BY <1>1
     DEF Owns, Undecided, Recorded, Repointed, Executing, InGate
<1>3. approvals[byRun] \in Decided
  <2>1. decision[r] \in Decisions
    BY DEF TypeOK, Procs
  <2> QED
    BY <1>2, <2>1 DEF StatusOf, Decided, Approved
<1>4. pc[r] # "recording" => approvals[byRun] \in Approved
  BY <1>1, ExecutesApproved DEF Executing, InGate
<1>5. /\ AuditTypes[1] = "approval.decided" /\ AuditTypes[2] = "backend.write"
      /\ AuditTypes[3] = "backend.write" /\ AuditTypes[4] = "memory.write"
      /\ AuditRefs(byRun)[1] = byRun /\ AuditRefs(byRun)[2] = "ledger"
      /\ AuditRefs(byRun)[3] = "payment_schedule"
      /\ AuditRefs(byRun)[4] = "vendor_profiles"
  BY DEF AuditTypes, AuditRefs
<1>6. /\ {"approval.decided", "backend.write", "memory.write"}
           \subseteq EventTypes
      /\ byRun \in Refs
      /\ {"ledger", "payment_schedule", "vendor_profiles"} \subseteq Refs
  BY <1>1, <1>2 DEF EventTypes, Refs, Tables
<1>7. CASE RecordDecision(r)
  <2>1. PICK m \in {"gating", "redrafting", "holding", "recovering"} :
          Goto(r, m)
    BY <1>7
       DEF RecordDecision, At, Returns, OnThrow, BeforeClaim, InGate,
           InPayment, InCatch
  <2>2. m \notin Recorded \cup Posted
    BY DEF Recorded, Posted, InPayment
  <2>3. Audited(trace, byRun, 0) /\ Append1(r, "approval.decided", byRun)
    BY <1>2, <1>7
       DEF RecordDecision, At, AuditInv, TrailFollowsActor, Recorded
  <2> QED
    BY <1>1, <1>2, <1>3, <1>5, <1>6, <2>1, <2>2, <2>3, TrailStep
<1>8. CASE TracePost(r)
  <2>1. PICK m \in {"paying", "failing"} : Goto(r, m)
    BY <1>8
       DEF TracePost, At, Returns, OnThrow, BeforeClaim, InGate, InPayment
  <2>2. m \notin Recorded \cup Gated
    BY DEF Recorded, Gated
  <2>3. /\ Audited(trace, byRun, 1) /\ Append1(r, "backend.write", "ledger")
        /\ pc[r] # "recording"
    BY <1>8 DEF TracePost, At, AuditInv, TrailFollowsActor, Gated
  <2> QED
    BY <1>1, <1>2, <1>3, <1>4, <1>5, <1>6, <2>1, <2>2, <2>3, TrailStep
<1>9. CASE TracePayment(r)
  <2>1. PICK m \in {"profiling", "failing"} : Goto(r, m)
    BY <1>9
       DEF TracePayment, At, Returns, OnThrow, BeforeClaim, InGate, InPayment
  <2>2. m \notin Recorded \cup Gated \cup Posted
    BY DEF Recorded, Gated, Posted, InPayment
  <2>3. /\ Audited(trace, byRun, 2) /\ pc[r] # "recording"
        /\ Append1(r, "backend.write", "payment_schedule")
    BY <1>9 DEF TracePayment, At, AuditInv, TrailFollowsActor, Posted
  <2> QED
    BY <1>1, <1>2, <1>3, <1>4, <1>5, <1>6, <2>1, <2>2, <2>3, TrailStep
<1>10. CASE TraceProfile(r) /\ At(r, "profile_recording")
  <2>1. PICK m \in {"settling", "recovering"} : Goto(r, m)
    BY <1>10
       DEF TraceProfile, At, Returns, OnThrow, BeforeClaim, InGate, InPayment,
           InCatch
  <2>2. m \notin Recorded \cup Gated \cup Posted
    BY DEF Recorded, Gated, Posted, InPayment
  <2>3. /\ Audited(trace, byRun, 3) /\ pc[r] = "profile_recording"
        /\ Append1(r, "memory.write", "vendor_profiles")
    BY <1>10 DEF TraceProfile, At, AuditInv, TrailFollowsActor
  <2>4. approvals[byRun] \in Approved
    BY <2>3, ExecutesApproved DEF Executing
  <2> QED
    BY <1>1, <1>2, <1>3, <1>5, <1>6, <2>1, <2>2, <2>3, <2>4, TrailStep
<1> QED
  BY <1>7, <1>8, <1>9, <1>10

\* Nothing of its trail precedes a decision.
LEMMA AuditDecide ==
  ASSUME TypeOK, Exclusion, AuditInv, NEW r \in Requests, DecideWrite(r)
  PROVE  AuditInv'
<1>1. /\ pc[r] = "deciding" /\ pc[r] \in Acting /\ Owns(r)
      /\ target[r] \in ApprovalIds
      /\ UNCHANGED <<runstate, byRun, trace>>
  BY DEF DecideWrite, At, Acting, InBody, Exclusion, OwnerInv, auditVars,
         TypeOK, Procs
<1>2. /\ approvals[byRun] = "pending" /\ byRun = target[r]
      /\ runstate.step = "awaiting_approval"
  BY <1>1 DEF Owns, Undecided, Repointed, Pending
<1>3. \A k \in 1..4 : Marks(trace, byRun, k) = {}
  <2>1. Marks(trace, byRun, 1) = {}
    BY <1>1, <1>2 DEF AuditInv, UndecidedIsUntraced, Decided, Approved
  <2>2. \A k \in 2..4 : Marks(trace, byRun, k) = {}
    BY <1>2 DEF AuditInv, WritesAreApproved, Approved
  <2>3. \A k \in 1..4 : k = 1 \/ k \in 2..4
    OBVIOUS
  <2> QED
    BY <2>1, <2>2, <2>3
<1>4. Audited(trace, byRun, 0)
  BY <1>3 DEF Audited
<1>5. PICK m \in {"resuming", "recovering"} : Goto(r, m)
  BY <1>1
     DEF DecideWrite, Returns, OnThrow, BeforeClaim, InGate, InPayment, InCatch
<1>6. TrailFollowsActor'
  <2>1. m \notin Gated \cup Posted
    BY DEF Gated, Posted, InPayment
  <2>2. Audited(trace', byRun', 0)
    BY <1>1, <1>4
  <2> QED
    BY <1>1, <1>5, <2>1, <2>2, ActorTrail
<1>7. \A a \in ApprovalIds :
        approvals'[a] = approvals[a] \/ a = byRun
  BY <1>2 DEF DecideWrite, TypeOK
<1>8. UndecidedIsUntraced'
  BY <1>1, <1>3, <1>7 DEF AuditInv, UndecidedIsUntraced
<1>9. WritesAreApproved'
  BY <1>1, <1>3 DEF WritesAreApproved
<1> QED
  BY <1>1, <1>2, <1>6, <1>8, <1>9 DEF AuditInv

\* A revision is filed after a rejection, which has no writes behind it.
LEMMA AuditRevise ==
  ASSUME TypeOK, Exclusion, AuditInv, NEW r \in Requests,
         CreateApproval(r) \/ PointRun(r)
  PROVE  AuditInv'
<1>1. /\ pc[r] \in {"requesting", "repointing"} /\ pc[r] \in Acting /\ Owns(r)
      /\ UNCHANGED <<runstate, trace>>
  BY DEF CreateApproval, PointRun, At, Acting, InBody, Exclusion, OwnerInv,
         auditVars
<1>2. approvals[byRun] = "rejected" /\ runstate.step = "decided"
  BY <1>1
     DEF Owns, Undecided, Repointed, Rejecting, Redrafted, Minted, StatusOf
<1>3. \A k \in 2..4 : Marks(trace, byRun, k) = {}
  BY <1>2 DEF AuditInv, WritesAreApproved, Approved
<1>4. PICK m \in {"repointing", "announcing", "recovering"} : Goto(r, m)
  BY <1>1
     DEF CreateApproval, PointRun, Returns, OnThrow, BeforeClaim, InGate,
         InPayment, InCatch
<1>5. TrailFollowsActor'
  <2>1. m \notin Recorded \cup Gated \cup Posted
    BY DEF Recorded, Gated, Posted, InPayment
  <2> QED
    BY <1>1, <1>4, <2>1, ActorTrail
<1>6. UndecidedIsUntraced'
  <2>1. \A a \in ApprovalIds :
          approvals[a] \in Decided => approvals'[a] = approvals[a]
    BY DEF CreateApproval, PointRun, Exists, TypeOK, Decided, Approved
  <2> QED
    BY <1>1, <2>1 DEF AuditInv, UndecidedIsUntraced
<1>7. WritesAreApproved'
  BY <1>1, <1>3, WritesOfAll DEF WritesAreApproved
<1> QED
  BY <1>1, <1>2, <1>5, <1>6, <1>7 DEF AuditInv

\* A run becomes executed with its whole trail traced.
LEMMA AuditTransition ==
  ASSUME TypeOK, Exclusion, AuditInv, NEW r \in Requests,
         Redraft(r) \/ Park(r) \/ Hold(r) \/ Settle(r) \/ Err(r)
  PROVE  AuditInv'
<1>1. /\ pc[r] \in {"redrafting", "parking", "holding", "settling", "erring"}
      /\ pc[r] \in Acting
      /\ UNCHANGED <<approvals, byRun, trace>>
  BY DEF Redraft, Park, Hold, Settle, Err, Persist, At, Acting, InBody,
         auditVars
<1>2. PICK m \in {"noting", "ending", "shelving", "recovering"} : Goto(r, m)
  BY <1>1
     DEF Redraft, Park, Hold, Settle, Err, Persist, Returns, OnThrow,
         BeforeClaim, InGate, InPayment, InCatch
<1>3. TrailFollowsActor'
  <2>1. m \notin TrailPlaces
    BY DEF TrailPlaces, Recorded, Gated, Posted, InPayment
  <2> QED
    BY <1>1, <1>2, <2>1, ActorTrail DEF TrailPlaces
<1>4. runstate'.step = "executed" =>
        runstate.step = "executed" \/ pc[r] = "settling"
  <2>1. machine[r] = runstate
    BY <1>1 DEF Exclusion, OwnerInv, Owns
  <2> QED
    BY <2>1 DEF Redraft, Park, Hold, Settle, Err, Persist, Transition, At
<1>5. pc[r] = "settling" => Audited(trace, byRun, 4)
  BY DEF AuditInv, TrailFollowsActor
<1>6. UndecidedIsUntraced' /\ WritesAreApproved'
  BY <1>1 DEF AuditInv, UndecidedIsUntraced, WritesAreApproved
<1> QED
  BY <1>1, <1>3, <1>4, <1>5, <1>6 DEF AuditInv

-----------------------------------------------------------------------------
LEMMA InitAudit == ASSUME Init PROVE AuditInv
<1>1. \A i \in DOMAIN trace :
        trace[i].type \in {"run.start", "approval.requested", "run.end"}
  BY DEF Init
<1>2. \A a : \A k \in 1..4 : Marks(trace, a, k) = {}
  <2>1. \A k \in {1, 2, 3, 4} :
          AuditTypes[k] \notin {"run.start", "approval.requested", "run.end"}
    BY DEF AuditTypes
  <2>2. \A k \in 1..4 : k \in {1, 2, 3, 4}
    OBVIOUS
  <2> QED
    BY <1>1, <2>1, <2>2 DEF Marks, IsStep
<1>3. \A r \in Requests : pc[r] = "idle"
  BY ResumeAssumption DEF Init, Procs
<1>4. "idle" \notin TrailPlaces
  BY DEF TrailPlaces, Recorded, Gated, Posted, InPayment
<1>5. TrailFollowsActor
  BY <1>3, <1>4 DEF TrailPlaces, TrailFollowsActor
<1>6. UndecidedIsUntraced /\ WritesAreApproved
  BY <1>2 DEF UndecidedIsUntraced, WritesAreApproved
<1>7. runstate.step # "executed"
  BY DEF Init
<1> QED
  BY <1>5, <1>6, <1>7 DEF AuditInv

LEMMA NextAudit ==
  ASSUME TypeOK, Exclusion, AuditInv, [Next]_vars
  PROVE  AuditInv'
<1>1. ASSUME SameMarks, UNCHANGED <<runstate, approvals, byRun>>,
             \A s \in Requests : pc'[s] = pc[s]
      PROVE  AuditInv'
  <2>1. \A k \in 0..4 : Audited(trace, byRun, k) => Audited(trace, byRun, k)'
    BY <1>1, AuditedSame DEF SameMarks
  <2>2. TrailFollowsActor'
    BY <1>1, <2>1 DEF AuditInv, TrailFollowsActor
  <2>3. UndecidedIsUntraced' /\ WritesAreApproved'
    BY <1>1 DEF AuditInv, UndecidedIsUntraced, WritesAreApproved, SameMarks
  <2> QED
    BY <1>1, <2>1, <2>2, <2>3 DEF AuditInv
<1>2. CASE SetToggle \/ UNCHANGED vars
  <2>1. UNCHANGED <<runstate, approvals, byRun, trace, pc>>
    BY <1>2 DEF SetToggle, vars, runVars, auditVars
  <2> QED
    BY <1>1, <2>1 DEF SameMarks
<1>3. ASSUME NEW p \in Procs, Report(p) PROVE AuditInv'
  <2>1. CASE p \in Requests
    BY <1>3, <2>1, AuditQuiet DEF Report
  <2>2. CASE p \notin Requests
    <3>1. /\ UNCHANGED <<runstate, approvals, byRun>>
          /\ \A s \in Requests : pc'[s] = pc[s]
      BY <1>3, <2>2
         DEF Report, Announce, EndTrace, Summarise, Returns, Goto, TypeOK,
             Procs, runVars
    <3>2. SameMarks
      <4>1. CASE Announce(p)
        BY <4>1, UnauditedMarks
           DEF Announce, Unaudited, EventTypes, Refs, TypeOK
      <4>2. CASE EndTrace(p)
        BY <4>2, UnauditedMarks
           DEF EndTrace, Unaudited, EventTypes, Refs, TypeOK, RunRecords
      <4>3. CASE Summarise(p)
        BY <4>3 DEF Summarise, SameMarks
      <4> QED
        BY <1>3, <4>1, <4>2, <4>3 DEF Report
    <3> QED
      BY <1>1, <3>1, <3>2
  <2> QED
    BY <2>1, <2>2
<1>4. ASSUME NEW r \in Requests, Throw(r) PROVE AuditInv'
  BY <1>4, AuditThrow DEF Throw, SameMarks, runVars, auditVars
<1>5. ASSUME NEW r \in Requests, Crash(r) PROVE AuditInv'
  <2>1. "crashed" \notin TrailPlaces
    BY DEF TrailPlaces, Recorded, Gated, Posted, InPayment
  <2> QED
    BY <1>5, <2>1, AuditMove
       DEF Crash, TrailPlaces, SameMarks, runVars, auditVars
<1>6. ASSUME NEW r \in Requests, Receive(r) \/ Call(r) PROVE AuditInv'
  <2>1. TraceProfile(r) =>
          At(r, "profile_tracing") \/ At(r, "profile_recording")
    BY DEF TraceProfile
  <2> QED
    BY <1>6, <2>1, AuditQuiet, AuditDecide, AuditRevise, AuditTransition,
       AuditTraces DEF Call
<1> QED
  BY <1>2, <1>3, <1>4, <1>5, <1>6 DEF Next

\* For any number of requests, approvals and revisions and under every kind of
\* store fault: an executed run has its decision, its two ERP writes and its
\* profile write in the trace, each once and in that order.
THEOREM ExecutionsAreAudited == Spec => []ExecutedIsAudited
<1>1. Init => AuditInv
  BY InitAudit
<1>2. TypeOK /\ Exclusion /\ AuditInv /\ [Next]_vars => AuditInv'
  BY NextAudit
<1>3. AuditInv => ExecutedIsAudited
  BY AuditedMeans DEF AuditInv, ExecutedIsAudited
<1> QED
  BY <1>1, <1>2, <1>3, TypeCorrect, ExclusionHolds, PTL DEF Spec

=============================================================================
