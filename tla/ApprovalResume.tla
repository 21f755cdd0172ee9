--------------------------- MODULE ApprovalResume ---------------------------
(***************************************************************************)
(* One parked run and every request that tries to decide it.               *)
(*                                                                         *)
(* A run stopped at the gate is finished by POST /api/approvals/{id}, that *)
(* is by resumeRun (packages/pipeline/src/resume.ts).  Any number of such  *)
(* requests may be in flight.  resumeRun is a chain of awaited store calls *)
(* and other requests run between any two of them, so the model has one    *)
(* process per request and one action per store call; pc[r] names the call *)
(* request r makes next.  The first pass that parked the run               *)
(* (mock-agent.ts, after its transition to awaiting_approval) is a process *)
(* too: an approver can act before it has written the end of its trace.    *)
(*                                                                         *)
(* A store call may fail (FaultKinds): "throw" refuses the call, "late"    *)
(* applies it and loses the reply, "crash" stops the process for good.     *)
(* Key expiry (24 h) and the nightly reset are not modelled here.          *)
(*                                                                         *)
(* A definition introduced by "Slip:" is what the one after it would be    *)
(* with a plausible mistake in it; no specification uses it.               *)
(***************************************************************************)
EXTENDS RunLifecycle, Sequences

CONSTANTS Requests,        \* approval requests, one process each
          FirstPass,       \* the run's first pass, finishing its trace
          ApprovalIds,     \* ids createApproval can mint
          FirstApproval,   \* the approval the run was parked with
          FirstPassReturned,   \* whether it has written its last event
          Offered,         \* the decisions visitors submit
          FaultKinds,      \* subset of {"throw", "late", "crash"}
          MaxFaults,       \* bound on the store calls that fail
          MaxArms          \* bound on the operator's uses of the toggle

ASSUME ResumeAssumption ==
  /\ FirstPass \notin Requests
  /\ FirstApproval \in ApprovalIds
  /\ FirstPassReturned \in BOOLEAN
  /\ FaultKinds \subseteq {"throw", "late", "crash"}
  /\ MaxFaults \in Nat /\ MaxArms \in Nat

Procs == Requests \cup {FirstPass}

VARIABLES
  \* the store
  runstate,      \* runstate:{run}
  approvals,     \* approval:{id}, its status or "absent"
  byRun,         \* approval:by-run:{run}
  claims,        \* approval:claim:{id}
  trace,         \* trace:{run}
  summary,       \* the outcome field of the hash run:{run}
  \* the ERP tables, as far as this run's invoice goes
  ledger,        \* which runs posted the invoice
  payments,      \* this run's payment rows
  inbox,         \* state of the document's inbox item
  toggle,        \* the failure toggle: off, armed or fired
  dispositions,  \* the revisions a draft was saved for
  profileRuns,   \* runs_count of the vendor's profile
  \* per process
  pc,            \* the store call it makes next
  target,        \* the approval id in the request's URL
  decision,      \* the decision in the request's form
  machine,       \* the RunStateRecord it loaded, in memory
  fetched,       \* the by-run pointer it last read
  revised,       \* the approval its revision created
  ledgerCopy,    \* the ledger it read and is about to write back
  paymentCopy,   \* the payment table it read and is about to write back
  attempt,       \* 1 or 2: which schedulePayment call
  seq,           \* the next seq of its TraceWriter
  \* bounds
  faults, arms

runVars     == <<runstate, approvals, byRun, claims>>
auditVars   == <<trace, summary>>
erpVars     == <<ledger, payments, inbox, toggle, dispositions, profileRuns>>
requestVars == <<target, decision>>
tableCopies == <<ledgerCopy, paymentCopy>>
localVars   == <<machine, fetched, revised, tableCopies, attempt>>
vars == <<runVars, auditVars, erpVars, requestVars, localVars, pc, seq,
          faults, arms>>

-----------------------------------------------------------------------------
Approved == {"approved", "edit_approved"}
Decided  == Approved \cup {"rejected"}
Statuses == {"absent", "pending"} \cup Decided
Decisions == {"approve", "edit_approve", "edit_malformed", "reject"}

ASSUME OfferedAssumption == Offered \subseteq Decisions

\* The status decideApproval writes for each decision.
StatusOf(d) == IF d = "approve" THEN "approved"
               ELSE IF d = "reject" THEN "rejected" ELSE "edit_approved"

EventTypes == {"run.start", "approval.requested", "approval.decided",
               "tool.call", "backend.write", "memory.write", "error",
               "run.end"}

Exists(a) == approvals[a] # "absent"

-----------------------------------------------------------------------------
(* Where control goes when the call at pc[p] throws.                       *)

\* Before the claim nothing is caught: the route answers 409.
BeforeClaim == {"loading", "pointing", "reading", "claiming"}

\* The try block around the gate and its executor.
InGate == {"gating", "gate_reading", "posting", "post_writing",
           "post_tracing", "retrying", "giving_up", "processing",
           "pay_tracing"}

\* Slip: the try block that retries the payment also spans the inbox update.
InPaymentAndAfter == {"paying", "firing", "pay_reading", "pay_writing",
                      "processing", "pay_tracing"}

\* schedulePayment, which the executor wraps in a try block of its own.
InPayment == {"paying", "firing", "pay_reading", "pay_writing"}

\* The catch block of resumeRun itself.
InCatch == {"recovering", "rechecking", "releasing"}

\* The rest of decideAndFinish, from the claim to the return.
InBody == {"claimed", "deciding", "resuming", "recording", "redrafting",
           "noting", "saving", "requesting", "repointing", "announcing",
           "parking", "holding", "shelving", "profiling", "profile_tracing",
           "profile_recording", "settling", "failing", "erring", "ending",
           "summarising"}

\* TraceWriter.append stamps a seq in memory, pushes the event, and then
\* refreshes the key's expiry; run.end refreshes that of the summary as well.
Appending == {"recording", "noting", "announcing", "post_tracing", "retrying",
              "giving_up", "pay_tracing", "profile_tracing",
              "profile_recording", "failing", "ending"}

Working == BeforeClaim \cup InGate \cup InPayment \cup InCatch \cup InBody
Stopped == {"idle", "done", "refused", "failed", "crashed"}

OnThrow(p) ==
  IF pc[p] \in BeforeClaim    THEN "refused"
  ELSE IF pc[p] \in InPayment THEN IF attempt[p] = 1 THEN "retrying"
                                                     ELSE "giving_up"
  ELSE IF pc[p] \in InGate    THEN "failing"
  ELSE IF pc[p] \in InCatch   THEN "failed"
  ELSE "recovering"

At(p, l) == pc[p] = l
Goto(p, l) == pc' = [pc EXCEPT ![p] = l]

\* The store call was applied.  Its reply arrives, or is lost and the caller
\* sees an exception: so it does when the expiry is refused after a push.
Returns(p, l) ==
  \/ Goto(p, l) /\ UNCHANGED faults
  \/ /\ \/ "late" \in FaultKinds
        \/ "throw" \in FaultKinds /\ pc[p] \in Appending \cup {"summarising"}
     /\ p \in Requests
     /\ faults < MaxFaults
     /\ faults' = faults + 1
     /\ Goto(p, OnThrow(p))

-----------------------------------------------------------------------------
(* The run as its first pass left it: parked, approval requested, nothing  *)
(* executed.  Another run may have posted the same invoice meanwhile.      *)

Init ==
  /\ runstate = [step |-> "awaiting_approval", revision |-> 0]
  /\ approvals = [a \in ApprovalIds |->
                    IF a = FirstApproval THEN "pending" ELSE "absent"]
  /\ byRun = FirstApproval
  /\ claims = [a \in ApprovalIds |-> 0]
  /\ trace = <<[seq |-> 0, type |-> "run.start", ref |-> "run"]>>
               \o IF FirstPassReturned
                  THEN <<[seq |-> 1, type |-> "approval.requested",
                          ref |-> FirstApproval],
                         [seq |-> 2, type |-> "run.end",
                          ref |-> "awaiting_approval"]>>
                  ELSE <<>>
  /\ summary = IF FirstPassReturned THEN "awaiting_approval" ELSE "running"
  /\ ledger \in {{}, {"other_run"}}
  /\ payments = <<>>
  /\ inbox = "processing"
  /\ toggle = "off"
  /\ dispositions = {0}
  /\ profileRuns = 0
  /\ pc = [p \in Procs |-> IF p # FirstPass THEN "idle"
                           ELSE IF FirstPassReturned THEN "done"
                           ELSE "announcing"]
  /\ target = [p \in Procs |-> FirstApproval]
  /\ decision = [p \in Procs |-> "approve"]
  /\ machine = [p \in Procs |->
                  [step |-> "awaiting_approval", revision |-> 0]]
  /\ fetched = [p \in Procs |-> FirstApproval]
  /\ revised = [p \in Procs |-> FirstApproval]
  /\ ledgerCopy = [p \in Procs |-> {}]
  /\ paymentCopy = [p \in Procs |-> <<>>]
  /\ attempt = [p \in Procs |-> 1]
  /\ seq = [p \in Procs |-> 1]
  /\ faults = 0
  /\ arms = 0

-----------------------------------------------------------------------------
(* resumeRun up to the claim.                                              *)

\* A visitor submits the form of an approval page that exists.
Receive(r) ==
  /\ At(r, "idle")
  /\ \E a \in ApprovalIds, d \in Offered :
        /\ Exists(a)
        /\ target' = [target EXCEPT ![r] = a]
        /\ decision' = [decision EXCEPT ![r] = d]
  /\ Goto(r, "loading")
  /\ UNCHANGED <<runVars, auditVars, erpVars, localVars, seq, faults, arms>>

\* RunStateMachine.load; the run must be awaiting approval.
LoadRun(r) ==
  /\ At(r, "loading")
  /\ machine' = [machine EXCEPT ![r] = runstate]
  /\ Returns(r, IF runstate.step = "awaiting_approval" THEN "pointing"
                                                       ELSE "refused")
  /\ UNCHANGED <<runVars, auditVars, erpVars, requestVars, fetched, revised,
                 tableCopies, attempt, seq, arms>>

\* getApprovalForRun is two reads: the pointer, then the record.  The same
\* pair opens resumeRun, the gate and the catch block.
ReadPointer(r) ==
  /\ \/ At(r, "pointing")   /\ Returns(r, "reading")
     \/ At(r, "gating")     /\ Returns(r, "gate_reading")
     \/ At(r, "recovering") /\ Returns(r, "rechecking")
  /\ fetched' = [fetched EXCEPT ![r] = byRun]
  /\ UNCHANGED <<runVars, auditVars, erpVars, requestVars, machine, revised,
                 tableCopies, attempt, seq, arms>>

\* The pending approval must be the one the visitor decided, and edits must
\* be well formed.
CheckApproval(r) ==
  /\ At(r, "reading")
  /\ Returns(r, IF /\ approvals[fetched[r]] = "pending"
                   /\ fetched[r] = target[r]
                   /\ decision[r] # "edit_malformed"
                THEN "claiming" ELSE "refused")
  /\ UNCHANGED <<runVars, auditVars, erpVars, requestVars, localVars, seq,
                 arms>>

\* Slip: the increment is made inside the try block, so a request that loses
\* the claim runs the catch block that gives it back.
ClaimInsideTry(r) ==
  /\ At(r, "claiming")
  /\ claims' = [claims EXCEPT ![target[r]] = @ + 1]
  /\ Returns(r, IF claims'[target[r]] > 1 THEN "recovering" ELSE "claimed")
  /\ UNCHANGED <<runstate, approvals, byRun, auditVars, erpVars, requestVars,
                 localVars, seq, arms>>

\* Slip: off by one, the second request is let through as well.
ClaimTwice(r) ==
  /\ At(r, "claiming")
  /\ claims' = [claims EXCEPT ![target[r]] = @ + 1]
  /\ Returns(r, IF claims'[target[r]] > 2 THEN "refused" ELSE "claimed")
  /\ UNCHANGED <<runstate, approvals, byRun, auditVars, erpVars, requestVars,
                 localVars, seq, arms>>

\* The atomic increment of the claim key: only the first one goes on.
Claim(r) ==
  /\ At(r, "claiming")
  /\ claims' = [claims EXCEPT ![target[r]] = @ + 1]
  /\ Returns(r, IF claims'[target[r]] > 1 THEN "refused" ELSE "claimed")
  /\ UNCHANGED <<runstate, approvals, byRun, auditVars, erpVars, requestVars,
                 localVars, seq, arms>>

-----------------------------------------------------------------------------
(* decideAndFinish: the decision and its trace event.                      *)

\* decideApproval reads the record and throws unless it is pending ...
DecideRead(r) ==
  /\ At(r, "claimed")
  /\ Returns(r, IF approvals[target[r]] = "pending" THEN "deciding"
                                                    ELSE "recovering")
  /\ UNCHANGED <<runVars, auditVars, erpVars, requestVars, localVars, seq,
                 arms>>

\* ... and then writes the decided record, whatever is stored by now.
DecideWrite(r) ==
  /\ At(r, "deciding")
  /\ approvals' = [approvals EXCEPT ![target[r]] = StatusOf(decision[r])]
  /\ Returns(r, "resuming")
  /\ UNCHANGED <<runstate, byRun, claims, auditVars, erpVars, requestVars,
                 localVars, seq, arms>>

\* TraceWriter.resume continues after the last event recorded so far.
ResumeTrace(r) ==
  /\ At(r, "resuming")
  /\ seq' = [seq EXCEPT ![r] =
               IF trace = <<>> THEN 0 ELSE trace[Len(trace)].seq + 1]
  /\ Returns(r, "recording")
  /\ UNCHANGED <<runVars, auditVars, erpVars, requestVars, localVars, arms>>

\* TraceWriter.append: stamp the writer's own seq, push the event.
Append1(p, type, ref) ==
  /\ trace' = Append(trace, [seq |-> seq[p], type |-> type, ref |-> ref])
  /\ seq' = [seq EXCEPT ![p] = @ + 1]
  /\ UNCHANGED summary

RecordDecision(r) ==
  /\ At(r, "recording")
  /\ Append1(r, "approval.decided", target[r])
  /\ Returns(r, IF decision[r] # "reject" THEN "gating"
                ELSE IF machine[r].revision < MAX_REVISIONS THEN "redrafting"
                ELSE "holding")
  /\ UNCHANGED <<runVars, erpVars, requestVars, localVars, arms>>

-----------------------------------------------------------------------------
(* Rejected: one revision goes back to the approver, then the run holds.   *)

\* machine.transition(to): moves the copy in memory and persists that copy,
\* or throws when the lifecycle does not allow the step.
Persist(r, to, next) ==
  LET can == CanTransition(machine[r], to)
  IN  /\ machine' = [machine EXCEPT ![r] =
                       IF can THEN Transition(@, to) ELSE @]
      /\ runstate' = IF can THEN Transition(machine[r], to) ELSE runstate
      /\ Returns(r, IF can THEN next ELSE OnThrow(r))
      /\ UNCHANGED <<approvals, byRun, claims, fetched, revised, tableCopies,
                     attempt>>

Redraft(r) ==
  /\ At(r, "redrafting")
  /\ Persist(r, "decided", "noting")
  /\ UNCHANGED <<auditVars, erpVars, requestVars, seq, arms>>

NoteRedraft(r) ==
  /\ At(r, "noting")
  /\ Append1(r, "tool.call", "draft_action")
  /\ Returns(r, "saving")
  /\ UNCHANGED <<runVars, erpVars, requestVars, localVars, arms>>

SaveDisposition(r) ==
  /\ At(r, "saving")
  /\ dispositions' = dispositions \cup {machine[r].revision}
  /\ Returns(r, "requesting")
  /\ UNCHANGED <<runVars, auditVars, ledger, payments, inbox, toggle,
                 profileRuns, requestVars, localVars, seq, arms>>

\* createApproval mints a fresh id and stores the record ...
CreateApproval(r) ==
  /\ At(r, "requesting")
  /\ \E a \in ApprovalIds :
        /\ ~Exists(a)
        /\ approvals' = [approvals EXCEPT ![a] = "pending"]
        /\ revised' = [revised EXCEPT ![r] = a]
  /\ Returns(r, "repointing")
  /\ UNCHANGED <<runstate, byRun, claims, auditVars, erpVars, requestVars,
                 machine, fetched, tableCopies, attempt, seq, arms>>

\* ... and then the run's pointer to it.
PointRun(r) ==
  /\ At(r, "repointing")
  /\ byRun' = revised[r]
  /\ Returns(r, "announcing")
  /\ UNCHANGED <<runstate, approvals, claims, auditVars, erpVars,
                 requestVars, localVars, seq, arms>>

\* The first pass requests its approval with the run already parked; a
\* revision parks the run afterwards.
Announce(p) ==
  /\ At(p, "announcing")
  /\ Append1(p, "approval.requested", revised[p])
  /\ Returns(p, IF p = FirstPass THEN "ending" ELSE "parking")
  /\ UNCHANGED <<runVars, erpVars, requestVars, localVars, arms>>

Park(r) ==
  /\ At(r, "parking")
  /\ Persist(r, "awaiting_approval", "ending")
  /\ UNCHANGED <<auditVars, erpVars, requestVars, seq, arms>>

\* Slip: the last rejection ends the run as rejected.
HoldAsRejected(r) ==
  /\ At(r, "holding")
  /\ Persist(r, "rejected", "shelving")
  /\ UNCHANGED <<auditVars, erpVars, requestVars, seq, arms>>

Hold(r) ==
  /\ At(r, "holding")
  /\ Persist(r, "held", "shelving")
  /\ UNCHANGED <<auditVars, erpVars, requestVars, seq, arms>>

\* setInboxState refuses to overwrite "processed".
SetInbox(state) == inbox' = IF inbox = "processed" THEN inbox ELSE state

Shelve(r) ==
  /\ At(r, "shelving")
  /\ SetInbox("held")
  /\ Returns(r, "ending")
  /\ UNCHANGED <<runVars, auditVars, ledger, payments, toggle, dispositions,
                 profileRuns, requestVars, localVars, seq, arms>>

-----------------------------------------------------------------------------
(* Approved: through the gate into the executor (execute.ts).              *)

\* gateExecuteAction executes on an approved record; any other status comes
\* back as "gate did not execute", thrown inside the try block.
GateCheck(r) ==
  /\ At(r, "gate_reading")
  /\ Returns(r, IF approvals[fetched[r]] \in Approved THEN "posting"
                                                      ELSE "failing")
  /\ UNCHANGED <<runVars, auditVars, erpVars, requestVars, localVars, seq,
                 arms>>

\* postToLedger reads the table, throws if the invoice is there ...
PostRead(r) ==
  /\ At(r, "posting")
  /\ ledgerCopy' = [ledgerCopy EXCEPT ![r] = ledger]
  /\ Returns(r, IF ledger = {} THEN "post_writing" ELSE "failing")
  /\ UNCHANGED <<runVars, auditVars, erpVars, requestVars, machine, fetched,
                 revised, paymentCopy, attempt, seq, arms>>

\* ... and writes the copy back with its row added.
PostWrite(r) ==
  /\ At(r, "post_writing")
  /\ ledger' = ledgerCopy[r] \cup {"this_run"}
  /\ Returns(r, "post_tracing")
  /\ UNCHANGED <<runVars, auditVars, payments, inbox, toggle, dispositions,
                 profileRuns, requestVars, localVars, seq, arms>>

TracePost(r) ==
  /\ At(r, "post_tracing")
  /\ Append1(r, "backend.write", "ledger")
  /\ Returns(r, "paying")
  /\ UNCHANGED <<runVars, erpVars, requestVars, localVars, arms>>

\* schedulePayment reads the failure toggle: an armed one fails the call.
PayToggle(r) ==
  /\ At(r, "paying")
  /\ Returns(r, IF toggle = "armed" THEN "firing" ELSE "pay_reading")
  /\ UNCHANGED <<runVars, auditVars, erpVars, requestVars, localVars, seq,
                 arms>>

\* The toggle is marked fired and the call throws.
FireToggle(r) ==
  /\ At(r, "firing")
  /\ toggle' = "fired"
  /\ Goto(r, OnThrow(r))
  /\ UNCHANGED <<runVars, auditVars, ledger, payments, inbox, dispositions,
                 profileRuns, requestVars, localVars, seq, faults, arms>>

PayRead(r) ==
  /\ At(r, "pay_reading")
  /\ paymentCopy' = [paymentCopy EXCEPT ![r] = payments]
  /\ Returns(r, "pay_writing")
  /\ UNCHANGED <<runVars, auditVars, erpVars, requestVars, machine, fetched,
                 revised, ledgerCopy, attempt, seq, arms>>

\* The row carries the approver's edits, if the decision had any.
PayWrite(r) ==
  /\ At(r, "pay_writing")
  /\ payments' = Append(paymentCopy[r],
                        [edited |-> decision[r] = "edit_approve"])
  /\ Returns(r, "processing")
  /\ UNCHANGED <<runVars, auditVars, ledger, inbox, toggle, dispositions,
                 profileRuns, requestVars, localVars, seq, arms>>

\* The first failure is traced as recoverable and the call is made again.
Retry(r) ==
  /\ At(r, "retrying")
  /\ Append1(r, "error", "recoverable")
  /\ attempt' = [attempt EXCEPT ![r] = 2]
  /\ Returns(r, "paying")
  /\ UNCHANGED <<runVars, erpVars, requestVars, machine, fetched, revised,
                 tableCopies, arms>>

\* Slip: the second failure is traced and swallowed.
CarryOn(r) ==
  /\ At(r, "giving_up")
  /\ Append1(r, "error", "unpaid")
  /\ Returns(r, "processing")
  /\ UNCHANGED <<runVars, erpVars, requestVars, localVars, arms>>

\* The second failure is traced and rethrown: ledger row, no payment row.
GiveUp(r) ==
  /\ At(r, "giving_up")
  /\ Append1(r, "error", "unpaid")
  /\ Returns(r, "failing")
  /\ UNCHANGED <<runVars, erpVars, requestVars, localVars, arms>>

\* Slip: the trace of the payment is skipped.
MarkUntraced(r) ==
  /\ At(r, "processing")
  /\ SetInbox("processed")
  /\ Returns(r, "profiling")
  /\ UNCHANGED <<runVars, auditVars, ledger, payments, toggle, dispositions,
                 profileRuns, requestVars, localVars, seq, arms>>

MarkProcessed(r) ==
  /\ At(r, "processing")
  /\ SetInbox("processed")
  /\ Returns(r, "pay_tracing")
  /\ UNCHANGED <<runVars, auditVars, ledger, payments, toggle, dispositions,
                 profileRuns, requestVars, localVars, seq, arms>>

TracePayment(r) ==
  /\ At(r, "pay_tracing")
  /\ Append1(r, "backend.write", "payment_schedule")
  /\ Returns(r, "profiling")
  /\ UNCHANGED <<runVars, erpVars, requestVars, localVars, arms>>

-----------------------------------------------------------------------------
(* After the executor: the vendor profile, then the final transition.      *)

WriteProfile(r) ==
  /\ At(r, "profiling")
  /\ profileRuns' = profileRuns + 1
  /\ Returns(r, "profile_tracing")
  /\ UNCHANGED <<runVars, auditVars, ledger, payments, inbox, toggle,
                 dispositions, requestVars, localVars, seq, arms>>

TraceProfile(r) ==
  /\ \/ /\ At(r, "profile_tracing")
        /\ Append1(r, "tool.call", "update_vendor_profile")
        /\ Returns(r, "profile_recording")
     \/ /\ At(r, "profile_recording")
        /\ Append1(r, "memory.write", "vendor_profiles")
        /\ Returns(r, "settling")
  /\ UNCHANGED <<runVars, erpVars, requestVars, localVars, arms>>

Settle(r) ==
  /\ At(r, "settling")
  /\ Persist(r, "executed", "ending")
  /\ UNCHANGED <<auditVars, erpVars, requestVars, seq, arms>>

\* Slip: the failure is traced, the run is left as it was.
TraceOnly(r) ==
  /\ At(r, "failing")
  /\ Append1(r, "error", "fatal")
  /\ Returns(r, "ending")
  /\ UNCHANGED <<runVars, erpVars, requestVars, localVars, arms>>

\* The executor failed: say so in the trace and end the run as an error.
TraceFailure(r) ==
  /\ At(r, "failing")
  /\ Append1(r, "error", "fatal")
  /\ Returns(r, "erring")
  /\ UNCHANGED <<runVars, erpVars, requestVars, localVars, arms>>

Err(r) ==
  /\ At(r, "erring")
  /\ Persist(r, "error", "ending")
  /\ UNCHANGED <<auditVars, erpVars, requestVars, seq, arms>>

\* Every segment closes with run.end: the event is pushed, then the outcome
\* is written over the summary hash.
EndTrace(p) ==
  /\ At(p, "ending")
  /\ Append1(p, "run.end", machine[p].step)
  /\ Returns(p, "summarising")
  /\ UNCHANGED <<runVars, erpVars, requestVars, localVars, arms>>

Summarise(p) ==
  /\ At(p, "summarising")
  /\ summary' = machine[p].step
  /\ Returns(p, "done")
  /\ UNCHANGED <<runVars, trace, erpVars, requestVars, localVars, seq, arms>>

-----------------------------------------------------------------------------
(* The catch block: give the claim back if the approval is still pending.  *)

\* Slip: the claim is never given back.
KeepClaim(r) ==
  /\ At(r, "rechecking")
  /\ Returns(r, "failed")
  /\ UNCHANGED <<runVars, auditVars, erpVars, requestVars, localVars, seq,
                 arms>>

Recheck(r) ==
  /\ At(r, "rechecking")
  /\ Returns(r, IF fetched[r] = target[r] /\ approvals[fetched[r]] = "pending"
                THEN "releasing" ELSE "failed")
  /\ UNCHANGED <<runVars, auditVars, erpVars, requestVars, localVars, seq,
                 arms>>

Release(r) ==
  /\ At(r, "releasing")
  /\ claims' = [claims EXCEPT ![target[r]] = 0]
  /\ Returns(r, "failed")
  /\ UNCHANGED <<runstate, approvals, byRun, auditVars, erpVars, requestVars,
                 localVars, seq, arms>>

-----------------------------------------------------------------------------
(* Faults and the operator.                                                *)

\* The store refuses the call at pc[r]; nothing was applied, but an event
\* that was not pushed has used up its seq.
Throw(r) ==
  /\ "throw" \in FaultKinds
  /\ pc[r] \in Working
  /\ faults < MaxFaults
  /\ faults' = faults + 1
  /\ seq' = [seq EXCEPT ![r] = IF pc[r] \in Appending THEN @ + 1 ELSE @]
  /\ Goto(r, OnThrow(r))
  /\ UNCHANGED <<runVars, auditVars, erpVars, requestVars, localVars, arms>>

\* The serverless function dies between two calls; no catch block runs.
Crash(r) ==
  /\ "crash" \in FaultKinds
  /\ pc[r] \in Working
  /\ faults < MaxFaults
  /\ faults' = faults + 1
  /\ Goto(r, "crashed")
  /\ UNCHANGED <<runVars, auditVars, erpVars, requestVars, localVars, seq,
                 arms>>

\* POST /api/admin/failure-toggle, armed or disarmed.
SetToggle ==
  /\ arms < MaxArms
  /\ arms' = arms + 1
  /\ toggle' \in {"armed", "off"}
  /\ UNCHANGED <<runVars, auditVars, ledger, payments, inbox, dispositions,
                 profileRuns, requestVars, localVars, pc, seq, faults>>

-----------------------------------------------------------------------------
\* One store call of a request that is under way.
Call(r) ==
  \/ LoadRun(r) \/ ReadPointer(r) \/ CheckApproval(r) \/ Claim(r)
  \/ DecideRead(r) \/ DecideWrite(r) \/ ResumeTrace(r) \/ RecordDecision(r)
  \/ Redraft(r) \/ NoteRedraft(r) \/ SaveDisposition(r)
  \/ CreateApproval(r) \/ PointRun(r) \/ Park(r)
  \/ Hold(r) \/ Shelve(r)
  \/ GateCheck(r) \/ PostRead(r) \/ PostWrite(r) \/ TracePost(r)
  \/ PayToggle(r) \/ FireToggle(r) \/ PayRead(r) \/ PayWrite(r)
  \/ Retry(r) \/ GiveUp(r) \/ MarkProcessed(r) \/ TracePayment(r)
  \/ WriteProfile(r) \/ TraceProfile(r) \/ Settle(r)
  \/ TraceFailure(r) \/ Err(r)
  \/ Recheck(r) \/ Release(r)

\* What a request and the first pass have in common.
Report(p) == Announce(p) \/ EndTrace(p) \/ Summarise(p)

Next ==
  \/ \E r \in Requests : Receive(r) \/ Call(r) \/ Throw(r) \/ Crash(r)
  \/ \E p \in Procs : Report(p)
  \/ SetToggle

\* The event loop resumes every handler whose store call has settled, so a
\* handler that has started keeps running; nobody has to send a request.
Fairness ==
  /\ \A r \in Requests : WF_vars(Call(r))
  /\ \A p \in Procs : WF_vars(Report(p))

Spec == Init /\ [][Next]_vars
FairSpec == Spec /\ Fairness

-----------------------------------------------------------------------------
(* Types.                                                                  *)

Tables == {"ledger", "payment_schedule"}
Refs == ApprovalIds \cup Tables \cup RunSteps
          \cup {"run", "draft_action", "update_vendor_profile",
                "vendor_profiles", "recoverable", "unpaid", "fatal"}
Events == [seq : Nat, type : EventTypes, ref : Refs]
Ledgers == SUBSET {"this_run", "other_run"}
PaymentTables == Seq([edited : BOOLEAN])

\* The store, the ERP tables and every request's locals keep their shape.
TypeOK ==
  /\ runstate \in RunRecords
  /\ approvals \in [ApprovalIds -> Statuses]
  /\ byRun \in ApprovalIds
  /\ claims \in [ApprovalIds -> Nat]
  /\ trace \in Seq(Events)
  /\ summary \in {"running"} \cup RunSteps
  /\ ledger \in Ledgers
  /\ payments \in PaymentTables
  /\ inbox \in {"processing", "processed", "held"}
  /\ toggle \in {"off", "armed", "fired"}
  /\ dispositions \subseteq Nat
  /\ profileRuns \in Nat
  /\ pc \in [Procs -> Working \cup Stopped]
  /\ target \in [Procs -> ApprovalIds]
  /\ decision \in [Procs -> Decisions]
  /\ machine \in [Procs -> RunRecords]
  /\ fetched \in [Procs -> ApprovalIds]
  /\ revised \in [Procs -> ApprovalIds]
  /\ ledgerCopy \in [Procs -> Ledgers]
  /\ paymentCopy \in [Procs -> PaymentTables]
  /\ attempt \in [Procs -> {1, 2}]
  /\ seq \in [Procs -> Nat]
  /\ faults \in 0..MaxFaults
  /\ arms \in 0..MaxArms

-----------------------------------------------------------------------------
(* Safety.                                                                 *)

\* The calls between winning the claim and the last write to the run record
\* or to the ERP: while a request is here it believes the run is its own.
Acting == (InGate \cup InPayment \cup InBody) \ {"ending", "summarising"}

\* Single winner: the claim key of resumeRun never lets two requests act on
\* the run together, even across a revision and after a released claim.
OneActor ==
  \A r, s \in Requests : pc[r] \in Acting /\ pc[s] \in Acting => r = s

\* The executor runs at most once, and only for the recorded decision: one
\* payment row, backed by a ledger row, under an approved current approval,
\* carrying edits exactly when that approval says so.
PaymentFollowsDecision ==
  payments # <<>> =>
    /\ Len(payments) = 1
    /\ "this_run" \in ledger
    /\ approvals[byRun] \in Approved
    /\ payments[1].edited <=> approvals[byRun] = "edit_approved"

\* The settled step tells what happened: executed means paid and processed,
\* held means the last allowed revision was rejected and no money moved, and
\* an error is the failure of an approved execution.
SettledTruthfully ==
  /\ runstate.step = "executed" =>
       /\ payments # <<>>
       /\ inbox = "processed"
       /\ profileRuns = 1
  /\ runstate.step = "held" =>
       /\ approvals[byRun] = "rejected"
       /\ runstate.revision = MAX_REVISIONS
       /\ "this_run" \notin ledger /\ payments = <<>>
  /\ runstate.step = "error" => approvals[byRun] \in Approved

\* A decision made against a superseded approval never counts: whatever was
\* approved is the run's current approval, all earlier ones were rejected.
OnlyCurrentApproved ==
  \A a \in ApprovalIds : approvals[a] \in Approved => a = byRun

\* Where in the trace the events of this type about ref stand.
Traced(type, ref) ==
  {i \in DOMAIN trace : trace[i].type = type /\ trace[i].ref = ref}

AuditTrail ==
  <<Traced("approval.decided", byRun), Traced("backend.write", "ledger"),
    Traced("backend.write", "payment_schedule"),
    Traced("memory.write", "vendor_profiles")>>

\* An executed run left its whole audit trail behind, once and in order: the
\* decision, the ledger write, the payment write, the profile write.
ExecutedIsAudited ==
  runstate.step = "executed" =>
    /\ \A k \in 1..4 : \E i \in DOMAIN trace : AuditTrail[k] = {i}
    /\ \A k \in 1..3 :
         \A i \in AuditTrail[k], j \in AuditTrail[k + 1] : i < j

\* decideApproval is final: no later write changes a decided approval.
DecisionIsFinal ==
  [][\A a \in ApprovalIds :
       approvals[a] \in Decided => approvals'[a] = approvals[a]]_vars

\* The run, seen through its record, its current approval and its money,
\* follows the protocol the approval gate promises.
Protocol ==
  INSTANCE ApprovalProtocol
    WITH step     <- runstate.step,
         revision <- runstate.revision,
         verdict  <- approvals[byRun],
         posted   <- "this_run" \in ledger,
         paid     <- Len(payments)

ImplementsProtocol == Protocol!Spec

-----------------------------------------------------------------------------
(* Liveness.                                                               *)

\* A decision is never left hanging: the run settles, or is parked again
\* with a new pending approval, unless a store call failed on the way.
DecidedSettles ==
  \A a \in ApprovalIds :
    approvals[a] \in Decided ~>
      \/ runstate.step \in TerminalSteps
      \/ runstate.step = "awaiting_approval" /\ approvals[byRun] = "pending"
      \/ faults > 0

\* A claim that did not lead to a decision is given back, so the approval
\* stays decidable after a failed request (the catch block of resumeRun).
ClaimIsReleased ==
  \A a \in ApprovalIds :
    approvals[a] = "pending" /\ claims[a] > 0 ~>
      approvals[a] # "pending" \/ claims[a] = 0

=============================================================================
