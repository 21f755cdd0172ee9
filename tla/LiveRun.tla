------------------------------ MODULE LiveRun ------------------------------
(***************************************************************************)
(* One run of the live lane: packages/pipeline/src/live-agent.ts driven by *)
(* runWorkflow of packages/agent/src/loop.ts.                              *)
(*                                                                         *)
(* The model may call the tools in any order, with any arguments, and stop *)
(* or be stopped by a breaker between any two of its turns.  Code answers  *)
(* for what a call does: draft_action disposes a route and stashes it in   *)
(* the run record, execute_action takes the last draft through the gate,   *)
(* finalize settles what the model left open.  While the run is parked a   *)
(* visitor may decide its approval, also when the model is still talking:  *)
(* the Visitor is resumeRun in large steps, taken apart by ApprovalResume. *)
(*                                                                         *)
(* What a route depends on is RouteDecision's subject: here a draft may    *)
(* get any route that policy allows for what the code knows of it.         *)
(* Tool calls run one after the other, as the raw driver makes them.       *)
(*                                                                         *)
(* A definition introduced by "Slip:" is what the one after it would be    *)
(* with a plausible mistake in it; no specification uses it.               *)
(***************************************************************************)
EXTENDS RunLifecycle, Sequences

CONSTANTS Vendors, None,     \* canonical vendors, and null
          Numbers,           \* invoice numbers a model may extract
          Scenarios          \* bounds on what may happen, see below

\* A scenario bounds the run's mode, the breakers that may stop it, the vendors
\* a model may name, the tool calls that change state, the visitor's decisions,
\* the payments the failure toggle fails, the refused store calls, and the
\* writes of other runs.
ASSUME LiveAssumption ==
  /\ None \notin Vendors \cup Numbers
  /\ Scenarios \subseteq
       [modes : SUBSET {"shadow", "assisted", "autonomous"},
        aborts : SUBSET AbortSteps, vendors : SUBSET Vendors, calls : Nat,
        visits : Nat, failures : Nat, faults : Nat, others : Nat]

Live == "live"
Visitor == "visitor"
Procs == {Live, Visitor}
Other == "other"             \* another run of the document, not followed
Writers == Procs \cup {Other}

VARIABLES
  \* chosen once
  mode, script,   \* the run's mode; whether a scripted approver attends
  scenario,       \* what may happen
  \* the store
  runstate,       \* runstate:{run}: step, revision and stashed draft
  approvals,      \* the run's approvals, the by-run pointer at the last
  seen,           \* which run the document's digest is recorded for
  learned,        \* who taught each vendor's GL code: an earlier run or this
  drafts,         \* the saved dispositions, one per draft of this run
  ledger, payments, inbox,          \* the ERP, of the inbox this document
  lost,           \* history: the tables a stale write took something from
  reported,       \* the outcome of run.end, or "none"
  \* the processes
  pc,
  machine,        \* the run record each holds in memory
  executing,      \* the draft each hands to its executor
  attempt,        \* 1 or 2: which schedulePayment call
  drafted,        \* the current draft, 0 before the first
  input,          \* the extraction in the draft_action call under way
  prior,          \* dedupeState: what the digest check found, if made
  cache,          \* profileCache: each vendor's GL code as first read
  gate, gateRun,  \* lastGateOutcome, and whether the gate was run
  parked,         \* the approval the gate's answer named
  inFinalize,     \* finalize called the gate, not the model
  disposal,       \* the outcome the run is about to report
  target,         \* the inbox state the run is about to set
  \* the tables as each writer read them, to write them back
  ledgerRead, paymentsRead, inboxRead,
  other,          \* where the other run is
  \* bounds
  calls, visits, failures, faults, others

options  == <<mode, script, scenario>>
memory   == <<seen, learned, drafts>>
erp      == <<ledger, payments, inbox, lost>>
executor == <<executing, attempt, failures>>
drafting == <<drafted, input, prior, cache>>
gating   == <<gate, gateRun, parked, inFinalize>>
tables   == <<ledgerRead, paymentsRead, inboxRead, other, others>>
copies   == <<target, tables>>
bounds   == <<calls, visits>>
vars == <<options, copies, runstate, approvals, memory, erp, reported, pc,
          machine, executor, drafting, gating, disposal, bounds, faults>>

-----------------------------------------------------------------------------
Modes == {"shadow", "assisted", "autonomous"}
Routes == {"auto_approve", "route_for_approval", "exception_hold", "reject"}
Approve == {"auto_approve", "route_for_approval"}
Approved == {"approved"}
InboxStates == {"new", "processing", "processed", "held", "rejected"}

\* The run record also carries the draft a resume would execute.
Moved(rec, to) ==
  LET moved == Transition([step |-> rec.step, revision |-> rec.revision], to)
  IN  [step |-> moved.step, revision |-> moved.revision, draft |-> rec.draft]

Status == IF approvals = <<>> THEN "absent"
          ELSE approvals[Len(approvals)].status

PostedIn(rows, v, n) == \E row \in rows : row.vendor = v /\ row.number = n
Posted(v, n) == PostedIn(ledger, v, n)

MineIn(rows) == {row \in rows : row.run = "this_run"}
Mine == MineIn(ledger)
Paid(rows) == {rows[i] : i \in DOMAIN rows}

\* Another run recorded this document, or the ledger has the invoice, from
\* whichever run: this one included.
Duplicate(v, n) == prior \notin {"unread", "nobody"} \/ Posted(v, n)

-----------------------------------------------------------------------------
(* The ERP.  Every table is one value of the store: a writer reads it and, *)
(* one store call later, puts it back as it was then with its own change.  *)
(* What others wrote in between is gone.                                   *)

Lose(table, keeps) == lost' = IF keeps THEN lost ELSE lost \cup {table}

WriteLedger(rows) ==
  /\ ledger' = rows
  /\ Lose("ledger", Mine \subseteq rows)
  /\ UNCHANGED <<payments, inbox>>

WritePayments(rows) ==
  /\ payments' = rows
  /\ Lose("payments", Paid(payments) \subseteq Paid(rows))
  /\ UNCHANGED <<ledger, inbox>>

WriteInbox(state) ==
  /\ inbox' = state
  /\ Lose("inbox", inbox = "processed" => state = "processed")
  /\ UNCHANGED <<ledger, payments>>

-----------------------------------------------------------------------------
(* Control.                                                                *)

At(p, l) == pc[p] = l
Goto(p, l) == pc' = [pc EXCEPT ![p] = l]

InDraft == {"remembering", "checking", "recording", "routing", "stashing"}
InGate  == {"gating", "parking", "asking", "scripting", "posting", "booking",
            "processing"}
InEnd   == {"finalizing", "settling", "marking", "shelving", "ending",
            "closing", "restoring"}

\* A tool's exception is answered to the model; one that leaves finalize, or
\* what runLivePipeline does after the loop, rejects the whole call.
OnThrow == IF pc[Live] \in InEnd \cup {"opening"} \/ inFinalize
           THEN "rejected" ELSE "loop"

\* The gate is done: back to the model's turn, or on with finalize.
After == IF inFinalize THEN "finalizing" ELSE "loop"

\* The store refuses the call at pc[Live].
Refused ==
  /\ faults < scenario.faults
  /\ faults' = faults + 1
  /\ Goto(Live, OnThrow)

\* transition and patch change the record in memory before they persist it.
Save(rec, l) ==
  /\ machine' = [machine EXCEPT ![Live] = rec]
  /\ \/ runstate' = rec /\ Goto(Live, l) /\ UNCHANGED faults
     \/ Refused /\ UNCHANGED runstate

Skip(l) == Goto(Live, l) /\ UNCHANGED <<runstate, machine, faults>>

\* The trace event that follows a change is appended or refused.
Trace(p, l) ==
  \/ Goto(p, l) /\ UNCHANGED faults
  \/ p = Live /\ Refused

-----------------------------------------------------------------------------
Init ==
  /\ scenario \in Scenarios /\ mode \in scenario.modes /\ script \in BOOLEAN
  /\ runstate = [step |-> "ingested", revision |-> 0, draft |-> 0]
  /\ approvals = <<>>
  /\ seen \in {"nobody", "other_run"}
  /\ learned = [v \in Vendors |-> "earlier"]
  /\ drafts = <<>>
  /\ ledger = {} /\ payments = <<>> /\ inbox = "processing" /\ lost = {}
  /\ reported = "none"
  /\ pc = [p \in Procs |-> IF p = Live THEN "opening" ELSE "idle"]
  /\ machine = [p \in Procs |-> runstate]
  /\ executing = [p \in Procs |-> 0]
  /\ attempt = [p \in Procs |-> 1]
  /\ drafted = 0
  /\ input = [vendor |-> None, number |-> None]
  /\ prior = "unread"
  /\ cache = [v \in Vendors |-> "unread"]
  /\ gate = "none" /\ gateRun = FALSE /\ parked = 0 /\ inFinalize = FALSE
  /\ disposal = "none" /\ target = "none"
  /\ ledgerRead = [w \in Writers |-> {}]
  /\ paymentsRead = [w \in Writers |-> <<>>]
  /\ inboxRead = "processing" /\ other = "idle"
  /\ calls = 0 /\ visits = 0 /\ failures = 0 /\ faults = 0 /\ others = 0

\* openLiveRun, for a document in scope: the model may start.
Open ==
  /\ At(Live, "opening")
  /\ Save(Moved(machine[Live], "extracted"), "loop")
  /\ UNCHANGED <<options, copies, approvals, memory, erp, reported, executor,
                 drafting, gating, disposal, bounds>>

\* GR-SCOPE: the run is rejected, traced and closed without the model.
ShortCircuit ==
  /\ At(Live, "opening")
  /\ drafts' = Append(drafts, [route |-> "reject", vendor |-> None,
                               number |-> input.number, gl |-> "unread"])
  /\ disposal' = "rejected" /\ target' = "rejected"
  /\ Save(Moved(machine[Live], "rejected"), "marking")
  /\ UNCHANGED <<options, approvals, seen, learned, erp, reported, executor,
                 drafting, gating, bounds, tables>>

-----------------------------------------------------------------------------
(* The tools.  lookup_po, lookup_receiving and kb_search only read.        *)

Call == At(Live, "loop") /\ calls < scenario.calls /\ calls' = calls + 1

\* Slip: the vendor's profile is read again by every draft.
FreshProfile(v) ==
  cache' = IF v = None THEN cache ELSE [cache EXCEPT ![v] = learned[v]]

\* readProfile: a profile is read from the store once per vendor.
ReadProfile(v) ==
  cache' = IF v = None \/ cache[v] # "unread" THEN cache
           ELSE [cache EXCEPT ![v] = learned[v]]

LookupVendor(v) ==
  /\ Call
  /\ ReadProfile(v)
  /\ UNCHANGED <<options, copies, runstate, approvals, memory, erp, reported,
                 pc, machine, executor, drafted, input, prior, gating,
                 disposal, visits, faults>>

\* check_duplicate: ensureDedupe, if it has not been done.
CheckDuplicate ==
  /\ Call
  /\ prior = "unread"
  /\ prior' = seen
  /\ Goto(Live, "remembering")
  /\ UNCHANGED <<options, copies, runstate, approvals, memory, erp, reported,
                 machine, executor, drafted, input, cache, gating, disposal,
                 visits, faults>>

\* update_vendor_profile, bounded to the vendor the current draft resolved.
TeachVendor(v) ==
  /\ Call
  /\ drafted > 0 /\ drafts[drafted].vendor = v
  /\ learned' = [learned EXCEPT ![v] = "this_run"]
  /\ UNCHANGED <<options, copies, runstate, approvals, seen, drafts, erp,
                 reported, pc, machine, executor, drafting, gating, disposal,
                 visits, faults>>

\* draft_action, with an extraction of the model's making.  The first draft
\* moves the run to matched.
StartDraft ==
  /\ Call
  /\ \E v \in scenario.vendors \cup {None}, n \in Numbers :
       input' = [vendor |-> v, number |-> n]
  /\ IF drafted = 0 /\ machine[Live].step = "extracted"
     THEN Save(Moved(machine[Live], "matched"), "checking")
     ELSE Skip("checking")
  /\ UNCHANGED <<options, copies, approvals, memory, erp, reported, executor,
                 drafted, prior, cache, gating, disposal, visits>>

\* The vendor's profile, then ensureDedupe's check of the digest.
CheckDigest ==
  /\ At(Live, "checking")
  /\ ReadProfile(input.vendor)
  /\ IF prior = "unread" THEN prior' = seen /\ Goto(Live, "recording")
                         ELSE UNCHANGED prior /\ Goto(Live, "routing")
  /\ UNCHANGED <<options, copies, runstate, approvals, memory, erp, reported,
                 machine, executor, drafted, input, gating, disposal, bounds,
                 faults>>

\* DedupeLedger.record, for either tool: the first writer wins, unless the
\* other run records between the read and the write of this one.
RecordDigest ==
  /\ \/ At(Live, "remembering") /\ Goto(Live, "loop")
     \/ At(Live, "recording")   /\ Goto(Live, "routing")
  /\ IF prior = "nobody" THEN seen' \in {"this_run", seen} \ {"nobody"}
                         ELSE UNCHANGED seen
  /\ UNCHANGED <<options, copies, runstate, approvals, learned, drafts, erp,
                 reported, machine, executor, drafting, gating, disposal,
                 bounds, faults>>

\* The ledger is asked for the invoice, the route disposed, the draft saved.
\* A duplicate or a document of no known vendor is at least held; anything
\* else may get any route (RouteDecision).
DisposeRoute ==
  /\ At(Live, "routing")
  /\ \E r \in Routes :
       /\ input.vendor = None \/ Duplicate(input.vendor, input.number)
            => r \notin Approve
       /\ drafts' = Append(drafts,
            [route |-> r, vendor |-> input.vendor, number |-> input.number,
             gl |-> IF input.vendor = None THEN "unread"
                                           ELSE cache[input.vendor]])
  /\ Goto(Live, "stashing")
  /\ UNCHANGED <<options, copies, runstate, approvals, seen, learned, erp,
                 reported, machine, executor, drafting, gating, disposal,
                 bounds, faults>>

\* The run record carries the draft: with the transition to decided, or
\* patched in when the run is past that.
Stash ==
  /\ At(Live, "stashing")
  /\ drafted' = Len(drafts)
  /\ IF machine[Live].step = "matched"
     THEN Save([Moved(machine[Live], "decided") EXCEPT !.draft = drafted'],
               "loop")
     ELSE IF machine[Live].step \notin TerminalSteps
     THEN Save([machine[Live] EXCEPT !.draft = drafted'], "loop")
     ELSE Skip("loop")
  /\ UNCHANGED <<options, copies, approvals, memory, erp, reported, executor,
                 input, prior, cache, gating, disposal, bounds>>

\* Slip: a draft already executed is taken through the gate again.
ExecuteAgain ==
  /\ Call
  /\ drafted > 0 /\ drafts[drafted].route \in Approve
  /\ gateRun' = TRUE
  /\ inFinalize' = FALSE
  /\ Goto(Live, "gating")
  /\ UNCHANGED <<options, copies, runstate, approvals, memory, erp, reported,
                 machine, executor, drafting, gate, parked, disposal, visits,
                 faults>>

\* execute_action of the current draft.  Other draft_refs, routes that do not
\* approve and a run that has executed are answered without the gate.
ExecuteAction ==
  /\ Call
  /\ drafted > 0 /\ drafts[drafted].route \in Approve
  /\ gate # "executed"
  /\ gateRun' = TRUE
  /\ inFinalize' = FALSE
  /\ Goto(Live, "gating")
  /\ UNCHANGED <<options, copies, runstate, approvals, memory, erp, reported,
                 machine, executor, drafting, gate, parked, disposal, visits,
                 faults>>

-----------------------------------------------------------------------------
(* The gate and the executor.                                              *)

\* Slip: any route that approves may skip the approver.
EligibleRoute(d) == mode = "autonomous" /\ drafts[d].route \in Approve

\* canAutoApprove: RouteDecision shows that it agrees with the route.
Eligible(d) == mode = "autonomous" /\ drafts[d].route = "auto_approve"

\* Slip: an approval that is still pending is not looked for.
NeverAsked == FALSE

\* The run has an approval that is still pending.
Asked == Status = "pending"

\* gateExecuteAction: shadow mode executes nothing, a decided approval is
\* followed, a pending one is waited for, and without one the policy decides.
Gate ==
  /\ At(Live, "gating")
  /\ \/ /\ mode = "shadow"
        /\ gate' = "executed"
        /\ Goto(Live, After)
        /\ UNCHANGED <<approvals, executing, parked>>
     \/ /\ mode # "shadow" /\ Status = "rejected"
        /\ gate' = "approval_rejected"
        /\ Goto(Live, After)
        /\ UNCHANGED <<approvals, executing, parked>>
     \/ /\ mode # "shadow"
        /\ Status \in Approved \/ (Status = "absent" /\ Eligible(drafted))
        /\ executing' = [executing EXCEPT ![Live] = drafted]
        /\ Goto(Live, "posting")
        /\ UNCHANGED <<approvals, gate, parked>>
     \/ /\ mode # "shadow"
        /\ Status = "pending" \/ (Status = "absent" /\ ~Eligible(drafted))
        /\ approvals' = IF Asked THEN approvals
                        ELSE Append(approvals, [draft |-> drafted,
                                                status |-> "pending"])
        /\ parked' = Len(approvals')
        /\ Goto(Live, "parking")
        /\ UNCHANGED <<executing, gate>>
  /\ UNCHANGED <<options, copies, runstate, memory, erp, reported, machine,
                 attempt, failures, drafting, gateRun, inFinalize, disposal,
                 bounds, faults>>

\* The run is parked, unless it already was.
Park ==
  /\ At(Live, "parking")
  /\ IF machine[Live].step = "decided"
     THEN Save(Moved(machine[Live], "awaiting_approval"), "asking")
     ELSE Skip("asking")
  /\ UNCHANGED <<options, copies, approvals, memory, erp, reported, executor,
                 drafting, gating, disposal, bounds>>

\* Slip: the run waits here for the approver.
AskAndWait ==
  /\ At(Live, "asking")
  /\ script \/ Status # "pending"
  /\ IF script THEN Goto(Live, "scripting") /\ UNCHANGED gate
               ELSE Goto(Live, After) /\ gate' = "awaiting_approval"
  /\ UNCHANGED <<options, copies, runstate, approvals, memory, erp, reported,
                 machine, executor, drafting, gateRun, parked, inFinalize,
                 disposal, bounds, faults>>

\* approval.requested is traced.  Without a scripted approver the gate's
\* answer is that the run waits, and the model goes on.
Ask ==
  /\ At(Live, "asking")
  /\ IF script THEN Goto(Live, "scripting") /\ UNCHANGED gate
               ELSE Goto(Live, After) /\ gate' = "awaiting_approval"
  /\ UNCHANGED <<options, copies, runstate, approvals, memory, erp, reported,
                 machine, executor, drafting, gateRun, parked, inFinalize,
                 disposal, bounds, faults>>

\* The scripted approver decides, without the claim of a visitor's request,
\* and the gate is asked again.  decideApproval refuses a decided approval.
DecideByScript ==
  /\ At(Live, "scripting")
  /\ IF approvals[parked].status = "pending"
     THEN /\ approvals' = [approvals EXCEPT ![parked].status = "approved"]
          /\ Goto(Live, "gating")
     ELSE /\ Goto(Live, OnThrow)
          /\ UNCHANGED approvals
  /\ UNCHANGED <<options, copies, runstate, memory, erp, reported, machine,
                 executor, drafting, gating, disposal, bounds, faults>>

Throwing(p) == IF p = Visitor THEN "failing" ELSE OnThrow

\* postToLedger, of the draft handed to the executor: the ledger is read ...
Post(p) ==
  /\ At(p, "posting")
  /\ LET d == drafts[executing[p]]
     IN  IF Posted(d.vendor, d.number)
         THEN Goto(p, Throwing(p)) /\ UNCHANGED ledgerRead
         ELSE Goto(p, "booking")
              /\ ledgerRead' = [ledgerRead EXCEPT ![p] = ledger]
  /\ attempt' = [attempt EXCEPT ![p] = 1]
  /\ UNCHANGED <<options, runstate, approvals, memory, erp, reported, machine,
                 executing, failures, drafting, gating, disposal, bounds,
                 faults, target, paymentsRead, inboxRead, other, others>>

\* ... and written back with the row.
Book(p) ==
  /\ At(p, "booking")
  /\ LET d == drafts[executing[p]]
     IN  WriteLedger(ledgerRead[p] \cup
           {[run |-> "this_run", vendor |-> d.vendor, number |-> d.number,
             draft |-> executing[p]]})
  /\ ledgerRead' = [ledgerRead EXCEPT ![p] = {}]
  /\ Trace(p, "paying")
  /\ UNCHANGED <<options, runstate, approvals, memory, reported, machine,
                 executor, drafting, gating, disposal, bounds, target,
                 paymentsRead, inboxRead, other, others>>

\* An attempt of schedulePayment fails: the second failure is rethrown.  The
\* failure toggle, which an operator may have armed since it last fired, fails
\* one call; or the store refuses one.
FailPayment(p) ==
  /\ \/ /\ failures < scenario.failures /\ failures' = failures + 1
        /\ UNCHANGED faults
     \/ /\ p = Live /\ faults < scenario.faults /\ faults' = faults + 1
        /\ UNCHANGED failures
  /\ attempt' = [attempt EXCEPT ![p] = 2]
  /\ Goto(p, IF attempt[p] = 1 THEN "paying" ELSE Throwing(p))

\* schedulePayment: the toggle and the payments are read ...
Pay(p) ==
  /\ At(p, "paying")
  /\ \/ /\ paymentsRead' = [paymentsRead EXCEPT ![p] = payments]
        /\ Goto(p, "scheduling")
        /\ UNCHANGED <<attempt, failures, faults>>
     \/ FailPayment(p) /\ UNCHANGED paymentsRead
  /\ UNCHANGED <<options, runstate, approvals, memory, erp, reported, machine,
                 executing, drafting, gating, disposal, bounds, target,
                 ledgerRead, inboxRead, other, others>>

\* ... and the payments written back with the row.
Schedule(p) ==
  /\ At(p, "scheduling")
  /\ WritePayments(Append(paymentsRead[p], executing[p]))
  /\ paymentsRead' = [paymentsRead EXCEPT ![p] = <<>>]
  /\ Goto(p, "processing")
  /\ UNCHANGED <<options, runstate, approvals, memory, reported, machine,
                 executor, drafting, gating, disposal, bounds, faults, target,
                 ledgerRead, inboxRead, other, others>>

\* The store refuses that write.
RefuseSchedule ==
  /\ At(Live, "scheduling")
  /\ faults < scenario.faults
  /\ FailPayment(Live) /\ UNCHANGED failures
  /\ UNCHANGED <<options, copies, runstate, approvals, memory, erp, reported,
                 machine, executing, drafting, gating, disposal, bounds>>

\* The inbox item is processed, whatever the copy of the inbox said of it,
\* and the executor returns.
Process(p) ==
  /\ At(p, "processing")
  /\ WriteInbox("processed")
  /\ LET next == IF p = Live THEN After ELSE "settling"
     IN  Trace(p, next)
  /\ gate' = IF p = Live /\ faults' = faults THEN "executed" ELSE gate
  /\ UNCHANGED <<options, copies, runstate, approvals, memory, reported,
                 machine, executor, drafting, gateRun, parked, inFinalize,
                 disposal, bounds>>

-----------------------------------------------------------------------------
(* The end of the loop.                                                    *)

\* The model is done.
Finish ==
  /\ At(Live, "loop")
  /\ Goto(Live, "finalizing")
  /\ inFinalize' = TRUE
  /\ UNCHANGED <<options, copies, runstate, approvals, memory, erp, reported,
                 machine, executor, drafting, gate, gateRun, parked, disposal,
                 bounds, faults>>

\* A breaker stops the loop after a model's turn, or the API or the trace
\* failed: finalize is not called.
Break ==
  /\ At(Live, "loop")
  /\ disposal' \in AbortSteps \cap scenario.aborts
  /\ Goto(Live, "ending")
  /\ UNCHANGED <<options, copies, runstate, approvals, memory, erp, reported,
                 machine, executor, drafting, gating, bounds, faults>>

\* Slip: that the gate was run is taken for its answer.
DisposalByGateRun ==
  IF drafted = 0
  THEN IF machine[Live].step = "matched" THEN "error" ELSE "held"
  ELSE IF drafts[drafted].route = "reject" THEN "rejected"
  ELSE IF drafts[drafted].route = "exception_hold" THEN "held"
  ELSE IF gate = "awaiting_approval" THEN gate
  ELSE "executed"

\* What finalize settles on, once the gate was run if it had to be.  Without
\* a draft a run that stands at matched can only be an error.
Disposal ==
  IF drafted = 0
  THEN IF machine[Live].step = "matched" THEN "error" ELSE "held"
  ELSE IF drafts[drafted].route = "reject" THEN "rejected"
  ELSE IF drafts[drafted].route = "exception_hold" THEN "held"
  ELSE IF gate \in {"executed", "awaiting_approval"} THEN gate
  ELSE "held"

\* finalize: an approve route the model did not execute goes to the gate now.
Finalize ==
  /\ At(Live, "finalizing")
  /\ IF drafted > 0 /\ drafts[drafted].route \in Approve /\ ~gateRun
     THEN /\ gateRun' = TRUE
          /\ Goto(Live, "gating")
          /\ UNCHANGED disposal
     ELSE /\ disposal' = Disposal
          /\ Goto(Live, IF disposal' = "awaiting_approval" THEN "ending"
                                                           ELSE "settling")
          /\ UNCHANGED gateRun
  /\ UNCHANGED <<options, copies, runstate, approvals, memory, erp, reported,
                 machine, executor, drafting, gate, parked, inFinalize, bounds,
                 faults>>

\* The inbox state for a document that did not end as executed.
Shelved == IF disposal = "rejected" THEN "rejected" ELSE "held"

\* The final transition, from the record in memory; the machine may refuse.
Settle ==
  /\ At(Live, "settling")
  /\ LET next == IF disposal = "executed" THEN "ending" ELSE "marking"
     IN  IF machine[Live].step \in TerminalSteps THEN Skip(next)
         ELSE IF CanTransition(machine[Live], disposal)
         THEN Save(Moved(machine[Live], disposal), next)
         ELSE Skip(OnThrow)
  /\ target' = IF disposal = "executed" THEN target ELSE Shelved
  /\ UNCHANGED <<options, approvals, memory, erp, reported, executor, drafting,
                 gating, disposal, bounds, tables>>

\* What follows the inbox state: a settled run ends its trace, one that was
\* aborted has, and a resumed one is held.
AfterMark(p) == IF p = Visitor THEN "idle"
                ELSE IF reported = "none" THEN "ending" ELSE "returned"

\* setInboxState: the inbox is read, and "processed" is left as it is ...
Mark(p) ==
  /\ At(p, "marking")
  /\ Goto(p, IF inbox = "processed" THEN AfterMark(p) ELSE "shelving")
  /\ UNCHANGED <<options, copies, runstate, approvals, memory, erp, reported,
                 machine, executor, drafting, gating, disposal, bounds,
                 faults>>

\* ... anything else is overwritten.
Shelve(p) ==
  /\ At(p, "shelving")
  /\ WriteInbox(IF p = Live THEN target ELSE "held")
  /\ Goto(p, AfterMark(p))
  /\ UNCHANGED <<options, copies, runstate, approvals, memory, reported,
                 machine, executor, drafting, gating, disposal, bounds,
                 faults>>

\* runWorkflow closes the trace.
End ==
  /\ At(Live, "ending")
  /\ reported' = disposal
  /\ Goto(Live, IF disposal \in AbortSteps THEN "closing" ELSE "returned")
  /\ UNCHANGED <<options, copies, runstate, approvals, memory, erp, machine,
                 executor, drafting, gating, disposal, bounds, faults>>

\* Slip: the breaker's outcome is only in the trace.
CloseTraceOnly ==
  /\ At(Live, "closing")
  /\ Skip("restoring")
  /\ UNCHANGED <<options, copies, approvals, memory, erp, reported, executor,
                 drafting, gating, disposal, bounds>>

\* runLivePipeline, after an abort: the stored run is loaded and settled.
Close ==
  /\ At(Live, "closing")
  /\ IF runstate.step \in TerminalSteps THEN Skip("restoring")
     ELSE Save(Moved(runstate, disposal), "restoring")
  /\ UNCHANGED <<options, copies, approvals, memory, erp, reported, executor,
                 drafting, gating, disposal, bounds>>

\* Slip: the document goes back to the inbox in any case.
RestoreAsNew ==
  /\ At(Live, "restoring")
  /\ target' = "new"
  /\ Goto(Live, "marking")
  /\ UNCHANGED <<options, runstate, approvals, memory, erp, reported, machine,
                 executor, drafting, gating, disposal, bounds, faults, tables>>

\* The document goes back to the inbox, as new if the ledger has no row of
\* this run.
Restore ==
  /\ At(Live, "restoring")
  /\ target' = IF Mine # {} THEN "held" ELSE "new"
  /\ Goto(Live, "marking")
  /\ UNCHANGED <<options, runstate, approvals, memory, erp, reported, machine,
                 executor, drafting, gating, disposal, bounds, faults, tables>>

\* A store call of the run is refused where nothing was changed in memory.
Refuse ==
  /\ pc[Live] \in (InDraft \ {"stashing"}) \cup InGate \cup InEnd
  /\ Refused
  /\ UNCHANGED <<options, copies, runstate, approvals, memory, erp, reported,
                 machine, executor, drafting, gating, disposal, bounds>>

-----------------------------------------------------------------------------
(* Everybody else.                                                         *)

\* A visitor decides the pending approval: resumeRun up to its decision, with
\* the run record and the draft stashed in it as they are now.
Visit(status) ==
  /\ At(Visitor, "idle")
  /\ visits < scenario.visits /\ visits' = visits + 1
  /\ runstate.step = "awaiting_approval"
  /\ Asked
  /\ drafts[runstate.draft].vendor # None
  /\ approvals' = [approvals EXCEPT ![Len(approvals)].status = status]
  /\ machine' = [machine EXCEPT ![Visitor] = runstate]
  /\ executing' = [executing EXCEPT ![Visitor] = runstate.draft]
  /\ Goto(Visitor, IF status = "rejected" THEN "revising" ELSE "posting")
  /\ UNCHANGED <<options, copies, runstate, memory, erp, reported, attempt,
                 failures, drafting, gating, disposal, calls, faults>>

\* A rejected draft is resubmitted while revisions are left, then held.
Revise ==
  /\ At(Visitor, "revising")
  /\ LET rec == machine[Visitor]
     IN  IF CanTransition(rec, "decided")
         THEN /\ approvals' = Append(approvals, [draft |-> executing[Visitor],
                                                 status |-> "pending"])
              /\ runstate' = Moved(Moved(rec, "decided"), "awaiting_approval")
              /\ Goto(Visitor, "idle")
         ELSE /\ runstate' = Moved(rec, "held")
              /\ Goto(Visitor, "marking")
              /\ UNCHANGED approvals
  /\ UNCHANGED <<options, copies, memory, erp, reported, machine, executor,
                 drafting, gating, disposal, bounds, faults>>

\* The run ends as executed, or as an error if the executor failed.
Resumed ==
  /\ \/ /\ At(Visitor, "settling")
        /\ runstate' = Moved(machine[Visitor], "executed")
     \/ /\ At(Visitor, "failing")
        /\ runstate' = Moved(machine[Visitor], "error")
  /\ Goto(Visitor, "idle")
  /\ UNCHANGED <<options, copies, approvals, memory, erp, reported, machine,
                 executor, drafting, gating, disposal, bounds, faults>>

\* Another run of the same document reads a table it is going to change.
OtherReads ==
  /\ other = "idle"
  /\ others < scenario.others /\ others' = others + 1
  /\ \/ /\ other' = "booking"
        /\ ledgerRead' = [ledgerRead EXCEPT ![Other] = ledger]
        /\ UNCHANGED <<paymentsRead, inboxRead>>
     \/ /\ other' = "scheduling"
        /\ paymentsRead' = [paymentsRead EXCEPT ![Other] = payments]
        /\ UNCHANGED <<ledgerRead, inboxRead>>
     \/ /\ other' = "shelving"
        /\ inboxRead' = inbox
        /\ UNCHANGED <<ledgerRead, paymentsRead>>
  /\ UNCHANGED <<options, target, runstate, approvals, memory, erp, reported,
                 pc, machine, executor, drafting, gating, disposal, bounds,
                 faults>>

\* It writes the table back: the ledger with the invoice, or another one; the
\* payments with its own, which are not counted here; the inbox with its state
\* of this document, or of another one.
OtherWrites ==
  /\ \/ /\ other = "booking"
        /\ \/ WriteLedger(ledgerRead[Other])
           \/ \E v \in scenario.vendors, n \in Numbers :
                /\ ~PostedIn(ledgerRead[Other], v, n)
                /\ WriteLedger(ledgerRead[Other] \cup
                     {[run |-> "other_run", vendor |-> v, number |-> n,
                       draft |-> 0]})
     \/ /\ other = "scheduling"
        /\ WritePayments(paymentsRead[Other])
     \/ /\ other = "shelving"
        /\ \E state \in IF inboxRead = "processed" THEN {"processed"}
                        ELSE InboxStates :
             WriteInbox(state)
  /\ other' = "idle"
  /\ ledgerRead' = [ledgerRead EXCEPT ![Other] = {}]
  /\ paymentsRead' = [paymentsRead EXCEPT ![Other] = <<>>]
  /\ UNCHANGED <<options, target, inboxRead, others, runstate, approvals,
                 memory, reported, pc, machine, executor, drafting, gating,
                 disposal, bounds, faults>>

\* It records the digest, which it may have found unrecorded long before.
OtherRecords ==
  /\ others < scenario.others /\ others' = others + 1
  /\ seen # "other_run" /\ seen' = "other_run"
  /\ UNCHANGED <<options, target, ledgerRead, paymentsRead, inboxRead, other,
                 runstate, approvals, learned, drafts, erp, reported, pc,
                 machine, executor, drafting, gating, disposal, bounds,
                 faults>>

-----------------------------------------------------------------------------
Tool ==
  \/ \E v \in scenario.vendors : LookupVendor(v) \/ TeachVendor(v)
  \/ CheckDuplicate \/ StartDraft \/ ExecuteAction

\* buildExecutor.
Execute(p) == Post(p) \/ Book(p) \/ Pay(p) \/ Schedule(p) \/ Process(p)

\* What the run does next when the model has made its move.
Work ==
  \/ Open \/ ShortCircuit
  \/ RecordDigest \/ CheckDigest \/ DisposeRoute \/ Stash
  \/ Gate \/ Park \/ Ask \/ DecideByScript
  \/ Execute(Live)
  \/ Finalize \/ Settle \/ End \/ Close \/ Restore
  \/ Mark(Live) \/ Shelve(Live)

Resume ==
  \/ Revise \/ Mark(Visitor) \/ Shelve(Visitor)
  \/ Execute(Visitor) \/ Resumed

Next ==
  \/ Tool \/ Finish \/ Break \/ Work \/ Refuse \/ RefuseSchedule
  \/ \E status \in {"approved", "rejected"} : Visit(status)
  \/ Resume \/ OtherReads \/ OtherWrites \/ OtherRecords

\* A handler that has started is carried on; and the model cannot talk for
\* ever, since the iteration cap and the wall clock break the loop.
Fairness == WF_vars(Work) /\ WF_vars(Finish \/ Break) /\ WF_vars(Resume)

Spec == Init /\ [][Next]_vars
FairSpec == Spec /\ Fairness

-----------------------------------------------------------------------------
Records == [step : RunSteps, revision : Nat, draft : Nat]
Teachers == {"unread", "earlier", "this_run"}
Rows == [run : {"this_run", "other_run"}, vendor : Vendors, number : Numbers,
         draft : Nat]

\* The store and the processes' locals keep their shape.
TypeOK ==
  /\ mode \in Modes /\ script \in BOOLEAN /\ scenario \in Scenarios
  /\ runstate \in Records
  /\ approvals \in Seq([draft : Nat,
                        status : {"pending", "approved", "rejected"}])
  /\ seen \in {"nobody", "this_run", "other_run"}
  /\ learned \in [Vendors -> Teachers]
  /\ drafts \in Seq([route : Routes, vendor : Vendors \cup {None},
                     number : Numbers \cup {None}, gl : Teachers])
  /\ ledger \subseteq Rows
  /\ payments \in Seq(Nat)
  /\ inbox \in InboxStates
  /\ lost \subseteq {"ledger", "payments", "inbox"}
  /\ reported \in {"none"} \cup RunSteps
  /\ pc[Live] \in InDraft \cup InGate \cup InEnd
                    \cup {"opening", "loop", "paying", "scheduling",
                          "returned", "rejected"}
  /\ pc[Visitor] \in {"idle", "revising", "posting", "booking", "paying",
                      "scheduling", "processing", "settling", "failing",
                      "marking", "shelving"}
  /\ machine \in [Procs -> Records]
  /\ executing \in [Procs -> Nat] /\ attempt \in [Procs -> {1, 2}]
  /\ drafted \in 0..Len(drafts)
  /\ input \in [vendor : Vendors \cup {None}, number : Numbers \cup {None}]
  /\ prior \in {"unread", "nobody", "this_run", "other_run"}
  /\ cache \in [Vendors -> Teachers]
  /\ gate \in {"none", "executed", "approval_rejected", "awaiting_approval"}
  /\ gateRun \in BOOLEAN /\ inFinalize \in BOOLEAN
  /\ parked \in 0..Len(approvals)
  /\ disposal \in {"none"} \cup RunSteps
  /\ target \in {"none", "new", "held", "rejected"}
  /\ ledgerRead \in [Writers -> SUBSET Rows]
  /\ paymentsRead \in [Writers -> Seq(Nat)]
  /\ inboxRead \in InboxStates
  /\ other \in {"idle", "booking", "scheduling", "shelving"}
  /\ calls \in 0..scenario.calls /\ visits \in 0..scenario.visits
  /\ failures \in 0..scenario.failures /\ faults \in 0..scenario.faults
  /\ others \in 0..scenario.others

-----------------------------------------------------------------------------
(* Safety, whatever the model calls.                                       *)

Undisturbed == visits = 0 /\ faults = 0

\* Money never moves past the gate: the run has a ledger row only if an
\* approver said yes, or for a draft that code itself routed to autonomous
\* execution; in shadow mode it has none.
MoneyIsGated ==
  \A row \in Mine :
    /\ mode # "shadow"
    /\ \/ \E i \in DOMAIN approvals : approvals[i].status \in Approved
       \/ mode = "autonomous" /\ drafts[row.draft].route = "auto_approve"

\* "One drafted action executes exactly once": however the model drafts and
\* executes, a run pays at most once, also when it names another invoice
\* between drafts and when payments fail.
PaidOnce == Undisturbed => Len(payments) <= 1

\* A GL code the model taught a vendor in this run is never consumed by a
\* draft of this run.
GlIsNotPlanted == \A i \in DOMAIN drafts : drafts[i].gl # "this_run"

\* The run asks again only when its last approval was rejected: executing
\* and drafting again while parked reuse the approval that is pending, also
\* when a visitor's decision comes in between.
OneOpenApproval ==
  \A i \in 1..(Len(approvals) - 1) : approvals[i].status = "rejected"

\* A ledger row of this run and a payment of the same draft.
MoneyMoved == \E row \in Mine : row.draft \in Paid(payments)

\* Executed means that the money moved and the document is out of the inbox,
\* but for what another writer's stale table took away: and nothing is taken
\* unless a visitor or another run wrote the ERP at all.
ExecutedWasPaid ==
  /\ runstate.step = "executed" /\ mode # "shadow" =>
       /\ MoneyMoved \/ lost \cap {"ledger", "payments"} # {}
       /\ inbox = "processed" \/ "inbox" \in lost
  /\ lost # {} => visits > 0 \/ others > 0

\* What run.end reports is the step the run record stands at, after a
\* breaker too, and a run reported as parked has a pending approval.
ReportedIsSettled ==
  Undisturbed /\ pc[Live] = "returned" =>
    /\ reported = runstate.step
    /\ reported = "awaiting_approval" => Asked

\* A document is offered again only if this run left no trace of it in the
\* ledger; a visitor who approves while a breaker closes the run can pay for
\* a document that was just given back, and a row that another writer took
\* away is not seen.
NewIsUntouched ==
  visits = 0 /\ "ledger" \notin lost /\ target = "new" => Mine = {}

-----------------------------------------------------------------------------
(* Liveness.                                                               *)

\* Every run closes its trace, unless a store call was refused or finalize's
\* own execution failed.
EveryRunEnds ==
  <>(\/ reported # "none"
     \/ faults > 0
     \/ pc[Live] = "rejected" /\ gate # "executed")

-----------------------------------------------------------------------------
(* What the documentation promises and the code does not keep.             *)

\* live-agent.ts: "Run state must carry the SAME draft the gate and the trace
\* carry", or a resume executes one draft against the record of another.
ResumeExecutesApproved ==
  \A row \in Mine :
    \A i \in DOMAIN approvals :
      approvals[i].status \in Approved => row.draft = approvals[i].draft

=============================================================================
