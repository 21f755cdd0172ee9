--------------------------- MODULE LiveRunProofs ---------------------------
(***************************************************************************)
(* Proofs about LiveRun for any vendors and invoice numbers, any number of *)
(* tool calls, visits, failing payments, refused store calls and writes of *)
(* other runs, whatever the scenarios.                                     *)
(*                                                                         *)
(* The model calls the tools as it likes, so nothing can be said of the    *)
(* order of drafts and executions: the invariants say what each place of   *)
(* the code may rely on, whatever the model did before.  They are proved   *)
(* in layers, each from those before it.                                   *)
(***************************************************************************)
EXTENDS LiveRun, TLAPS

LivePlaces == InDraft \cup InGate \cup InEnd
                \cup {"opening", "loop", "paying", "scheduling", "returned",
                      "rejected"}
VisitorPlaces == {"idle", "revising", "posting", "booking", "paying",
                  "scheduling", "processing", "settling", "failing", "marking",
                  "shelving"}
AtGate     == {"gating", "parking", "asking", "scripting"}
InExecutor == {"posting", "booking", "paying", "scheduling", "processing"}
AtEnd      == {"settling", "marking", "shelving", "ending", "closing",
               "restoring"}

\* The scenario, and where the processes are in it.
Placed ==
  /\ scenario \in Scenarios
  /\ pc \in [Procs -> LivePlaces \cup VisitorPlaces]
  /\ pc[Live] \in LivePlaces /\ pc[Visitor] \in VisitorPlaces

\* What finalize and the breakers settle on.
Ending ==
  /\ gate \in {"none", "executed", "approval_rejected", "awaiting_approval"}
  /\ disposal \in {"none"} \cup RunSteps /\ reported \in {"none"} \cup RunSteps
  /\ pc[Live] \in AtEnd => disposal \in RunSteps
  /\ pc[Live] = "settling" =>
       disposal \in {"executed", "held", "rejected", "error"}
  /\ pc[Live] = "closing" => disposal \in AbortSteps
  /\ pc[Live] \notin AtEnd \cup {"returned", "rejected"} => disposal = "none"
  /\ pc[Live] \notin {"marking", "shelving", "closing", "restoring",
                    "returned", "rejected"} => reported = "none"
  /\ target \in {"none", "new", "held", "rejected"}
  /\ pc[Live] \in {"marking", "shelving"} => target # "none"

Extractions == [vendor : Vendors \cup {None}, number : Numbers \cup {None}]
Drafts == [route : Routes, vendor : Vendors \cup {None},
           number : Numbers \cup {None}, gl : Teachers]

\* Only a document of a known vendor is approved, and it has a number.
DraftFits(d) ==
  /\ d.route \in Approve => d.vendor \in Vendors
  /\ d.vendor \in Vendors => d.number \in Numbers

\* The drafts, and the one at hand.
Drafting ==
  /\ learned \in [Vendors -> Teachers] /\ cache \in [Vendors -> Teachers]
  /\ drafts \in Seq(Drafts) /\ drafted \in 0..Len(drafts)
  /\ \A i \in DOMAIN drafts : DraftFits(drafts[i])
  /\ input \in Extractions
  /\ pc[Live] \in {"checking", "recording", "routing"} =>
       input.number \in Numbers
  /\ pc[Live] = "stashing" => Len(drafts) > 0
  /\ pc[Live] \in AtGate => drafted > 0 /\ drafts[drafted].route \in Approve

\* A run that has come as far as a decision carries its draft.
RecordFits(rec) ==
  /\ rec.draft \in 0..Len(drafts)
  /\ rec.step \in {"decided", "awaiting_approval"} => rec.draft > 0

Recorded ==
  /\ runstate \in Records /\ machine \in [Procs -> Records]
  /\ executing \in [Procs -> Nat] /\ attempt \in [Procs -> {1, 2}]
  /\ RecordFits(runstate) /\ RecordFits(machine[Live])
  /\ RecordFits(machine[Visitor])
  /\ pc[Visitor] = "revising" => executing[Visitor] \in DOMAIN drafts
                                 /\ machine[Visitor].draft > 0
  /\ \A p \in Procs :
       pc[p] \in InExecutor =>
         /\ executing[p] \in DOMAIN drafts
         /\ drafts[executing[p]].vendor \in Vendors

\* What every step keeps by itself.
Plain ==
  /\ mode \in Modes /\ script \in BOOLEAN
  /\ seen \in {"nobody", "this_run", "other_run"}
  /\ prior \in {"unread", "nobody", "this_run", "other_run"}
  /\ gateRun \in BOOLEAN /\ inFinalize \in BOOLEAN
  /\ calls \in 0..scenario.calls /\ visits \in 0..scenario.visits
  /\ failures \in 0..scenario.failures /\ faults \in 0..scenario.faults
  /\ others \in 0..scenario.others

\* The tables of the ERP, and the copies of those who are changing them.
Tables ==
  /\ ledger \subseteq Rows /\ ledgerRead \in [Writers -> SUBSET Rows]
  /\ payments \in Seq(Nat) /\ paymentsRead \in [Writers -> Seq(Nat)]
  /\ inbox \in InboxStates /\ inboxRead \in InboxStates
  /\ lost \subseteq {"ledger", "payments", "inbox"}
  /\ other \in {"idle", "booking", "scheduling", "shelving"}

-----------------------------------------------------------------------------
(* Money.                                                                  *)

Answers == {"pending", "approved", "rejected"}
Approvals == [draft : Nat, status : Answers]

\* Somebody said yes.
Consented == \E i \in DOMAIN approvals : approvals[i].status \in Approved

\* Draft d may be executed: with consent, or because code itself routed it to
\* autonomous execution.
MayMove(d) == mode # "shadow" /\ (Consented \/ Eligible(d))

\* Only the last approval can be pending, so that it alone is decided: a yes
\* or a no that was given stays.
Asking ==
  /\ approvals \in Seq(Approvals) /\ parked \in 0..Len(approvals)
  /\ pc[Live] \in {"parking", "asking", "scripting"} =>
       parked \in DOMAIN approvals
  /\ OneOpenApproval
  /\ pc[Visitor] = "revising" => Status = "rejected"

\* The rows of this run, in the ledger and in the copies of it.
HeldRows ==
  {row \in Rows :
     /\ row.run = "this_run"
     /\ row \in ledger \/ \E w \in Writers : row \in ledgerRead[w]}

\* Whoever is about to post may, and whatever was posted might.
Gated ==
  /\ approvals # <<>> => mode # "shadow"
  /\ \A p \in Procs : pc[p] \in {"posting", "booking"} => MayMove(executing[p])
  /\ \A row \in HeldRows : row.draft \in DOMAIN drafts /\ MayMove(row.draft)

\* One payment at most, and none before the gate's answer is about to come.
FewPaid(rows) ==
  rows # <<>> =>
    Len(rows) = 1 /\ (gate = "executed" \/ pc[Live] = "processing")

\* A run that nobody disturbs enters the gate only before it has executed,
\* and pays only there.
Once ==
  /\ visits \in Nat /\ faults \in Nat
  /\ visits = 0 => pc[Visitor] = "idle"
  /\ gate = "executed" \/ pc[Live] \in AtGate \cup InExecutor => gateRun
  /\ Undisturbed =>
       /\ pc[Live] \in AtGate \cup InExecutor => gate # "executed"
       /\ FewPaid(payments) /\ \A w \in Writers : FewPaid(paymentsRead[w])

\* What was written stays written, or its table has lost something.
ErpStep ==
  /\ lost \subseteq lost'
  /\ Mine \subseteq Mine' \/ "ledger" \in lost'
  /\ Paid(payments) \subseteq Paid(payments)' \/ "payments" \in lost'
  /\ inbox = "processed" => inbox' = "processed" \/ "inbox" \in lost'

Booked(d) == (\E row \in Mine : row.draft = d) \/ "ledger" \in lost
PaidFor == MoneyMoved \/ lost \cap {"ledger", "payments"} # {}
OutOfInbox == inbox = "processed" \/ "inbox" \in lost

SaysExecuted ==
  \/ gate = "executed" \/ disposal = "executed"
  \/ runstate.step = "executed" \/ machine[Live].step = "executed"
  \/ pc[Visitor] = "settling"

\* Whoever says executed has moved the money; only another writer's stale
\* table takes that back.
Executed ==
  /\ \A p \in Procs :
       /\ pc[p] \in {"paying", "scheduling"} => Booked(executing[p])
       /\ pc[p] = "processing" => PaidFor
  /\ mode # "shadow" /\ SaysExecuted => PaidFor /\ OutOfInbox

\* A run that is the only one to write the ERP has read what it overwrites.
Sole ==
  /\ lost = {}
  /\ pc[Live] = "booking" => ledgerRead[Live] = ledger
  /\ pc[Live] = "scheduling" => paymentsRead[Live] = payments
  /\ pc[Live] = "shelving" => inbox # "processed"

Alone ==
  /\ visits = 0 => pc[Visitor] = "idle"
  /\ others = 0 => other = "idle"
  /\ visits = 0 /\ others = 0 => Sole

\* The document is given back by the last thing a run does; and no copy of the
\* ledger has a row of this run that the ledger does not have.
GivenBack ==
  /\ visits \in Nat
  /\ visits = 0 => pc[Visitor] = "idle"
  /\ target = "new" =>
       pc[Live] \in (AtEnd \ {"settling"}) \cup {"returned", "rejected"}
  /\ "ledger" \notin lost =>
       \A w \in Writers : MineIn(ledgerRead[w]) \subseteq Mine
  /\ NewIsUntouched

-----------------------------------------------------------------------------
(* The GL code.                                                            *)

\* A vendor's code is read before the vendor can be taught: the draft that
\* resolved the vendor has read it.
ReadFirst ==
  /\ learned \in [Vendors -> {"earlier", "this_run"}]
  /\ \A v \in Vendors :
       /\ cache[v] # "this_run"
       /\ learned[v] = "this_run" => cache[v] # "unread"
  /\ \A i \in DOMAIN drafts :
       drafts[i].vendor \in Vendors => cache[drafts[i].vendor] # "unread"
  /\ pc[Live] \in {"recording", "routing"} /\ input.vendor \in Vendors =>
       cache[input.vendor] # "unread"
  /\ GlIsNotPlanted

-----------------------------------------------------------------------------
(* The report.                                                             *)

Talking == {"loop", "finalizing"} \cup InDraft

\* The step of a run that nobody disturbs follows from its drafts.
Standing ==
  /\ pc[Live] = "opening" => runstate.step = "ingested" /\ drafted = 0
  /\ pc[Live] \in Talking =>
       /\ drafted = 0 => runstate.step \in {"extracted", "matched"}
       /\ drafted > 0 => runstate.step \in {"decided", "awaiting_approval"}
  /\ pc[Live] \in InDraft \ {"remembering"} /\ drafted = 0 =>
       runstate.step = "matched"
  /\ pc[Live] \in AtGate \cup InExecutor =>
       drafted > 0 /\ runstate.step \in {"decided", "awaiting_approval"}
  /\ pc[Live] = "asking" => runstate.step = "awaiting_approval"

\* The gate's answer that the run waits stays true.
Waiting ==
  /\ pc[Live] = "scripting" => script
  /\ ~script /\ pc[Live] \in {"parking", "asking"} => Status = "pending"
  /\ gate = "awaiting_approval" =>
       /\ ~script /\ Status = "pending"
       /\ pc[Live] \in {"opening"} \cup Talking \cup AtGate \cup InExecutor =>
            runstate.step = "awaiting_approval"

\* What is about to be reported is what the run record comes to say.
Reporting ==
  /\ pc[Live] = "settling" => runstate.step \notin TerminalSteps
  /\ pc[Live] \in {"marking", "shelving"} =>
       runstate.step = disposal /\ reported \in {"none", disposal}
  /\ pc[Live] = "restoring" => runstate.step = disposal
  /\ pc[Live] \in {"ending", "closing"} =>
       \/ runstate.step = disposal
       \/ disposal \in AbortSteps /\ runstate.step \notin TerminalSteps
  /\ pc[Live] \in {"closing", "restoring"} => reported = disposal
  /\ disposal = "awaiting_approval" => Status = "pending"
  /\ pc[Live] = "returned" =>
       /\ reported = runstate.step
       /\ reported = "awaiting_approval" => Status = "pending"

\* The record in memory is the one in the store.
Calm == machine[Live] = runstate /\ Standing /\ Waiting /\ Reporting

InStep ==
  /\ visits \in Nat /\ faults \in Nat
  /\ visits = 0 => pc[Visitor] = "idle"
  /\ Undisturbed => Calm

-----------------------------------------------------------------------------
IInv ==
  /\ Placed /\ Ending /\ Drafting /\ Recorded /\ Plain
  /\ Tables /\ Asking /\ Gated /\ Once /\ Executed /\ Alone /\ GivenBack
  /\ ReadFirst /\ InStep

-----------------------------------------------------------------------------
(* Lemmas.                                                                 *)

LEMMA ProcsAre == /\ Live \in Procs /\ Visitor \in Procs /\ Live # Visitor
                  /\ \A p \in Procs : p = Live \/ p = Visitor
BY DEF Procs, Live, Visitor

LEMMA ScenarioIs ==
  ASSUME Placed
  PROVE  /\ scenario.vendors \subseteq Vendors
         /\ scenario.aborts \subseteq AbortSteps
         /\ scenario.modes \subseteq {"shadow", "assisted", "autonomous"}
         /\ scenario.calls \in Nat /\ scenario.visits \in Nat
         /\ scenario.failures \in Nat /\ scenario.faults \in Nat
         /\ scenario.others \in Nat
BY LiveAssumption DEF Placed

LEMMA AfterMarkPlace ==
  /\ AfterMark(Live) \in {"ending", "returned"} /\ AfterMark(Visitor) = "idle"
  /\ AfterMark(Live) = "ending" <=> reported = "none"
BY DEF AfterMark, Live, Visitor

LEMMA ThrowPlace == OnThrow \in {"rejected", "loop"}
BY DEF OnThrow

LEMMA AfterPlace == After \in {"finalizing", "loop"}
BY DEF After

LEMMA MovedType ==
  ASSUME NEW rec \in Records, NEW to \in RunSteps
  PROVE  /\ Moved(rec, to) \in Records
         /\ Moved(rec, to).step = to /\ Moved(rec, to).draft = rec.draft
BY DEF Moved, Transition, Records, Revises

LEMMA MovedFits ==
  ASSUME NEW rec \in Records, RecordFits(rec), NEW to \in RunSteps,
         to \in {"decided", "awaiting_approval"} => rec.draft > 0
  PROVE  Moved(rec, to) \in Records /\ RecordFits(Moved(rec, to))
BY MovedType DEF RecordFits

\* A record that is persisted, or is only in memory, is one that fits.
LEMMA SaveKeepsRecords ==
  ASSUME Placed, Recorded, NEW rec \in Records, RecordFits(rec),
         NEW l \in LivePlaces \ InExecutor, Save(rec, l),
         UNCHANGED <<drafts, executing, attempt>>
  PROVE  Recorded'
BY ProcsAre, ThrowPlace DEF Save, Refused, Goto, Placed, Recorded, RecordFits,
   InExecutor

LEMMA SkipKeepsRecords ==
  ASSUME Placed, Recorded, NEW l \in LivePlaces \ InExecutor, Skip(l),
         UNCHANGED <<drafts, executing, attempt>>
  PROVE  Recorded'
BY ProcsAre DEF Skip, Goto, Placed, Recorded, RecordFits, InExecutor

LEMMA RedraftFits ==
  ASSUME NEW rec \in Records, NEW n \in Nat, n > 0, n <= Len(drafts),
         Len(drafts) \in Nat
  PROVE  /\ [rec EXCEPT !.draft = n] \in Records
         /\ RecordFits([rec EXCEPT !.draft = n])
BY DEF Records, RecordFits

LEMMA PlacedKept ==
  ASSUME Placed, [Next]_vars
  PROVE  Placed'
<1> USE ProcsAre, ThrowPlace, AfterPlace DEF Placed, LivePlaces, VisitorPlaces,
   InDraft, InGate, InEnd, At, Goto, options, memory, erp, executor, drafting,
   gating, bounds, copies, tables
<1>1. CASE Open
  BY <1>1 DEF Open, Save, Refused
<1>2. CASE ShortCircuit
  BY <1>2 DEF ShortCircuit, Save, Refused
<1>3. ASSUME NEW v \in Vendors, LookupVendor(v)
      PROVE  Placed'
  BY <1>3 DEF LookupVendor, ReadProfile, Call
<1>4. ASSUME NEW v \in Vendors, TeachVendor(v)
      PROVE  Placed'
  BY <1>4 DEF TeachVendor, Call
<1>5. CASE CheckDuplicate
  BY <1>5 DEF CheckDuplicate, Call
<1>6. CASE StartDraft
  BY <1>6 DEF StartDraft, Call, Save, Skip, Refused
<1>7. CASE ExecuteAction
  BY <1>7 DEF ExecuteAction, Call
<1>8. CASE Finish
  BY <1>8 DEF Finish
<1>9. CASE Break
  BY <1>9 DEF Break
<1>10. CASE RecordDigest
  BY <1>10 DEF RecordDigest
<1>11. CASE CheckDigest
  BY <1>11 DEF CheckDigest, ReadProfile
<1>12. CASE DisposeRoute
  BY <1>12 DEF DisposeRoute
<1>13. CASE Stash
  BY <1>13 DEF Stash, Save, Skip, Refused
<1>14. CASE Gate
  BY <1>14 DEF Gate
<1>15. CASE Park
  BY <1>15 DEF Park, Save, Skip, Refused
<1>16. CASE Ask
  BY <1>16 DEF Ask
<1>17. CASE DecideByScript
  BY <1>17 DEF DecideByScript
<1>18. ASSUME NEW p \in Procs, Post(p)
      PROVE  Placed'
  BY <1>18 DEF Post, Trace, Refused, Throwing
<1>19. ASSUME NEW p \in Procs, Pay(p)
      PROVE  Placed'
  BY <1>19 DEF Pay, FailPayment, Throwing
<1>20. ASSUME NEW p \in Procs, Process(p)
      PROVE  Placed'
  BY <1>20 DEF Process, Trace, Refused
<1>21. CASE Finalize
  BY <1>21 DEF Finalize
<1>22. CASE Settle
  BY <1>22 DEF Settle, Save, Skip, Refused
<1>23. ASSUME NEW p \in Procs, Mark(p)
      PROVE  Placed'
  BY <1>23 DEF Mark, AfterMark
<1>24. CASE End
  BY <1>24 DEF End
<1>25. CASE Close
  BY <1>25 DEF Close, Save, Skip, Refused
<1>26. CASE Restore
  BY <1>26 DEF Restore
<1>27. CASE Refuse
  BY <1>27 DEF Refuse, Refused
<1>28. ASSUME NEW status \in {"approved", "rejected"}, Visit(status)
      PROVE  Placed'
  BY <1>28 DEF Visit
<1>29. CASE Revise
  BY <1>29 DEF Revise
<1>30. CASE Resumed
  BY <1>30 DEF Resumed
<1>31. CASE OtherReads
  BY <1>31 DEF OtherReads
<1>32. CASE UNCHANGED vars
  BY <1>32 DEF vars
<1>33. ASSUME NEW p \in Procs, Book(p)
      PROVE  Placed'
  BY <1>33 DEF Book, Trace, Refused
<1>34. ASSUME NEW p \in Procs, Schedule(p)
      PROVE  Placed'
  BY <1>34 DEF Schedule
<1>35. CASE RefuseSchedule
  BY <1>35 DEF RefuseSchedule, FailPayment, Throwing
<1>36. ASSUME NEW p \in Procs, Shelve(p)
      PROVE  Placed'
  BY <1>36 DEF Shelve, AfterMark
<1>37. CASE OtherWrites
  BY <1>37 DEF OtherWrites
<1>38. CASE OtherRecords
  BY <1>38 DEF OtherRecords
<1> QED
  BY <1>1, <1>2, <1>3, <1>4, <1>5, <1>6, <1>7, <1>8, <1>9, <1>10, <1>11, <1>12,
     <1>13, <1>14, <1>15, <1>16, <1>17, <1>18, <1>19, <1>20, <1>21, <1>22,
     <1>23, <1>24, <1>25, <1>26, <1>27, <1>28, <1>29, <1>30, <1>31, <1>32,
     <1>33, <1>34, <1>35, <1>36, <1>37, <1>38, ProcsAre, ScenarioIs
     DEF Next, Tool, Work, Execute, Resume, Procs

LEMMA EndingKept ==
  ASSUME Placed, Ending, [Next]_vars
  PROVE  Ending'
<1> USE ProcsAre, ThrowPlace, AfterPlace, AfterMarkPlace DEF Placed, Ending,
   AtEnd, AbortSteps, TerminalSteps, RunSteps, At, Goto, options, memory, erp,
   executor, drafting, gating, bounds, copies, tables
<1>1. CASE Open
  BY <1>1 DEF Open, Save, Refused
<1>2. CASE ShortCircuit
  BY <1>2 DEF ShortCircuit, Save, Refused, OnThrow, InEnd
<1>3. ASSUME NEW v \in Vendors, LookupVendor(v)
      PROVE  Ending'
  BY <1>3 DEF LookupVendor, ReadProfile, Call
<1>4. ASSUME NEW v \in Vendors, TeachVendor(v)
      PROVE  Ending'
  BY <1>4 DEF TeachVendor, Call
<1>5. CASE CheckDuplicate
  BY <1>5 DEF CheckDuplicate, Call
<1>6. CASE StartDraft
  BY <1>6 DEF StartDraft, Call, Save, Skip, Refused
<1>7. CASE ExecuteAction
  BY <1>7 DEF ExecuteAction, Call
<1>8. CASE Finish
  BY <1>8 DEF Finish
<1>9. CASE Break
  BY <1>9 DEF Break
<1>10. CASE RecordDigest
  BY <1>10 DEF RecordDigest
<1>11. CASE CheckDigest
  BY <1>11 DEF CheckDigest, ReadProfile
<1>12. CASE DisposeRoute
  BY <1>12 DEF DisposeRoute
<1>13. CASE Stash
  BY <1>13 DEF Stash, Save, Skip, Refused
<1>14. CASE Gate
  BY <1>14 DEF Gate
<1>15. CASE Park
  BY <1>15 DEF Park, Save, Skip, Refused
<1>16. CASE Ask
  BY <1>16 DEF Ask
<1>17. CASE DecideByScript
  BY <1>17 DEF DecideByScript
<1>18. ASSUME NEW p \in Procs, Post(p)
      PROVE  Ending'
  BY <1>18 DEF Post, Trace, Refused, Throwing
<1>19. ASSUME NEW p \in Procs, Pay(p)
      PROVE  Ending'
  BY <1>19 DEF Pay, FailPayment, Throwing
<1>20. ASSUME NEW p \in Procs, Process(p)
      PROVE  Ending'
  BY <1>20 DEF Process, Trace, Refused
<1>21. CASE Finalize
  BY <1>21 DEF Finalize, Disposal, InEnd
<1>22. CASE Settle
  BY <1>22 DEF Settle, Shelved, Save, Skip, Refused, OnThrow, InEnd
<1>23. ASSUME NEW p \in Procs, Mark(p)
      PROVE  Ending'
  BY <1>23 DEF Mark
<1>24. CASE End
  BY <1>24 DEF End
<1>25. CASE Close
  BY <1>25 DEF Close, Save, Skip, Refused, OnThrow, InEnd
<1>26. CASE Restore
  BY <1>26 DEF Restore
<1>27. CASE Refuse
  BY <1>27 DEF Refuse, Refused, OnThrow, InEnd, InDraft, InGate
<1>28. ASSUME NEW status \in {"approved", "rejected"}, Visit(status)
      PROVE  Ending'
  BY <1>28 DEF Visit
<1>29. CASE Revise
  BY <1>29 DEF Revise
<1>30. CASE Resumed
  BY <1>30 DEF Resumed
<1>31. CASE OtherReads
  BY <1>31 DEF OtherReads
<1>32. CASE UNCHANGED vars
  BY <1>32 DEF vars
<1>33. ASSUME NEW p \in Procs, Book(p)
      PROVE  Ending'
  BY <1>33 DEF Book, Trace, Refused
<1>34. ASSUME NEW p \in Procs, Schedule(p)
      PROVE  Ending'
  BY <1>34 DEF Schedule
<1>35. CASE RefuseSchedule
  BY <1>35 DEF RefuseSchedule, FailPayment, Throwing
<1>36. ASSUME NEW p \in Procs, Shelve(p)
      PROVE  Ending'
  BY <1>36 DEF Shelve
<1>37. CASE OtherWrites
  BY <1>37 DEF OtherWrites
<1>38. CASE OtherRecords
  BY <1>38 DEF OtherRecords
<1> QED
  BY <1>1, <1>2, <1>3, <1>4, <1>5, <1>6, <1>7, <1>8, <1>9, <1>10, <1>11, <1>12,
     <1>13, <1>14, <1>15, <1>16, <1>17, <1>18, <1>19, <1>20, <1>21, <1>22,
     <1>23, <1>24, <1>25, <1>26, <1>27, <1>28, <1>29, <1>30, <1>31, <1>32,
     <1>33, <1>34, <1>35, <1>36, <1>37, <1>38, ProcsAre, ScenarioIs
     DEF Next, Tool, Work, Execute, Resume, Procs

LEMMA DraftingKept ==
  ASSUME Placed, Ending, Drafting, [Next]_vars
  PROVE  Drafting'
<1> USE ProcsAre, ThrowPlace, AfterPlace, LiveAssumption DEF Placed, Drafting,
   DraftFits, AtGate, Drafts, Extractions, Teachers, At, Goto, options, memory,
   erp, executor, drafting, gating, bounds, copies, tables
<1>1. CASE Open
  BY <1>1 DEF Open, Save, Refused
<1>2. CASE ShortCircuit
  BY <1>2 DEF ShortCircuit, Save, Refused, Routes, Approve
<1>3. ASSUME NEW v \in Vendors, LookupVendor(v)
      PROVE  Drafting'
  BY <1>3 DEF LookupVendor, ReadProfile, Call
<1>4. ASSUME NEW v \in Vendors, TeachVendor(v)
      PROVE  Drafting'
  BY <1>4 DEF TeachVendor, Call
<1>5. CASE CheckDuplicate
  BY <1>5 DEF CheckDuplicate, Call
<1>6. CASE StartDraft
  BY <1>6 DEF StartDraft, Call, Save, Skip, Refused
<1>7. CASE ExecuteAction
  BY <1>7 DEF ExecuteAction, Call
<1>8. CASE Finish
  BY <1>8 DEF Finish
<1>9. CASE Break
  BY <1>9 DEF Break
<1>10. CASE RecordDigest
  BY <1>10 DEF RecordDigest
<1>11. CASE CheckDigest
  BY <1>11 DEF CheckDigest, ReadProfile
<1>12. CASE DisposeRoute
  BY <1>12 DEF DisposeRoute, Duplicate, Approve, Routes
<1>13. CASE Stash
  BY <1>13 DEF Stash, Save, Skip, Refused
<1>14. CASE Gate
  BY <1>14 DEF Gate
<1>15. CASE Park
  BY <1>15 DEF Park, Save, Skip, Refused
<1>16. CASE Ask
  BY <1>16 DEF Ask
<1>17. CASE DecideByScript
  BY <1>17 DEF DecideByScript
<1>18. ASSUME NEW p \in Procs, Post(p)
      PROVE  Drafting'
  BY <1>18 DEF Post, Trace, Refused, Throwing
<1>19. ASSUME NEW p \in Procs, Pay(p)
      PROVE  Drafting'
  BY <1>19 DEF Pay, FailPayment, Throwing
<1>20. ASSUME NEW p \in Procs, Process(p)
      PROVE  Drafting'
  BY <1>20 DEF Process, Trace, Refused
<1>21. CASE Finalize
  BY <1>21 DEF Finalize
<1>22. CASE Settle
  BY <1>22 DEF Settle, Save, Skip, Refused
<1>23. ASSUME NEW p \in Procs, Mark(p)
      PROVE  Drafting'
  BY <1>23 DEF Mark, AfterMark
<1>24. CASE End
  BY <1>24 DEF End
<1>25. CASE Close
  BY <1>25 DEF Close, Save, Skip, Refused
<1>26. CASE Restore
  BY <1>26 DEF Restore
<1>27. CASE Refuse
  BY <1>27 DEF Refuse, Refused, InEnd, InDraft, InGate
<1>28. ASSUME NEW status \in {"approved", "rejected"}, Visit(status)
      PROVE  Drafting'
  BY <1>28 DEF Visit
<1>29. CASE Revise
  BY <1>29 DEF Revise
<1>30. CASE Resumed
  BY <1>30 DEF Resumed
<1>31. CASE OtherReads
  BY <1>31 DEF OtherReads
<1>32. CASE UNCHANGED vars
  BY <1>32 DEF vars
<1>33. ASSUME NEW p \in Procs, Book(p)
      PROVE  Drafting'
  BY <1>33 DEF Book, Trace, Refused
<1>34. ASSUME NEW p \in Procs, Schedule(p)
      PROVE  Drafting'
  BY <1>34 DEF Schedule
<1>35. CASE RefuseSchedule
  BY <1>35 DEF RefuseSchedule, FailPayment, Throwing
<1>36. ASSUME NEW p \in Procs, Shelve(p)
      PROVE  Drafting'
  BY <1>36 DEF Shelve, AfterMark
<1>37. CASE OtherWrites
  BY <1>37 DEF OtherWrites
<1>38. CASE OtherRecords
  BY <1>38 DEF OtherRecords
<1> QED
  BY <1>1, <1>2, <1>3, <1>4, <1>5, <1>6, <1>7, <1>8, <1>9, <1>10, <1>11, <1>12,
     <1>13, <1>14, <1>15, <1>16, <1>17, <1>18, <1>19, <1>20, <1>21, <1>22,
     <1>23, <1>24, <1>25, <1>26, <1>27, <1>28, <1>29, <1>30, <1>31, <1>32,
     <1>33, <1>34, <1>35, <1>36, <1>37, <1>38, ProcsAre, ScenarioIs
     DEF Next, Tool, Work, Execute, Resume, Procs

LEMMA RecordedKept ==
  ASSUME Placed, Ending, Drafting, Drafting', Recorded, [Next]_vars
  PROVE  Recorded'
<1> USE ProcsAre, ThrowPlace, AfterPlace DEF At, Goto, options, memory, erp,
   executor, drafting, gating, bounds, copies, tables
<1>1. CASE Open
  <2>1. Moved(machine[Live], "extracted") \in Records
        /\ RecordFits(Moved(machine[Live], "extracted"))
    BY <1>1, MovedFits, ProcsAre DEF Open, Recorded, RunSteps
  <2> QED
    BY <1>1, <2>1, SaveKeepsRecords, SkipKeepsRecords DEF Open, LivePlaces,
       InExecutor, InDraft, InGate, InEnd
<1>2. CASE ShortCircuit
  BY <1>2, MovedType DEF ShortCircuit, Save, Refused, Placed, Ending, Drafting,
     Recorded, RecordFits, InExecutor, RunSteps, TerminalSteps
<1>3. ASSUME NEW v \in Vendors, LookupVendor(v)
      PROVE  Recorded'
  BY <1>3 DEF LookupVendor, ReadProfile, Call, Placed, Ending, Drafting,
     Recorded, RecordFits, InExecutor
<1>4. ASSUME NEW v \in Vendors, TeachVendor(v)
      PROVE  Recorded'
  BY <1>4 DEF TeachVendor, Call, Placed, Ending, Drafting, Recorded,
     RecordFits, InExecutor
<1>5. CASE CheckDuplicate
  BY <1>5 DEF CheckDuplicate, Call, Placed, Ending, Drafting, Recorded,
     RecordFits, InExecutor
<1>6. CASE StartDraft
  <2>1. Moved(machine[Live], "matched") \in Records
        /\ RecordFits(Moved(machine[Live], "matched"))
    BY <1>6, MovedFits, ProcsAre DEF StartDraft, Recorded, RunSteps
  <2> QED
    BY <1>6, <2>1, SaveKeepsRecords, SkipKeepsRecords DEF StartDraft,
       LivePlaces, InExecutor, InDraft, InGate, InEnd
<1>7. CASE ExecuteAction
  BY <1>7 DEF ExecuteAction, Call, Placed, Ending, Drafting, Recorded,
     RecordFits, InExecutor
<1>8. CASE Finish
  BY <1>8 DEF Finish, Placed, Ending, Drafting, Recorded, RecordFits,
     InExecutor
<1>9. CASE Break
  BY <1>9 DEF Break, Placed, Ending, Drafting, Recorded, RecordFits, InExecutor
<1>10. CASE RecordDigest
  BY <1>10 DEF RecordDigest, Placed, Ending, Drafting, Recorded, RecordFits,
     InExecutor
<1>11. CASE CheckDigest
  BY <1>11 DEF CheckDigest, ReadProfile, Placed, Ending, Drafting, Recorded,
     RecordFits, InExecutor
<1>12. CASE DisposeRoute
  BY <1>12 DEF DisposeRoute, Placed, Ending, Drafting, Recorded, RecordFits,
     InExecutor
<1>13. CASE Stash
  <2>1. /\ drafted' \in Nat /\ drafted' > 0 /\ drafted' <= Len(drafts)
        /\ Len(drafts) \in Nat
    BY <1>13, ProcsAre DEF Stash, Drafting
  <2>2. CASE machine[Live].step = "matched"
    <3> DEFINE rec == [Moved(machine[Live], "decided")
                         EXCEPT !.draft = drafted']
    <3>1. rec \in Records /\ RecordFits(rec)
      <4>1. Moved(machine[Live], "decided") \in Records
        BY MovedType, ProcsAre DEF Recorded, RunSteps
      <4> QED
        BY <2>1, <4>1, RedraftFits
    <3>2. Save(rec, "loop")
      BY <1>13, <2>2 DEF Stash
    <3> QED
      BY <1>13, <3>1, <3>2, SaveKeepsRecords DEF Stash, LivePlaces, InExecutor
  <2>3. CASE machine[Live].step \notin TerminalSteps \cup {"matched"}
    <3> DEFINE rec == [machine[Live] EXCEPT !.draft = drafted']
    <3>1. rec \in Records /\ RecordFits(rec)
      BY <2>1, RedraftFits, ProcsAre DEF Recorded
    <3>2. Save(rec, "loop")
      BY <1>13, <2>3 DEF Stash
    <3> QED
      BY <1>13, <3>1, <3>2, SaveKeepsRecords DEF Stash, LivePlaces, InExecutor
  <2>4. CASE machine[Live].step \in TerminalSteps
    BY <1>13, <2>4, SkipKeepsRecords DEF Stash, LivePlaces, InExecutor,
       TerminalSteps
  <2> QED
    BY <2>2, <2>3, <2>4
<1>14. CASE Gate
  <2>1. drafted \in DOMAIN drafts /\ drafts[drafted].vendor \in Vendors
    BY <1>14, ProcsAre DEF Gate, Drafting, DraftFits, AtGate
  <2> QED
    BY <1>14, <2>1, AfterPlace DEF Gate, Placed, Drafting, Recorded,
       RecordFits, InExecutor
<1>15. CASE Park
  <2>1. CASE machine[Live].step = "decided"
    <3>1. Moved(machine[Live], "awaiting_approval") \in Records
          /\ RecordFits(Moved(machine[Live], "awaiting_approval"))
      BY <2>1, MovedFits, ProcsAre DEF Recorded, RecordFits, RunSteps
    <3> QED
      BY <1>15, <2>1, <3>1, SaveKeepsRecords DEF Park, LivePlaces, InGate,
         InExecutor
  <2>2. CASE machine[Live].step # "decided"
    BY <1>15, <2>2, SkipKeepsRecords DEF Park, LivePlaces, InGate, InExecutor
  <2> QED
    BY <2>1, <2>2
<1>16. CASE Ask
  BY <1>16 DEF Ask, Placed, Ending, Drafting, Recorded, RecordFits, InExecutor
<1>17. CASE DecideByScript
  BY <1>17 DEF DecideByScript, Placed, Ending, Drafting, Recorded, RecordFits,
     InExecutor
<1>18. ASSUME NEW p \in Procs, Post(p)
      PROVE  Recorded'
  BY <1>18 DEF Post, Trace, Refused, Placed, Ending, Drafting, Recorded,
     RecordFits, InExecutor, Throwing
<1>19. ASSUME NEW p \in Procs, Pay(p)
      PROVE  Recorded'
  BY <1>19 DEF Pay, FailPayment, Placed, Ending, Drafting, Recorded,
     RecordFits, InExecutor, Throwing
<1>20. ASSUME NEW p \in Procs, Process(p)
      PROVE  Recorded'
  BY <1>20 DEF Process, Trace, Refused, Placed, Ending, Drafting,
     Recorded, RecordFits, InExecutor
<1>21. CASE Finalize
  BY <1>21 DEF Finalize, Placed, Ending, Drafting, Recorded, RecordFits,
     InExecutor
<1>22. CASE Settle
  <2>1. disposal \in RunSteps
    BY <1>22 DEF Settle, Ending, AtEnd
  <2>2. machine[Live] \in Records /\ RecordFits(machine[Live])
    BY DEF Recorded
  <2>3. CASE CanTransition(machine[Live], disposal)
    <3>1. disposal \in {"decided", "awaiting_approval"} =>
            machine[Live].draft > 0
      BY <1>22 DEF Settle, Ending
    <3> QED
      BY <1>22, <2>1, <2>2, <2>3, <3>1, MovedFits, SaveKeepsRecords,
         SkipKeepsRecords DEF Settle, LivePlaces, InEnd, InExecutor
  <2>4. CASE ~CanTransition(machine[Live], disposal)
    BY <1>22, <2>4, SkipKeepsRecords, ThrowPlace DEF Settle, LivePlaces, InEnd,
       InExecutor
  <2> QED
    BY <2>3, <2>4
<1>23. ASSUME NEW p \in Procs, Mark(p)
      PROVE  Recorded'
  BY <1>23 DEF Mark, AfterMark, Placed, Ending, Drafting, Recorded,
     RecordFits, InExecutor
<1>24. CASE End
  BY <1>24 DEF End, Placed, Ending, Drafting, Recorded, RecordFits, InExecutor
<1>25. CASE Close
  <2>1. Moved(runstate, disposal) \in Records
        /\ RecordFits(Moved(runstate, disposal))
    BY <1>25, MovedFits DEF Close, Recorded, Ending, AbortSteps, RunSteps,
       TerminalSteps
  <2> QED
    BY <1>25, <2>1, SaveKeepsRecords, SkipKeepsRecords DEF Close, LivePlaces,
       InEnd, InExecutor
<1>26. CASE Restore
  BY <1>26 DEF Restore, Placed, Ending, Drafting, Recorded,
     RecordFits, InExecutor
<1>27. CASE Refuse
  BY <1>27 DEF Refuse, Refused, Placed, Ending, Drafting, Recorded, RecordFits,
     InExecutor, InEnd, InDraft, InGate
<1>28. ASSUME NEW status \in {"approved", "rejected"}, Visit(status)
      PROVE  Recorded'
  <2>1. runstate \in Records /\ runstate.draft \in 1..Len(drafts)
    BY <1>28 DEF Visit, Recorded, Records, RecordFits, Drafting
  <2>2. /\ runstate.draft \in DOMAIN drafts
        /\ drafts[runstate.draft] \in Drafts
    BY <2>1 DEF Drafting
  <2>3. drafts[runstate.draft].vendor \in Vendors
    BY <1>28, <2>2 DEF Visit, Drafts
  <2> QED
    BY <1>28, <2>1, <2>2, <2>3 DEF Visit, Placed, Drafting, Recorded,
       RecordFits, InExecutor, Records
<1>29. CASE Revise
  BY <1>29, MovedType DEF Revise, Placed, Ending, Drafting, Recorded,
     RecordFits, InExecutor, RunSteps, TerminalSteps
<1>30. CASE Resumed
  BY <1>30, MovedType DEF Resumed, Placed, Ending, Drafting, Recorded,
     RecordFits, InExecutor, RunSteps, TerminalSteps
<1>31. CASE OtherReads
  BY <1>31 DEF OtherReads, Placed, Ending, Drafting, Recorded, RecordFits,
     InExecutor
<1>32. CASE UNCHANGED vars
  BY <1>32 DEF vars, Placed, Ending, Drafting, Recorded, RecordFits, InExecutor
<1>33. ASSUME NEW p \in Procs, Book(p)
      PROVE  Recorded'
  BY <1>33 DEF Book, Trace, Refused, Placed, Ending, Drafting, Recorded,
     RecordFits, InExecutor
<1>34. ASSUME NEW p \in Procs, Schedule(p)
      PROVE  Recorded'
  BY <1>34 DEF Schedule, Placed, Ending, Drafting, Recorded, RecordFits,
     InExecutor
<1>35. CASE RefuseSchedule
  BY <1>35 DEF RefuseSchedule, FailPayment, Throwing, Placed, Ending,
     Drafting, Recorded, RecordFits, InExecutor
<1>36. ASSUME NEW p \in Procs, Shelve(p)
      PROVE  Recorded'
  BY <1>36 DEF Shelve, AfterMark, Placed, Ending, Drafting, Recorded,
     RecordFits, InExecutor
<1>37. CASE OtherWrites
  BY <1>37 DEF OtherWrites, Placed, Ending, Drafting, Recorded, RecordFits,
     InExecutor
<1>38. CASE OtherRecords
  BY <1>38 DEF OtherRecords, Placed, Ending, Drafting, Recorded, RecordFits,
     InExecutor
<1> QED
  BY <1>1, <1>2, <1>3, <1>4, <1>5, <1>6, <1>7, <1>8, <1>9, <1>10, <1>11, <1>12,
     <1>13, <1>14, <1>15, <1>16, <1>17, <1>18, <1>19, <1>20, <1>21, <1>22,
     <1>23, <1>24, <1>25, <1>26, <1>27, <1>28, <1>29, <1>30, <1>31, <1>32,
     <1>33, <1>34, <1>35, <1>36, <1>37, <1>38, ProcsAre, ScenarioIs
     DEF Next, Tool, Work, Execute, Resume, Procs

\* Only the executor, the inbox and the other run touch the tables.
LEMMA TouchesTables ==
  ASSUME Placed, [Next]_vars
  PROVE  \/ UNCHANGED <<erp, ledgerRead, paymentsRead, inboxRead, other>>
         \/ \E p \in Procs : Execute(p) \/ Shelve(p)
         \/ OtherReads \/ OtherWrites
BY ProcsAre DEF Next, Tool, Work, Resume, vars, erp, tables, copies, Open,
   ShortCircuit, LookupVendor, TeachVendor, CheckDuplicate, StartDraft,
   ExecuteAction, Finish, Break, RecordDigest, CheckDigest, DisposeRoute,
   Stash, Gate, Park, Ask, DecideByScript, RefuseSchedule, Finalize, Settle,
   Mark, End, Close, Restore, Refuse, Visit, Revise, Resumed, OtherRecords

LEMMA TablesKept ==
  ASSUME Placed, Ending, Drafting, Recorded, Tables, [Next]_vars
  PROVE  Tables'
<1> USE ProcsAre DEF Tables, Writers, erp, tables, copies
<1>1. ASSUME NEW p \in Procs, Post(p)
      PROVE  Tables'
  BY <1>1 DEF Post
<1>2. ASSUME NEW p \in Procs, Book(p)
      PROVE  Tables'
  <2> DEFINE d == drafts[executing[p]]
             row == [run |-> "this_run", vendor |-> d.vendor,
                     number |-> d.number, draft |-> executing[p]]
  <2>1. executing[p] \in Nat /\ d.vendor \in Vendors /\ d.number \in Numbers
    BY <1>2 DEF Book, At, Recorded, InExecutor, Drafting, DraftFits
  <2>2. row \in Rows
    BY <2>1 DEF Rows
  <2>3. ledger' = ledgerRead[p] \cup {row}
    BY <1>2 DEF Book, WriteLedger
  <2> HIDE DEF row
  <2> QED
    BY <1>2, <2>2, <2>3 DEF Book, WriteLedger, Lose
<1>3. ASSUME NEW p \in Procs, Pay(p)
      PROVE  Tables'
  BY <1>3 DEF Pay
<1>4. ASSUME NEW p \in Procs, Schedule(p)
      PROVE  Tables'
  <2>1. executing[p] \in Nat /\ paymentsRead[p] \in Seq(Nat)
    BY DEF Recorded
  <2> QED
    BY <1>4, <2>1 DEF Schedule, WritePayments, Lose
<1>5. ASSUME NEW p \in Procs, Process(p)
      PROVE  Tables'
  BY <1>5 DEF Process, WriteInbox, Lose, InboxStates
<1>6. ASSUME NEW p \in Procs, Shelve(p)
      PROVE  Tables'
  BY <1>6 DEF Shelve, WriteInbox, Lose, InboxStates, Ending, At
<1>7. CASE OtherReads
  BY <1>7 DEF OtherReads
<1>8. CASE OtherWrites
  <2>1. /\ ledgerRead' \in [Writers -> SUBSET Rows]
        /\ paymentsRead' \in [Writers -> Seq(Nat)]
        /\ inboxRead' = inboxRead /\ other' = "idle"
    BY <1>8 DEF OtherWrites
  <2>2. CASE other = "booking"
    <3>1. ledgerRead[Other] \subseteq Rows
      OBVIOUS
    <3>2. /\ UNCHANGED <<payments, inbox>>
          /\ lost' \in {lost, lost \cup {"ledger"}}
          /\ \/ ledger' = ledgerRead[Other]
             \/ \E v \in Vendors, n \in Numbers :
                  ledger' = ledgerRead[Other] \cup
                    {[run |-> "other_run", vendor |-> v, number |-> n,
                      draft |-> 0]}
      BY <1>8, <2>2, ScenarioIs DEF OtherWrites, WriteLedger, Lose
    <3>3. ledger' \subseteq Rows
      BY <3>1, <3>2 DEF Rows
    <3> QED
      BY <2>1, <3>2, <3>3
  <2>3. CASE other = "scheduling"
    BY <1>8, <2>1, <2>3 DEF OtherWrites, WritePayments, Lose
  <2>4. CASE other = "shelving"
    BY <1>8, <2>1, <2>4 DEF OtherWrites, WriteInbox, Lose, InboxStates
  <2> QED
    BY <1>8, <2>2, <2>3, <2>4 DEF OtherWrites
<1>9. CASE UNCHANGED <<erp, ledgerRead, paymentsRead, inboxRead, other>>
  BY <1>9
<1> QED
  BY <1>1, <1>2, <1>3, <1>4, <1>5, <1>6, <1>7, <1>8, <1>9, TouchesTables
     DEF Execute

LEMMA OnceKept ==
  ASSUME Placed, Recorded, Tables, Once, [Next]_vars
  PROVE  Once'
<1> USE ProcsAre, ThrowPlace, AfterPlace DEF Placed, Once, FewPaid,
   Undisturbed, AtGate, InExecutor, At, Goto, options, memory, erp, executor,
   drafting, gating, bounds, copies, tables
<1>1. CASE Open
  BY <1>1 DEF Open, Save, Refused
<1>2. CASE ShortCircuit
  BY <1>2 DEF ShortCircuit, Save, Refused
<1>3. ASSUME NEW v \in Vendors, LookupVendor(v)
      PROVE  Once'
  BY <1>3 DEF LookupVendor, ReadProfile, Call
<1>4. ASSUME NEW v \in Vendors, TeachVendor(v)
      PROVE  Once'
  BY <1>4 DEF TeachVendor, Call
<1>5. CASE CheckDuplicate
  BY <1>5 DEF CheckDuplicate, Call
<1>6. CASE StartDraft
  BY <1>6 DEF StartDraft, Call, Save, Skip, Refused
<1>7. CASE ExecuteAction
  BY <1>7 DEF ExecuteAction, Call
<1>8. CASE Finish
  BY <1>8 DEF Finish
<1>9. CASE Break
  BY <1>9 DEF Break
<1>10. CASE RecordDigest
  BY <1>10 DEF RecordDigest
<1>11. CASE CheckDigest
  BY <1>11 DEF CheckDigest, ReadProfile
<1>12. CASE DisposeRoute
  BY <1>12 DEF DisposeRoute
<1>13. CASE Stash
  BY <1>13 DEF Stash, Save, Skip, Refused
<1>14. CASE Gate
  <2>1. CASE pc'[Live] \in {"loop", "finalizing"}
    BY <1>14, <2>1 DEF Gate
  <2>2. CASE pc'[Live] \notin {"loop", "finalizing"}
    <3>1. gate' = gate /\ pc'[Live] \in {"posting", "parking"}
      BY <1>14, <2>2 DEF Gate
    <3> QED
      BY <1>14, <3>1 DEF Gate
  <2> QED
    BY <2>1, <2>2
<1>15. CASE Park
  BY <1>15 DEF Park, Save, Skip, Refused
<1>16. CASE Ask
  BY <1>16 DEF Ask
<1>17. CASE DecideByScript
  BY <1>17 DEF DecideByScript
<1>18. ASSUME NEW p \in Procs, Post(p)
      PROVE  Once'
  BY <1>18 DEF Post, Trace, Refused, Throwing
<1>19. ASSUME NEW p \in Procs, Pay(p)
      PROVE  Once'
  <2>1. /\ UNCHANGED <<visits, payments, gate, gateRun>> /\ faults' \in Nat
        /\ faults' = 0 => faults = 0
        /\ \A q \in Procs \ {p} : pc'[q] = pc[q]
        /\ pc[p] = "paying" /\ pc'[p] # "processing"
        /\ pc'[p] \notin AtGate
    BY <1>19 DEF Pay, FailPayment, Throwing
  <2>2. \A w \in Writers : paymentsRead'[w] \in {paymentsRead[w], payments}
    BY <1>19 DEF Pay, FailPayment, Tables
  <2> QED
    BY <2>1, <2>2
<1>20. ASSUME NEW p \in Procs, Process(p)
      PROVE  Once'
  <2>1. visits' = visits /\ faults' \in Nat /\ faults <= faults'
        /\ UNCHANGED <<payments, paymentsRead, gateRun>>
    BY <1>20 DEF Process, WriteInbox, Trace, Refused
  <2>2. CASE p = Live /\ faults' = faults
    BY <1>20, <2>1, <2>2 DEF Process, WriteInbox, Trace, Refused
  <2>3. CASE p = Live /\ faults' # faults
    BY <1>20, <2>1, <2>3 DEF Process, WriteInbox, Trace, Refused
  <2>4. CASE p = Visitor
    BY <1>20, <2>1, <2>4 DEF Process, WriteInbox, Trace, Refused
  <2> QED
    BY <2>2, <2>3, <2>4
<1>21. CASE Finalize
  BY <1>21 DEF Finalize
<1>22. CASE Settle
  BY <1>22 DEF Settle, Save, Skip, Refused
<1>23. ASSUME NEW p \in Procs, Mark(p)
      PROVE  Once'
  BY <1>23 DEF Mark, AfterMark
<1>24. CASE End
  BY <1>24 DEF End
<1>25. CASE Close
  BY <1>25 DEF Close, Save, Skip, Refused
<1>26. CASE Restore
  BY <1>26 DEF Restore
<1>27. CASE Refuse
  BY <1>27 DEF Refuse, Refused, InEnd, InDraft, InGate
<1>28. ASSUME NEW status \in {"approved", "rejected"}, Visit(status)
      PROVE  Once'
  BY <1>28 DEF Visit
<1>29. CASE Revise
  BY <1>29 DEF Revise
<1>30. CASE Resumed
  BY <1>30 DEF Resumed
<1>31. CASE OtherReads
  BY <1>31 DEF OtherReads, Tables, Writers
<1>32. CASE UNCHANGED vars
  BY <1>32 DEF vars
<1>33. ASSUME NEW p \in Procs, Book(p)
      PROVE  Once'
  BY <1>33 DEF Book, WriteLedger, Trace, Refused
<1>34. ASSUME NEW p \in Procs, Schedule(p)
      PROVE  Once'
  <2>1. /\ UNCHANGED <<visits, faults, gate, gateRun>>
        /\ \A q \in Procs \ {p} : pc'[q] = pc[q]
        /\ pc[p] = "scheduling" /\ pc'[p] = "processing"
        /\ payments' = Append(paymentsRead[p], executing[p])
    BY <1>34 DEF Schedule, WritePayments
  <2>2. /\ \A w \in Writers : paymentsRead'[w] \in {paymentsRead[w], <<>>}
        /\ p \in Writers
    BY <1>34 DEF Schedule, Tables, Writers
  <2>3. Undisturbed => p = Live /\ paymentsRead[p] = <<>>
    BY <2>1, <2>2
  <2>4. Undisturbed => Len(payments') = 1
    BY <2>1, <2>3
  <2> QED
    BY <2>1, <2>2, <2>3, <2>4
<1>35. CASE RefuseSchedule
  BY <1>35 DEF RefuseSchedule, FailPayment, Throwing
<1>36. ASSUME NEW p \in Procs, Shelve(p)
      PROVE  Once'
  BY <1>36 DEF Shelve, WriteInbox, AfterMark
<1>37. CASE OtherWrites
  BY <1>37 DEF OtherWrites, WriteLedger, WritePayments, WriteInbox,
     Tables, Writers
<1>38. CASE OtherRecords
  BY <1>38 DEF OtherRecords
<1> QED
  BY <1>1, <1>2, <1>3, <1>4, <1>5, <1>6, <1>7, <1>8, <1>9, <1>10, <1>11, <1>12,
     <1>13, <1>14, <1>15, <1>16, <1>17, <1>18, <1>19, <1>20, <1>21, <1>22,
     <1>23, <1>24, <1>25, <1>26, <1>27, <1>28, <1>29, <1>30, <1>31, <1>32,
     <1>33, <1>34, <1>35, <1>36, <1>37, <1>38, ProcsAre, ScenarioIs
     DEF Next, Tool, Work, Execute, Resume, Procs

LEMMA GivenBackKept ==
  ASSUME Placed, Tables, GivenBack, [Next]_vars
  PROVE  GivenBack'
<1> USE ProcsAre, ThrowPlace, AfterPlace, AfterMarkPlace DEF Placed, GivenBack,
   NewIsUntouched, AtEnd, Mine, At, Goto, options, memory, erp, executor,
   drafting, gating, bounds, copies, tables
<1>1. CASE Open
  BY <1>1 DEF Open, Save, Refused
<1>2. CASE ShortCircuit
  BY <1>2 DEF ShortCircuit, Save, Refused
<1>3. ASSUME NEW v \in Vendors, LookupVendor(v)
      PROVE  GivenBack'
  BY <1>3 DEF LookupVendor, ReadProfile, Call
<1>4. ASSUME NEW v \in Vendors, TeachVendor(v)
      PROVE  GivenBack'
  BY <1>4 DEF TeachVendor, Call
<1>5. CASE CheckDuplicate
  BY <1>5 DEF CheckDuplicate, Call
<1>6. CASE StartDraft
  BY <1>6 DEF StartDraft, Call, Save, Skip, Refused
<1>7. CASE ExecuteAction
  BY <1>7 DEF ExecuteAction, Call
<1>8. CASE Finish
  BY <1>8 DEF Finish
<1>9. CASE Break
  BY <1>9 DEF Break
<1>10. CASE RecordDigest
  BY <1>10 DEF RecordDigest
<1>11. CASE CheckDigest
  BY <1>11 DEF CheckDigest, ReadProfile
<1>12. CASE DisposeRoute
  BY <1>12 DEF DisposeRoute
<1>13. CASE Stash
  BY <1>13 DEF Stash, Save, Skip, Refused
<1>14. CASE Gate
  BY <1>14 DEF Gate
<1>15. CASE Park
  BY <1>15 DEF Park, Save, Skip, Refused
<1>16. CASE Ask
  BY <1>16 DEF Ask
<1>17. CASE DecideByScript
  BY <1>17 DEF DecideByScript
<1>18. ASSUME NEW p \in Procs, Post(p)
      PROVE  GivenBack'
  BY <1>18 DEF Post, Tables, Writers, Trace, Refused, Throwing
<1>19. ASSUME NEW p \in Procs, Pay(p)
      PROVE  GivenBack'
  BY <1>19 DEF Pay, FailPayment, Throwing
<1>20. ASSUME NEW p \in Procs, Process(p)
      PROVE  GivenBack'
  BY <1>20 DEF Process, WriteInbox, Lose, Trace, Refused
<1>21. CASE Finalize
  BY <1>21 DEF Finalize
<1>22. CASE Settle
  BY <1>22 DEF Settle, Shelved, Save, Skip, Refused, OnThrow, InEnd
<1>23. ASSUME NEW p \in Procs, Mark(p)
      PROVE  GivenBack'
  BY <1>23 DEF Mark
<1>24. CASE End
  BY <1>24 DEF End
<1>25. CASE Close
  BY <1>25 DEF Close, Save, Skip, Refused, OnThrow, InEnd
<1>26. CASE Restore
  BY <1>26 DEF Restore
<1>27. CASE Refuse
  BY <1>27 DEF Refuse, Refused, OnThrow, InEnd, InDraft, InGate
<1>28. ASSUME NEW status \in {"approved", "rejected"}, Visit(status)
      PROVE  GivenBack'
  BY <1>28 DEF Visit
<1>29. CASE Revise
  BY <1>29 DEF Revise
<1>30. CASE Resumed
  BY <1>30 DEF Resumed
<1>31. CASE OtherReads
  BY <1>31 DEF OtherReads, Tables, Writers
<1>32. CASE UNCHANGED vars
  BY <1>32 DEF vars
<1>33. ASSUME NEW p \in Procs, Book(p)
      PROVE  GivenBack'
  BY <1>33 DEF Book, WriteLedger, Lose, MineIn, Trace, Refused
<1>34. ASSUME NEW p \in Procs, Schedule(p)
      PROVE  GivenBack'
  BY <1>34 DEF Schedule, WritePayments, Lose
<1>35. CASE RefuseSchedule
  BY <1>35 DEF RefuseSchedule, FailPayment, Throwing
<1>36. ASSUME NEW p \in Procs, Shelve(p)
      PROVE  GivenBack'
  BY <1>36 DEF Shelve, WriteInbox, Lose
<1>37. CASE OtherWrites
  BY <1>37 DEF OtherWrites, WriteLedger, WritePayments, WriteInbox,
     Lose, MineIn, Tables, Writers
<1>38. CASE OtherRecords
  BY <1>38 DEF OtherRecords
<1> QED
  BY <1>1, <1>2, <1>3, <1>4, <1>5, <1>6, <1>7, <1>8, <1>9, <1>10, <1>11, <1>12,
     <1>13, <1>14, <1>15, <1>16, <1>17, <1>18, <1>19, <1>20, <1>21, <1>22,
     <1>23, <1>24, <1>25, <1>26, <1>27, <1>28, <1>29, <1>30, <1>31, <1>32,
     <1>33, <1>34, <1>35, <1>36, <1>37, <1>38, ProcsAre, ScenarioIs
     DEF Next, Tool, Work, Execute, Resume, Procs

LEMMA ReadFirstKept ==
  ASSUME Placed, Drafting, ReadFirst, [Next]_vars
  PROVE  ReadFirst'
<1> USE ProcsAre, ThrowPlace, AfterPlace, LiveAssumption DEF Placed, Drafting,
   Drafts, Extractions, ReadFirst, GlIsNotPlanted, At, Goto, options, memory,
   erp, executor, drafting, gating, bounds, copies, tables
<1>1. CASE Open
  BY <1>1 DEF Open, Save, Refused
<1>2. CASE ShortCircuit
  BY <1>2 DEF ShortCircuit, Save, Refused
<1>3. ASSUME NEW v \in Vendors, LookupVendor(v)
      PROVE  ReadFirst'
  BY <1>3 DEF LookupVendor, ReadProfile, Call
<1>4. ASSUME NEW v \in Vendors, TeachVendor(v)
      PROVE  ReadFirst'
  BY <1>4 DEF TeachVendor, Call
<1>5. CASE CheckDuplicate
  BY <1>5 DEF CheckDuplicate, Call
<1>6. CASE StartDraft
  BY <1>6 DEF StartDraft, Call, Save, Skip, Refused
<1>7. CASE ExecuteAction
  BY <1>7 DEF ExecuteAction, Call
<1>8. CASE Finish
  BY <1>8 DEF Finish
<1>9. CASE Break
  BY <1>9 DEF Break
<1>10. CASE RecordDigest
  BY <1>10 DEF RecordDigest
<1>11. CASE CheckDigest
  BY <1>11 DEF CheckDigest, ReadProfile
<1>12. CASE DisposeRoute
  BY <1>12 DEF DisposeRoute
<1>13. CASE Stash
  BY <1>13 DEF Stash, Save, Skip, Refused
<1>14. CASE Gate
  BY <1>14 DEF Gate
<1>15. CASE Park
  BY <1>15 DEF Park, Save, Skip, Refused
<1>16. CASE Ask
  BY <1>16 DEF Ask
<1>17. CASE DecideByScript
  BY <1>17 DEF DecideByScript
<1>18. ASSUME NEW p \in Procs, Post(p)
      PROVE  ReadFirst'
  BY <1>18 DEF Post, Trace, Refused, Throwing
<1>19. ASSUME NEW p \in Procs, Pay(p)
      PROVE  ReadFirst'
  BY <1>19 DEF Pay, FailPayment, Throwing
<1>20. ASSUME NEW p \in Procs, Process(p)
      PROVE  ReadFirst'
  BY <1>20 DEF Process, Trace, Refused
<1>21. CASE Finalize
  BY <1>21 DEF Finalize
<1>22. CASE Settle
  BY <1>22 DEF Settle, Save, Skip, Refused
<1>23. ASSUME NEW p \in Procs, Mark(p)
      PROVE  ReadFirst'
  BY <1>23 DEF Mark, AfterMark
<1>24. CASE End
  BY <1>24 DEF End
<1>25. CASE Close
  BY <1>25 DEF Close, Save, Skip, Refused
<1>26. CASE Restore
  BY <1>26 DEF Restore
<1>27. CASE Refuse
  BY <1>27 DEF Refuse, Refused, InEnd, InDraft, InGate
<1>28. ASSUME NEW status \in {"approved", "rejected"}, Visit(status)
      PROVE  ReadFirst'
  BY <1>28 DEF Visit
<1>29. CASE Revise
  BY <1>29 DEF Revise
<1>30. CASE Resumed
  BY <1>30 DEF Resumed
<1>31. CASE OtherReads
  BY <1>31 DEF OtherReads
<1>32. CASE UNCHANGED vars
  BY <1>32 DEF vars
<1>33. ASSUME NEW p \in Procs, Book(p)
      PROVE  ReadFirst'
  BY <1>33 DEF Book, Trace, Refused
<1>34. ASSUME NEW p \in Procs, Schedule(p)
      PROVE  ReadFirst'
  BY <1>34 DEF Schedule
<1>35. CASE RefuseSchedule
  BY <1>35 DEF RefuseSchedule, FailPayment, Throwing
<1>36. ASSUME NEW p \in Procs, Shelve(p)
      PROVE  ReadFirst'
  BY <1>36 DEF Shelve, AfterMark
<1>37. CASE OtherWrites
  BY <1>37 DEF OtherWrites
<1>38. CASE OtherRecords
  BY <1>38 DEF OtherRecords
<1> QED
  BY <1>1, <1>2, <1>3, <1>4, <1>5, <1>6, <1>7, <1>8, <1>9, <1>10, <1>11, <1>12,
     <1>13, <1>14, <1>15, <1>16, <1>17, <1>18, <1>19, <1>20, <1>21, <1>22,
     <1>23, <1>24, <1>25, <1>26, <1>27, <1>28, <1>29, <1>30, <1>31, <1>32,
     <1>33, <1>34, <1>35, <1>36, <1>37, <1>38, ProcsAre, ScenarioIs
     DEF Next, Tool, Work, Execute, Resume, Procs

LEMMA LedgerWritten ==
  ASSUME NEW rows, WriteLedger(rows)
  PROVE  ErpStep
<1>1. Mine \subseteq rows => Mine \subseteq Mine'
  BY DEF WriteLedger, Mine, MineIn
<1> QED
  BY <1>1 DEF WriteLedger, Lose, ErpStep

LEMMA PaymentsWritten ==
  ASSUME NEW rows, WritePayments(rows)
  PROVE  ErpStep
<1>1. Mine' = Mine /\ Paid(payments)' = Paid(rows)
  BY DEF WritePayments, Mine, MineIn, Paid
<1> QED
  BY <1>1 DEF WritePayments, Lose, ErpStep

LEMMA InboxWritten ==
  ASSUME NEW state, WriteInbox(state)
  PROVE  ErpStep
<1>1. Mine' = Mine /\ Paid(payments)' = Paid(payments)
  BY DEF WriteInbox, Mine, MineIn, Paid
<1> QED
  BY <1>1 DEF WriteInbox, Lose, ErpStep

\* No step takes anything from a table without saying so.
LEMMA ErpSteps ==
  ASSUME Placed, [Next]_vars
  PROVE  ErpStep
<1>1. CASE UNCHANGED erp
  BY <1>1 DEF erp, ErpStep, Mine, MineIn, Paid
<1>2. ASSUME NEW p \in Procs, Execute(p) \/ Shelve(p)
      PROVE  ErpStep
  <2>1. ASSUME Post(p) \/ Pay(p) PROVE ErpStep
    BY <1>1, <2>1 DEF Post, Pay
  <2> QED
    BY <1>2, <2>1, LedgerWritten, PaymentsWritten, InboxWritten
       DEF Execute, Book, Schedule, Process, Shelve
<1>3. CASE OtherReads
  BY <1>1, <1>3 DEF OtherReads
<1>4. CASE OtherWrites
  BY <1>4, LedgerWritten, PaymentsWritten, InboxWritten DEF OtherWrites
<1> QED
  BY <1>1, <1>2, <1>3, <1>4, TouchesTables

LEMMA PaidStays ==
  ASSUME ErpStep
  PROVE  /\ \A d : Booked(d) => Booked(d)'
         /\ PaidFor => PaidFor'
         /\ OutOfInbox => OutOfInbox'
<1>1. \A d : Booked(d) => Booked(d)'
  BY DEF ErpStep, Booked
<1>2. ASSUME MoneyMoved
      PROVE  PaidFor'
  <2>1. MoneyMoved' \/ lost' \cap {"ledger", "payments"} # {}
    BY <1>2 DEF ErpStep, MoneyMoved
  <2> QED
    BY <2>1 DEF PaidFor
<1>3. lost \cap {"ledger", "payments"} # {} => PaidFor'
  BY DEF ErpStep, PaidFor
<1>4. OutOfInbox => OutOfInbox'
  BY DEF ErpStep, OutOfInbox
<1> QED
  BY <1>1, <1>2, <1>3, <1>4 DEF PaidFor

\* A step in which nobody comes to have booked or paid, or to say so.
LEMMA ExecutedFrame ==
  ASSUME ErpStep, Executed, mode' = mode,
         \A p \in Procs :
           /\ pc'[p] \in {"paying", "scheduling"} =>
                pc[p] \in {"paying", "scheduling"}
                /\ executing'[p] = executing[p]
           /\ pc'[p] = "processing" => pc[p] = "processing",
         mode # "shadow" /\ SaysExecuted' => SaysExecuted
  PROVE  Executed'
<1>1. ASSUME NEW p \in Procs, pc'[p] \in {"paying", "scheduling"}
      PROVE  Booked(executing[p])'
  <2>1. Booked(executing[p]) /\ executing'[p] = executing[p]
    BY <1>1 DEF Executed
  <2> QED
    BY <2>1, PaidStays DEF Booked
<1> QED
  BY <1>1, PaidStays DEF Executed

LEMMA ExecutedKept ==
  ASSUME Placed, Ending, Recorded, Tables, Executed, [Next]_vars
  PROVE  Executed'
<1> USE ProcsAre, ThrowPlace, AfterPlace DEF At, Goto, options, memory, erp,
   executor, drafting, gating, bounds, copies, tables
<1>e. ErpStep
  BY ErpSteps
<1>1. CASE Open
  <2>1. Moved(machine[Live], "extracted").step # "executed"
    BY <1>1, MovedType DEF Open, Recorded, Ending, AbortSteps, RunSteps,
       TerminalSteps
  <2> QED
    BY <1>1, <2>1, <1>e, ExecutedFrame DEF Open, Save, Refused, Placed,
       Recorded, SaysExecuted
<1>2. CASE ShortCircuit
  <2>1. Moved(machine[Live], "rejected").step # "executed"
    BY <1>2, MovedType DEF Recorded, RunSteps, TerminalSteps
  <2> QED
    BY <1>2, <2>1, <1>e, ExecutedFrame DEF ShortCircuit, Save, Refused, Placed,
       Recorded, SaysExecuted
<1>3. ASSUME NEW v \in Vendors, LookupVendor(v)
      PROVE  Executed'
  BY <1>3, <1>e, ExecutedFrame DEF LookupVendor, ReadProfile, Call, Placed,
     Recorded, SaysExecuted
<1>4. ASSUME NEW v \in Vendors, TeachVendor(v)
      PROVE  Executed'
  BY <1>4, <1>e, ExecutedFrame DEF TeachVendor, Call, Placed, Recorded,
     SaysExecuted
<1>5. CASE CheckDuplicate
  BY <1>5, <1>e, ExecutedFrame DEF CheckDuplicate, Call, Placed, Recorded,
     SaysExecuted
<1>6. CASE StartDraft
  <2>1. Moved(machine[Live], "matched").step # "executed"
    BY <1>6, MovedType DEF StartDraft, Recorded, Ending, AbortSteps, RunSteps,
       TerminalSteps
  <2> QED
    BY <1>6, <2>1, <1>e, ExecutedFrame DEF StartDraft, Call, Save, Skip,
       Refused, Placed, Recorded, SaysExecuted
<1>7. CASE ExecuteAction
  BY <1>7, <1>e, ExecutedFrame DEF ExecuteAction, Call, Placed, Recorded,
     SaysExecuted
<1>8. CASE Finish
  BY <1>8, <1>e, ExecutedFrame DEF Finish, Placed, Recorded, SaysExecuted
<1>9. CASE Break
  BY <1>9, <1>e, ExecutedFrame DEF Break, AbortSteps, Placed, Recorded,
     SaysExecuted
<1>10. CASE RecordDigest
  BY <1>10, <1>e, ExecutedFrame DEF RecordDigest, Placed, Recorded,
     SaysExecuted
<1>11. CASE CheckDigest
  BY <1>11, <1>e, ExecutedFrame DEF CheckDigest, ReadProfile, Placed, Recorded,
     SaysExecuted
<1>12. CASE DisposeRoute
  BY <1>12, <1>e, ExecutedFrame DEF DisposeRoute, Placed, Recorded,
     SaysExecuted
<1>13. CASE Stash
  <2>1. Moved(machine[Live], "decided").step = "decided"
    BY MovedType DEF Recorded, RunSteps
  <2>2. machine[Live] \in Records
    BY DEF Recorded
  <2>3. [Moved(machine[Live], "decided") EXCEPT !.draft = drafted'].step
          = "decided"
    BY <2>1, MovedType DEF Recorded, RunSteps, Records
  <2>4. [machine[Live] EXCEPT !.draft = drafted'].step = machine[Live].step
    BY <2>2 DEF Records
  <2>5. /\ UNCHANGED <<mode, ledger, payments, inbox, executing>>
        /\ UNCHANGED <<gate, disposal>>
        /\ pc'[Live] \in {"loop", "rejected"} /\ pc'[Visitor] = pc[Visitor]
    BY <1>13 DEF Stash, Save, Skip, Refused, Placed
  <2>6. /\ machine'[Live].step = "executed" => machine[Live].step = "executed"
        /\ runstate'.step = "executed" =>
             "executed" \in {runstate.step, machine[Live].step}
    BY <1>13, <2>3, <2>4 DEF Stash, Save, Skip, Refused, Recorded
  <2> QED
    BY <2>5, <2>6, <1>e, ExecutedFrame DEF SaysExecuted
<1>14. CASE Gate
  <2>1. /\ mode' = mode /\ disposal' = disposal
        /\ runstate' = runstate /\ machine' = machine
        /\ pc'[Visitor] = pc[Visitor]
        /\ executing'[Visitor] = executing[Visitor]
        /\ pc'[Live] \notin {"paying", "scheduling", "processing"}
    BY <1>14 DEF Gate, Placed, Recorded
  <2>2. mode # "shadow" => gate' # "executed" \/ gate' = gate
    BY <1>14 DEF Gate
  <2> QED
    BY <2>1, <2>2, <1>e, ExecutedFrame DEF SaysExecuted
<1>15. CASE Park
  <2>1. Moved(machine[Live], "awaiting_approval").step # "executed"
    BY <1>15, MovedType DEF Park, Recorded, Ending, AbortSteps, RunSteps,
       TerminalSteps
  <2> QED
    BY <1>15, <2>1, <1>e, ExecutedFrame DEF Park, Save, Skip, Refused, Placed,
       Recorded, SaysExecuted
<1>16. CASE Ask
  BY <1>16, <1>e, ExecutedFrame DEF Ask, Placed, Recorded, SaysExecuted
<1>17. CASE DecideByScript
  BY <1>17, <1>e, ExecutedFrame DEF DecideByScript, Placed, Recorded,
     SaysExecuted
<1>18. ASSUME NEW p \in Procs, Post(p)
      PROVE  Executed'
  BY <1>18, <1>e, ExecutedFrame DEF Post, Throwing, Placed, Recorded,
     SaysExecuted
<1>19. ASSUME NEW p \in Procs, Pay(p)
      PROVE  Executed'
  BY <1>19, <1>e, ExecutedFrame DEF Pay, FailPayment, Throwing, Placed,
     Recorded, SaysExecuted
<1>20. ASSUME NEW p \in Procs, Process(p)
      PROVE  Executed'
  <2>1. /\ UNCHANGED <<mode, executing, runstate, machine, disposal>>
        /\ pc[p] = "processing" /\ \A q \in Procs \ {p} : pc'[q] = pc[q]
        /\ pc'[p] \notin {"paying", "scheduling", "processing"}
        /\ inbox' = "processed"
    BY <1>20 DEF Process, WriteInbox, Trace, Refused, Placed
  <2>2. PaidFor' /\ OutOfInbox'
    BY <2>1, <1>e, PaidStays DEF Executed, OutOfInbox
  <2>3. \A q \in Procs \ {p} :
          pc'[q] \in {"paying", "scheduling"} => Booked(executing[q])'
    BY <2>1, <1>e, PaidStays DEF Executed, Booked
  <2> QED
    BY <2>1, <2>2, <2>3 DEF Executed
<1>21. CASE Finalize
  BY <1>21, <1>e, ExecutedFrame DEF Finalize, Disposal, Ending, Placed,
     Recorded, SaysExecuted
<1>22. CASE Settle
  <2>1. Moved(machine[Live], disposal).step = disposal
    BY <1>22, MovedType DEF Settle, Recorded, Ending, AtEnd
  <2> QED
    BY <1>22, <2>1, <1>e, ExecutedFrame DEF Settle, Save, Skip, Refused,
       Placed, Recorded, SaysExecuted
<1>23. ASSUME NEW p \in Procs, Mark(p)
      PROVE  Executed'
  BY <1>23, <1>e, ExecutedFrame DEF Mark, AfterMark, Placed, Recorded,
     SaysExecuted
<1>24. CASE End
  BY <1>24, <1>e, ExecutedFrame DEF End, Placed, Recorded, SaysExecuted
<1>25. CASE Close
  <2>1. Moved(runstate, disposal).step # "executed"
    BY <1>25, MovedType DEF Close, Recorded, Ending, AbortSteps, RunSteps,
       TerminalSteps
  <2> QED
    BY <1>25, <2>1, <1>e, ExecutedFrame DEF Close, Save, Skip, Refused, Placed,
       Recorded, SaysExecuted
<1>26. CASE Restore
  BY <1>26, <1>e, ExecutedFrame DEF Restore, Placed, Recorded, SaysExecuted
<1>27. CASE Refuse
  BY <1>27, <1>e, ExecutedFrame DEF Refuse, Refused, InEnd, InDraft, InGate,
     Placed, Recorded, SaysExecuted
<1>28. ASSUME NEW status \in {"approved", "rejected"}, Visit(status)
      PROVE  Executed'
  <2>1. /\ mode' = mode /\ disposal' = disposal /\ gate' = gate
        /\ runstate' = runstate /\ machine'[Live] = machine[Live]
        /\ pc'[Live] = pc[Live] /\ executing'[Live] = executing[Live]
        /\ pc'[Visitor] \in {"revising", "posting"}
    BY <1>28 DEF Visit, Placed, Recorded
  <2> QED
    BY <2>1, <1>e, ExecutedFrame DEF SaysExecuted
<1>29. CASE Revise
  <2>1. /\ Moved(machine[Visitor], "held").step = "held"
        /\ Moved(Moved(machine[Visitor], "decided"), "awaiting_approval").step
             = "awaiting_approval"
    BY MovedType DEF Recorded, RunSteps, TerminalSteps
  <2>2. /\ UNCHANGED <<mode, executing>> /\ pc'[Live] = pc[Live]
        /\ SaysExecuted' => SaysExecuted
        /\ pc'[Visitor] \in {"idle", "marking"}
    BY <1>29, <2>1 DEF Revise, SaysExecuted, Placed
  <2> QED
    BY <2>2, <1>e, ExecutedFrame
<1>30. CASE Resumed
  <2>1. Moved(machine[Visitor], "error").step = "error"
    BY MovedType DEF Recorded, RunSteps, TerminalSteps
  <2> QED
    BY <1>30, <2>1, <1>e, ExecutedFrame DEF Resumed, SaysExecuted, Placed
<1>31. CASE OtherReads
  BY <1>31, <1>e, ExecutedFrame DEF OtherReads, Placed, Recorded, SaysExecuted
<1>32. CASE UNCHANGED vars
  BY <1>32, <1>e, ExecutedFrame DEF vars, SaysExecuted
<1>33. ASSUME NEW p \in Procs, Book(p)
      PROVE  Executed'
  <2> DEFINE d == drafts[executing[p]]
             row == [run |-> "this_run", vendor |-> d.vendor,
                     number |-> d.number, draft |-> executing[p]]
  <2>1. /\ mode' = mode /\ executing' = executing
        /\ UNCHANGED <<runstate, machine, gate, disposal>>
        /\ \A q \in Procs \ {p} : pc'[q] = pc[q]
        /\ pc'[p] \in {"paying", "loop", "rejected"}
        /\ ledger' = ledgerRead[p] \cup {row}
    BY <1>33 DEF Book, WriteLedger, Trace, Refused, Placed
  <2>2. row.run = "this_run" /\ row.draft = executing[p]
    OBVIOUS
  <2> HIDE DEF row
  <2>3. Booked(executing[p])'
    BY <2>1, <2>2 DEF Booked, Mine, MineIn
  <2>4. \A q \in Procs \ {p} :
          /\ pc'[q] \in {"paying", "scheduling"} => Booked(executing[q])'
          /\ pc'[q] = "processing" => PaidFor'
    BY <2>1, <1>e, PaidStays DEF Executed, Booked
  <2>5. SaysExecuted' => SaysExecuted
    BY <2>1 DEF SaysExecuted
  <2> QED
    BY <2>1, <2>3, <2>4, <2>5, <1>e, PaidStays DEF Executed
<1>34. ASSUME NEW p \in Procs, Schedule(p)
      PROVE  Executed'
  <2>1. /\ UNCHANGED <<mode, executing, runstate, machine, gate, disposal>>
        /\ \A q \in Procs \ {p} : pc'[q] = pc[q]
        /\ pc[p] = "scheduling" /\ pc'[p] = "processing"
        /\ payments' = Append(paymentsRead[p], executing[p])
        /\ ledger' = ledger
    BY <1>34 DEF Schedule, WritePayments, Placed
  <2>2. Booked(executing[p]) /\ Mine' = Mine /\ lost \subseteq lost'
    BY <2>1, <1>e DEF Executed, ErpStep, Mine
  <2>3. executing[p] \in Paid(payments')
    <3>1. paymentsRead[p] \in Seq(Nat) /\ executing[p] \in Nat
      BY DEF Tables, Recorded, Writers
    <3>2. /\ Len(payments') \in DOMAIN payments'
          /\ payments'[Len(payments')] = executing[p]
      BY <2>1, <3>1
    <3> QED
      BY <3>2 DEF Paid
  <2>4. PaidFor'
    BY <2>2, <2>3 DEF Booked, PaidFor, MoneyMoved
  <2>5. \A q \in Procs \ {p} :
          pc'[q] \in {"paying", "scheduling"} => Booked(executing[q])'
    BY <2>1, <1>e, PaidStays DEF Executed, Booked
  <2>6. SaysExecuted' => SaysExecuted
    BY <2>1 DEF SaysExecuted
  <2> QED
    BY <2>1, <2>4, <2>5, <2>6, <1>e, PaidStays DEF Executed
<1>35. CASE RefuseSchedule
  BY <1>35, <1>e, ExecutedFrame DEF RefuseSchedule, FailPayment, Throwing,
     Placed, Recorded, SaysExecuted
<1>36. ASSUME NEW p \in Procs, Shelve(p)
      PROVE  Executed'
  BY <1>36, <1>e, ExecutedFrame DEF Shelve, AfterMark, Placed, Recorded,
     SaysExecuted
<1>37. CASE OtherWrites
  BY <1>37, <1>e, ExecutedFrame DEF OtherWrites, Placed, Recorded, SaysExecuted
<1>38. CASE OtherRecords
  BY <1>38, <1>e, ExecutedFrame DEF OtherRecords, Placed, Recorded,
     SaysExecuted
<1> QED
  BY <1>1, <1>2, <1>3, <1>4, <1>5, <1>6, <1>7, <1>8, <1>9, <1>10, <1>11, <1>12,
     <1>13, <1>14, <1>15, <1>16, <1>17, <1>18, <1>19, <1>20, <1>21, <1>22,
     <1>23, <1>24, <1>25, <1>26, <1>27, <1>28, <1>29, <1>30, <1>31, <1>32,
     <1>33, <1>34, <1>35, <1>36, <1>37, <1>38, ProcsAre, ScenarioIs
     DEF Next, Tool, Work, Execute, Resume, Procs

LEMMA StatusIs ==
  ASSUME approvals \in Seq(Approvals)
  PROVE  /\ Len(approvals) \in Nat /\ DOMAIN approvals = 1..Len(approvals)
         /\ approvals = <<>> <=> Len(approvals) = 0
         /\ Status = "absent" <=> approvals = <<>>
         /\ approvals # <<>> => /\ Len(approvals) \in DOMAIN approvals
                                /\ Status = approvals[Len(approvals)].status
         /\ Status \in Answers \cup {"absent"}
<1>1. Len(approvals) \in Nat /\ DOMAIN approvals = 1..Len(approvals)
  OBVIOUS
<1>2. approvals = <<>> <=> Len(approvals) = 0
  OBVIOUS
<1>3. ASSUME approvals # <<>>
      PROVE  /\ Len(approvals) \in DOMAIN approvals
             /\ approvals[Len(approvals)] \in Approvals
  BY <1>1, <1>2, <1>3
<1>4. approvals # <<>> =>
        approvals[Len(approvals)].status
          \in {"pending", "approved", "rejected"}
  BY <1>3 DEF Approvals, Answers
<1> QED
  BY <1>1, <1>2, <1>3, <1>4 DEF Status, Answers

\* A new request is the only one that can be pending.
LEMMA Requested ==
  ASSUME Asking, Status \in {"absent", "rejected"}, NEW d \in Nat,
         approvals' = Append(approvals, [draft |-> d, status |-> "pending"])
  PROVE  /\ approvals' \in Seq(Approvals) /\ OneOpenApproval'
         /\ Len(approvals') = Len(approvals) + 1
         /\ \A i \in DOMAIN approvals :
              i \in DOMAIN approvals' /\ approvals'[i] = approvals[i]
         /\ Status' = "pending"
<1> DEFINE a == [draft |-> d, status |-> "pending"]
<1>1. a \in Approvals /\ a.status = "pending"
  BY DEF Approvals, Answers
<1>2. /\ approvals' \in Seq(Approvals) /\ Len(approvals') = Len(approvals) + 1
      /\ \A i \in DOMAIN approvals :
           i \in DOMAIN approvals' /\ approvals'[i] = approvals[i]
      /\ approvals'[Len(approvals')] = a /\ approvals' # <<>>
  BY <1>1 DEF Asking
<1>3. \A i \in 1..Len(approvals) : approvals[i].status = "rejected"
  BY StatusIs DEF Asking, OneOpenApproval
<1>4. OneOpenApproval'
  BY <1>2, <1>3, StatusIs DEF Asking, OneOpenApproval
<1> QED
  BY <1>1, <1>2, <1>4 DEF Status

\* Only the approval that is pending is decided.
LEMMA Decided ==
  ASSUME Asking, NEW i \in DOMAIN approvals, approvals[i].status = "pending",
         NEW s \in {"approved", "rejected"},
         approvals' = [approvals EXCEPT ![i].status = s]
  PROVE  /\ approvals' \in Seq(Approvals) /\ OneOpenApproval'
         /\ Len(approvals') = Len(approvals)
         /\ DOMAIN approvals' = DOMAIN approvals
         /\ i = Len(approvals) /\ Status' = s /\ approvals # <<>>
         /\ \A j \in DOMAIN approvals \ {i} : approvals'[j] = approvals[j]
<1>1. i = Len(approvals) /\ approvals[i] \in Approvals /\ approvals # <<>>
  BY StatusIs DEF Asking, OneOpenApproval
<1>2. [approvals[i] EXCEPT !.status = s] \in Approvals
      /\ [approvals[i] EXCEPT !.status = s].status = s
  BY <1>1 DEF Approvals, Answers
<1>3. /\ approvals' \in Seq(Approvals)
      /\ Len(approvals') = Len(approvals)
      /\ DOMAIN approvals' = DOMAIN approvals
      /\ approvals'[i].status = s
      /\ \A j \in DOMAIN approvals \ {i} : approvals'[j] = approvals[j]
  <2> DEFINE a == [approvals[i] EXCEPT !.status = s]
  <2>1. approvals' = [approvals EXCEPT ![i] = a] /\ a \in Approvals
        /\ a.status = s
    BY <1>2
  <2> HIDE DEF a
  <2> QED
    BY <2>1 DEF Asking
<1> QED
  BY <1>1, <1>3, StatusIs DEF Asking, OneOpenApproval, Status

LEMMA AskingKept ==
  ASSUME Placed, Drafting, Recorded, Asking, [Next]_vars
  PROVE  Asking'
<1> USE ProcsAre, ThrowPlace, AfterPlace DEF At, Goto, options, memory, erp,
   executor, drafting, gating, bounds, copies, tables
<1>1. CASE Open
  BY <1>1 DEF Open, Save, Refused, Placed, Asking, OneOpenApproval, Status
<1>2. CASE ShortCircuit
  BY <1>2 DEF ShortCircuit, Save, Refused, Placed, Asking, OneOpenApproval,
     Status
<1>3. ASSUME NEW v \in Vendors, LookupVendor(v)
      PROVE  Asking'
  BY <1>3 DEF LookupVendor, ReadProfile, Call, Placed, Asking, OneOpenApproval,
     Status
<1>4. ASSUME NEW v \in Vendors, TeachVendor(v)
      PROVE  Asking'
  BY <1>4 DEF TeachVendor, Call, Placed, Asking, OneOpenApproval, Status
<1>5. CASE CheckDuplicate
  BY <1>5 DEF CheckDuplicate, Call, Placed, Asking, OneOpenApproval, Status
<1>6. CASE StartDraft
  BY <1>6 DEF StartDraft, Call, Save, Skip, Refused, Placed, Asking,
     OneOpenApproval, Status
<1>7. CASE ExecuteAction
  BY <1>7 DEF ExecuteAction, Call, Placed, Asking, OneOpenApproval, Status
<1>8. CASE Finish
  BY <1>8 DEF Finish, Placed, Asking, OneOpenApproval, Status
<1>9. CASE Break
  BY <1>9 DEF Break, Placed, Asking, OneOpenApproval, Status
<1>10. CASE RecordDigest
  BY <1>10 DEF RecordDigest, Placed, Asking, OneOpenApproval, Status
<1>11. CASE CheckDigest
  BY <1>11 DEF CheckDigest, ReadProfile, Placed, Asking, OneOpenApproval,
     Status
<1>12. CASE DisposeRoute
  BY <1>12 DEF DisposeRoute, Placed, Asking, OneOpenApproval, Status
<1>13. CASE Stash
  BY <1>13 DEF Stash, Save, Skip, Refused, Placed, Asking, OneOpenApproval,
     Status
<1>14. CASE Gate
  <2>1. CASE UNCHANGED approvals
    <3>1. /\ parked' = parked \/ (parked' = Len(approvals) /\ Asked)
          /\ pc'[Live] \notin {"asking", "scripting"}
          /\ pc'[Live] = "parking" => parked' = Len(approvals) /\ Asked
          /\ pc'[Visitor] = pc[Visitor] /\ Status' = Status
      <4>1. pc'[Live] # "parking" =>
              /\ parked' = parked
              /\ pc'[Live] \in {"loop", "finalizing", "posting"}
        BY <1>14 DEF Gate, Placed
      <4>2. Append(approvals, [draft |-> drafted, status |-> "pending"])
              # approvals
        BY DEF Asking
      <4>3. pc'[Live] = "parking" => Asked /\ parked' = Len(approvals)
        BY <1>14, <2>1, <4>2 DEF Gate, Placed
      <4>4. Status' = Status
        BY <2>1 DEF Status
      <4>5. /\ pc'[Visitor] = pc[Visitor]
            /\ pc'[Live] \notin {"asking", "scripting"}
        BY <1>14 DEF Gate, Placed
      <4> QED
        BY <4>1, <4>3, <4>4, <4>5
    <3>2. Asked => Len(approvals) \in DOMAIN approvals
      BY StatusIs DEF Asked, Asking
    <3> QED
      BY <2>1, <3>1, <3>2, StatusIs DEF Asking, OneOpenApproval
  <2>2. CASE ~UNCHANGED approvals
    <3>1. /\ Status = "absent" /\ parked' = Len(approvals')
          /\ approvals' = Append(approvals, [draft |-> drafted,
                                             status |-> "pending"])
      BY <1>14, <2>2 DEF Gate, Asked
    <3>2. Len(approvals') = Len(approvals) + 1 /\ Len(approvals') \in Nat
          /\ approvals' \in Seq(Approvals) /\ OneOpenApproval'
      BY <3>1, Requested, StatusIs DEF Drafting, Asking
    <3>3. pc'[Visitor] = pc[Visitor] /\ pc[Visitor] # "revising"
      BY <1>14, <3>1 DEF Gate, Placed, Asking
    <3> QED
      BY <3>1, <3>2, <3>3 DEF Asking
  <2> QED
    BY <2>1, <2>2
<1>15. CASE Park
  BY <1>15 DEF Park, Save, Skip, Refused, Placed, Asking, OneOpenApproval,
     Status
<1>16. CASE Ask
  BY <1>16 DEF Ask, Placed, Asking, OneOpenApproval, Status
<1>17. CASE DecideByScript
  <2>1. CASE UNCHANGED approvals
    BY <1>17, <2>1 DEF DecideByScript, Placed, Asking, OneOpenApproval, Status
  <2>2. CASE ~UNCHANGED approvals
    <3>1. /\ parked \in DOMAIN approvals
          /\ approvals[parked].status = "pending"
          /\ approvals' = [approvals EXCEPT ![parked].status = "approved"]
          /\ pc'[Visitor] = pc[Visitor] /\ pc'[Live] = "gating"
          /\ parked' = parked
      BY <1>17, <2>2 DEF DecideByScript, Placed, Asking
    <3>2. /\ approvals' \in Seq(Approvals) /\ OneOpenApproval'
          /\ Len(approvals') = Len(approvals) /\ Status # "rejected"
      BY <3>1, Decided, StatusIs DEF Asking
    <3> QED
      BY <3>1, <3>2 DEF Asking
  <2> QED
    BY <2>1, <2>2
<1>18. ASSUME NEW p \in Procs, Post(p)
      PROVE  Asking'
  BY <1>18 DEF Post, Trace, Refused, Placed, Asking, OneOpenApproval, Status,
     Throwing
<1>19. ASSUME NEW p \in Procs, Pay(p)
      PROVE  Asking'
  BY <1>19 DEF Pay, FailPayment, Placed, Asking, OneOpenApproval, Status,
     Throwing
<1>20. ASSUME NEW p \in Procs, Process(p)
      PROVE  Asking'
  BY <1>20 DEF Process, Trace, Refused, Placed, Asking,
     OneOpenApproval, Status
<1>21. CASE Finalize
  BY <1>21 DEF Finalize, Placed, Asking, OneOpenApproval, Status
<1>22. CASE Settle
  BY <1>22 DEF Settle, Save, Skip, Refused, Placed, Asking, OneOpenApproval,
     Status
<1>23. ASSUME NEW p \in Procs, Mark(p)
      PROVE  Asking'
  BY <1>23 DEF Mark, AfterMark, Placed, Asking, OneOpenApproval, Status
<1>24. CASE End
  BY <1>24 DEF End, Placed, Asking, OneOpenApproval, Status
<1>25. CASE Close
  BY <1>25 DEF Close, Save, Skip, Refused, Placed, Asking, OneOpenApproval,
     Status
<1>26. CASE Restore
  BY <1>26 DEF Restore, Placed, Asking, OneOpenApproval, Status
<1>27. CASE Refuse
  BY <1>27 DEF Refuse, Refused, Placed, Asking, OneOpenApproval, Status, InEnd,
     InDraft, InGate
<1>28. ASSUME NEW status \in {"approved", "rejected"}, Visit(status)
      PROVE  Asking'
  <2>1. /\ Len(approvals) \in DOMAIN approvals
        /\ approvals[Len(approvals)].status = "pending"
        /\ approvals' = [approvals EXCEPT ![Len(approvals)].status = status]
        /\ pc'[Live] = pc[Live] /\ parked' = parked
        /\ pc'[Visitor] = "revising" => status = "rejected"
    BY <1>28, StatusIs DEF Visit, Asked, Placed, Asking
  <2>2. /\ approvals' \in Seq(Approvals) /\ OneOpenApproval'
        /\ Len(approvals') = Len(approvals) /\ Status' = status
        /\ DOMAIN approvals' = DOMAIN approvals
    BY <2>1, Decided
  <2> QED
    BY <2>1, <2>2 DEF Asking
<1>29. CASE Revise
  <2>1. CASE UNCHANGED approvals
    BY <1>29, <2>1 DEF Revise, Placed, Asking, OneOpenApproval, Status
  <2>2. CASE ~UNCHANGED approvals
    <3>1. /\ Status = "rejected" /\ executing[Visitor] \in Nat
          /\ approvals' = Append(approvals, [draft |-> executing[Visitor],
                                             status |-> "pending"])
          /\ pc'[Live] = pc[Live] /\ pc'[Visitor] = "idle" /\ parked' = parked
      BY <1>29, <2>2 DEF Revise, Placed, Recorded, Asking
    <3>2. /\ Len(approvals') = Len(approvals) + 1 /\ Len(approvals) \in Nat
          /\ approvals' \in Seq(Approvals) /\ OneOpenApproval'
          /\ DOMAIN approvals \subseteq DOMAIN approvals'
      BY <3>1, Requested, StatusIs DEF Asking
    <3> QED
      BY <3>1, <3>2 DEF Asking
  <2> QED
    BY <2>1, <2>2
<1>30. CASE Resumed
  BY <1>30 DEF Resumed, Placed, Asking, OneOpenApproval, Status
<1>31. CASE OtherReads
  BY <1>31 DEF OtherReads, Placed, Asking, OneOpenApproval, Status
<1>32. CASE UNCHANGED vars
  BY <1>32 DEF vars, Placed, Asking, OneOpenApproval, Status
<1>33. ASSUME NEW p \in Procs, Book(p)
      PROVE  Asking'
  BY <1>33 DEF Book, Trace, Refused, Placed, Asking, OneOpenApproval, Status
<1>34. ASSUME NEW p \in Procs, Schedule(p)
      PROVE  Asking'
  BY <1>34 DEF Schedule, Placed, Asking, OneOpenApproval, Status
<1>35. CASE RefuseSchedule
  BY <1>35 DEF RefuseSchedule, FailPayment, Throwing, Placed, Asking,
     OneOpenApproval, Status
<1>36. ASSUME NEW p \in Procs, Shelve(p)
      PROVE  Asking'
  BY <1>36 DEF Shelve, AfterMark, Placed, Asking, OneOpenApproval, Status
<1>37. CASE OtherWrites
  BY <1>37 DEF OtherWrites, Placed, Asking, OneOpenApproval, Status
<1>38. CASE OtherRecords
  BY <1>38 DEF OtherRecords, Placed, Asking, OneOpenApproval, Status
<1> QED
  BY <1>1, <1>2, <1>3, <1>4, <1>5, <1>6, <1>7, <1>8, <1>9, <1>10, <1>11, <1>12,
     <1>13, <1>14, <1>15, <1>16, <1>17, <1>18, <1>19, <1>20, <1>21, <1>22,
     <1>23, <1>24, <1>25, <1>26, <1>27, <1>28, <1>29, <1>30, <1>31, <1>32,
     <1>33, <1>34, <1>35, <1>36, <1>37, <1>38, ProcsAre, ScenarioIs
     DEF Next, Tool, Work, Execute, Resume, Procs

\* A yes that was given stays.
LEMMA ConsentStays ==
  ASSUME Placed, Drafting, Recorded, Asking, [Next]_vars
  PROVE  Consented => Consented'
<1> USE ProcsAre
<1>1. CASE UNCHANGED approvals
  BY <1>1 DEF Consented
<1>2. CASE Gate /\ ~UNCHANGED approvals
  <2>1. approvals' = Append(approvals, [draft |-> drafted,
                                        status |-> "pending"])
        /\ Status = "absent" /\ drafted \in Nat
    BY <1>2 DEF Gate, Asked, Drafting
  <2> QED
    BY <2>1, Requested DEF Consented
<1>3. CASE Revise /\ ~UNCHANGED approvals
  <2>1. approvals' = Append(approvals, [draft |-> executing[Visitor],
                                        status |-> "pending"])
        /\ Status = "rejected" /\ executing[Visitor] \in Nat
    BY <1>3 DEF Revise, Asking, Recorded, At
  <2> QED
    BY <2>1, Requested DEF Consented
<1>4. CASE DecideByScript /\ ~UNCHANGED approvals
  <2>1. /\ parked \in DOMAIN approvals /\ approvals[parked].status = "pending"
        /\ approvals' = [approvals EXCEPT ![parked].status = "approved"]
    BY <1>4 DEF DecideByScript, Asking, At
  <2> QED
    BY <2>1, Decided DEF Consented, Approved
<1>5. ASSUME NEW status \in {"approved", "rejected"}, Visit(status)
      PROVE  Consented => Consented'
  <2>1. /\ Len(approvals) \in DOMAIN approvals
        /\ approvals[Len(approvals)].status = "pending"
        /\ approvals' = [approvals EXCEPT ![Len(approvals)].status = status]
    BY <1>5, StatusIs DEF Visit, Asked, Asking
  <2> QED
    BY <2>1, Decided DEF Consented, Approved
<1> QED
  BY <1>1, <1>2, <1>3, <1>4, <1>5 DEF Next, Tool, Work, Execute, Resume, vars,
     Open, ShortCircuit, LookupVendor, TeachVendor, CheckDuplicate, StartDraft,
     ExecuteAction, Finish, Break, RecordDigest, CheckDigest, DisposeRoute,
     Stash, Park, Ask, Post, Book, Pay, Schedule, Process, FailPayment,
     Throwing, RefuseSchedule, Finalize, Settle, Mark, Shelve, AfterMark, End,
     Close, Restore, Refuse, Resumed, OtherReads, OtherWrites, OtherRecords

\* What may be executed may be executed after any step.
LEMMA MayMoveStays ==
  ASSUME Drafting, Drafting', Consented => Consented', mode' = mode,
         NEW d \in DOMAIN drafts, MayMove(d),
         \/ drafts' = drafts \/ \E x : drafts' = Append(drafts, x)
  PROVE  MayMove(d)' /\ d \in DOMAIN drafts'
<1>1. d \in DOMAIN drafts' /\ drafts'[d] = drafts[d]
  BY DEF Drafting
<1> QED
  BY <1>1 DEF MayMove, Eligible

LEMMA HeldSame ==
  ASSUME UNCHANGED <<ledger, ledgerRead>>
  PROVE  HeldRows' \subseteq HeldRows
BY DEF HeldRows

\* A step that adds no row of this run and in which nobody comes to post.
LEMMA GatedFrame ==
  ASSUME Placed, Drafting, Drafting', Recorded, Gated, Consented => Consented',
         mode' = mode, HeldRows' \subseteq HeldRows,
         \A p \in Procs :
           pc'[p] \in {"posting", "booking"} =>
             /\ pc[p] \in {"posting", "booking"}
             /\ executing'[p] = executing[p],
         approvals' # <<>> => approvals # <<>>,
         \/ drafts' = drafts \/ \E x : drafts' = Append(drafts, x)
  PROVE  Gated'
<1>1. \A p \in Procs :
        pc[p] \in {"posting", "booking"} => executing[p] \in DOMAIN drafts
  BY DEF Recorded, InExecutor
<1>2. \A d \in DOMAIN drafts :
        MayMove(d) => MayMove(d)' /\ d \in DOMAIN drafts'
  BY MayMoveStays
<1>3. ASSUME NEW p \in Procs, pc'[p] \in {"posting", "booking"}
      PROVE  MayMove(executing[p])'
  BY <1>1, <1>2, <1>3 DEF Gated, MayMove, Eligible
<1>4. \A row \in HeldRows' :
        row.draft \in DOMAIN drafts' /\ MayMove(row.draft)'
  BY <1>2 DEF Gated
<1> QED
  BY <1>3, <1>4 DEF Gated

LEMMA GatedKept ==
  ASSUME Placed, Drafting, Drafting', Recorded, Recorded', Asking, Asking',
         Tables, Gated, [Next]_vars
  PROVE  Gated'
<1> USE ProcsAre, ThrowPlace, AfterPlace DEF At, Goto, options, memory, erp,
   executor, drafting, gating, bounds, copies, tables
<1>c. Consented => Consented'
  BY ConsentStays
<1>1. CASE Open
  BY <1>1, <1>c, HeldSame, GatedFrame DEF Open, Save, Refused, Placed
<1>2. CASE ShortCircuit
  BY <1>2, <1>c, HeldSame, GatedFrame DEF ShortCircuit, Save, Refused, Placed
<1>3. ASSUME NEW v \in Vendors, LookupVendor(v)
      PROVE  Gated'
  BY <1>3, <1>c, HeldSame, GatedFrame DEF LookupVendor, ReadProfile, Call,
     Placed
<1>4. ASSUME NEW v \in Vendors, TeachVendor(v)
      PROVE  Gated'
  BY <1>4, <1>c, HeldSame, GatedFrame DEF TeachVendor, Call, Placed
<1>5. CASE CheckDuplicate
  BY <1>5, <1>c, HeldSame, GatedFrame DEF CheckDuplicate, Call, Placed
<1>6. CASE StartDraft
  BY <1>6, <1>c, HeldSame, GatedFrame DEF StartDraft, Call, Save, Skip,
     Refused, Placed
<1>7. CASE ExecuteAction
  BY <1>7, <1>c, HeldSame, GatedFrame DEF ExecuteAction, Call, Placed
<1>8. CASE Finish
  BY <1>8, <1>c, HeldSame, GatedFrame DEF Finish, Placed
<1>9. CASE Break
  BY <1>9, <1>c, HeldSame, GatedFrame DEF Break, Placed
<1>10. CASE RecordDigest
  BY <1>10, <1>c, HeldSame, GatedFrame DEF RecordDigest, Placed
<1>11. CASE CheckDigest
  BY <1>11, <1>c, HeldSame, GatedFrame DEF CheckDigest, ReadProfile, Placed
<1>12. CASE DisposeRoute
  BY <1>12, <1>c, HeldSame, GatedFrame DEF DisposeRoute, Placed
<1>13. CASE Stash
  BY <1>13, <1>c, HeldSame, GatedFrame DEF Stash, Save, Skip, Refused, Placed
<1>14. CASE Gate
  <2>1. /\ mode' = mode /\ drafts' = drafts
        /\ UNCHANGED <<ledger, ledgerRead>>
        /\ executing'[Visitor] = executing[Visitor]
        /\ pc'[Visitor] = pc[Visitor]
        /\ approvals' # <<>> => approvals # <<>> \/ mode # "shadow"
    BY <1>14 DEF Gate, Placed, Recorded
  <2>2. ASSUME pc'[Live] \in {"posting", "booking"}
        PROVE  MayMove(executing[Live])'
    <3>1. /\ mode # "shadow" /\ executing'[Live] = drafted
          /\ approvals' = approvals
          /\ Status \in Approved \/ Eligible(drafted)
      BY <1>14, <2>2, AfterPlace DEF Gate, Placed, Recorded
    <3>2. Status \in Approved => Consented
      BY StatusIs DEF Asking, Approved, Consented
    <3> QED
      BY <2>1, <3>1, <3>2 DEF MayMove, Consented, Eligible
  <2>3. \A d \in DOMAIN drafts : MayMove(d) => MayMove(d)'
    BY <1>c, <2>1 DEF MayMove, Eligible
  <2>4. ASSUME pc'[Visitor] \in {"posting", "booking"}
        PROVE  MayMove(executing[Visitor])'
    BY <2>1, <2>3, <2>4 DEF Gated, Recorded, InExecutor
  <2>5. HeldRows' \subseteq HeldRows
    BY <2>1, HeldSame
  <2>6. \A p \in Procs :
          pc'[p] \in {"posting", "booking"} => MayMove(executing[p])'
    BY <2>2, <2>4
  <2> QED
    BY <2>1, <2>3, <2>5, <2>6 DEF Gated
<1>15. CASE Park
  BY <1>15, <1>c, HeldSame, GatedFrame DEF Park, Save, Skip, Refused, Placed
<1>16. CASE Ask
  BY <1>16, <1>c, HeldSame, GatedFrame DEF Ask, Placed
<1>17. CASE DecideByScript
  BY <1>17, <1>c, HeldSame, GatedFrame DEF DecideByScript, Asking, Placed
<1>18. ASSUME NEW p \in Procs, Post(p)
      PROVE  Gated'
  <2>1. HeldRows' \subseteq HeldRows
    BY <1>18 DEF Post, HeldRows, Tables, Writers
  <2> QED
    BY <1>18, <2>1, <1>c, GatedFrame DEF Post, Throwing, Placed
<1>19. ASSUME NEW p \in Procs, Pay(p)
      PROVE  Gated'
  BY <1>19, <1>c, HeldSame, GatedFrame DEF Pay, FailPayment, Throwing, Placed
<1>20. ASSUME NEW p \in Procs, Process(p)
      PROVE  Gated'
  BY <1>20, <1>c, HeldSame, GatedFrame DEF Process, WriteInbox, Trace, Refused,
     Placed
<1>21. CASE Finalize
  BY <1>21, <1>c, HeldSame, GatedFrame DEF Finalize, Placed
<1>22. CASE Settle
  BY <1>22, <1>c, HeldSame, GatedFrame DEF Settle, Save, Skip, Refused, Placed
<1>23. ASSUME NEW p \in Procs, Mark(p)
      PROVE  Gated'
  BY <1>23, <1>c, HeldSame, GatedFrame DEF Mark, AfterMark, Placed
<1>24. CASE End
  BY <1>24, <1>c, HeldSame, GatedFrame DEF End, Placed
<1>25. CASE Close
  BY <1>25, <1>c, HeldSame, GatedFrame DEF Close, Save, Skip, Refused, Placed
<1>26. CASE Restore
  BY <1>26, <1>c, HeldSame, GatedFrame DEF Restore, Placed
<1>27. CASE Refuse
  BY <1>27, <1>c, HeldSame, GatedFrame DEF Refuse, Refused, InDraft, InGate,
     InEnd, Placed
<1>28. ASSUME NEW status \in {"approved", "rejected"}, Visit(status)
      PROVE  Gated'
  <2>1. /\ mode' = mode /\ drafts' = drafts
        /\ UNCHANGED <<ledger, ledgerRead>>
        /\ executing'[Live] = executing[Live]
        /\ pc'[Live] = pc[Live] /\ approvals # <<>>
    BY <1>28, StatusIs DEF Visit, Asked, Asking, Placed, Recorded
  <2>2. ASSUME pc'[Visitor] \in {"posting", "booking"}
        PROVE  Consented'
    <3>1. /\ Len(approvals) \in DOMAIN approvals
          /\ approvals[Len(approvals)].status = "pending"
          /\ approvals' =
               [approvals EXCEPT ![Len(approvals)].status = "approved"]
      BY <1>28, <2>2, StatusIs DEF Visit, Asked, Asking, Placed
    <3>2. /\ Status' = "approved" /\ approvals' \in Seq(Approvals)
          /\ Len(approvals) \in DOMAIN approvals' /\ approvals' # <<>>
          /\ Len(approvals') = Len(approvals)
      <4>1. "approved" \in {"approved", "rejected"}
        OBVIOUS
      <4>2. /\ Status' = "approved" /\ approvals' \in Seq(Approvals)
            /\ DOMAIN approvals' = DOMAIN approvals
            /\ Len(approvals') = Len(approvals)
        BY <3>1, <4>1, Decided
      <4> QED
        BY <3>1, <4>2
    <3>3. approvals'[Len(approvals)].status = "approved"
      BY <3>2 DEF Status
    <3> QED
      BY <3>2, <3>3 DEF Consented, Approved
  <2>3. \A d \in DOMAIN drafts : MayMove(d) => MayMove(d)'
    BY <1>c, <2>1 DEF MayMove, Eligible
  <2>4. ASSUME NEW p \in Procs, pc'[p] \in {"posting", "booking"}
        PROVE  MayMove(executing[p])'
    BY <2>1, <2>2, <2>3, <2>4 DEF Gated, Recorded, InExecutor, MayMove
  <2>5. HeldRows' \subseteq HeldRows
    BY <2>1, HeldSame
  <2> QED
    BY <2>1, <2>3, <2>4, <2>5 DEF Gated
<1>29. CASE Revise
  <2>1. /\ mode' = mode /\ UNCHANGED <<ledger, ledgerRead, drafts>>
        /\ executing' = executing /\ approvals # <<>>
        /\ pc'[Live] = pc[Live] /\ pc'[Visitor] \in {"idle", "marking"}
    BY <1>29, StatusIs DEF Revise, Asking, Placed
  <2> QED
    BY <2>1, <1>c, HeldSame, GatedFrame
<1>30. CASE Resumed
  BY <1>30, <1>c, HeldSame, GatedFrame DEF Resumed, Placed
<1>31. CASE OtherReads
  <2>1. HeldRows' \subseteq HeldRows
    BY <1>31 DEF OtherReads, HeldRows, Tables, Writers
  <2> QED
    BY <1>31, <2>1, <1>c, GatedFrame DEF OtherReads
<1>32. CASE UNCHANGED vars
  BY <1>32, <1>c, HeldSame, GatedFrame DEF vars
<1>33. ASSUME NEW p \in Procs, Book(p)
      PROVE  Gated'
  <2> DEFINE d == drafts[executing[p]]
             row == [run |-> "this_run", vendor |-> d.vendor,
                     number |-> d.number, draft |-> executing[p]]
  <2>1. /\ mode' = mode /\ drafts' = drafts /\ approvals' = approvals
        /\ executing' = executing
        /\ \A q \in Procs : pc'[q] \in {"posting", "booking"} =>
                             pc[q] \in {"posting", "booking"}
        /\ ledger' = ledgerRead[p] \cup {row}
        /\ \A w \in Writers : ledgerRead'[w] \in {ledgerRead[w], {}}
    BY <1>33 DEF Book, WriteLedger, Trace, Refused, Placed, Tables
  <2>2. executing[p] \in DOMAIN drafts /\ MayMove(executing[p])
    BY <1>33 DEF Book, Gated, Recorded, InExecutor
  <2>3. row.draft = executing[p] /\ p \in Writers
    BY DEF Writers
  <2>4. \A e : MayMove(e) => MayMove(e)'
    BY <1>c, <2>1 DEF MayMove, Eligible
  <2> HIDE DEF row
  <2>5. HeldRows' \subseteq HeldRows \cup {row}
    BY <2>1, <2>3 DEF HeldRows
  <2>6. \A r \in HeldRows' : r.draft \in DOMAIN drafts' /\ MayMove(r.draft)'
    BY <2>1, <2>2, <2>3, <2>4, <2>5 DEF Gated
  <2> QED
    BY <2>1, <2>4, <2>6 DEF Gated
<1>34. ASSUME NEW p \in Procs, Schedule(p)
      PROVE  Gated'
  BY <1>34, <1>c, HeldSame, GatedFrame DEF Schedule, WritePayments, Placed
<1>35. CASE RefuseSchedule
  BY <1>35, <1>c, HeldSame, GatedFrame DEF RefuseSchedule, FailPayment,
     Throwing, Placed
<1>36. ASSUME NEW p \in Procs, Shelve(p)
      PROVE  Gated'
  BY <1>36, <1>c, HeldSame, GatedFrame DEF Shelve, WriteInbox, AfterMark,
     Placed
<1>37. CASE OtherWrites
  <2>1. /\ \A row \in ledger' : row.run = "this_run" =>
              row \in ledger \/ row \in ledgerRead[Other]
        /\ \A w \in Writers : ledgerRead'[w] \in {ledgerRead[w], {}}
        /\ Other \in Writers
    BY <1>37 DEF OtherWrites, WriteLedger, WritePayments, WriteInbox, Tables,
       Writers
  <2>2. HeldRows' \subseteq HeldRows
    BY <2>1 DEF HeldRows
  <2> QED
    BY <1>37, <2>2, <1>c, GatedFrame DEF OtherWrites
<1>38. CASE OtherRecords
  BY <1>38, <1>c, HeldSame, GatedFrame DEF OtherRecords, Placed
<1> QED
  BY <1>1, <1>2, <1>3, <1>4, <1>5, <1>6, <1>7, <1>8, <1>9, <1>10, <1>11, <1>12,
     <1>13, <1>14, <1>15, <1>16, <1>17, <1>18, <1>19, <1>20, <1>21, <1>22,
     <1>23, <1>24, <1>25, <1>26, <1>27, <1>28, <1>29, <1>30, <1>31, <1>32,
     <1>33, <1>34, <1>35, <1>36, <1>37, <1>38, ProcsAre, ScenarioIs
     DEF Next, Tool, Work, Execute, Resume, Procs

LEMMA SavedAsIs ==
  ASSUME Placed, Recorded, NEW rec, NEW l, Save(rec, l), faults' = faults,
         faults \in Nat
  PROVE  runstate' = rec /\ machine'[Live] = rec /\ pc'[Live] = l
BY ProcsAre DEF Save, Refused, Goto, Placed, Recorded

\* A step of a run that nobody has disturbed, and that does not disturb it.
LEMMA CalmKept ==
  ASSUME Placed, Placed', Ending, Ending', Drafting, Recorded, Asking,
         Calm, Next, pc[Visitor] = "idle", visits \in Nat, visits' = visits,
         faults \in Nat, faults' = faults, failures \in Nat
  PROVE  Calm'
<1> USE ProcsAre, ThrowPlace, AfterPlace DEF At, Goto, options, memory, erp,
   executor, drafting, gating, bounds, copies, tables
<1>1. CASE Open
  <2>1. /\ pc'[Live] = "loop" /\ machine'[Live] = runstate'
        /\ runstate'.step = "extracted" /\ drafted' = drafted
        /\ pc[Live] = "opening"
        /\ gate' = gate /\ script' = script /\ approvals' = approvals
        /\ disposal' = disposal /\ reported' = reported
    BY <1>1, SavedAsIs, MovedType DEF Open, Save, Refused, RunSteps, Placed,
       Recorded, Calm
  <2>2. Standing'
    BY <2>1 DEF Calm, Standing, Waiting, Talking, AtGate, InExecutor, InDraft
  <2>3. Waiting'
    BY <2>1 DEF Calm, Standing, Waiting, Talking, AtGate, InExecutor, InDraft,
       Status
  <2>4. Reporting'
    BY <2>1 DEF Calm, Standing, Waiting, Reporting, Talking, AtGate,
       InExecutor, InDraft, Status, AbortSteps, TerminalSteps
  <2> QED
    BY <2>1, <2>2, <2>3, <2>4 DEF Calm
<1>2. CASE ShortCircuit
  <2>1. machine'[Live] = runstate'
    BY <1>2, MovedType DEF ShortCircuit, Save, Refused, Placed, Ending,
       Drafting, Recorded, Calm
  <2>2. Standing'
    BY <1>2, MovedType DEF ShortCircuit, Save, Refused, Placed, Ending,
       Drafting, Recorded, Calm, Standing, Talking, AtGate, InExecutor, InDraft
  <2>3. Waiting'
    BY <1>2, MovedType DEF ShortCircuit, Save, Refused, Placed, Ending,
       Drafting, Recorded, Calm, Standing, Waiting, Talking, AtGate,
       InExecutor, InDraft, Status
  <2>4. Reporting'
    BY <1>2, MovedType DEF ShortCircuit, Save, Refused, Placed, Ending,
       Drafting, Recorded, Calm, Standing, Waiting, Reporting, Talking,
       InDraft, Disposal, Status, AbortSteps, TerminalSteps, RunSteps, OnThrow,
       InEnd, AtEnd
  <2> QED
    BY <2>1, <2>2, <2>3, <2>4 DEF Calm
<1>3. ASSUME NEW v \in Vendors, LookupVendor(v)
      PROVE  Calm'
  <2>1. machine'[Live] = runstate'
    BY <1>3 DEF LookupVendor, ReadProfile, Call, Placed, Ending, Drafting,
       Recorded, Calm
  <2>2. Standing'
    BY <1>3 DEF LookupVendor, ReadProfile, Call, Placed, Ending, Drafting,
       Recorded, Calm, Standing, Talking, AtGate, InExecutor, InDraft
  <2>3. Waiting'
    BY <1>3 DEF LookupVendor, ReadProfile, Call, Placed, Ending, Drafting,
       Recorded, Calm, Standing, Waiting, Talking, AtGate, InExecutor, InDraft,
       Status
  <2>4. Reporting'
    BY <1>3 DEF LookupVendor, ReadProfile, Call, Placed, Ending, Drafting,
       Recorded, Calm, Standing, Waiting, Reporting, Talking, InDraft,
       Disposal, Status, AbortSteps, TerminalSteps, AtEnd
  <2> QED
    BY <2>1, <2>2, <2>3, <2>4 DEF Calm
<1>4. ASSUME NEW v \in Vendors, TeachVendor(v)
      PROVE  Calm'
  <2>1. machine'[Live] = runstate'
    BY <1>4 DEF TeachVendor, Call, Placed, Ending, Drafting, Recorded, Calm
  <2>2. Standing'
    BY <1>4 DEF TeachVendor, Call, Placed, Ending, Drafting, Recorded, Calm,
       Standing, Talking, AtGate, InExecutor, InDraft
  <2>3. Waiting'
    BY <1>4 DEF TeachVendor, Call, Placed, Ending, Drafting, Recorded, Calm,
       Standing, Waiting, Talking, AtGate, InExecutor, InDraft, Status
  <2>4. Reporting'
    BY <1>4 DEF TeachVendor, Call, Placed, Ending, Drafting, Recorded, Calm,
       Standing, Waiting, Reporting, Talking, InDraft, Disposal, Status,
       AbortSteps, TerminalSteps, AtEnd
  <2> QED
    BY <2>1, <2>2, <2>3, <2>4 DEF Calm
<1>5. CASE CheckDuplicate
  <2>1. machine'[Live] = runstate'
    BY <1>5 DEF CheckDuplicate, Call, Placed, Ending, Drafting, Recorded, Calm
  <2>2. Standing'
    BY <1>5 DEF CheckDuplicate, Call, Placed, Ending, Drafting, Recorded, Calm,
       Standing, Talking, AtGate, InExecutor, InDraft
  <2>3. Waiting'
    BY <1>5 DEF CheckDuplicate, Call, Placed, Ending, Drafting, Recorded, Calm,
       Standing, Waiting, Talking, AtGate, InExecutor, InDraft, Status
  <2>4. Reporting'
    BY <1>5 DEF CheckDuplicate, Call, Placed, Ending, Drafting, Recorded, Calm,
       Standing, Waiting, Reporting, Talking, InDraft, Disposal, Status,
       AbortSteps, TerminalSteps, AtEnd
  <2> QED
    BY <2>1, <2>2, <2>3, <2>4 DEF Calm
<1>6. CASE StartDraft
  <2>1. /\ pc'[Live] = "checking" /\ machine'[Live] = runstate'
        /\ \/ runstate' = runstate
           \/ runstate'.step = "matched" /\ runstate.step = "extracted"
        /\ drafted = 0 => runstate'.step = "matched"
        /\ drafted' = drafted /\ pc[Live] = "loop"
        /\ gate' = gate /\ script' = script /\ approvals' = approvals
        /\ disposal' = disposal /\ reported' = reported
    BY <1>6, SavedAsIs, MovedType DEF StartDraft, Call, Save, Skip, Refused,
       RunSteps, Standing, Talking, Placed, Recorded, Calm
  <2>2. Standing'
    BY <2>1 DEF Calm, Standing, Waiting, Talking, AtGate, InExecutor, InDraft
  <2>3. Waiting'
    BY <2>1 DEF Calm, Standing, Waiting, Talking, AtGate, InExecutor, InDraft,
       Status
  <2>4. Reporting'
    BY <2>1 DEF Calm, Standing, Waiting, Reporting, Talking, AtGate,
       InExecutor, InDraft, Status, AbortSteps, TerminalSteps
  <2> QED
    BY <2>1, <2>2, <2>3, <2>4 DEF Calm
<1>7. CASE ExecuteAction
  <2>1. machine'[Live] = runstate'
    BY <1>7 DEF ExecuteAction, Call, Placed, Ending, Drafting, Recorded, Calm
  <2>2. Standing'
    BY <1>7 DEF ExecuteAction, Call, Placed, Ending, Drafting, Recorded, Calm,
       Standing, Talking, AtGate, InExecutor, InDraft
  <2>3. Waiting'
    BY <1>7 DEF ExecuteAction, Call, Placed, Ending, Drafting, Recorded, Calm,
       Standing, Waiting, Talking, AtGate, InExecutor, InDraft, Status
  <2>4. Reporting'
    BY <1>7 DEF ExecuteAction, Call, Placed, Ending, Drafting, Recorded, Calm,
       Standing, Waiting, Reporting, Talking, InDraft, Disposal, Status,
       AbortSteps, TerminalSteps, AtEnd
  <2> QED
    BY <2>1, <2>2, <2>3, <2>4 DEF Calm
<1>8. CASE Finish
  <2>1. machine'[Live] = runstate'
    BY <1>8 DEF Finish, Placed, Ending, Drafting, Recorded, Calm
  <2>2. Standing'
    BY <1>8 DEF Finish, Placed, Ending, Drafting, Recorded, Calm, Standing,
       Talking, AtGate, InExecutor, InDraft
  <2>3. Waiting'
    BY <1>8 DEF Finish, Placed, Ending, Drafting, Recorded, Calm, Standing,
       Waiting, Talking, AtGate, InExecutor, InDraft, Status
  <2>4. Reporting'
    BY <1>8 DEF Finish, Placed, Ending, Drafting, Recorded, Calm, Standing,
       Waiting, Reporting, Talking, InDraft, Disposal, Status, AbortSteps,
       TerminalSteps, AtEnd
  <2> QED
    BY <2>1, <2>2, <2>3, <2>4 DEF Calm
<1>9. CASE Break
  <2>1. machine'[Live] = runstate'
    BY <1>9 DEF Break, Placed, Ending, Drafting, Recorded, Calm
  <2>2. Standing'
    BY <1>9 DEF Break, Placed, Ending, Drafting, Recorded, Calm, Standing,
       Talking, AtGate, InExecutor, InDraft
  <2>3. Waiting'
    BY <1>9 DEF Break, Placed, Ending, Drafting, Recorded, Calm, Standing,
       Waiting, Talking, AtGate, InExecutor, InDraft, Status
  <2>4. Reporting'
    BY <1>9 DEF Break, Placed, Ending, Drafting, Recorded, Calm, Standing,
       Waiting, Reporting, Talking, InDraft, Disposal, Status, AbortSteps,
       TerminalSteps, AtEnd
  <2> QED
    BY <2>1, <2>2, <2>3, <2>4 DEF Calm
<1>10. CASE RecordDigest
  <2>1. machine'[Live] = runstate'
    BY <1>10 DEF RecordDigest, Placed, Ending, Drafting, Recorded, Calm
  <2>2. Standing'
    BY <1>10 DEF RecordDigest, Placed, Ending, Drafting, Recorded, Calm,
       Standing, Talking, AtGate, InExecutor, InDraft
  <2>3. Waiting'
    BY <1>10 DEF RecordDigest, Placed, Ending, Drafting, Recorded, Calm,
       Standing, Waiting, Talking, AtGate, InExecutor, InDraft, Status
  <2>4. Reporting'
    BY <1>10 DEF RecordDigest, Placed, Ending, Drafting, Recorded, Calm,
       Standing, Waiting, Reporting, Talking, InDraft, Disposal, Status,
       AbortSteps, TerminalSteps, AtEnd
  <2> QED
    BY <2>1, <2>2, <2>3, <2>4 DEF Calm
<1>11. CASE CheckDigest
  <2>1. machine'[Live] = runstate'
    BY <1>11 DEF CheckDigest, ReadProfile, Placed, Ending, Drafting, Recorded,
       Calm
  <2>2. Standing'
    BY <1>11 DEF CheckDigest, ReadProfile, Placed, Ending, Drafting, Recorded,
       Calm, Standing, Talking, AtGate, InExecutor, InDraft
  <2>3. Waiting'
    BY <1>11 DEF CheckDigest, ReadProfile, Placed, Ending, Drafting, Recorded,
       Calm, Standing, Waiting, Talking, AtGate, InExecutor, InDraft, Status
  <2>4. Reporting'
    BY <1>11 DEF CheckDigest, ReadProfile, Placed, Ending, Drafting, Recorded,
       Calm, Standing, Waiting, Reporting, Talking, InDraft, Disposal, Status,
       AbortSteps, TerminalSteps, AtEnd
  <2> QED
    BY <2>1, <2>2, <2>3, <2>4 DEF Calm
<1>12. CASE DisposeRoute
  <2>1. machine'[Live] = runstate'
    BY <1>12 DEF DisposeRoute, Placed, Ending, Drafting, Recorded, Calm
  <2>2. Standing'
    BY <1>12 DEF DisposeRoute, Placed, Ending, Drafting, Recorded, Calm,
       Standing, Talking, AtGate, InExecutor, InDraft
  <2>3. Waiting'
    BY <1>12 DEF DisposeRoute, Placed, Ending, Drafting, Recorded, Calm,
       Standing, Waiting, Talking, AtGate, InExecutor, InDraft, Status
  <2>4. Reporting'
    BY <1>12 DEF DisposeRoute, Placed, Ending, Drafting, Recorded, Calm,
       Standing, Waiting, Reporting, Talking, InDraft, Disposal, Status,
       AbortSteps, TerminalSteps, AtEnd
  <2> QED
    BY <2>1, <2>2, <2>3, <2>4 DEF Calm
<1>13. CASE Stash
  <2>1. Moved(machine[Live], "decided").step = "decided"
        /\ Moved(machine[Live], "decided") \in Records
    BY MovedType DEF Recorded, RunSteps
  <2>2. machine[Live] \in Records /\ drafted' \in Nat /\ drafted' > 0
    BY <1>13 DEF Recorded, Drafting, Stash
  <2>3. /\ [Moved(machine[Live], "decided") EXCEPT !.draft = drafted'].step
             = "decided"
        /\ [machine[Live] EXCEPT !.draft = drafted'].step = machine[Live].step
    BY <2>1, <2>2 DEF Records
  <2>4. /\ pc[Live] = "stashing" /\ gate' = gate /\ script' = script
        /\ approvals' = approvals /\ disposal' = disposal
        /\ reported' = reported
    BY <1>13 DEF Stash
  <2>5. runstate.step \in {"matched", "decided", "awaiting_approval"}
    BY <2>4 DEF Calm, Standing, Talking, InDraft, Drafting
  <2>6. /\ pc'[Live] = "loop" /\ machine'[Live] = runstate'
        /\ IF runstate.step = "matched" THEN runstate'.step = "decided"
                                        ELSE runstate'.step = runstate.step
    BY <1>13, <2>3, <2>5, SavedAsIs DEF Stash, Skip, Placed, Recorded, Calm,
       TerminalSteps
  <2>7. Standing'
    BY <2>2, <2>5, <2>6 DEF Standing, Talking, AtGate, InExecutor, InDraft
  <2>8. Waiting'
    BY <2>4, <2>5, <2>6 DEF Calm, Waiting, Talking, AtGate, InExecutor,
       InDraft, Status
  <2>9. Reporting'
    BY <2>4, <2>6 DEF Calm, Reporting, Status
  <2> QED
    BY <2>6, <2>7, <2>8, <2>9 DEF Calm
<1>14. CASE Gate
  <2>1. machine'[Live] = runstate'
    BY <1>14 DEF Gate, Placed, Ending, Drafting, Recorded, Calm
  <2>2. Standing'
    BY <1>14 DEF Gate, Placed, Ending, Drafting, Recorded, Calm, Standing,
       Talking, AtGate, InExecutor, InDraft
  <2>3. Waiting'
    <3>1. /\ script' = script /\ runstate' = runstate /\ pc[Live] = "gating"
          /\ pc'[Live] \in {"loop", "finalizing", "posting", "parking"}
          /\ gate' = gate \/ gate' # "awaiting_approval"
      BY <1>14 DEF Gate, Placed
    <3>2. approvals' # approvals =>
            /\ Status = "absent" /\ drafted \in Nat
            /\ approvals' = Append(approvals, [draft |-> drafted,
                                               status |-> "pending"])
      BY <1>14 DEF Gate, Asked, Drafting
    <3>3. Status = "pending" => Status' = "pending"
      BY <3>2 DEF Status
    <3>4. pc'[Live] = "parking" => Status' = "pending"
      <4>1. approvals' # approvals => Status' = "pending"
        BY <3>2, Requested
      <4>2. Append(approvals, [draft |-> drafted, status |-> "pending"])
              # approvals
        BY DEF Asking
      <4>3. pc'[Live] = "parking" /\ approvals' = approvals => Asked
        BY <1>14, <4>2 DEF Gate, Placed
      <4> QED
        BY <4>1, <4>3 DEF Asked, Status
    <3> QED
      BY <3>1, <3>3, <3>4 DEF Calm, Waiting, Talking, AtGate, InExecutor,
         InDraft
  <2>4. Reporting'
    BY <1>14 DEF Gate, Placed, Ending, Drafting, Recorded, Calm, Standing,
       Waiting, Reporting, Talking, InDraft, Disposal, Status, AbortSteps,
       TerminalSteps, AtEnd
  <2> QED
    BY <2>1, <2>2, <2>3, <2>4 DEF Calm
<1>15. CASE Park
  <2>1. /\ pc'[Live] = "asking" /\ machine'[Live] = runstate'
        /\ runstate'.step = "awaiting_approval" /\ drafted' = drafted
        /\ pc[Live] = "parking"
        /\ gate' = gate /\ script' = script /\ approvals' = approvals
        /\ disposal' = disposal /\ reported' = reported
    BY <1>15, SavedAsIs, MovedType DEF Park, Save, Skip, Refused, RunSteps,
       Standing, AtGate, Placed, Recorded, Calm
  <2>2. Standing'
    BY <2>1 DEF Calm, Standing, Waiting, Talking, AtGate, InExecutor, InDraft
  <2>3. Waiting'
    BY <2>1 DEF Calm, Standing, Waiting, Talking, AtGate, InExecutor, InDraft,
       Status
  <2>4. Reporting'
    BY <2>1 DEF Calm, Standing, Waiting, Reporting, Talking, AtGate,
       InExecutor, InDraft, Status, AbortSteps, TerminalSteps
  <2> QED
    BY <2>1, <2>2, <2>3, <2>4 DEF Calm
<1>16. CASE Ask
  <2>1. machine'[Live] = runstate'
    BY <1>16 DEF Ask, Placed, Ending, Drafting, Recorded, Calm
  <2>2. Standing'
    BY <1>16 DEF Ask, Placed, Ending, Drafting, Recorded, Calm, Standing,
       Talking, AtGate, InExecutor, InDraft
  <2>3. Waiting'
    BY <1>16 DEF Ask, Placed, Ending, Drafting, Recorded, Calm, Standing,
       Waiting, Talking, AtGate, InExecutor, InDraft, Status
  <2>4. Reporting'
    BY <1>16 DEF Ask, Placed, Ending, Drafting, Recorded, Calm, Standing,
       Waiting, Reporting, Talking, InDraft, Disposal, Status, AbortSteps,
       TerminalSteps, AtEnd
  <2> QED
    BY <2>1, <2>2, <2>3, <2>4 DEF Calm
<1>17. CASE DecideByScript
  <2>1. machine'[Live] = runstate'
    BY <1>17 DEF DecideByScript, Placed, Ending, Drafting, Recorded, Calm
  <2>2. Standing'
    BY <1>17 DEF DecideByScript, Placed, Ending, Drafting, Recorded, Calm,
       Standing, Talking, AtGate, InExecutor, InDraft
  <2>3. Waiting'
    BY <1>17 DEF DecideByScript, Placed, Ending, Drafting, Recorded, Calm,
       Standing, Waiting, Talking, AtGate, InExecutor, InDraft, Status
  <2>4. Reporting'
    BY <1>17 DEF DecideByScript, Placed, Ending, Drafting, Recorded, Calm,
       Standing, Waiting, Reporting, Talking, InDraft, Disposal, Status,
       AbortSteps, TerminalSteps, AtEnd
  <2> QED
    BY <2>1, <2>2, <2>3, <2>4 DEF Calm
<1>18. ASSUME NEW p \in Procs, Post(p)
      PROVE  Calm'
  <2>1. /\ pc'[Live] \in InExecutor \cup {"loop", "rejected"}
        /\ pc[Live] \in InExecutor /\ drafted' = drafted
        /\ runstate' = runstate /\ machine'[Live] = runstate'
        /\ gate' = gate /\ script' = script /\ approvals' = approvals
        /\ disposal' = disposal /\ reported' = reported
    BY <1>18 DEF Post, Trace, Refused, Throwing, InExecutor, Placed, Recorded,
       Calm
  <2>2. Standing'
    BY <2>1 DEF Calm, Standing, Waiting, Talking, AtGate, InExecutor, InDraft
  <2>3. Waiting'
    BY <2>1 DEF Calm, Standing, Waiting, Talking, AtGate, InExecutor, InDraft,
       Status
  <2>4. Reporting'
    BY <2>1 DEF Calm, Standing, Waiting, Reporting, Talking, AtGate,
       InExecutor, InDraft, Status, AbortSteps, TerminalSteps
  <2> QED
    BY <2>1, <2>2, <2>3, <2>4 DEF Calm
<1>19. ASSUME NEW p \in Procs, Pay(p)
      PROVE  Calm'
  <2>1. /\ pc'[Live] \in InExecutor \cup {"loop", "rejected"}
        /\ pc[Live] \in InExecutor /\ drafted' = drafted
        /\ runstate' = runstate /\ machine'[Live] = runstate'
        /\ gate' = gate /\ script' = script /\ approvals' = approvals
        /\ disposal' = disposal /\ reported' = reported
    BY <1>19 DEF Pay, FailPayment, Throwing, InExecutor, Placed, Recorded, Calm
  <2>2. Standing'
    BY <2>1 DEF Calm, Standing, Waiting, Talking, AtGate, InExecutor, InDraft
  <2>3. Waiting'
    BY <2>1 DEF Calm, Standing, Waiting, Talking, AtGate, InExecutor, InDraft,
       Status
  <2>4. Reporting'
    BY <2>1 DEF Calm, Standing, Waiting, Reporting, Talking, AtGate,
       InExecutor, InDraft, Status, AbortSteps, TerminalSteps
  <2> QED
    BY <2>1, <2>2, <2>3, <2>4 DEF Calm
<1>20. ASSUME NEW p \in Procs, Process(p)
      PROVE  Calm'
  <2>1. machine'[Live] = runstate'
    BY <1>20 DEF Process, Trace, Refused, Placed, Ending, Drafting,
       Recorded, Calm
  <2>2. Standing'
    BY <1>20 DEF Process, Trace, Refused, Placed, Ending, Drafting,
       Recorded, Calm, Standing, Talking, AtGate, InExecutor, InDraft
  <2>3. Waiting'
    BY <1>20 DEF Process, Trace, Refused, Placed, Ending, Drafting,
       Recorded, Calm, Standing, Waiting, Talking, AtGate, InExecutor, InDraft,
       Status
  <2>4. Reporting'
    BY <1>20 DEF Process, Trace, Refused, Placed, Ending, Drafting,
       Recorded, Calm, Standing, Waiting, Reporting, Talking, InDraft,
       Disposal, Status, AbortSteps, TerminalSteps, AtEnd
  <2> QED
    BY <2>1, <2>2, <2>3, <2>4 DEF Calm
<1>21. CASE Finalize
  <2>1. machine'[Live] = runstate'
    BY <1>21 DEF Finalize, Placed, Ending, Drafting, Recorded, Calm
  <2>2. Standing'
    BY <1>21 DEF Finalize, Placed, Ending, Drafting, Recorded, Calm, Standing,
       Talking, AtGate, InExecutor, InDraft
  <2>3. Waiting'
    BY <1>21 DEF Finalize, Placed, Ending, Drafting, Recorded, Calm, Standing,
       Waiting, Talking, AtGate, InExecutor, InDraft, Status
  <2>4. Reporting'
    BY <1>21 DEF Finalize, Placed, Ending, Drafting, Recorded, Calm, Standing,
       Waiting, Reporting, Talking, InDraft, Disposal, Status, AbortSteps,
       TerminalSteps, AtEnd
  <2> QED
    BY <2>1, <2>2, <2>3, <2>4 DEF Calm
<1>22. CASE Settle
  <2>1. /\ pc'[Live] \in {"ending", "marking", "rejected"}
        /\ pc'[Live] # "rejected" => runstate'.step = disposal
        /\ machine'[Live] = runstate' /\ pc[Live] = "settling"
        /\ reported = "none"
        /\ gate' = gate /\ script' = script /\ approvals' = approvals
        /\ disposal' = disposal /\ reported' = reported
    BY <1>22, SavedAsIs, MovedType DEF Settle, Save, Skip, Refused, OnThrow,
       InEnd, Ending, AtEnd, Reporting, Placed, Recorded, Calm
  <2>2. Standing'
    BY <2>1 DEF Calm, Standing, Waiting, Talking, AtGate, InExecutor, InDraft
  <2>3. Waiting'
    BY <2>1 DEF Calm, Standing, Waiting, Talking, AtGate, InExecutor, InDraft,
       Status
  <2>4. Reporting'
    BY <2>1 DEF Calm, Standing, Waiting, Reporting, Talking, AtGate,
       InExecutor, InDraft, Status, AbortSteps, TerminalSteps
  <2> QED
    BY <2>1, <2>2, <2>3, <2>4 DEF Calm
<1>23. ASSUME NEW p \in Procs, Mark(p)
      PROVE  Calm'
  <2>1. machine'[Live] = runstate'
    BY <1>23 DEF Mark, AfterMark, Placed, Ending, Drafting, Recorded, Calm
  <2>2. Standing'
    BY <1>23 DEF Mark, AfterMark, Placed, Ending, Drafting, Recorded, Calm,
       Standing, Talking, AtGate, InExecutor, InDraft
  <2>3. Waiting'
    BY <1>23 DEF Mark, AfterMark, Placed, Ending, Drafting, Recorded, Calm,
       Standing, Waiting, Talking, AtGate, InExecutor, InDraft, Status
  <2>4. Reporting'
    BY <1>23 DEF Mark, AfterMark, Placed, Ending, Drafting, Recorded, Calm,
       Standing, Waiting, Reporting, Talking, InDraft, Disposal, Status,
       AbortSteps, TerminalSteps, AtEnd
  <2> QED
    BY <2>1, <2>2, <2>3, <2>4 DEF Calm
<1>24. CASE End
  <2>1. machine'[Live] = runstate'
    BY <1>24 DEF End, Placed, Ending, Drafting, Recorded, Calm
  <2>2. Standing'
    BY <1>24 DEF End, Placed, Ending, Drafting, Recorded, Calm, Standing,
       Talking, AtGate, InExecutor, InDraft
  <2>3. Waiting'
    BY <1>24 DEF End, Placed, Ending, Drafting, Recorded, Calm, Standing,
       Waiting, Talking, AtGate, InExecutor, InDraft, Status
  <2>4. Reporting'
    BY <1>24 DEF End, Placed, Ending, Drafting, Recorded, Calm, Standing,
       Waiting, Reporting, Talking, InDraft, Disposal, Status, AbortSteps,
       TerminalSteps, AtEnd
  <2> QED
    BY <2>1, <2>2, <2>3, <2>4 DEF Calm
<1>25. CASE Close
  <2>1. machine'[Live] = runstate'
    BY <1>25, SavedAsIs, MovedType DEF Close, Save, Skip, Refused, Placed,
       Ending, Drafting, Recorded, Calm
  <2>2. Standing'
    BY <1>25, SavedAsIs, MovedType DEF Close, Save, Skip, Refused, Placed,
       Ending, Drafting, Recorded, Calm, Standing, Talking, AtGate, InExecutor,
       InDraft
  <2>3. Waiting'
    BY <1>25, SavedAsIs, MovedType DEF Close, Save, Skip, Refused, Placed,
       Ending, Drafting, Recorded, Calm, Standing, Waiting, Talking, AtGate,
       InExecutor, InDraft, Status
  <2>4. Reporting'
    BY <1>25, SavedAsIs, MovedType DEF Close, Save, Skip, Refused, Placed,
       Ending, Drafting, Recorded, Calm, Standing, Waiting, Reporting, Talking,
       InDraft, Disposal, Status, AbortSteps, TerminalSteps, AtEnd
  <2> QED
    BY <2>1, <2>2, <2>3, <2>4 DEF Calm
<1>26. CASE Restore
  <2>1. machine'[Live] = runstate'
    BY <1>26 DEF Restore, Placed, Ending, Drafting, Recorded, Calm
  <2>2. Standing'
    BY <1>26 DEF Restore, Placed, Ending, Drafting, Recorded, Calm,
       Standing, Talking, AtGate, InExecutor, InDraft
  <2>3. Waiting'
    BY <1>26 DEF Restore, Placed, Ending, Drafting, Recorded, Calm,
       Standing, Waiting, Talking, AtGate, InExecutor, InDraft, Status
  <2>4. Reporting'
    BY <1>26 DEF Restore, Placed, Ending, Drafting, Recorded, Calm,
       Standing, Waiting, Reporting, Talking, InDraft, Disposal, Status,
       AbortSteps, TerminalSteps, AtEnd
  <2> QED
    BY <2>1, <2>2, <2>3, <2>4 DEF Calm
<1>27. CASE OtherReads
  <2>1. machine'[Live] = runstate'
    BY <1>27 DEF OtherReads, Placed, Ending, Drafting, Recorded, Calm
  <2>2. Standing'
    BY <1>27 DEF OtherReads, Placed, Ending, Drafting, Recorded, Calm,
       Standing, Talking, AtGate, InExecutor, InDraft
  <2>3. Waiting'
    BY <1>27 DEF OtherReads, Placed, Ending, Drafting, Recorded, Calm,
       Standing, Waiting, Talking, AtGate, InExecutor, InDraft, Status
  <2>4. Reporting'
    BY <1>27 DEF OtherReads, Placed, Ending, Drafting, Recorded, Calm,
       Standing, Waiting, Reporting, Talking, InDraft, Disposal, Status,
       AbortSteps, TerminalSteps, AtEnd
  <2> QED
    BY <2>1, <2>2, <2>3, <2>4 DEF Calm
<1>28. CASE OtherWrites
  <2>1. machine'[Live] = runstate'
    BY <1>28 DEF OtherWrites, Placed, Ending, Drafting, Recorded, Calm
  <2>2. Standing'
    BY <1>28 DEF OtherWrites, Placed, Ending, Drafting, Recorded, Calm,
       Standing, Talking, AtGate, InExecutor, InDraft
  <2>3. Waiting'
    BY <1>28 DEF OtherWrites, Placed, Ending, Drafting, Recorded, Calm,
       Standing, Waiting, Talking, AtGate, InExecutor, InDraft, Status
  <2>4. Reporting'
    BY <1>28 DEF OtherWrites, Placed, Ending, Drafting, Recorded, Calm,
       Standing, Waiting, Reporting, Talking, InDraft, Disposal, Status,
       AbortSteps, TerminalSteps, AtEnd
  <2> QED
    BY <2>1, <2>2, <2>3, <2>4 DEF Calm
<1>29. CASE OtherRecords
  <2>1. machine'[Live] = runstate'
    BY <1>29 DEF OtherRecords, Placed, Ending, Drafting, Recorded, Calm
  <2>2. Standing'
    BY <1>29 DEF OtherRecords, Placed, Ending, Drafting, Recorded, Calm,
       Standing, Talking, AtGate, InExecutor, InDraft
  <2>3. Waiting'
    BY <1>29 DEF OtherRecords, Placed, Ending, Drafting, Recorded, Calm,
       Standing, Waiting, Talking, AtGate, InExecutor, InDraft, Status
  <2>4. Reporting'
    BY <1>29 DEF OtherRecords, Placed, Ending, Drafting, Recorded, Calm,
       Standing, Waiting, Reporting, Talking, InDraft, Disposal, Status,
       AbortSteps, TerminalSteps, AtEnd
  <2> QED
    BY <2>1, <2>2, <2>3, <2>4 DEF Calm
<1>30. ASSUME NEW p \in Procs, Book(p)
      PROVE  Calm'
  <2>1. /\ pc'[Live] \in InExecutor \cup {"loop", "rejected"}
        /\ pc[Live] \in InExecutor /\ drafted' = drafted
        /\ runstate' = runstate /\ machine'[Live] = runstate'
        /\ gate' = gate /\ script' = script /\ approvals' = approvals
        /\ disposal' = disposal /\ reported' = reported
    BY <1>30 DEF Book, Trace, Refused, InExecutor, Placed, Recorded,
       Calm
  <2>2. Standing'
    BY <2>1 DEF Calm, Standing, Waiting, Talking, AtGate, InExecutor, InDraft
  <2>3. Waiting'
    BY <2>1 DEF Calm, Standing, Waiting, Talking, AtGate, InExecutor, InDraft,
       Status
  <2>4. Reporting'
    BY <2>1 DEF Calm, Standing, Waiting, Reporting, Talking, AtGate,
       InExecutor, InDraft, Status, AbortSteps, TerminalSteps
  <2> QED
    BY <2>1, <2>2, <2>3, <2>4 DEF Calm
<1>31. ASSUME NEW p \in Procs, Schedule(p)
      PROVE  Calm'
  <2>1. /\ pc'[Live] \in InExecutor \cup {"loop", "rejected"}
        /\ pc[Live] \in InExecutor /\ drafted' = drafted
        /\ runstate' = runstate /\ machine'[Live] = runstate'
        /\ gate' = gate /\ script' = script /\ approvals' = approvals
        /\ disposal' = disposal /\ reported' = reported
    BY <1>31 DEF Schedule, InExecutor, Placed, Recorded,
       Calm
  <2>2. Standing'
    BY <2>1 DEF Calm, Standing, Waiting, Talking, AtGate, InExecutor, InDraft
  <2>3. Waiting'
    BY <2>1 DEF Calm, Standing, Waiting, Talking, AtGate, InExecutor, InDraft,
       Status
  <2>4. Reporting'
    BY <2>1 DEF Calm, Standing, Waiting, Reporting, Talking, AtGate,
       InExecutor, InDraft, Status, AbortSteps, TerminalSteps
  <2> QED
    BY <2>1, <2>2, <2>3, <2>4 DEF Calm
<1>32. ASSUME NEW p \in Procs, Shelve(p)
      PROVE  Calm'
  <2>1. machine'[Live] = runstate'
    BY <1>32 DEF Shelve, AfterMark, Placed, Ending, Drafting, Recorded, Calm
  <2>2. Standing'
    BY <1>32 DEF Shelve, AfterMark, Placed, Ending, Drafting, Recorded, Calm,
       Standing, Talking, AtGate, InExecutor, InDraft
  <2>3. Waiting'
    BY <1>32 DEF Shelve, AfterMark, Placed, Ending, Drafting, Recorded, Calm,
       Standing, Waiting, Talking, AtGate, InExecutor, InDraft, Status
  <2>4. Reporting'
    BY <1>32 DEF Shelve, AfterMark, Placed, Ending, Drafting, Recorded, Calm,
       Standing, Waiting, Reporting, Talking, InDraft, Disposal, Status,
       AbortSteps, TerminalSteps, AtEnd
  <2> QED
    BY <2>1, <2>2, <2>3, <2>4 DEF Calm
<1>33. ~RefuseSchedule
  BY DEF RefuseSchedule, FailPayment
<1>34. ~Refuse
  BY DEF Refuse, Refused
<1>35. /\ ~Revise /\ ~Resumed
       /\ \A status \in {"approved", "rejected"} : ~Visit(status)
  BY DEF Revise, Resumed, Visit
<1> QED
  BY <1>1, <1>2, <1>3, <1>4, <1>5, <1>6, <1>7, <1>8, <1>9, <1>10, <1>11, <1>12,
     <1>13, <1>14, <1>15, <1>16, <1>17, <1>18, <1>19, <1>20, <1>21, <1>22,
     <1>23, <1>24, <1>25, <1>26, <1>27, <1>28, <1>29, <1>30, <1>31, <1>32,
     <1>33, <1>34, <1>35, ProcsAre, ScenarioIs
     DEF Next, Tool, Work, Execute, Resume, Procs

LEMMA Counted ==
  ASSUME Next, visits \in Nat, faults \in Nat
  PROVE  /\ visits' \in Nat /\ visits <= visits'
         /\ faults' \in Nat /\ faults <= faults'
<1>1. visits' \in {visits, visits + 1}
  BY DEF Next, Tool, Work, Execute, Resume, Open, ShortCircuit, LookupVendor,
     TeachVendor, CheckDuplicate, StartDraft, ExecuteAction, Finish, Break,
     RecordDigest, CheckDigest, DisposeRoute, Stash, Gate, Park, Ask,
     DecideByScript, Post, Book, Pay, Schedule, Process, FailPayment, Throwing,
     RefuseSchedule, Finalize, Settle, Mark, Shelve, AfterMark, End, Close,
     Restore, Refuse, Visit, Revise, Resumed, OtherReads, OtherWrites,
     OtherRecords, Call, bounds
<1>2. faults' \in {faults, faults + 1}
  BY DEF Next, Tool, Work, Execute, Resume, Open, ShortCircuit, LookupVendor,
     TeachVendor, CheckDuplicate, StartDraft, ExecuteAction, Finish, Break,
     RecordDigest, CheckDigest, DisposeRoute, Stash, Gate, Park, Ask,
     DecideByScript, Post, Book, Pay, Schedule, Process, FailPayment, Throwing,
     RefuseSchedule, Finalize, Settle, Mark, Shelve, AfterMark, End, Close,
     Restore, Refuse, Visit, Revise, Resumed, OtherReads, OtherWrites,
     OtherRecords, Save, Skip, Refused, Trace
<1> QED
  BY <1>1, <1>2

\* Without a visit the visitor does nothing.
LEMMA OnlyVisits ==
  ASSUME Placed, Next, pc[Visitor] = "idle", visits \in Nat, visits' = visits
  PROVE  pc'[Visitor] = "idle"
BY ProcsAre DEF Placed, Next, Tool, Work, Execute, Resume, Open, ShortCircuit,
   LookupVendor, TeachVendor, CheckDuplicate, StartDraft, ExecuteAction,
   Finish, Break, RecordDigest, CheckDigest, DisposeRoute, Stash, Gate, Park,
   Ask, DecideByScript, Post, Book, Pay, Schedule, Process, FailPayment,
   Throwing, RefuseSchedule, Finalize, Settle, Mark, Shelve, AfterMark, End,
   Close, Restore, Refuse, Visit, Revise, Resumed, OtherReads, OtherWrites,
   OtherRecords, Call, Save, Skip, Refused, Trace, At, Goto, bounds, Procs

\* Every start of the other run is counted.
LEMMA OthersCounted ==
  ASSUME Next, others \in Nat
  PROVE  /\ others' \in Nat /\ others <= others'
         /\ others' = others => other' \in {other, "idle"}
<1>1. \/ others' = others /\ other' \in {other, "idle"}
      \/ others' = others + 1
  BY DEF Next, Tool, Work, Execute, Resume, Open, ShortCircuit, LookupVendor,
     TeachVendor, CheckDuplicate, StartDraft, ExecuteAction, Finish, Break,
     RecordDigest, CheckDigest, DisposeRoute, Stash, Gate, Park, Ask,
     DecideByScript, Post, Book, Pay, Schedule, Process, RefuseSchedule,
     Finalize, Settle, Mark, Shelve, End, Close, Restore, Refuse, Visit,
     Revise, Resumed, OtherReads, OtherWrites, OtherRecords, copies, tables
<1> QED
  BY <1>1

\* The run comes to overwrite a table from where it reads it.
LEMMA Arrives ==
  ASSUME Placed, Next
  PROVE  /\ pc'[Live] = "booking" => pc[Live] = "booking" \/ Post(Live)
         /\ pc'[Live] = "scheduling" => pc[Live] = "scheduling" \/ Pay(Live)
         /\ pc'[Live] = "shelving" =>
              \/ pc[Live] = "shelving"
              \/ Mark(Live) /\ inbox' = inbox /\ inbox # "processed"
<1> USE ProcsAre, ThrowPlace, AfterPlace, AfterMarkPlace
    DEF Placed, At, Goto, Save, Skip, Refused, Trace, Throwing
<1>1. CASE Tool \/ Finish \/ Break \/ Refuse \/ RefuseSchedule \/ Resume
           \/ OtherReads \/ OtherWrites \/ OtherRecords
  BY <1>1 DEF Tool, Resume, Execute, LookupVendor, TeachVendor, CheckDuplicate,
     StartDraft, ExecuteAction, Call, Finish, Break, Refuse, RefuseSchedule,
     FailPayment, Post, Book, Pay, Schedule, Process, Mark, Shelve, Revise,
     Resumed, OtherReads, OtherWrites, OtherRecords
<1>2. ASSUME NEW status \in {"approved", "rejected"}, Visit(status)
      PROVE  pc'[Live] = pc[Live]
  BY <1>2 DEF Visit
<1>3. CASE Work
  <2>1. CASE Execute(Live) \/ Mark(Live) \/ Shelve(Live)
    BY <2>1 DEF Execute, Post, Book, Pay, FailPayment, Schedule, Process, Mark,
       Shelve, erp
  <2> QED
    BY <1>3, <2>1 DEF Work, Open, ShortCircuit, RecordDigest, CheckDigest,
       DisposeRoute, Stash, Gate, Park, Ask, DecideByScript, Finalize, Settle,
       End, Close, Restore
<1> QED
  BY <1>1, <1>2, <1>3 DEF Next

LEMMA SoleKept ==
  ASSUME Placed, Recorded, Tables, Next, Sole, pc[Visitor] = "idle",
         other = "idle", others \in Nat, others' = others
  PROVE  Sole'
<1> USE ProcsAre, AfterPlace, AfterMarkPlace
    DEF Sole, Placed, At, Goto, Trace, Refused, OnThrow, Throwing
<1>1. CASE UNCHANGED <<erp, ledgerRead, paymentsRead, inboxRead, other>>
  <2>1. pc'[Live] = "booking" => ledgerRead'[Live] = ledger'
    BY <1>1, Arrives DEF Post, Tables, Writers, erp
  <2>2. pc'[Live] = "scheduling" => paymentsRead'[Live] = payments'
    BY <1>1, Arrives DEF Pay, FailPayment, Tables, Writers, erp
  <2>3. pc'[Live] = "shelving" => inbox' # "processed"
    BY <1>1, Arrives DEF erp
  <2> QED
    BY <1>1, <2>1, <2>2, <2>3 DEF erp
<1>2. CASE Post(Live)
  BY <1>2 DEF Post, Tables, Writers, erp
<1>3. CASE Book(Live)
  <2>1. lost' = {} /\ pc'[Live] \in {"paying", "loop", "rejected"}
    BY <1>3 DEF Book, WriteLedger, Lose, Mine, MineIn
  <2> QED
    BY <2>1
<1>4. CASE Pay(Live)
  BY <1>4 DEF Pay, FailPayment, Tables, Writers, erp
<1>5. CASE Schedule(Live)
  <2>1. payments \in Seq(Nat) /\ executing[Live] \in Nat
    BY DEF Tables, Recorded
  <2>2. Paid(payments) \subseteq Paid(Append(payments, executing[Live]))
    BY <2>1 DEF Paid
  <2>3. lost' = {} /\ pc'[Live] = "processing"
    BY <1>5, <2>2 DEF Schedule, WritePayments, Lose
  <2> QED
    BY <2>3
<1>6. CASE Process(Live)
  BY <1>6 DEF Process, WriteInbox, Lose
<1>7. CASE Shelve(Live)
  BY <1>7 DEF Shelve, WriteInbox, Lose
<1>8. ~OtherReads /\ ~OtherWrites
  BY DEF OtherReads, OtherWrites
<1>9. \A p \in Procs : Execute(p) \/ Shelve(p) => p = Live
  BY DEF Execute, Post, Book, Pay, Schedule, Process, Shelve
<1> QED
  BY <1>1, <1>2, <1>3, <1>4, <1>5, <1>6, <1>7, <1>8, <1>9, TouchesTables
     DEF Execute

LEMMA AloneKept ==
  ASSUME Placed, Recorded, Plain, Tables, Alone, [Next]_vars
  PROVE  Alone'
<1>1. CASE UNCHANGED vars
  BY <1>1 DEF vars, Alone, Sole, erp, copies, tables, bounds
<1>2. CASE Next
  <2>1. visits \in Nat /\ faults \in Nat /\ others \in Nat
    BY ScenarioIs DEF Plain
  <2>2. visits' = 0 => visits = 0 /\ visits' = visits
    BY <1>2, <2>1, Counted
  <2>3. others' = 0 => others = 0 /\ others' = others
    BY <1>2, <2>1, OthersCounted
  <2>4. visits' = 0 => pc'[Visitor] = "idle"
    BY <1>2, <2>1, <2>2, OnlyVisits DEF Alone
  <2>5. others' = 0 => other' = "idle"
    BY <1>2, <2>1, <2>3, OthersCounted DEF Alone
  <2>6. visits' = 0 /\ others' = 0 => Sole'
    BY <1>2, <2>1, <2>2, <2>3, SoleKept DEF Alone
  <2> QED
    BY <2>4, <2>5, <2>6 DEF Alone
<1> QED
  BY <1>1, <1>2

LEMMA InStepKept ==
  ASSUME Placed, Placed', Ending, Ending', Drafting, Recorded, Plain, Asking,
         InStep, [Next]_vars
  PROVE  InStep'
<1> USE ProcsAre
<1>1. CASE UNCHANGED vars
  BY <1>1 DEF vars, InStep, Undisturbed, Calm, Standing, Waiting, Reporting,
     Status, options, memory, erp, executor, drafting, gating, bounds, copies,
     tables
<1>2. CASE Next
  <2>1. visits' \in Nat /\ faults' \in Nat
    BY Counted, <1>2 DEF InStep
  <2>2. visits' = 0 => visits = 0 /\ visits' = visits
    BY Counted, <1>2 DEF InStep
  <2>3. faults' = 0 => faults = 0 /\ faults' = faults
    BY Counted, <1>2 DEF InStep
  <2>4. visits' = 0 => pc'[Visitor] = "idle"
    BY OnlyVisits, <1>2, <2>2 DEF InStep
  <2>5. Undisturbed' => Calm'
    <3>1. failures \in Nat
      BY ScenarioIs DEF Plain
    <3> QED
      BY CalmKept, <1>2, <2>2, <2>3, <3>1 DEF InStep, Undisturbed
  <2> QED
    BY <2>1, <2>4, <2>5 DEF InStep
<1> QED
  BY <1>1, <1>2

LEMMA PlainKept ==
  ASSUME Placed, Plain, [Next]_vars
  PROVE  Plain'
<1> USE  DEF Plain, At, Goto, options, memory, erp, executor, drafting, gating,
   bounds, copies, tables
<1>a. /\ scenario.calls \in Nat /\ scenario.visits \in Nat
      /\ scenario.failures \in Nat /\ scenario.faults \in Nat
      /\ scenario.others \in Nat
  BY ScenarioIs
<1>1. CASE Open
  BY <1>1, <1>a DEF Open, Save, Refused
<1>2. CASE ShortCircuit
  BY <1>2, <1>a DEF ShortCircuit, Save, Refused
<1>3. ASSUME NEW v \in Vendors, LookupVendor(v)
      PROVE  Plain'
  BY <1>3, <1>a DEF LookupVendor, ReadProfile, Call
<1>4. ASSUME NEW v \in Vendors, TeachVendor(v)
      PROVE  Plain'
  BY <1>4, <1>a DEF TeachVendor, Call
<1>5. CASE CheckDuplicate
  BY <1>5, <1>a DEF CheckDuplicate, Call
<1>6. CASE StartDraft
  BY <1>6, <1>a DEF StartDraft, Call, Save, Skip, Refused
<1>7. CASE ExecuteAction
  <2>1. gateRun' \in BOOLEAN /\ inFinalize' \in BOOLEAN /\ script' \in BOOLEAN
    BY <1>7 DEF ExecuteAction
  <2> QED
    BY <1>7, <1>a, <2>1 DEF ExecuteAction, Call
<1>8. CASE Finish
  BY <1>8, <1>a DEF Finish
<1>9. CASE Break
  BY <1>9, <1>a DEF Break
<1>10. CASE RecordDigest
  BY <1>10, <1>a DEF RecordDigest
<1>11. CASE CheckDigest
  BY <1>11, <1>a DEF CheckDigest, ReadProfile
<1>12. CASE DisposeRoute
  BY <1>12, <1>a DEF DisposeRoute
<1>13. CASE Stash
  BY <1>13, <1>a DEF Stash, Save, Skip, Refused
<1>14. CASE Gate
  BY <1>14, <1>a DEF Gate
<1>15. CASE Park
  BY <1>15, <1>a DEF Park, Save, Skip, Refused
<1>16. CASE Ask
  BY <1>16, <1>a DEF Ask
<1>17. CASE DecideByScript
  BY <1>17, <1>a DEF DecideByScript
<1>18. ASSUME NEW p \in Procs, Post(p)
      PROVE  Plain'
  BY <1>18, <1>a DEF Post, Trace, Refused
<1>19. ASSUME NEW p \in Procs, Pay(p)
      PROVE  Plain'
  BY <1>19, <1>a DEF Pay, FailPayment
<1>20. ASSUME NEW p \in Procs, Process(p)
      PROVE  Plain'
  BY <1>20, <1>a DEF Process, Trace, Refused
<1>21. CASE Finalize
  BY <1>21, <1>a DEF Finalize
<1>22. CASE Settle
  BY <1>22, <1>a DEF Settle, Save, Skip, Refused
<1>23. ASSUME NEW p \in Procs, Mark(p)
      PROVE  Plain'
  BY <1>23, <1>a DEF Mark, AfterMark
<1>24. CASE End
  BY <1>24, <1>a DEF End
<1>25. CASE Close
  BY <1>25, <1>a DEF Close, Save, Skip, Refused
<1>26. CASE Restore
  BY <1>26, <1>a DEF Restore
<1>27. CASE Refuse
  BY <1>27, <1>a DEF Refuse, Refused
<1>28. ASSUME NEW status \in {"approved", "rejected"}, Visit(status)
      PROVE  Plain'
  BY <1>28, <1>a DEF Visit
<1>29. CASE Revise
  BY <1>29, <1>a DEF Revise
<1>30. CASE Resumed
  BY <1>30, <1>a DEF Resumed
<1>31. CASE OtherReads
  BY <1>31, <1>a DEF OtherReads
<1>32. CASE UNCHANGED vars
  BY <1>32 DEF vars
<1>33. ASSUME NEW p \in Procs, Book(p)
      PROVE  Plain'
  BY <1>33, <1>a DEF Book, Trace, Refused
<1>34. ASSUME NEW p \in Procs, Schedule(p)
      PROVE  Plain'
  BY <1>34, <1>a DEF Schedule
<1>35. CASE RefuseSchedule
  BY <1>35, <1>a DEF RefuseSchedule, FailPayment, Throwing
<1>36. ASSUME NEW p \in Procs, Shelve(p)
      PROVE  Plain'
  BY <1>36, <1>a DEF Shelve, AfterMark
<1>37. CASE OtherWrites
  BY <1>37, <1>a DEF OtherWrites
<1>38. CASE OtherRecords
  BY <1>38, <1>a DEF OtherRecords
<1> QED
  BY <1>1, <1>2, <1>3, <1>4, <1>5, <1>6, <1>7, <1>8, <1>9, <1>10, <1>11, <1>12,
     <1>13, <1>14, <1>15, <1>16, <1>17, <1>18, <1>19, <1>20, <1>21, <1>22,
     <1>23, <1>24, <1>25, <1>26, <1>27, <1>28, <1>29, <1>30, <1>31, <1>32,
     <1>33, <1>34, <1>35, <1>36, <1>37, <1>38, ProcsAre, ScenarioIs
     DEF Next, Tool, Work, Execute, Resume, Procs

-----------------------------------------------------------------------------
(* Theorems.                                                               *)

LEMMA InitPlain ==
  ASSUME Init
  PROVE  Placed /\ Ending /\ Drafting /\ Recorded /\ Plain
<1> USE ProcsAre, LiveAssumption
<1>1. Placed /\ Ending
  BY DEF Init, Placed, Ending, LivePlaces, VisitorPlaces, InDraft, InGate,
     InEnd, AtEnd
<1>2. Drafting
  BY DEF Init, Drafting, Teachers, Drafts, Extractions, AtGate
<1>3. Recorded
  BY DEF Init, Recorded, Records, RecordFits, RunSteps, InExecutor
<1>4. gateRun \in BOOLEAN /\ inFinalize \in BOOLEAN /\ script \in BOOLEAN
  BY DEF Init
<1>5. Plain
  <2>1. mode \in Modes
    BY <1>1, ScenarioIs DEF Init, Modes
  <2>2. /\ calls \in 0..scenario.calls /\ visits \in 0..scenario.visits
        /\ failures \in 0..scenario.failures /\ faults \in 0..scenario.faults
        /\ others \in 0..scenario.others
    BY <1>1, ScenarioIs DEF Init
  <2>3. /\ seen \in {"nobody", "this_run", "other_run"}
        /\ prior \in {"unread", "nobody", "this_run", "other_run"}
    BY DEF Init
  <2> QED
    BY <1>4, <2>1, <2>2, <2>3 DEF Plain
<1> QED
  BY <1>1, <1>2, <1>3, <1>5

LEMMA InitInv ==
  ASSUME Init
  PROVE  IInv
<1> USE ProcsAre, LiveAssumption
<1>1. Tables
  BY DEF Init, Tables, Writers, InboxStates
<1>2. Asking /\ Gated
  BY DEF Init, Asking, Gated, OneOpenApproval, HeldRows, Approvals
<1>3. Once
  BY DEF Init, Once, FewPaid, Undisturbed, AtGate, InExecutor
<1>4. Executed /\ Alone
  BY DEF Init, Executed, SaysExecuted, Alone, Sole
<1>5. GivenBack
  BY DEF Init, GivenBack, NewIsUntouched, MineIn
<1>6. ReadFirst
  BY DEF Init, ReadFirst, GlIsNotPlanted
<1>7. InStep
  BY DEF Init, InStep, Calm, Standing, Waiting, Reporting, Talking, AtGate,
     InExecutor, InDraft
<1> QED
  BY <1>1, <1>2, <1>3, <1>4, <1>5, <1>6, <1>7, InitPlain DEF IInv

LEMMA InvKept ==
  ASSUME IInv, [Next]_vars
  PROVE  IInv'
<1>1. Placed' /\ Ending' /\ Plain'
  BY PlacedKept, EndingKept, PlainKept DEF IInv
<1>2. Drafting'
  BY DraftingKept DEF IInv
<1>3. Recorded'
  BY <1>2, RecordedKept DEF IInv
<1>4. Tables' /\ Asking'
  BY TablesKept, AskingKept DEF IInv
<1>5. Gated'
  BY <1>2, <1>3, <1>4, GatedKept DEF IInv
<1>6. Once' /\ GivenBack'
  BY OnceKept, GivenBackKept DEF IInv
<1>7. Executed' /\ Alone'
  BY ExecutedKept, AloneKept DEF IInv
<1>8. ReadFirst'
  BY ReadFirstKept DEF IInv
<1>9. InStep'
  BY <1>1, InStepKept DEF IInv
<1> QED
  BY <1>1, <1>2, <1>3, <1>4, <1>5, <1>6, <1>7, <1>8, <1>9 DEF IInv

LEMMA Invariant == Spec => []IInv
<1>1. Init => IInv
  BY InitInv
<1>2. IInv /\ [Next]_vars => IInv'
  BY InvKept
<1> QED
  BY <1>1, <1>2, PTL DEF Spec

\* Everything the store and the two processes hold keeps its type: whatever
\* the model calls, no draft is read that was not saved, and no route, place
\* or step appears that the code does not name.
THEOREM TypeCorrect == Spec => []TypeOK
<1>1. IInv => TypeOK
  BY DEF IInv, Placed, Ending, Drafting, Recorded, Plain, Tables, Asking,
     TypeOK, LivePlaces, VisitorPlaces, Drafts, Extractions, Approvals, Answers
<1> QED
  BY <1>1, Invariant, PTL

\* A ledger row of a live run, whoever posted it, has a yes behind it or an
\* autonomous auto-approval of that very draft; a shadow run has none.
THEOREM MoneyNeedsConsent == Spec => []MoneyIsGated
<1>1. IInv => MoneyIsGated
  BY DEF IInv, Gated, HeldRows, Tables, Mine, MineIn, MayMove, Consented,
     Eligible, MoneyIsGated
<1> QED
  BY <1>1, Invariant, PTL

\* However often the model drafts and executes while it is parked, and
\* whenever visitors decide, only the last approval of a run was not rejected.
THEOREM AsksAgainOnlyAfterNo == Spec => []OneOpenApproval
<1>1. IInv => OneOpenApproval
  BY DEF IInv, Asking
<1> QED
  BY <1>1, Invariant, PTL

\* However the model drafts, executes and retries, a run that nobody disturbs
\* appends one payment at most.
THEOREM PaysOnce == Spec => []PaidOnce
<1>1. IInv => PaidOnce
  <2> SUFFICES ASSUME IInv, Undisturbed PROVE Len(payments) <= 1
    BY DEF PaidOnce
  <2>1. payments = <<>> \/ Len(payments) = 1
    BY DEF IInv, Once, FewPaid
  <2> QED
    BY <2>1
<1> QED
  BY <1>1, Invariant, PTL

\* No draft of a run carries a GL code that the run's model taught.
THEOREM GlIsNeverPlanted == Spec => []GlIsNotPlanted
<1>1. IInv => GlIsNotPlanted
  BY DEF IInv, ReadFirst
<1> QED
  BY <1>1, Invariant, PTL

\* A run that stands at executed has posted and paid a draft and its document
\* is processed, also when a visitor resumed it while the model went on, unless
\* a writer with a stale copy took the row, the payment or the mark away; and
\* nothing is taken from a run that writes the ERP alone.
THEOREM ExecutedIsPaid == Spec => []ExecutedWasPaid
<1>1. IInv => ExecutedWasPaid
  <2> SUFFICES ASSUME IInv PROVE ExecutedWasPaid
    OBVIOUS
  <2>1. runstate.step = "executed" /\ mode # "shadow" => PaidFor /\ OutOfInbox
    BY DEF IInv, Executed, SaysExecuted
  <2>2. lost # {} => visits > 0 \/ others > 0
    <3>1. visits \in Nat /\ others \in Nat
      BY ScenarioIs DEF IInv, Plain
    <3> QED
      BY <3>1 DEF IInv, Alone, Sole
  <2> QED
    BY <2>1, <2>2 DEF PaidFor, OutOfInbox, ExecutedWasPaid
<1> QED
  BY <1>1, Invariant, PTL

\* A document that an aborted run gives back as new has no ledger row of it,
\* unless a visitor approved meanwhile or a stale copy dropped its row.
THEOREM GivenBackUntouched == Spec => []NewIsUntouched
<1>1. IInv => NewIsUntouched
  BY DEF IInv, GivenBack
<1> QED
  BY <1>1, Invariant, PTL

\* The outcome in the trace of a run that nobody disturbed is the step in the
\* store, and a run reported as parked can be decided.
THEOREM ReportsWhatIsStored == Spec => []ReportedIsSettled
<1>1. IInv => ReportedIsSettled
  BY DEF IInv, InStep, Calm, Reporting, Asked, ReportedIsSettled
<1> QED
  BY <1>1, Invariant, PTL

=============================================================================
