# NovaGait back office: formal models

This directory holds TLA+ models of the NovaGait accounts-payable back office
(`src/`), the TLC configurations that check them on small instances, and proofs
checked by TLAPS that hold for every value of the constants. The system takes
vendor invoices, matches them against purchase orders, decides a route, and
moves (mock) money either on its own or after a person approves. Most models are
about that decision and that money: who may act on a run, when, and how often.
The others are about what surrounds it: what a visitor may use up, the paid
evaluation of the language models, what its grades are worth, and the guided
tour.

`PROJECT.json` lists for every definition the source lines it stands for, and
for every run its properties, hazards and mutants.

## 1. The system

### Processes and shared state

All code runs in stateless serverless handlers of a Next.js app
(`src/apps/web`) and in command-line batch programs (`src/evals/runner`). The
handlers share one key-value store (`packages/agent/src/store.ts`: an in-memory
map in development, Redis in production) whose operations are single atomic
commands. There are no transactions: whatever takes two calls can be
interleaved with every other handler between them, can fail between them, and
can be cut short by the platform. Every store call is an `await`, so this is
also true inside one process. Most of what can go wrong follows from that.

### Inventory

| Component | State | Operations | Interacts with | What makes it correct |
|---|---|---|---|---|
| Run lifecycle (`run-state.ts`) | `runstate:{run}`: step, revision, payload | create, load, transition, patch | used by both pipelines and the resume; each holds an in-memory copy and writes it back whole | only forward edges; terminal steps are final; at most `MAX_REVISIONS` revisions |
| Approvals and gate (`approval.ts`) | `approval:{id}`, `approval:by-run:{run}` | createApproval, decideApproval, getApprovalForRun, gateExecuteAction, canAutoApprove | called by pipelines, resume, approval page | a decision is final; only an approved or earned action executes |
| Approval resume (`resume.ts`, approval route) | `approval:claim:{id}` | resumeRun: claim, decide, revise or hold, execute, write profile, finish | run lifecycle, gate, executor, trace, memory, ERP | one actor per run; a claim is given back when nothing was decided; the run settles |
| Executor (`execute.ts`) | none | post, pay with one retry, mark processed | mock ERP, trace | ledger before payment, one payment, failure is reported |
| Mock ERP (`mock-backend`) | `backend:*` tables, each one JSON value; failure toggle | postToLedger, schedulePayment, setInboxState, lookups, seed | everything that executes | no lost row, no double posting |
| Match, routes, thresholds (`match.ts`, `policy-constants.ts`) | none | matchInvoice, decideRoute | both pipelines | tolerance and cap at their boundaries |
| Guardrails (`guardrails.ts`) | none | checkScope, checkInjection, checkFloor, checkVendor, checkDuplicate, constrainRoute | both pipelines | code may escalate a route, never soften it |
| Mock pipeline (`mock-agent.ts`) | run record, dedupe ledger, inbox | runMockPipeline, its catch block, the scripted approver | all of the above | a document is paid once; a failure leaves a truthful run |
| Live lane (`live-agent.ts`) | per-run session: draft, stash, executed flag | tool executors, gate, finalize, breaker settle | agent loop, all of the above | the model's calls in any order cannot bypass the gate |
| Agent loop (`loop.ts`) | turn counter, cost | runWorkflow; cost, iteration and wall-clock breakers | live lane, Anthropic API (external) | a breaker ends the run once, with the outcome that happened |
| Trace writer (`trace-writer.ts`) | `trace:{run}`, `run:{run}`, `runs:recent` | append, resume | every writer of a run | seq order, final summary |
| Memory (`memory.ts`) | vendor profiles, dedupe ledger, dispositions | record, check, update | pipelines, resume | a document is recorded once |
| Containment (`containment.ts`) | rate windows, session counter, daily budget | checkIpLimit, checkSessionCap, refund, recordRunCost | intake route | no limit is overrun, no slot is lost |
| Demo reset (`reset.ts`) | deletes keys of recent runs | resetDemo | runs in flight | a reset leaves a consistent store |
| Matrix batch driver (`matrix/batch.ts`) | rounds, chunks, pending requests | runLane, pollUntilEnded, submitUntilEnded | spend ledger, batch API (external) | every case ends; no request is lost or spent twice unnoticed |
| Spend ledger (`matrix/ledger.ts`) | a JSON file | open, add, assertHeadroom, save | batch driver | idempotent entries, hard stop |
| Guided tour (`components/tour`) | stored step index, current path | resolveStep, next, back, resumeTarget | browser navigation | the shown step fits the page |
| Graders and gates (`graders/`, `summary.ts`, `thresholds.ts`) | none | grade, rankCodes, summarize, evaluateGates | finished runs, golden cases | a pass is earned; a gate that passes hides no missed guardrail and no regression |
| Live evaluation (`createLivePipeline`, `live-pipeline.ts`, `results.ts`) | a store per case, checkpoints | openCase, the turns, projection, gradeLane, regrading | live lane, batch driver, graders | the outcome that is graded is what the run did |
| Cassettes (`evals/runner/src/cassettes`) | committed recordings and a baseline | record, prune, replay, drift, writeBaseline | mock pipeline, graders, CI | a green check means fresh recordings |
| Estimates, pages, generated data | none of their own | arithmetic, rendering | finished runs | reference results |

The hard behaviours are: two approvers on one approval; an approval page left
open across a revision; a visitor who decides before the first pass has closed
its trace; a handler that dies or whose store call fails between the claim and
the final transition; a retry of a payment whose write was applied; a table
rewritten whole by two runs; a model that calls tools in an unplanned order or
is cut off by a breaker; two submissions of one document; a reset over a run in
flight; requests that read one counter together; a batch that is resubmitted
although it completed; a spend ledger torn by a crash; a recording cut short, or
a stray copy of one; a tour whose page is left while it still renders.
`PROJECT.json` lists them as hazards, each at its line, with the properties that
cover it.

## 2. The modules

| Module | Models | Kind |
|---|---|---|
| `RunLifecycle` | `run-state.ts`: the transition table, `transition` | operators |
| `ApprovalProtocol` | what the gate promises about one parked run | abstract specification |
| `ApprovalResume` | `resume.ts` with the parts of `approval.ts`, `execute.ts`, `backend.ts`, `trace-writer.ts` and the approval route it goes through | detailed specification |
| `ApprovalResumeInvariant` | the inductive invariants of `ApprovalResume` | invariants |
| `ApprovalResumeProofs` | exclusion of competing requests in `ApprovalResume` | proofs |
| `ApprovalOutcomeProofs` | its payment, that it implements `ApprovalProtocol`, its settled step and its audit trail | proofs |
| `MCApprovalResume` | symmetry for TLC | model checking |
| `Policy` | `match.ts`, `guardrails.ts`, `canAutoApprove` | operators |
| `RouteDecision` | the path through `mock-agent.ts` and `live-agent.ts` that joins them | specification |
| `RouteDecisionProofs` | theorems about `RouteDecision` | proofs |
| `MCRouteDecision` | documents, orders and records for TLC | model checking |
| `LiveRun` | `live-agent.ts` (all but the batched lane) under `loop.ts`, with what it calls in `approval.ts`, `execute.ts`, `backend.ts`, `memory.ts` and `run-state.ts` | specification |
| `LiveRunProofs` | its safety, in layers of invariants | proofs |
| `MCLiveRun` | two vendors, and what may happen in five scenarios | model checking |
| `FirstPass` | whole runs of `mock-agent.ts` over one store, with `memory.ts`, `backend.ts`, `approval.ts`, `execute.ts`, the end of `resume.ts`, and `reset.ts` | specification |
| `FirstPassProofs` | theorems about `FirstPass` | proofs |
| `MCFirstPass` | who submits what | model checking |
| `Containment` | `containment.ts`, the order in which the intake and dev routes use it, `incrBy` of `store-redis.ts`, the reset of the budget | specification |
| `ContainmentProofs` | theorems about `Containment` | proofs |
| `MCContainment` | requests over two hours, an expiry and midnight | model checking |
| `MatrixRun` | `matrix/run.script.ts`, `batch.ts`, `ledger.ts`, `judge-batch.ts`, `latency.ts`, `accounting.ts`, `augment.script.ts` | specification |
| `MatrixRunProofs` | theorems about `MatrixRun` | proofs |
| `MCMatrixRun` | two lanes, their usage and four scenarios | model checking |
| `Grading` | `normalize.ts`, `taxonomy.ts`, `graders/`, `grade.ts`, `summary.ts`, `thresholds.ts`, `golden.ts` | operators |
| `EvalCase` | one golden case in a store of its own, for both lanes | operators |
| `EvalLane` | `createLivePipeline` of `live-agent.ts`, the turns of `batch.ts`, `live-pipeline.ts`, `results.ts`, `regrade.script.ts` | specification |
| `Cassettes` | `cassettes/` and the two checks of its CI workflow | specification |
| `EvalSuite` | the two lanes over one set of golden cases | composition |
| `EvalSuiteProofs` | theorems about `EvalSuite` | proofs |
| `MCEvalSuite` | three golden cases, what a model and a parser make of them | model checking |
| `GuidedTour` | `components/tour/`, and the pages and forms it leads through | specification |
| `MCGuidedTour` | the tour has no constants but bounds | model checking |

`EXTENDS` runs from operators to specifications: `RunLifecycle` under
`ApprovalResume`, `LiveRun` and `FirstPass`; `Policy` under `RouteDecision` and
`EvalCase`; `Policy` and `Grading` under `EvalCase`, `EvalCase` under `EvalLane`
and `Cassettes`, both under `EvalSuite`. `ApprovalResume` is an `INSTANCE` of
`ApprovalProtocol` under its refinement mapping.

### ApprovalResume

One run is parked at `awaiting_approval` with a pending approval, as the first
pass of `mock-agent.ts` leaves it. Each element of `Requests` is one POST to
`/api/approvals/{id}`: it picks an approval id that exists and a decision, and
goes through `resumeRun`. `pc[r]` names the store call the request makes next,
and one action is one store call together with the synchronous code around it.
Two variables per request hold what the code keeps in local variables across an
`await` and uses later: `machine` (the run record it loaded and later writes
back whole) and `ledgerCopy`, `paymentCopy` (the ERP tables it read). These
are where a stale value could do damage, so they are not abstracted away.

The correspondence, in the order of the code:

| `pc` | Code | Action |
|---|---|---|
| loading, pointing, reading | load the run, the by-run pointer, the approval; the early returns of `resumeRun` | `LoadRun`, `ReadPointer`, `CheckApproval` |
| claiming | `incrBy` of the claim key; a loser answers 409 | `Claim` |
| claimed, deciding | `decideApproval`: read, then write | `DecideRead`, `DecideWrite` |
| resuming, recording | `TraceWriter.resume`; `approval.decided` | `ResumeTrace`, `RecordDecision` |
| redrafting .. parking | a rejection with a revision left: back to `decided`, save the disposition, new approval, pointer, `approval.requested`, park | `Redraft` .. `Park` |
| holding, shelving | a rejection with none left | `Hold`, `Shelve` |
| gating .. pay_tracing | the gate's re-entry and the executor with its retry | `GateCheck` .. `TracePayment` |
| profiling .. settling | the vendor profile, then `executed` | `WriteProfile` .. `Settle` |
| failing, erring | the gate's catch: fatal event, then `error` | `TraceFailure`, `Err` |
| ending, summarising | `run.end`, then the summary hash | `EndTrace`, `Summarise` |
| recovering, rechecking, releasing | the catch of `resumeRun` | `ReadPointer`, `Recheck`, `Release` |

The first pass is one more process, `FirstPass`, with only its last three calls
left; `FirstPassReturned` says whether they have already happened. The operator
of the failure toggle is `SetToggle`. Whether another run posted the same
invoice first is chosen in `Init`.

Faults are bounded by `MaxFaults` and come in three kinds. `throw`: the store
refuses a call, nothing is applied, control goes to the enclosing catch block
(`OnThrow`). `TraceWriter.append` is a push followed by an expiry and counts its
seq before both, so a refusal may also come after the push, and uses up a seq in
either case. `late`: the call is applied and its reply is lost, which the caller
sees as the same exception. `crash`: the handler stops and no catch block runs.

Abstracted: the money is the presence of a ledger row, the number of payment
rows, and whether a row carries edits; text, amounts and vendor data are left
out. Reads whose result no property depends on (the summary hash before it is
merged, the vendor list before the profile is written) are part of the call next
to them. `setInboxState`, `saveDisposition` and the profile update read and
write a table in one step, because within this one run nobody else writes the
same row.

`ApprovalProtocol` is the same run with no requests, claims or calls: decide
once, ledger row, payment row, settle; or redraft while revisions are left and
hold after that. `ImplementsProtocol` is that specification under the mapping
`step <- runstate.step`, `verdict <- approvals[byRun]`, `posted <- the ledger
has this run's row`, `paid <- Len(payments)`: every store write of every
interleaving is one step of the protocol, all other steps stutter.

### RouteDecision

One document goes from screening to its outcome. `Init` chooses a document, an
order and a receiving record, including their absence; the actions are the
stages of the pipelines: `Screen`, `Match`, `ProposeRoute`, `Constrain` (one
iteration of the loop in `constrainRoute`), `Dispose`, `Gate`. In the live lane
the model proposes any route at all; in the mock lane there is none. Parsing,
the scope and injection patterns and the vendor similarity score are pure string
functions; the document record holds their verdicts. Cents are integers, the
tolerance rounds half up as `Math.round` does, and no amount comes near the
width of a double's integers.

### LiveRun

One document in the live lane. The language model is an adversary: `Tool` lets
it call any tool with any arguments, in any order, `Finish` lets it stop, and
`Break` stops it where a breaker or an exception ends the loop of `runWorkflow`
without `finalize`. What is modelled is what code does with each call, in the
order of its store calls: `StartDraft`, `CheckDigest`, `RecordDigest`,
`DisposeRoute`, `Stash` are `draft_action`; `ExecuteAction`, `Gate`, `Park`,
`Ask`, `DecideByScript`, `Post`, `Book`, `Pay`, `Schedule`, `Process` are
`execute_action` with the gate and the executor, which `Finalize` enters as well;
`Settle`, `Mark`, `Shelve`, `End`, `Close`, `Restore` end the run. `ShortCircuit`
is a document out of scope.

State that goes stale is kept apart: `machine[Live]` is the run record in
memory, which `transition` and `patch` write back whole (`Save`); `cache` is the
vendor profiles as first read; `prior` the answer of the digest check; `parked`
the approval the scripted approver will decide. `drafts` is every disposition
saved, `drafted` the current one, and `runstate.draft` the one a resume would
execute.

Each table of the ERP is one value of the store, and a writer reads it, changes
its copy and puts the copy back in a second call. `ledgerRead`, `paymentsRead`
and `inboxRead` are these copies, one per writer: `Post` reads the ledger and
`Book` writes it, `Pay` and `Schedule` do the same with the payments, `Mark` and
`Shelve` with the inbox. So a row or a mark that somebody else wrote in between
is lost, and `lost` observes of which table that happened. One step where the
code takes two is only `Process`: `processed` is written whatever was read, and
a mark it overwrites, of another document, is not followed.

The other processes are a visitor (`Visit`, `Revise`, `Resumed`, and the
executor, the ledger, the payments and the inbox included); another run of the
document, not followed further, which writes each of the three tables in two
calls of its own (`OtherReads`, `OtherWrites`) and records the digest
(`OtherRecords`); and an operator, whose failure toggle is a bounded number of
failing payments. `scenario`, chosen at the start, bounds what may happen in one
behaviour: modes, breakers, vendors, tool calls, visits, failing payments,
refused calls and writes of others. The visitor is
`resumeRun` in large steps with its own copy of the run record: its claims,
interleavings and faults are the subject of `ApprovalResume`. A draft may get
any route, unless it has no vendor or is a duplicate: why is the subject of
`RouteDecision`. A refused store call (`Refused`) is answered to the model, or
rejects the whole call where `finalize` or `runLivePipeline` made it.

The SDK's own tool runner may make the calls of one turn concurrently; the model
has the sequential driver, `rawDriver`.

### FirstPass

Several runs over one store. An actor is a run's first pass or the visitor who
approves it; `pc[a]` names the store call it makes next, and a call that reads a
JSON table and writes it back whole is two steps (`loaded[a]` is set between
them, `rows`, `items` and `count` hold what was read). A first pass goes from
`Submit` through the dedupe ledger (seeing, comparing, remembering), the
decision, the disposition, parking or the gate and executor, the scripted
approver, the profile and its end; `recovering`, `counting` and `reopening` are
its catch block. `Reset` enumerates `runs:recent` one run at a time, seeds, and
deletes what it enumerated. A `Scenario` fixes which run carries which document
and invoice, its mode, who is scripted or visited, and how often the store
fails, the toggle is armed and the demo is reset. The decision itself is any
route the policy leaves open: why is the subject of `RouteDecision`. A visitor
only approves: edits, rejections and competing visitors are `ApprovalResume`'s.

### Containment

A handler serves one request after another; `pc[h]` is its next store call.
`count` and the read before it are the sliding window's read and increment,
`session` and `stamp` the `INCRBY` and `EXPIRE` of the Redis driver, `giveback`
the second half of a refund, `book` the recording of a run's cost. The clock
ticks, windows slide, a session's counter expires, midnight changes the budget
key, and a reset deletes it. `admitted`, `charged` and `overcredit` observe who
was let through and who holds a slot; the program has no such variables.

### MatrixRun

An invocation of the script goes through its lanes (resumed from a checkpoint or
run in rounds of chunked batches), then the judge passes, the latency pass and
the report, and may be killed anywhere; the next invocation finds the ledger
file and the checkpoints as they were left, or torn. A batch ends with one row
per request; a stalled one is cancelled and submitted again, and may have served
rows nobody reads (`AbandonedEnds`). The augment script then sweeps what is
unrecorded and attributes entries to the published matrix. Money is `CostUsd` of
what a row used, half of it in a batch. `Worst` is what `assertHeadroom` sets
aside for a case, a padded mean of the estimate (`run.script.ts`,
`worstCasePerCase`): nothing keeps a case within it, and the model's turns cost
what they cost; `forgotten` observes that an unreadable ledger was reopened.

### Grading, EvalCase, EvalLane, Cassettes, EvalSuite

`Grading` has the graders as operators over records: a golden case, an outcome,
a check. Texts are compared by tables of their normal forms; a taxonomy code is
a family and a number. `EvalCase` joins it to `Policy`: an extraction, the facts
the match reads of it, the route the policy disposes, and the predecessors whose
runs fill a case's ledger.

`EvalLane` plays a lane case by case. The model is as free as in `LiveRun`: each
turn looks up, drafts (any of the instance's extractions and proposals), executes
an earlier or the current draft, makes a malformed call, stops, or fails, and the
iteration cap ends it. The session keeps the run record and the trace apart,
because the grade reads the trace for behaviour and the record for the
extraction. `GradeCases` grades, and grades again after `EditGolden`. Batching is
`MatrixRun`'s subject, so cases follow one another here: each has a store of its
own.

`Cassettes` is a working tree: the pipeline's version, the golden cases, the
recordings, the baseline. A recording lies under a file name and carries the id
of a case, and nothing compares the two: the recorder, its pruning and the drift
check go by the name, coverage and replay by the id, and of two files with one id
the replay takes the last (`Replaying`). A recording loads the golden cases once
and writes one file per step; it can be stopped, and the tree changes under it
(`ChangePipeline`, `ChangeGoldens`, and `MergeCassette`, which may put a cassette
under any name). `RunCI` is drift check and replay.

`EvalSuite` is both over one variable `goldens`, with one lane worked on at a
time: the code of the two lanes shares nothing else.

### GuidedTour

`stored` is what sessionStorage holds, `seen` what the overlay last rendered,
`page` and `shown` the page and its anchors, `going` the page a tour link is
loading while the old page still renders (`leaving` is the overlay's ref). The
visitor follows the card or the pill, or strays: typed addresses, the
application's own links, back, the approval page's forms, rejection. The nightly
reset takes the run away. A spent budget pauses the intake, which takes its form
off the page; a used-up rate or session, or a lane that is not wired, leaves the
form and refuses every submission (`refusing`), until `Reopen`.

## 3. What the runs check

| Run | Instance | Question | Result |
|---|---|---|---|
| `resume_faults` | 3 requests, 2 approvals, up to 2 refused calls or crashes | is there one actor, does the money follow the decision, does the run implement the protocol | holds |
| `resume_liveness` | 2 requests, 1 refused call, toggle set up to twice | does a decided run settle, is an unused claim given back | holds |
| `route_decision` | 2 vendors, totals around every threshold | is automatic execution earned, does the gate agree with the route | holds |
| `live_run` | 5 scenarios: 4 tool calls on 2 vendors; 3 calls, 2 visits; a failing payment, a refused call; other runs writing the tables, alone and with a visitor | does a run pay once, is money gated, is a planted GL code never used, does executed mean paid, is the reported outcome the settled one, does the run end | holds |
| `first_pass` | 2 runs in 7 scenarios | is a resubmission held, an invoice posted once, money consented to, a settled run frozen, a reset complete | holds |
| `containment` | 2 handlers, 1 session, 3 scenarios over a day | does the session cap hold, the budget up to the runs that overlap, does a counter expire | holds |
| `matrix_run` | 2 lanes, 2 cases, 4 scenarios | is the envelope kept, are checkpoints paid for, is the accounting true, does an invocation end | holds |
| `eval_suite` | 3 golden cases, 2 parser versions | is a pass earned, is a release safe, does a recording heal the tree, is a green replay fresh | holds |
| `guided_tour` | 3 stray moves, a reset, an intake that closes twice | is the handed-over place kept, does the tour end | holds |
| `live_draft` | 1 visit, 3 tool calls | is the draft that is executed the one that was approved | violated |
| `first_pass_race` | one document submitted twice at once | is an invoice paid once | violated |
| `containment_burst` | 2 handlers, one window | does a burst stay within the limit | violated |

**Safety of the resume.** `OneActor`: between the claim and the last write to
the run or the ERP, a request is alone. `OnlyCurrentApproved`: a decision taken
on a superseded approval never counts. `PaymentFollowsDecision`: a payment row
exists only once, after its ledger row, under an approved current approval, with
edits exactly when the approval has them. `SettledTruthfully`: executed, held
and error each say what happened. `ExecutedIsAudited`: an executed run left the
four events of its audit trail, once each and in order. `DecisionIsFinal`: no
step changes a decided approval. `ImplementsProtocol`: all of it together, as
step simulation.

**Liveness of the resume.** `DecidedSettles`: a decided approval leads to a
settled run or to a new pending approval, unless a store call failed; after such
a failure the code really leaves the run parked with a decided approval that
nobody can decide again. `ClaimIsReleased`: a claim on an approval that stays
pending is given back, also when a call was refused.
Fairness is weak fairness of each started request's calls and of the first
pass's. That is what the event loop gives: a handler whose store call has
settled is resumed. No fairness is assumed for `Receive` (nobody has to send a
request), for the toggle, or for faults. Under `crash` neither property can
hold, so this run has none.

**Decision.** `AutoExecutionIsEarned`: nothing executes without a person unless
it is autonomous mode, a known vendor's first clean submission, at or under the
cap, exactly the total of an open order of that vendor, and, for goods, not
more than was received. `PolicyIsFloor`: whatever the model proposes, an
exception is at least held. `RouteIsLeastAllowed`: the loop, one result at a
time, returns the least route at or above the proposal that every blocking
result allows, so the order of the results does not matter.
`GateAgreesWithRoute`: the gate reads the policy a second time with its own
comparisons and never disagrees with the route.

**Live lane.** `MoneyIsGated`: a ledger row of the run has an approver's yes or
a route that code itself gave it for autonomous execution, and shadow mode has
none. `PaidOnce`: however the model drafts and executes, one payment; the ledger
would not stop a second under another invoice number, so the executed flag must.
`GlIsNotPlanted`: a GL code taught in a run is not consumed by that run.
`OneOpenApproval`: a new approval is asked for only after a rejection.
`ExecutedWasPaid`: an executed run has the ledger row and the payment of one
draft and a processed document, but for what another writer's stale table took
away, and nothing is taken so unless a visitor or another run wrote the ERP at
all. That exception is the code's: a table is written back as it was read.
`ReportedIsSettled`: the outcome of `run.end` is the step of the run record,
also after a breaker, which closes the trace first and settles afterwards.
`NewIsUntouched`: a document given back as new left no ledger row of its run,
unless a stale copy dropped the row before the run looked for it.
`EveryRunEnds`: the trace is closed, unless a store call was refused or
`finalize`'s own execution threw, in which case `runWorkflow` rejects before
`run.end`. Its fairness is that a started call is carried on, and that the model
does not talk for ever, which the iteration cap and the wall clock guarantee; no
visitor and no tool call is ever owed.

`PaidOnce` and `ReportedIsSettled` are stated without visitors and refused
calls. A visitor's own executor takes no notice of the live lane's executed
flag, and a live lane that settles a run from its stale copy reports what it
wrote; `NewIsUntouched` is stated without visitors: after a breaker the code
really offers a parked run's document again while a visitor may still approve
it. A run whose model drafts again after its action was executed ends as its
last draft says, held or rejected, although the money has moved: no document
says otherwise, and no property here does.

**Several runs.** `LatecomerIsHeld`: a run that starts when its document is
known never moves money, whatever its mode, its approver and whatever overlaps
it. `InvoicePostedOnce`: writers of the ledger overwrite each other's rows but
never leave one invoice in it twice, because each looks in the table it writes.
`PaidHasConsent`: a payment has an approval that was given, or autonomy that was
earned. `SettledIsFrozen`: a terminal run changes only where its own first pass
failed (the catch block persists a stale copy); it says nothing of a run that
both the scripted approver and a visitor approve, see the notes below.
`ReopenedIsUntouched`: a document is given back as new only when its run has no
ledger row; `wiped` observes the runs whose row was lost to somebody else's stale
copy or to a reset, of which it says nothing.
`NothingOutlivesReset`: a reset finds every key of the runs it did not overlap.

**Containment.** `SpendIsBounded` says by how much the budget can be overrun
that is checked before a run and booked after it: by the other runs in flight,
not more. `SessionCapHolds`: slots held never pass the cap, but for slots given
back that nobody held, which `overcredit` counts (the code's comment accepts "a
small over-credit"). `HorizonIsStamped`: a session's counter expires, or is
about to be given its expiry, while no call fails.

**Matrix.** `OnlyOverrunPassesHard`: what the driver recorded passes the hard stop
by no more than what single turns cost above the estimate of their whole case
(`Overrun`), through crashes, resubmissions, resumed lanes and a torn ledger. The
hard stop itself is no bound: what `assertHeadroom` sets aside is a padded mean,
and the latency pass asks at full price. `CheckpointIsPaidFor`: a
lane's checkpoint and the ledger's entries of its batches agree, case by case.
`PublishedIsMeasured`: the accounting attributes to the matrix exactly what its
lanes' records cost, although failed attempts are in the ledger under the same
lane name. `InvocationEnds`: every invocation comes to an end; its fairness is
that a running script goes on and its clock does not stop. A batch may never end:
the deadlines end the wait.

**Evals.** `PassIsEarned`: a graded pass rests on what the run did: the standing
draft has the golden route, vendor and amount, the expected calls are on the
trace in order, nothing forbidden was called, a hold or rejection whose golden
case forbids execution paid nothing, and a run that drafted once paid exactly the
expected invoice, as far as the grader tells numbers apart, or nobody.
`ReleaseIsSafe`: when all gates pass, no more graded cases than the threshold
(none), failing ones included, got past their guardrail or executed what their
golden case forbids, and no more P0 cases of the baseline than the threshold
(none) regressed or vanished. `RecordingHeals`: when a recording ran to its end
and nothing changed since it began, no stale, strange or half-recorded file is
left to matter: both checks are satisfied, and the replay grades for every golden
case what this pipeline records with its predecessors. `GreenIsFresh`: after a
green CI the baseline is the grade of what this pipeline records, provided that
no cassette lies under a name other than its case's; without that proviso it is
false, see the notes below.

**Tour.** `HandoverIsKept`: the beat a tour link stored is the one the next page
starts from; the outgoing page's renders leave it alone. `TourFinishes`:
somebody who does what the card or the pill asks comes to the end, if the intake
in the end takes submissions again; while it refuses them, or shows no form, the
second beat cannot be passed. Its fairness is that measuring, loading and
following happen; straying is bounded and never owed.

### Bounds, and why they are enough

- *Approvals: 2.* `MAX_REVISIONS` is 1 in the code, so a run has at most two.
- *Requests: 3 and 2.* Three let one request win, one lose and one hold an old
  page across the revision. Two suffice where the question is about the payment
  or the trace, since a claim admits one.
- *Faults: 2, 1 and 0.* Two reach a failure inside the handling of a failure
  (the catch block, the second payment attempt).
- *Toggle: 2 uses.* Arming twice fails both attempts of one payment; arming and
  disarming covers the race with the toggle's read.
- *Totals.* At and one cent above the cap; equal to, within and outside an
  order's tolerance, both where the 25-dollar minimum rules and where the two
  percent do; on the hard floor. At most one header field is flawed per document.
- *Tool calls: 4 and 3.* Draft, execute, draft another invoice, execute again
  is the shortest way to a second payment. With a visitor, draft, execute and
  one more call reach the draft or the execution while parked.
- *Invoices.* Two vendors, or one: an invoice is a vendor and a number, and the
  ledger only compares them. Two vendors also tell their profiles apart.
- *Failing payments: 1.* The toggle fails one attempt of an execution; with a
  refused call in the same scenario both.
- *Visits: 2.* A rejection, and the decision on the revision.
- *Other runs: 2 writes.* One takes a row or a mark away, or two do from two
  tables; with a visitor, one.
- *Runs: 2.* The races are between two runs of a document, of an invoice, or
  over one table; a scenario per combination of modes, approver, visitor, fault
  and reset keeps them apart, since each pair of them is what can interact.
- *Containment.* Limits of 1 and 2, a cap of 1 and a budget of 2 put every
  counter at its limit with two or three requests; two handlers overlap; two
  hours to a day of two ticks each reach the weighting, the expiry and midnight.
- *Matrix.* Two cases in chunks of one make two batches a round; two rounds
  reach the iteration cap; the envelope of 160 against turns of 20 to 60 is
  reached by resubmissions and the judge, and passed by a turn above the
  estimate; two invocations reach a resumed lane.
- *Evals.* Three cases: one that pays, its duplicate (a predecessor and a
  guardrail), one screened out. Four turns on the first reach a draft after an
  execution and the model's stop; two on the duplicate reach a pass. Two changes
  to the tree make a mixed one, or put a stray copy over a stale case.
- *Tour.* Three stray moves leave a beat, its page and its run.
- *Symmetry* is over `Requests` and `Handlers`, in runs without liveness
  properties only.

Deadlock is not checked: a finite set of requests, and a run that has returned,
are systems that stop.

Each property of a passing run has a mutant in `PROJECT.json`: one definition
replaced by the form a plausible mistake would give it (introduced by "Slip:" in
the modules), under which TLC finds the property violated.

### What the violations show

1. **`ResumeExecutesApproved`** (`live-agent.ts`, `draft_action`). The comment
   says that run state must carry the same draft the gate carries. A model that
   drafts again while the run is parked has the new draft patched into the run
   record, but the gate keeps the approval that is pending, which names the
   first draft and its route. Approving it executes the second draft, even when
   that one was routed to be held or rejected.
2. **`InvoicePaidOnce`** (`mock-agent.ts`, the dedupe check). The tour says "the
   same invoice cannot be paid twice". Two runs of one document that both read
   the dedupe ledger before either records itself both execute: the ledger keeps
   one row, the payment table has no key and keeps two.
3. **`BurstNeverOvershoots`** (`containment.ts`, `checkIpLimit`). The comment says
   that the slot is claimed before the check, so that bursts no longer overshoot.
   It is claimed before the check, but what is checked is the count read before
   the claim: two requests that read one count are both let through. How far this
   goes is the theorem `ContainmentProofs!Burst`: `BurstIsBounded`, one request
   for each other handler that read the same count.

### Known behaviours that no property claims

Reading the code against its comments shows more windows, which the properties
above are stated around:

- A writer of a trace reads the last seq once and then counts in memory; a
  visitor who decides before the first pass has appended its last two events
  makes two writers stamp the same numbers, and the first pass's late `run.end`
  puts `awaiting_approval` over the outcome in the summary hash.
- The claim's increment stands before the `try` in `resume.ts`: applied but
  failed, it is given back by nobody until its key expires. The executor's retry
  pays again when a payment write was applied and then failed.
- `patch` writes back the live lane's copy of the whole record, so a re-draft
  stored after a visitor's rejection resets the revision count.
- `INCRBY` and `EXPIRE` are two commands: if
  the second fails the counter never expires.
- The latency pass writes under keys without a batch id (`latency:{model}:...`):
  a second invocation's calls are billed and not recorded.
- A golden case may pass although the run paid an earlier draft before it drafted
  again: the grade looks at the last draft, and `PassIsEarned` promises the exact
  payment only for runs that drafted once. `guardrails_fired` collects the blocks
  of all drafts.
- An invoice number is graded up to case and blanks (`normalizeToken`) but posted
  as it was extracted, so a case that passes may have posted `inv-1` for `INV-1`:
  `PassIsEarned` compares what was paid in the grader's normal form, and is false
  without it. The extraction `LowerCase` of `MCEvalSuite` is such a number.
- A P0 case that loses its tag is no regression to the gate. Without
  `evals/baseline/latest.json` two of the four gates pass vacuously.
- The scripted approver decides through `decideApproval` and takes no claim, so a
  visitor who loaded the parked run before its decision may go on beside it:
  each settles the run from the copy in its hands (`mock-agent.ts:520-536`), and
  the second write may change a record that was settled.
- A ledger row that somebody's stale copy or the reset removed can come back with
  another stale copy, after a failed run's catch block counted no row and gave
  the document back as new.
- With a spent budget the tour's second beat asks for a form that is not there;
  with a used-up rate or session it asks for one that is refused every time. The
  visitor goes round in circles until the intake reopens.
- The drift check reads cassettes by file name, the replay by the `case_id` inside,
  the last file winning. A stray copy of a cassette whose case exists is graded in
  place of the case's own, and both checks stay green; the next recording prunes it.
- A visitor, or another run, that writes the ledger, the payments or the inbox
  back while the live lane is between its read and its write loses a row or a
  mark, and so does the live lane to them: an executed run may then have no row.
- The cost the matrix driver sets aside for a case is a mean of measured runs with
  a margin of 1.3, discounted for the batch; a case may cost more, and the latency
  pass, at full price under a breaker of one dollar, may cost far more.

## 4. What is proved

TLAPS proves the theorems below for every value of the constants: any number of
requests, approvals and revisions (`ApprovalResume`), any documents, orders,
records and thresholds (`RouteDecision`), any handlers, sessions, windows,
limits and budgets (`Containment`), any runs, documents and visitors
(`FirstPass`), any vendors, numbers, tool calls, visits, failing payments and
writes of other runs (`LiveRun`), any lanes, cases, prices, envelopes and driver
options (`MatrixRun`), any golden cases, documents, extractions, parsers and
baselines (`EvalSuite`), and in all of them any bound on faults. The assumptions
are those of the modules: `LiveAssumption`; `ResumeAssumption`,
`OfferedAssumption` and `MaxRevisionsAssumption`; `PolicyAssumption`, of which
only cap < floor and the shapes of the records are used; `ContainmentAssumption`
(finitely many handlers, at least one; windows and budget not zero);
`FirstPassAssumption`; `MatrixAssumption` (finitely many cases, a finite
sequence of lanes whose names are none of the ledger's other labels);
`GradingAssumption`, `CaseAssumption`, `LaneAssumption` and `CassetteAssumption`
(golden cases as `validateGoldenCase` lets them in, in a finite sequence by file
name; extractions with all fields and their amount in whole cents; thresholds
that are natural numbers; baselines of finitely many cases; `HARD_FLOOR_CENTS`
an integer). `MoneyHolds`, `PaymentFollows` and `ImplementsTheProtocol` also
assume `Reliable`: no reply of an applied call is lost. The code makes a payment
call again whose reply it did not see, so without it they are false. The other
theorems about the resume hold under every kind of store fault of the model.

| Theorem | States |
|---|---|
| `ApprovalResumeProofs!TypeCorrect` | `Spec => []TypeOK` |
| `ApprovalResumeProofs!ExclusionHolds` | `Spec => []Exclusion`, the inductive invariant |
| `ApprovalResumeProofs!SingleActor` | `Spec => []OneActor` |
| `ApprovalResumeProofs!ApprovedIsCurrent` | `Spec => []OnlyCurrentApproved` |
| `ApprovalResumeProofs!DecisionsAreFinal` | `Spec => DecisionIsFinal` |
| `ApprovalOutcomeProofs!MoneyHolds` | `Spec => []IInv`, `Exclusion` and `MoneyInv` |
| `ApprovalOutcomeProofs!PaymentFollows` | `Spec => []PaymentFollowsDecision` |
| `ApprovalOutcomeProofs!ImplementsTheProtocol` | `Spec => ImplementsProtocol` |
| `ApprovalOutcomeProofs!SettlesTruthfully` | `Spec => []SettledTruthfully` |
| `ApprovalOutcomeProofs!ExecutionsAreAudited` | `Spec => []ExecutedIsAudited` |
| `LiveRunProofs!TypeCorrect` | `Spec => []TypeOK` |
| `LiveRunProofs!MoneyNeedsConsent` | `Spec => []MoneyIsGated` |
| `LiveRunProofs!AsksAgainOnlyAfterNo` | `Spec => []OneOpenApproval` |
| `LiveRunProofs!PaysOnce` | `Spec => []PaidOnce` |
| `LiveRunProofs!GlIsNeverPlanted` | `Spec => []GlIsNotPlanted` |
| `LiveRunProofs!ExecutedIsPaid` | `Spec => []ExecutedWasPaid` |
| `LiveRunProofs!GivenBackUntouched` | `Spec => []NewIsUntouched` |
| `LiveRunProofs!ReportsWhatIsStored` | `Spec => []ReportedIsSettled` |
| `RouteDecisionProofs!TypeCorrect` | `Spec => []TypeOK` |
| `RouteDecisionProofs!PolicyHolds` | `Spec => []PolicyIsFloor` |
| `RouteDecisionProofs!GateAgrees` | `Spec => []GateAgreesWithRoute` |
| `RouteDecisionProofs!RouteOnlyRises` | `Spec => NeverSofter` |
| `RouteDecisionProofs!LeastRoute` | `Spec => []RouteIsLeastAllowed` |
| `RouteDecisionProofs!AutoExecutionEarned` | `Spec => []AutoExecutionIsEarned` |
| `ContainmentProofs!TypeCorrect` | `Spec => []TypeOK` |
| `ContainmentProofs!SessionCap` | `Spec => []SessionCapHolds` |
| `ContainmentProofs!Horizon` | `Spec => []HorizonIsStamped` |
| `ContainmentProofs!BudgetHolds` | `Spec => []SpendIsBounded` |
| `ContainmentProofs!Burst` | `Spec => []BurstIsBounded`, the overshoot that is left |
| `FirstPassProofs!TypeCorrect` | `Spec => []TypeOK` |
| `FirstPassProofs!PostedOnce` | `Spec => []InvoicePostedOnce` |
| `FirstPassProofs!LatecomersAreHeld` | `Spec => []LatecomerIsHeld` |
| `FirstPassProofs!PaymentsHaveConsent` | `Spec => []PaidHasConsent` |
| `FirstPassProofs!SettledStays` | `Spec => SettledIsFrozen` |
| `FirstPassProofs!ReopenedStaysUntouched` | `Spec => []ReopenedIsUntouched` |
| `FirstPassProofs!ResetIsComplete` | `Spec => []NothingOutlivesReset` |
| `EvalSuiteProofs!PassesAreEarned` | `Spec => []PassIsEarned` |
| `EvalSuiteProofs!ReleasesAreSafe` | `Spec => []ReleaseIsSafe` |
| `EvalSuiteProofs!RecordingsHeal` | `Spec => []RecordingHeals` |
| `MatrixRunProofs!TypeCorrect` | `Spec => []TypeOK` |
| `MatrixRunProofs!HardStopUpToOverrun` | `Spec => []OnlyOverrunPassesHard` |
| `MatrixRunProofs!CheckpointsArePaidFor` | `Spec => []CheckpointIsPaidFor` |
| `MatrixRunProofs!PublishedStaysMeasured` | `Spec => []PublishedIsMeasured` |

**Why the resume excludes.** `OneActor` is not inductive: that two requests do
not act together depends on what they saw before they claimed. `Exclusion` says
what keeps them apart. *Claims*: a decided approval stays claimed, whoever acts
holds the claim of its target, and a claim is given back only while the approval
is pending. *Pointer*: a pending approval is the run's current one, except while
the run stands at `decided` and nobody can load it; and a request on its way to
the claim, if its target is still pending, has a fresh copy of the run record.
*Owner*: the acting request's copy equals the stored record, and its place in
the code fixes what its approval and the run's step are. So a second request
would have to claim the current approval, which is taken, or a new one, which no
request can reach before the first has written the run record for the last time.
The proof has a lemma for each kind of step: those that change none of the
variables `Exclusion` speaks of, faults, claim, decision, transitions, the two
writes of `createApproval`, release. It holds under all fault kinds, lost replies
included: `DecisionIsFinal` then follows although the decision is a read and a
write, because only the holder writes.

**Why the money follows.** `MoneyInv` adds to `Exclusion` that money moved only
if the current approval is approved, and that where the acting request stands is
how far the money has moved: no rows before the ledger write, a ledger row and
no payment between the writes (both attempts included), one payment after. What
the request read of the two tables is then what it will find when it writes them
back. The refinement uses both: each write of the run record, of the pointer, of
the current approval's status, of the ledger and of the payments is one action of
`ApprovalProtocol`, every other call a stutter.

**Why the settled step and the trail are true.** `OutcomeInv` and `AuditInv` stand
on `Exclusion` alone, not on `MoneyInv`, so they need no `Reliable`: a lost reply
can make the executor pay twice, but no effect is ever undone and none of the
four audited events is appended again. Both invariants have two halves. *Before
the decision*: an approval that is not decided has no event of its decision, and
unless the current approval is approved there is no ledger row, no payment, no
profile write and no event of one; so the request that decides starts from
nothing. *After it*: the place of the acting request tells which effects there are
(`EffectsFollowActor`) and how many steps of the trail have been traced, once
each and in order (`Audited`, `TrailFollowsActor`). A run becomes executed at the
one place where both are complete, and held only where the revisions are used
up, which is exactly `MAX_REVISIONS` because the run record never exceeds it. A
settled run stays true because every request that could still write owns a run
that is not settled. The lemmas about `Marks` and `Audited` say what one appended
event does to a trail; the events other processes interleave (the first pass of a
run that was decided quickly) are no step of it.

**Why the live run is safe, whatever the model calls.** No property of
`LiveRun` is inductive, and no order of drafts and executions can be assumed, so
the invariants of `LiveRunProofs` say what each place of the code may rely on.
They are layers, each proved from those before it; `IInv` joins them. *Places,
records, drafts* (`Placed` to `Plain`): types, and that a run record which has
come as far as a decision carries a draft that was saved. *Consent*: `Asking`
says that only the last approval can be pending, so the two who decide, the
scripted approver without a claim and the visitor, can only decide that one, and
a yes stays; `Gated` that whoever is about to post may do so, and whatever was
posted might, which later drafts do not change, in the table as in every copy of
it that may yet be written back (`HeldRows`). *Payment*: `Once` says that an
undisturbed run enters the gate only before it has executed, and that no copy of
the payments has more of them than `FewPaid` allows. `Executed` says that
everybody who says executed (the gate, the disposal, either copy of the run
record, a visitor about to settle) has the row, the payment and the processed
document, or their table has lost something; `ErpStep` is the one fact it needs
of the others: what was written stays, or is recorded in `lost`. `Alone` is the
other half of `ExecutedWasPaid`: the only writer has read what it overwrites, so
nothing is lost. `GivenBack` says that no copy of the ledger has a row of the run
that the ledger has not, so a row that is not lost is found. *GL code*: `ReadFirst`
says that a vendor who can be taught has been read, since only the vendor of the
current draft can be taught and the draft read its profile. *The report*:
`InStep` says that the copy in memory equals the store as long as nobody
disturbs the run, where each place leaves the step of the run record
(`Standing`), that the gate's answer that the run waits remains true
(`Waiting`), and what the run will report (`Reporting`). `Undisturbed` is
needed: a visitor, or a refused write, leaves the two copies of the record
different, and a run that was disturbed may report what the store does not say.

**Why the decision is right.** The route is the result of a loop, so its
properties need an invariant over the iterations. `Inductive` joins: nothing is
decided before its stage; the route is at or above the proposal and every
blocking result already passed (`RouteIsSupported`), and is itself one of these
demands; the stage agrees with the route; and the gate's outcome is the value of
`canAutoApprove`. The two readings of the policy meet because a route that
stayed `auto_approve` passed every guardrail, came from a clean match at or
under the cap, and the cap is below the floor.

**Why the limits hold.** A limit is compared with what was read some steps
before, so each invariant counts the handlers that have read and not yet acted.
`BurstInv`: the requests let through in a bucket and the `Candidates` that have
read a passing count make at most the limit and one per other handler, because a
new candidate needs a count below the limit, and the count never lags behind those
let through. `SpendInv`: the day's spend and a live run's cost for everybody
`Spending` stay under the bound, because whoever starts to spend saw a budget that
was not used up. `CapInv`: a session's counter, its overcredit added, covers the
slots held; a refund lowers both. `HorizonInv`: a key that does not exist counts
nothing, and the write that creates it is followed by its stamp unless a call
failed.

**Why a latecomer is held, and an invoice posted once.** `LateInv` follows a run
that started with its document recorded: its own first pass is at one of
`HeldLabels`, has read or will read the earlier run in the dedupe ledger, and
then takes no route that executes; and it is `Clean`, that is, no table has a
row of it, nobody is about to write back a table with one, and it has no approval
that a visitor could use. Other actors keep it clean because they write rows of
their own run only, and a reset because it only removes. `OnceInv`: a ledger that
is about to be written back was read without two rows of one invoice, and the
writer saw none of its own; two writers may lose each other's rows, but neither
doubles one.

**What else holds of overlapping runs.** The other four proofs about `FirstPass`
share one lemma, `Moves`: the relation `Moved` lists where a call may leave its
actor, so that "an early run was never past the gate" is a fact about a graph.
`ConsentInv`: a run whose route is not known yet is `Clean`, and a listed run
with money, its own, in a table or in a copy about to be written back, was
approved or had earned its autonomy, neither of which is taken back while it is
listed. `FrozenInv`: while no visitor has loaded the run the store holds its first
pass's copy (`Own`); once one has, the first pass is past its parking and the
store holds the visitor's copy, unless the catch block wrote an error (`Parked`,
`Visited`); so whoever writes a run was the last to write it. `ReopenInv`: a copy
of the ledger with a row of the run is a copy of a ledger that had it, so a row is
found unless it was wiped. `ResetInv`: a run under way is `Listed`, or straddles
a reset; a reset stands still (`Calm`) only over the runs it found, and since
every claim and every visitor belongs to a run with an approval (`Backed`), the
approvals it finds are all (`Pointed`) and what it deleted stays deleted (`Gone`).
Two of the properties were too strong when the proofs began, and TLC confirmed
both counterexamples on a larger instance: the scripted approver beside a visitor
writes a settled record again, and a lost row returns. They now say which runs
they are about, and `first_pass` has a scenario of the first kind.

**Why the matrix keeps its envelope, and its books.** The properties compare
sums over the ledger, so `MatrixRunProofs` first proves what such a sum is worth
when an entry is added and when a set is split into disjoint parts, by induction
over the subsets of a finite set (`SubsetInduction`, from the well-foundedness
of the strict subset relation). The envelope is checked once per round, and a
chunk that stalls is submitted again without asking. `SpendInv` says why this is
enough: `Reserved`, from the top of the round on, the ledger and what is set
aside for every request not read yet make at most the hard stop and the overrun
so far; a resubmission replaces the requests of the batch given up, whose rows
nobody reads, and each row read adds to the ledger at most what was set aside
for it and what it adds to `Overrun` (`ExcessCovers`, `WithinAfter`). The books:
`PaidInv` ties batches, counters and entries. *The lane* (`LaneControl`):
nothing is counted for a lane that is not under way, and the lane under way has
no checkpoint. *The batches* (`BatchInv`): a batch is new when it is polled,
joins `used` once, when its results come, and stays with one lane and one
attempt, since a checkpoint takes `used` over when the lane forgets it. *The
ledger* (`LedgerInv`): no key of an unread row is in it, so `Added` adds; the
lane's counters are what the entries of `used` say (`Accounted`), every served
row of `used` is an entry or still to be read (`AllRead`), and, outside of
`save`, what is counted is in the file (`Filed`). So a checkpoint is paid for
when it is written. It stays so (`CheckpointInv`), in the file and in the ledger
of whoever reopens it, because later entries have keys of other batches, and a
sweep only adds rows that are not there: `Settled` says there are none of a
checkpoint's batches. `forgotten` is needed, as an unreadable file loses
entries. Published entries are then the disjoint union, over the published lanes
and cases, of what `Accounts` counts (`PublishedIsMeasured`).

**Why a pass is earned, and a release safe.** Two loops decide: `constrainRoute`
over the guardrails and `isOrderedSubsequence` over the calls. `Iterated` shows
that a loop whose steps stay in a set has the function that the model defines, by
induction on its length; then `DisposedToAuto`: a route that ended as
`auto_approve` was never raised, so the gate's own reading agrees and the invoice
is in no ledger yet; and `OrderedIsEmbedded`: a pass that met all expected calls
met each later than those before it. The checks of the first layer are a
concatenation; `Layer1` lists them as a set, and `FailedCheckCounts` says that
without a catalog only a currency is credited, so a pass means that every other
check passed (`PassSays`) and a missed guardrail is among the codes whatever
outranks it (`MissIsCoded`). On the side of the run, `SessionInv` ties the two
records that are graded apart: once there is a draft the trace, the run record and
the standing draft agree (`Drafted`); after one draft the ledger is the seeded one
and the rows of the gate, which never waits for a route that pays itself
(`DraftedOnce`); what was paid was paid by a call on the trace or by the last gate
(`PaidOpenly`). `LiveInv` adds what regrading needs: a graded lane is closed, so
its sessions stand still, and the report is their grade under goldens that differ
from today's in tags and in the cases that are left (`Edited`). The bounds of
`ReleaseIsSafe` are then inclusions between finite sets. `HealInv` follows a
recording: while nothing has changed since it began (`Intact`) it still knows the
tree's version and cases, and every case it has left behind is `Fresh`; its end
removes every other name, so that each id has one file, its own.

**What is only model-checked.** Liveness, under the fairness of the
specifications (`DecidedSettles`, `ClaimIsReleased`, `EveryRunEnds`,
`InvocationEnds`, `TourFinishes`): temporal reasoning with fairness is beyond the
backends. `GuidedTour`, a small system with no constants but three bounds, which TLC
covers completely; `GreenIsFresh`, for the names and cases of its instance. Of the
evals, what single graders return beyond the properties above is
checked by evaluation.

## 5. What is not modelled

- *Time.* The expiry of run, approval and claim keys, all 24 hours; `Containment`
  has the expiry of its own counters. Latencies are no property.
- *Faults of the live lane.* `LiveRun` has refused calls, not lost replies and
  crashes, and its visitor's requests are large steps: `ApprovalResume` has the
  small ones. The SDK's runner, the default driver, may run the tool calls of one
  turn side by side; the model takes them one after the other, as the raw driver
  makes them.
- *Other rows.* The ERP tables have the rows of the runs of the model only.
- *Shadow mode's execution*, which writes nothing but trace events.
- *Text and data.* Invoices, parsing, extraction, retrieval over the knowledge
  base, redaction, prompts, prices, ids, the generated evaluation data and the
  seed data. Where a decision depends on one of them its result is an input.
- *The judge's scores*, the calibration and latency statistics, and the layout of
  the published rows; `MatrixRun` has their batches, their money and which entries
  may be published.
- *Spend estimates*: arithmetic over a price table.
- *Pages*, but for the forms and links the tour follows; the placement of the
  tour's card.

## 6. What is left

1. `LiveRun`: an abstract specification that says the step a run settles at
   agrees with the money it moved.
2. `ApprovalResume` with lost replies: that an execution, which makes the payment
   call at most twice, pays at most twice.
