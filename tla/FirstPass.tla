----------------------------- MODULE FirstPass -----------------------------
(***************************************************************************)
(* Several runs over one store: the first pass of the mock lane            *)
(* (packages/pipeline/src/mock-agent.ts) from the inbox item to the end of *)
(* the run, the visitors who approve parked runs, and the nightly reset.   *)
(*                                                                         *)
(* The ERP tables are JSON documents that every writer reads, changes and  *)
(* writes back whole; the dedupe ledger and the vendor profile are read    *)
(* and then written.  loaded[a] says that actor a has made the read of the *)
(* call at pc[a] and owes the write.  A run's first pass may overlap with  *)
(* another run of the same document, with a visitor who acts the moment    *)
(* the run is parked, and with a reset.                                    *)
(*                                                                         *)
(* Visitors only approve (edits and rejections are ApprovalResume's) and   *)
(* trace events are left out.  A definition introduced by "Slip:" is what  *)
(* the one after it would be with a plausible mistake in it.               *)
(***************************************************************************)
EXTENDS RunLifecycle, FiniteSets

CONSTANTS Runs, Documents, Invoices, Nobody,
          Scenarios     \* who submits what, see Scenario below

Modes == {"shadow", "assisted", "autonomous"}

\* The document, mode and approver of each run, the invoice each document is
\* and the runs a visitor will try to approve; then the bounds: the runs that
\* are submitted at all, how often the demo is reset and the toggle armed, and
\* how many store calls fail.
Scenario == [doc : [Runs -> Documents], invoice : [Documents -> Invoices],
             submitted : SUBSET Runs, mode : [Runs -> Modes],
             scripted : SUBSET Runs, visited : SUBSET Runs, resets : Nat,
             arms : Nat, faults : Nat]

ASSUME FirstPassAssumption ==
  /\ Nobody \notin Runs
  /\ Scenarios \subseteq Scenario

Firsts   == Runs \X {"first"}
Visitors == Runs \X {"visitor"}
Actors   == Firsts \cup Visitors
RunOf(a) == a[1]

VARIABLES
  \* the store
  runstate,      \* runstate:{run}
  approval,      \* the approval by-run:{run} names: its status or "absent"
  claims,        \* approval:claim:{id}
  recent,        \* runs:recent
  seen,          \* seen:{digest}: the run that first processed the document
  profileRuns,   \* runs_count of the vendor's profile
  \* the ERP tables; a row is named after the actor that wrote it
  ledger, payments, dispositions,
  inbox,         \* state of each document's inbox item
  toggle,        \* the failure toggle
  \* per actor
  pc,            \* the call it makes next
  loaded,        \* whether it has made the read of that call
  rows,          \* the table it read
  items,         \* the inbox it read
  count,         \* the runs_count it read
  known,         \* the dedupe entry it read
  machine,       \* its RunStateMachine's record
  attempt,       \* which schedulePayment call
  \* per run, in the memory of its first pass
  prior,         \* a prior submission was found
  route,         \* the constrained route
  goal,          \* the inbox state its catch block decided on
  \* the reset
  resetAt, doomed, doomedApprovals,
  \* observed, not part of the program
  late,          \* runs that started when their document was known
  straddled,     \* runs with an actor under way during a reset
  wiped,         \* runs whose ledger row was lost to a stale copy or a reset
  \* bounds and scenario
  faults, arms, resets, scenario

seenVars  == <<late, straddled, wiped>>
storeVars == <<runstate, approval, claims, recent, seen, profileRuns>>
erpVars   == <<ledger, payments, dispositions, inbox, toggle>>
copyVars  == <<loaded, rows, items, count, known>>
runVars   == <<prior, route, goal>>
resetVars == <<resetAt, doomed, doomedApprovals, resets>>
boundVars == <<faults, arms, scenario>>
vars == <<storeVars, erpVars, pc, copyVars, machine, attempt, runVars,
          resetVars, seenVars, boundVars>>

Absent == [step |-> "absent", revision |-> 0]

Doc(u)      == scenario.doc[u]
Invoice(u)  == scenario.invoice[Doc(u)]
Mode(u)     == scenario.mode[u]
IsFirst(a)  == a[2] = "first"
NewInbox    == [d \in Documents |-> "new"]

At(a, l) == pc[a] = l
Goto(a, l) == pc' = [pc EXCEPT ![a] = l]

\* Calls that read something whole and then write it back whole.
TableCalls   == {"drafting", "posting", "paying"}
InboxCalls   == {"marking", "rejecting", "shelving", "processing",
                 "reopening"}
ReadThenWrite == TableCalls \cup InboxCalls
                   \cup {"remembering", "profiling", "deciding"}

-----------------------------------------------------------------------------
(* Where control goes when the call at pc[a] throws.                       *)

InPayment == {"toggling", "firing", "paying"}
Executor  == {"gating", "posting", "processing"} \cup InPayment
InCatch   == {"recovering", "counting", "reopening"}
Body      == {"screening", "seeing", "comparing", "remembering",
              "matching", "refusing", "drafting", "recording", "rejecting",
              "holding", "shelving", "parking", "announcing", "deciding",
              "profiling", "settling"} \cup Executor
VisitorCalls == {"claiming", "deciding", "profiling", "settling", "failing",
                 "rechecking", "releasing"} \cup Executor
Stopped == {"idle", "waiting", "done", "refused", "failed", "crashed"}

Caught(a) ==
  IF IsFirst(a)
  THEN IF pc[a] \in Body THEN "recovering" ELSE "failed"
  ELSE CASE pc[a] = "claiming" -> "refused"
         [] pc[a] \in Executor -> "failing"
         [] pc[a] \in {"deciding", "profiling", "settling", "failing"} ->
              "rechecking"
         [] OTHER -> "failed"

\* The executor makes the payment call twice before it lets go.
Throws(a) ==
  /\ IF pc[a] \in InPayment /\ attempt[a] = 1
     THEN /\ Goto(a, "toggling")
          /\ attempt' = [attempt EXCEPT ![a] = 2]
     ELSE Goto(a, Caught(a)) /\ UNCHANGED attempt
  /\ loaded' = [loaded EXCEPT ![a] = FALSE]
  /\ UNCHANGED <<rows, items, count, known>>

\* transition(): checked against the actor's own copy, then stored.
Persist(a, to, next) ==
  IF CanTransition(machine[a], to)
  THEN /\ machine' = [machine EXCEPT ![a] = Transition(@, to)]
       /\ runstate' = [runstate EXCEPT ![RunOf(a)] = machine'[a]]
       /\ Goto(a, next)
       /\ UNCHANGED <<attempt, copyVars>>
  ELSE Throws(a) /\ UNCHANGED <<machine, runstate>>

-----------------------------------------------------------------------------
Init ==
  /\ scenario \in Scenarios
  /\ runstate = [u \in Runs |-> Absent]
  /\ approval = [u \in Runs |-> "absent"]
  /\ claims = [u \in Runs |-> 0]
  /\ recent = {}
  /\ seen = [d \in Documents |-> Nobody]
  /\ profileRuns = 0
  /\ ledger = {} /\ payments = {} /\ dispositions = {}
  /\ inbox = NewInbox
  /\ toggle = "off"
  /\ pc = [a \in Actors |-> IF IsFirst(a) THEN "idle" ELSE "waiting"]
  /\ loaded = [a \in Actors |-> FALSE]
  /\ rows = [a \in Actors |-> {}]
  /\ items = [a \in Actors |-> NewInbox]
  /\ count = [a \in Actors |-> 0]
  /\ known = [a \in Actors |-> Nobody]
  /\ machine = [a \in Actors |-> Absent]
  /\ attempt = [a \in Actors |-> 1]
  /\ prior = [u \in Runs |-> FALSE]
  /\ route = [u \in Runs |-> "none"]
  /\ goal = [u \in Runs |-> "new"]
  /\ resetAt = "off" /\ doomed = {} /\ doomedApprovals = {}
  /\ late = {} /\ straddled = {} /\ wiped = {}
  /\ faults = 0 /\ arms = 0 /\ resets = 0

-----------------------------------------------------------------------------
(* The read half of a read-then-write call.                                *)

TableAt(l) == CASE l = "drafting" -> dispositions
                [] l = "posting"  -> ledger
                [] l = "paying"   -> payments

Read(a) ==
  /\ pc[a] \in ReadThenWrite
  /\ ~loaded[a]
  /\ IF At(a, "deciding") /\ approval[RunOf(a)] # "pending"
     THEN Throws(a)            \* unknown, or already decided
     ELSE /\ loaded' = [loaded EXCEPT ![a] = TRUE]
          /\ rows' = IF pc[a] \in TableCalls
                     THEN [rows EXCEPT ![a] = TableAt(pc[a])] ELSE rows
          /\ items' = IF pc[a] \in InboxCalls
                      THEN [items EXCEPT ![a] = inbox] ELSE items
          /\ count' = IF At(a, "profiling")
                      THEN [count EXCEPT ![a] = profileRuns] ELSE count
          /\ known' = IF At(a, "remembering")
                      THEN [known EXCEPT ![a] = seen[Doc(RunOf(a))]]
                      ELSE known
          /\ UNCHANGED <<pc, attempt>>
  /\ UNCHANGED <<storeVars, erpVars, machine, runVars, resetVars, seenVars,
                 boundVars>>

\* The copies are dropped once the write half is made.
Wrote(a) ==
  /\ loaded[a]
  /\ loaded' = [loaded EXCEPT ![a] = FALSE]
  /\ rows' = [rows EXCEPT ![a] = {}]
  /\ items' = [items EXCEPT ![a] = NewInbox]
  /\ count' = [count EXCEPT ![a] = 0]
  /\ known' = [known EXCEPT ![a] = Nobody]
  /\ UNCHANGED attempt

\* setInboxState: "processed" is sticky in the table the call read.
InboxWith(a, state) ==
  [items[a] EXCEPT ![Doc(RunOf(a))] = IF @ = "processed" THEN @ ELSE state]

SetInbox(a, state, next) ==
  /\ Wrote(a)
  /\ inbox' = IF items[a][Doc(RunOf(a))] = "processed" /\ state # "processed"
              THEN inbox ELSE InboxWith(a, state)
  /\ Goto(a, next)
  /\ UNCHANGED <<storeVars, ledger, payments, dispositions, toggle, machine,
                 runVars, resetVars, seenVars, boundVars>>

-----------------------------------------------------------------------------
(* The first pass, up to the route.                                        *)

Overlap(u) ==
  straddled' = IF resetAt = "off" THEN straddled ELSE straddled \cup {u}

\* runMockPipeline reads the item and its fixture and creates the run.
Begin(a) ==
  LET u == RunOf(a) IN
  /\ At(a, "idle") /\ u \in scenario.submitted
  /\ machine' = [machine EXCEPT ![a] = [step |-> "ingested", revision |-> 0]]
  /\ runstate' = [runstate EXCEPT ![u] = machine'[a]]
  /\ late' = IF seen[Doc(u)] # Nobody THEN late \cup {u} ELSE late
  /\ Overlap(u)
  /\ Goto(a, "marking")
  /\ UNCHANGED <<approval, claims, recent, seen, profileRuns, erpVars,
                 copyVars, attempt, runVars, resetVars, wiped, boundVars>>

Mark(a) == At(a, "marking") /\ SetInbox(a, "processing", "starting")

\* run.start puts the run on the list of recent runs.
Start(a) ==
  /\ At(a, "starting")
  /\ recent' = recent \cup {RunOf(a)}
  /\ Goto(a, "screening")
  /\ UNCHANGED <<runstate, approval, claims, seen, profileRuns, erpVars,
                 copyVars, machine, attempt, runVars, resetVars, seenVars,
                 boundVars>>

\* GR-SCOPE passes, and the document is extracted, or blocks.
Screen(a) ==
  /\ At(a, "screening")
  /\ \/ /\ Persist(a, "extracted", "seeing")
        /\ UNCHANGED route
     \/ /\ route' = [route EXCEPT ![RunOf(a)] = "reject"]
        /\ Goto(a, "drafting")
        /\ UNCHANGED <<runstate, machine, attempt, copyVars>>
  /\ UNCHANGED <<approval, claims, recent, seen, profileRuns, erpVars, prior,
                 goal, resetVars, seenVars, boundVars>>

\* DedupeLedger.check.
See(a) ==
  LET u == RunOf(a) IN
  /\ At(a, "seeing")
  /\ prior' = [prior EXCEPT ![u] = seen[Doc(u)] # Nobody]
  /\ Goto(a, "comparing")
  /\ UNCHANGED <<storeVars, erpVars, copyVars, machine, attempt, route, goal,
                 resetVars, seenVars, boundVars>>

InvoiceIn(table, u) == \E row \in table : Invoice(RunOf(row)) = Invoice(u)

\* invoiceExists: the invoice may have come in as another document.
Compare(a) ==
  LET u == RunOf(a) IN
  /\ At(a, "comparing")
  /\ prior' = [prior EXCEPT ![u] = @ \/ InvoiceIn(ledger, u)]
  /\ Goto(a, "remembering")
  /\ UNCHANGED <<storeVars, erpVars, copyVars, machine, attempt, route, goal,
                 resetVars, seenVars, boundVars>>

\* DedupeLedger.record: the entry it read, or else this run.  Two writers
\* that both read none leave the later one's entry.
Remember(a) ==
  /\ At(a, "remembering")
  /\ Wrote(a)
  /\ seen' = [seen EXCEPT ![Doc(RunOf(a))] = IF known[a] = Nobody
                                             THEN RunOf(a) ELSE known[a]]
  /\ Goto(a, "matching")
  /\ UNCHANGED <<runstate, approval, claims, recent, profileRuns, erpVars,
                 machine, runVars, resetVars, seenVars, boundVars>>

\* Slip: a duplicate is routed like a first submission.
RoutesAnyway(u) == {"exception_hold", "route_for_approval", "auto_approve"}

\* decideRoute and constrainRoute: a duplicate is held, anything else may be.
RoutesFor(u) ==
  IF prior[u] THEN {"exception_hold"}
  ELSE {"exception_hold", "route_for_approval", "auto_approve"}

Match(a) ==
  LET u == RunOf(a) IN
  /\ At(a, "matching")
  /\ Persist(a, "matched", "drafting")
  /\ \E r \in RoutesFor(u) : route' = [route EXCEPT ![u] = r]
  /\ UNCHANGED <<approval, claims, recent, seen, profileRuns, erpVars, prior,
                 goal, resetVars, seenVars, boundVars>>

\* saveDisposition.
Draft(a) ==
  /\ At(a, "drafting")
  /\ Wrote(a)
  /\ dispositions' = rows[a] \cup {a}
  /\ Goto(a, IF route[RunOf(a)] = "reject" THEN "refusing" ELSE "recording")
  /\ UNCHANGED <<storeVars, ledger, payments, inbox, toggle, machine,
                 runVars, resetVars, seenVars, boundVars>>

\* The transitions that follow the route: a scope block goes to rejected
\* directly, everything else is decided first.  A held run updates the
\* vendor's profile on the way, if its vendor was resolved.
Decide(a) ==
  /\ \/ At(a, "refusing") /\ Persist(a, "rejected", "rejecting")
     \/ /\ At(a, "recording")
        /\ \E next \in IF route[RunOf(a)] = "exception_hold"
                       THEN {"profiling", "holding"} ELSE {"gating"} :
             Persist(a, "decided", next)
     \/ At(a, "holding") /\ Persist(a, "held", "shelving")
  /\ UNCHANGED <<approval, claims, recent, seen, profileRuns, erpVars,
                 runVars, resetVars, seenVars, boundVars>>

Shelve(a) ==
  \/ At(a, "rejecting") /\ SetInbox(a, "rejected", "done")
  \/ At(a, "shelving") /\ SetInbox(a, "held", "done")

-----------------------------------------------------------------------------
(* The gate (GR-EXEC), for the first pass and for a resumed run.           *)

\* Slip: assisted mode executes what autonomous mode would.
EarnedOrAssisted(u) ==
  Mode(u) \in {"assisted", "autonomous"} /\ route[u] = "auto_approve"

\* canAutoApprove, for a run whose route already reflects the guardrails.
Earned(u) == Mode(u) = "autonomous" /\ route[u] = "auto_approve"

\* A decided approval executes; without one, autonomy does.
MayExecute(u) ==
  approval[u] = "approved" \/ (approval[u] = "absent" /\ Earned(u))

\* A shadow run only simulates its executor.  Otherwise the run executes or
\* awaits an approval, created if there is none: the first pass then parks,
\* and a resumed run fails because its gate did not execute.
Gate(a) ==
  LET u == RunOf(a) IN
  /\ At(a, "gating")
  /\ \/ /\ Mode(u) = "shadow"
        /\ Goto(a, "profiling")
        /\ UNCHANGED approval
     \/ /\ Mode(u) # "shadow" /\ MayExecute(u)
        /\ Goto(a, "posting")
        /\ UNCHANGED approval
     \/ /\ Mode(u) # "shadow" /\ ~MayExecute(u)
        /\ approval' = [approval EXCEPT ![u] = "pending"]
        /\ Goto(a, IF IsFirst(a) THEN "parking" ELSE "failing")
  /\ UNCHANGED <<runstate, claims, recent, seen, profileRuns, erpVars,
                 copyVars, machine, attempt, runVars, resetVars, seenVars,
                 boundVars>>

\* The run waits for a person.
Park(a) ==
  /\ At(a, "parking")
  /\ Persist(a, "awaiting_approval", "announcing")
  /\ UNCHANGED <<approval, claims, recent, seen, profileRuns, erpVars,
                 runVars, resetVars, seenVars, boundVars>>

\* approval.requested is traced; the scripted approver decides at once.
Announce(a) ==
  /\ At(a, "announcing")
  /\ Goto(a, IF RunOf(a) \in scenario.scripted THEN "deciding" ELSE "done")
  /\ UNCHANGED <<storeVars, erpVars, copyVars, machine, attempt, runVars,
                 resetVars, seenVars, boundVars>>

\* decideApproval's write: by the scripted approver, who takes no claim, or
\* by a visitor.  Both then go (back) through the gate.
Approve(a) ==
  /\ At(a, "deciding")
  /\ Wrote(a)
  /\ approval' = [approval EXCEPT ![RunOf(a)] = "approved"]
  /\ Goto(a, "gating")
  /\ UNCHANGED <<runstate, claims, recent, seen, profileRuns, erpVars,
                 machine, runVars, resetVars, seenVars, boundVars>>

-----------------------------------------------------------------------------
(* The executor (execute.ts).                                              *)

\* Rows that are in the ledger and are not any more.
Wipes == wiped' = wiped \cup {RunOf(row) : row \in ledger \ ledger'}

\* Slip: the row is appended without looking for the invoice.
PostBlindly(a) ==
  /\ At(a, "posting")
  /\ Wrote(a)
  /\ ledger' = rows[a] \cup {a}
  /\ Goto(a, "toggling")
  /\ Wipes
  /\ UNCHANGED <<storeVars, payments, dispositions, inbox, toggle, machine,
                 runVars, resetVars, late, straddled, boundVars>>

\* postToLedger refuses an invoice that is in the ledger it read.
Post(a) ==
  /\ At(a, "posting")
  /\ loaded[a]
  /\ IF InvoiceIn(rows[a], RunOf(a))
     THEN Throws(a) /\ UNCHANGED ledger
     ELSE /\ Wrote(a)
          /\ ledger' = rows[a] \cup {a}
          /\ Goto(a, "toggling")
  /\ Wipes
  /\ UNCHANGED <<storeVars, payments, dispositions, inbox, toggle, machine,
                 runVars, resetVars, late, straddled, boundVars>>

\* schedulePayment looks at the failure toggle first; an armed one is marked
\* fired and fails the call.
Toggle(a) ==
  /\ \/ /\ At(a, "toggling")
        /\ Goto(a, IF toggle = "armed" THEN "firing" ELSE "paying")
        /\ UNCHANGED <<toggle, attempt, copyVars>>
     \/ /\ At(a, "firing")
        /\ toggle' = "fired"
        /\ Throws(a)
  /\ UNCHANGED <<storeVars, ledger, payments, dispositions, inbox, machine,
                 runVars, resetVars, seenVars, boundVars>>

Pay(a) ==
  /\ At(a, "paying")
  /\ Wrote(a)
  /\ payments' = rows[a] \cup {a}
  /\ Goto(a, "processing")
  /\ UNCHANGED <<storeVars, ledger, dispositions, inbox, toggle, machine,
                 runVars, resetVars, seenVars, boundVars>>

Process(a) == At(a, "processing") /\ SetInbox(a, "processed", "profiling")

\* VendorProfileStore.applyUpdate.
UpdateProfile(a) ==
  /\ At(a, "profiling")
  /\ Wrote(a)
  /\ profileRuns' = count[a] + 1
  /\ Goto(a, IF route[RunOf(a)] = "exception_hold" THEN "holding"
                                                   ELSE "settling")
  /\ UNCHANGED <<runstate, approval, claims, recent, seen, erpVars, machine,
                 runVars, resetVars, seenVars, boundVars>>

Settle(a) ==
  /\ At(a, "settling")
  /\ Persist(a, "executed", "done")
  /\ UNCHANGED <<approval, claims, recent, seen, profileRuns, erpVars,
                 runVars, resetVars, seenVars, boundVars>>

-----------------------------------------------------------------------------
(* The first pass's catch block.                                           *)

\* Its own copy of the run becomes an error and is stored, whatever the
\* stored run has become.
Recover(a) ==
  /\ At(a, "recovering")
  /\ IF machine[a].step \in TerminalSteps
     THEN /\ Goto(a, "counting")
          /\ UNCHANGED <<machine, runstate, attempt, copyVars>>
     ELSE Persist(a, "error", "counting")
  /\ UNCHANGED <<approval, claims, recent, seen, profileRuns, erpVars,
                 runVars, resetVars, seenVars, boundVars>>

\* Slip: the document is given back whatever the run did.
CountNothing(a) ==
  /\ At(a, "counting")
  /\ goal' = [goal EXCEPT ![RunOf(a)] = "new"]
  /\ Goto(a, "reopening")
  /\ UNCHANGED <<storeVars, erpVars, copyVars, machine, attempt, prior,
                 route, resetVars, seenVars, boundVars>>

\* The document is given back unless the run has a row in the ledger.
Count(a) ==
  LET partial == \E row \in ledger : RunOf(row) = RunOf(a) IN
  /\ At(a, "counting")
  /\ goal' = [goal EXCEPT ![RunOf(a)] = IF partial THEN "held" ELSE "new"]
  /\ Goto(a, "reopening")
  /\ UNCHANGED <<storeVars, erpVars, copyVars, machine, attempt, prior,
                 route, resetVars, seenVars, boundVars>>

Reopen(a) == At(a, "reopening") /\ SetInbox(a, goal[RunOf(a)], "done")

-----------------------------------------------------------------------------
(* A visitor approves a parked run (resume.ts, see ApprovalResume).        *)

\* Slip: a visitor may act as soon as there is an approval.
LoadUnparked(a) ==
  LET u == RunOf(a) IN
  /\ At(a, "waiting") /\ u \in scenario.visited
  /\ approval[u] = "pending"
  /\ machine' = [machine EXCEPT ![a] = runstate[u]]
  /\ Overlap(u)
  /\ Goto(a, "claiming")
  /\ UNCHANGED <<storeVars, erpVars, copyVars, attempt, runVars, resetVars,
                 late, wiped, boundVars>>

\* resumeRun loads a parked run with a pending approval.
Load(a) ==
  LET u == RunOf(a) IN
  /\ At(a, "waiting") /\ u \in scenario.visited
  /\ runstate[u].step = "awaiting_approval"
  /\ approval[u] = "pending"
  /\ machine' = [machine EXCEPT ![a] = runstate[u]]
  /\ Overlap(u)
  /\ Goto(a, "claiming")
  /\ UNCHANGED <<storeVars, erpVars, copyVars, attempt, runVars, resetVars,
                 late, wiped, boundVars>>

Claim(a) ==
  LET u == RunOf(a) IN
  /\ At(a, "claiming")
  /\ claims' = [claims EXCEPT ![u] = @ + 1]
  /\ Goto(a, IF claims[u] = 0 THEN "deciding" ELSE "refused")
  /\ UNCHANGED <<runstate, approval, recent, seen, profileRuns, erpVars,
                 copyVars, machine, attempt, runVars, resetVars, seenVars,
                 boundVars>>

\* The executor failed: the run ends as an error, its document stays as is.
Fail(a) ==
  /\ At(a, "failing")
  /\ Persist(a, "error", "done")
  /\ UNCHANGED <<approval, claims, recent, seen, profileRuns, erpVars,
                 runVars, resetVars, seenVars, boundVars>>

\* The claim is given back if the approval is still pending.
Release(a) ==
  /\ \/ /\ At(a, "rechecking")
        /\ Goto(a, IF approval[RunOf(a)] = "pending" THEN "releasing"
                                                     ELSE "failed")
        /\ UNCHANGED claims
     \/ /\ At(a, "releasing")
        /\ claims' = [claims EXCEPT ![RunOf(a)] = 0]
        /\ Goto(a, "failed")
  /\ UNCHANGED <<runstate, approval, recent, seen, profileRuns, erpVars,
                 copyVars, machine, attempt, runVars, resetVars, seenVars,
                 boundVars>>

-----------------------------------------------------------------------------
(* The nightly reset (reset.ts).                                           *)

actorVars == <<pc, copyVars, machine, attempt, runVars>>

\* listRange(runs:recent), then the approval of each run on it.
ResetList ==
  /\ resetAt = "off"
  /\ resets < scenario.resets
  /\ resets' = resets + 1
  /\ doomed' = recent
  /\ straddled' =
       straddled \cup {u \in Runs : \E a \in Actors :
                                      RunOf(a) = u /\ pc[a] \notin Stopped}
  /\ resetAt' = "pointing"
  /\ UNCHANGED <<storeVars, erpVars, actorVars, doomedApprovals, late,
                 wiped, boundVars>>

ResetPoint ==
  /\ resetAt = "pointing"
  /\ doomedApprovals' = {u \in doomed : approval[u] # "absent"}
  /\ resetAt' = "ledger"
  /\ UNCHANGED <<storeVars, erpVars, actorVars, doomed, resets, seenVars,
                 boundVars>>

\* MockBackend.seed, in its order.
ResetSeed ==
  /\ \/ resetAt = "ledger" /\ resetAt' = "payments"
     \/ resetAt = "payments" /\ resetAt' = "inbox"
     \/ resetAt = "inbox" /\ resetAt' = "dispositions"
     \/ resetAt = "dispositions" /\ resetAt' = "toggle"
     \/ resetAt = "toggle" /\ resetAt' = "deleting"
  /\ ledger' = IF resetAt = "ledger" THEN {} ELSE ledger
  /\ payments' = IF resetAt = "payments" THEN {} ELSE payments
  /\ inbox' = IF resetAt = "inbox" THEN NewInbox ELSE inbox
  /\ dispositions' = IF resetAt = "dispositions" THEN {} ELSE dispositions
  /\ toggle' = IF resetAt = "toggle" THEN "off" ELSE toggle
  /\ Wipes
  /\ UNCHANGED <<storeVars, actorVars, doomed, doomedApprovals, resets, late,
                 straddled, boundVars>>

\* Slip: the claims are not among the keys.
ResetKeepsClaims ==
  /\ resetAt = "deleting"
  /\ runstate' = [u \in Runs |-> IF u \in doomed THEN Absent ELSE runstate[u]]
  /\ approval' = [u \in Runs |-> IF u \in doomed THEN "absent"
                                 ELSE approval[u]]
  /\ recent' = {} /\ profileRuns' = 0
  /\ seen' = [d \in Documents |-> Nobody]
  /\ late' = {}
  /\ resetAt' = "off" /\ doomed' = {} /\ doomedApprovals' = {}
  /\ UNCHANGED <<claims, erpVars, actorVars, resets, straddled, wiped,
                 boundVars>>

\* One del: the runs it listed, the approvals it found, profiles, digests.
\* The pointer approval:by-run of a listed run goes even if it was not found.
ResetDelete ==
  /\ resetAt = "deleting"
  /\ runstate' = [u \in Runs |-> IF u \in doomed THEN Absent ELSE runstate[u]]
  /\ approval' = [u \in Runs |-> IF u \in doomed THEN "absent"
                                 ELSE approval[u]]
  /\ claims' = [u \in Runs |-> IF u \in doomedApprovals THEN 0
                               ELSE claims[u]]
  /\ recent' = {} /\ profileRuns' = 0
  /\ seen' = [d \in Documents |-> Nobody]
  /\ late' = {}
  /\ resetAt' = "off" /\ doomed' = {} /\ doomedApprovals' = {}
  /\ UNCHANGED <<erpVars, actorVars, resets, straddled, wiped, boundVars>>

ResetDemo == ResetList \/ ResetPoint \/ ResetSeed \/ ResetDelete

-----------------------------------------------------------------------------
(* Faults and the operator.                                                *)

\* The store refuses the call at pc[a].
Throw(a) ==
  /\ faults < scenario.faults
  /\ pc[a] \notin Stopped
  /\ faults' = faults + 1
  /\ Throws(a)
  /\ UNCHANGED <<storeVars, erpVars, machine, runVars, resetVars, seenVars,
                 arms, scenario>>

\* The serverless function dies.
Crash(a) ==
  /\ faults < scenario.faults
  /\ pc[a] \notin Stopped
  /\ faults' = faults + 1
  /\ Goto(a, "crashed")
  /\ UNCHANGED <<storeVars, erpVars, copyVars, machine, attempt, runVars,
                 resetVars, seenVars, arms, scenario>>

SetToggle ==
  /\ arms < scenario.arms
  /\ arms' = arms + 1
  /\ toggle' = "armed"
  /\ UNCHANGED <<storeVars, ledger, payments, dispositions, inbox, actorVars,
                 resetVars, seenVars, faults, scenario>>

-----------------------------------------------------------------------------
FirstCall(a) ==
  \/ Begin(a) \/ Mark(a) \/ Start(a) \/ Screen(a) \/ See(a) \/ Compare(a)
  \/ Remember(a) \/ Match(a) \/ Draft(a) \/ Decide(a) \/ Shelve(a)
  \/ Park(a) \/ Announce(a) \/ Recover(a) \/ Count(a) \/ Reopen(a)

VisitorCall(a) == Load(a) \/ Claim(a) \/ Fail(a) \/ Release(a)

SharedCall(a) ==
  \/ Read(a) \/ Gate(a) \/ Approve(a)
  \/ Post(a) \/ Toggle(a) \/ Pay(a) \/ Process(a)
  \/ UpdateProfile(a) \/ Settle(a)

Call(a) ==
  \/ IsFirst(a) /\ FirstCall(a)
  \/ ~IsFirst(a) /\ VisitorCall(a)
  \/ SharedCall(a)

Next ==
  \/ \E a \in Actors : Call(a) \/ Throw(a) \/ Crash(a)
  \/ ResetDemo
  \/ SetToggle

Spec == Init /\ [][Next]_vars

-----------------------------------------------------------------------------
Tables == SUBSET Actors
Labels == Body \cup InCatch \cup VisitorCalls \cup Stopped
            \cup {"marking", "starting"}
Resetting == {"off", "pointing", "ledger", "payments", "inbox",
              "dispositions", "toggle", "deleting"}
InboxStates == {"new", "processing", "processed", "held", "rejected"}
Routes == {"none", "reject", "exception_hold", "route_for_approval",
           "auto_approve"}
Records == [step : RunSteps \cup {"absent"}, revision : Nat]

\* The store, the ERP tables and every actor's locals keep their shape.
TypeOK ==
  /\ scenario \in Scenarios
  /\ runstate \in [Runs -> Records]
  /\ approval \in [Runs -> {"absent", "pending", "approved"}]
  /\ claims \in [Runs -> Nat]
  /\ recent \subseteq Runs
  /\ seen \in [Documents -> Runs \cup {Nobody}]
  /\ profileRuns \in Nat
  /\ ledger \in Tables /\ payments \in Tables /\ dispositions \in Tables
  /\ inbox \in [Documents -> InboxStates]
  /\ toggle \in {"off", "armed", "fired"}
  /\ pc \in [Actors -> Labels]
  /\ loaded \in [Actors -> BOOLEAN]
  /\ rows \in [Actors -> Tables]
  /\ items \in [Actors -> [Documents -> InboxStates]]
  /\ count \in [Actors -> Nat]
  /\ known \in [Actors -> Runs \cup {Nobody}]
  /\ machine \in [Actors -> Records]
  /\ attempt \in [Actors -> {1, 2}]
  /\ prior \in [Runs -> BOOLEAN]
  /\ route \in [Runs -> Routes]
  /\ goal \in [Runs -> {"new", "held"}]
  /\ resetAt \in Resetting
  /\ doomed \subseteq Runs /\ doomedApprovals \subseteq Runs
  /\ late \subseteq Runs /\ straddled \subseteq Runs /\ wiped \subseteq Runs
  /\ faults \in Nat /\ arms \in Nat /\ resets \in Nat

-----------------------------------------------------------------------------
(* Safety.                                                                 *)

\* A run that starts when its document is already in the dedupe ledger never
\* moves money, whatever its own mode and approver, whatever overlaps it.
LatecomerIsHeld ==
  \A a \in ledger \cup payments : RunOf(a) \notin late

\* Two writers of the ledger may overwrite each other's rows, but they never
\* leave one invoice in it twice: each looks in the very table it writes.
InvoicePostedOnce ==
  \A a, b \in ledger : Invoice(RunOf(a)) = Invoice(RunOf(b)) => a = b

\* Money moves only for a run whose approval was given or whose autonomy was
\* earned; a run in the index still has the approval to show for it.
PaidHasConsent ==
  \A a \in payments :
    RunOf(a) \in recent =>
      \/ approval[RunOf(a)] = "approved"
      \/ Mode(RunOf(a)) = "autonomous" /\ route[RunOf(a)] = "auto_approve"

\* Terminal runs are frozen, unless their first pass failed: its catch block
\* and a visitor who loaded the run before it write over each other.  So do the
\* scripted approver, who takes no claim, and a visitor of the same run.
SettledIsFrozen ==
  [][\A u \in Runs \ (scenario.scripted \cap scenario.visited) :
       /\ runstate[u].step \in TerminalSteps
       /\ runstate'[u] \notin {runstate[u], Absent}
       => machine'[<<u, "first">>].step = "error"]_vars

\* A first pass that failed gives its document back only while the ledger
\* holds no row of it: a human looks at one that posted, no rerun does.  A row
\* that was lost before the run looked may come back with another stale copy.
ReopenedIsUntouched ==
  \A u \in Runs \ wiped :
    At(<<u, "first">>, "reopening") /\ goal[u] = "new" =>
      <<u, "first">> \notin ledger

\* A reset leaves no record, approval or claim of a run it did not overlap:
\* the runs:recent list leads it to every key.
NothingOutlivesReset ==
  \A u \in Runs \ (recent \cup straddled) :
    At(<<u, "first">>, "done") =>
      runstate[u] = Absent /\ approval[u] = "absent" /\ claims[u] = 0

-----------------------------------------------------------------------------
(* What the documentation promises and the code does not keep.             *)

\* The guided tour: "The same invoice cannot be paid twice."  Two runs that
\* both read the dedupe ledger before either records itself both execute.
InvoicePaidOnce ==
  \A a, b \in payments : Invoice(RunOf(a)) = Invoice(RunOf(b)) => a = b
=============================================================================
