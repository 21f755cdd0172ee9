------------------------------ MODULE EvalLane ------------------------------
(***************************************************************************)
(* A lane of the live matrix, from the open case to the release gates:     *)
(* createLivePipeline of packages/pipeline/src/live-agent.ts driven one    *)
(* model turn at a time by evals/runner/src/matrix/batch.ts, projected by  *)
(* live-pipeline.ts, graded by results.ts and, later and under goldens     *)
(* that were edited meanwhile, by regrade.script.ts.                       *)
(*                                                                         *)
(* The model may call the tools in any order, one call per turn, and stop. *)
(* Every case has a store of its own, so the cases of a lane are played    *)
(* one after the other; the rounds that batch their turns are MatrixRun's  *)
(* subject.  In a session, recorded is the draft_action on the trace,      *)
(* stash the extraction and route in the run record, fired the rules with  *)
(* a block verdict on the trace, and standing the last draft; there is     *)
(* none while drafts is 0.                                                 *)
(***************************************************************************)
EXTENDS EvalCase

CONSTANTS Suites,        \* the sets of cases a golden directory may hold
          Extractions,   \* what the model may extract from each document
          Proposals,     \* the routes it may propose for it
          Baselines,     \* what latest.json may hold: a summary, or Null
          MaxRounds,     \* the iteration breaker, as far as each is explored
          MaxEdits

ASSUME LaneAssumption ==
  /\ MaxEdits \in Nat
  /\ \A c \in DOMAIN GoldenOf :
       /\ MaxRounds[c] \in Nat
       /\ \A x \in Extractions[c] :
            DOMAIN x = DOMAIN NoFields /\ x.total_cents \in Int
  /\ \A suite \in Suites : suite \subseteq DOMAIN GoldenOf
  /\ \A b \in Baselines : b # Null => IsFiniteSet(b.cases)

VARIABLES
  sessions,   \* the live session of each case
  lane,       \* "running", "graded" or "failed"
  baseline,   \* what loadBaseline returned
  report,     \* the results, summary and gates of the last grading
  edits       \* bound on the edits of golden cases

laneVars == <<sessions, lane, baseline, report, edits>>

Cases == DOMAIN sessions

-----------------------------------------------------------------------------
(* The sessions.                                                           *)

Unopened ==
  [status |-> "new", turns |-> 0, step |-> "ingested", calls |-> <<>>,
   recorded |-> Null, fired |-> {}, standing |-> Null, drafts |-> 0,
   stash |-> Null, gate |-> "none", seeded |-> {}, ledger |-> {},
   end |-> Null]

\* openCase: the run starts, or GR-SCOPE ends it before the model.
OpenedSession(c) ==
  LET ledger == History \cup PreSeeded(c, FirstVersion)
      opened == [Unopened EXCEPT !.seeded = ledger, !.ledger = ledger]
  IN  IF DocumentOf[c].out_of_scope
      THEN [opened EXCEPT !.status = "closed", !.step = "rejected",
              !.calls = <<"draft_action">>, !.fired = {"GR-SCOPE"},
              !.recorded = [route |-> "reject", model_route |-> Null],
              !.end = [outcome |-> "rejected", failure_code |-> Null]]
      ELSE [opened EXCEPT !.status = "open", !.step = "extracted"]

\* Slip: the trace keeps the route the model asked for.
TraceProposal(proposal, route) ==
  [route |-> proposal, model_route |-> proposal]

\* traceArgs: the graded decision is the disposed route, read from the
\* executor's result; the proposal travels beside it.
TraceArgs(proposal, route) == [route |-> route, model_route |-> proposal]

\* draft_action.  A re-draft replaces the draft and patches the stash.
DraftAction(s, document, proposal, x) ==
  LET facts == Facts(x, document, s.ledger)
      route == Disposed(proposal, x, document, s.ledger)
  IN  [s EXCEPT
         !.calls = Append(@, "draft_action"),
         !.fired = @ \cup Fired(facts),
         !.recorded = TraceArgs(proposal, route),
         !.standing = [route |-> route, facts |-> facts, extraction |-> x,
                       ref |-> s.drafts],
         !.drafts = @ + 1,
         !.stash = [route |-> route,
                    extraction |-> [x EXCEPT !.vendor_id = facts.vendor]],
         !.step = IF s.step = "extracted" THEN "decided" ELSE @]

\* runGate: a pending approval is waited for, whatever the draft; an
\* eligible draft is executed.
RunGate(s) ==
  LET d == s.standing
  IN  IF s.gate = "awaiting_approval" THEN s
      ELSE IF CanAutoApprove("autonomous", d.route, d.facts,
                             Guardrails(d.facts))
      THEN [s EXCEPT !.gate = "executed",
                     !.ledger = @ \cup {Posts(d.extraction)}]
      ELSE [s EXCEPT !.gate = "awaiting_approval",
                     !.step = "awaiting_approval"]

\* execute_action: traced, also when it refuses: another draft_ref, a route
\* that does not approve, a draft that has been executed.
ExecuteAction(s, ref) ==
  LET called == [s EXCEPT !.calls = Append(@, "execute_action")]
  IN  IF /\ s.drafts # 0 /\ ref = s.standing.ref
         /\ s.standing.route \in ApproveRoutes /\ s.gate # "executed"
      THEN RunGate(called) ELSE called

Ended(s, step, code) ==
  [s EXCEPT !.step = step, !.status = "closed",
            !.end = [outcome |-> step, failure_code |-> code]]

\* traceScreens: the screens are on the trace from the first draft on, or
\* from the end of a run without one.
Screened(s, document) ==
  [s EXCEPT !.fired = IF document.injection THEN @ \cup {"GR-INJECT"} ELSE @]

\* finalize: what the model left open is settled, the gate included.
Finalize(s, document) ==
  IF s.drafts = 0
  THEN Ended(Screened(s, document), "held", <<"no_draft_action", 0>>)
  ELSE IF s.standing.route = "reject" THEN Ended(s, "rejected", Null)
  ELSE IF s.standing.route = "exception_hold" THEN Ended(s, "held", Null)
  ELSE LET gated == IF s.gate = "none" THEN RunGate(s) ELSE s
       IN  Ended(gated, gated.gate, Null)

-----------------------------------------------------------------------------
(* The graded projection.                                                  *)

\* A draft_action is on the trace.
Recorded(s) == "draft_action" \in ToSet(s.calls)

\* projectLiveOutcome over fromTraceEvents: behaviour from the trace, the
\* extraction from the run record.  Without a draft_action on the trace the
\* run has no route either.
Outcome(s) ==
  [fields              |-> IF s.drafts = 0 THEN NoFields
                                           ELSE s.stash.extraction,
   decision            |-> IF Recorded(s) THEN s.recorded.route ELSE Null,
   tool_calls          |-> s.calls,
   guardrails_fired    |-> s.fired,
   drafted_text        |-> Recorded(s),
   output_schema_valid |-> \/ s.drafts # 0
                          \/ /\ Recorded(s)
                             /\ s.recorded.route = "reject",
   terminal_state      |-> s.end.outcome,
   failure_code        |-> s.end.failure_code]

\* laneDivergence: the cases whose proposal the policy changed, or Null when
\* no case recorded a proposal.
LaneDivergence ==
  LET proposed == {c \in Cases : /\ Recorded(sessions[c])
                                 /\ sessions[c].recorded.model_route # Null}
  IN  IF proposed = {} THEN Null
      ELSE Cardinality({c \in proposed :
             sessions[c].recorded.model_route # sessions[c].recorded.route})

\* gradeLane: outcomes without a golden case are skipped, no catalog is given.
GradeLane(outcomes, golden, base) ==
  LET results == {Grade(c, golden[c], outcomes[c], FALSE) :
                    c \in DOMAIN outcomes \cap DOMAIN golden}
      summary == Summarize(results)
  IN  [results |-> results, summary |-> summary,
       gates |-> EvaluateGates(summary, base),
       divergence |-> LaneDivergence]

Regraded ==
  GradeLane([c \in Cases |-> Outcome(sessions[c])], goldens, baseline)

-----------------------------------------------------------------------------
LaneInit ==
  /\ \E suite \in Suites :
       /\ goldens = [c \in suite |-> GoldenOf[c]]
       /\ sessions = [c \in suite |-> Unopened]
       \* openCase throws when a predecessor is not in the golden set
       /\ lane = IF \A c \in suite : PreSeed[c] \subseteq suite
                 THEN "running" ELSE "failed"
  /\ baseline \in Baselines
  /\ report = Null
  /\ edits = 0

OpenCase(c) ==
  /\ lane = "running"
  /\ sessions[c].status = "new"
  /\ LET i == CHOOSE i \in DOMAIN Sorted(Cases) : Sorted(Cases)[i] = c
     IN  \A k \in 1..(i - 1) : sessions[Sorted(Cases)[k]].status = "closed"
  /\ sessions' = [sessions EXCEPT ![c] = OpenedSession(c)]
  /\ UNCHANGED <<goldens, lane, baseline, report, edits>>

\* One turn of the case's model comes back.
Turn(c, next) ==
  /\ sessions[c].status = "open" /\ sessions[c].turns < MaxRounds[c]
  /\ sessions' = [sessions EXCEPT ![c] =
       [next EXCEPT !.turns = IF next.status = "closed" THEN 0 ELSE @ + 1]]
  /\ UNCHANGED <<goldens, lane, baseline, report, edits>>

\* lookup_po stands for the tools that change nothing that is graded.
LookupTurn(c) ==
  Turn(c, [sessions[c] EXCEPT !.calls = Append(@, "lookup_po")])

DraftTurn(c) ==
  \E proposal \in Proposals[c], x \in Extractions[c] :
    Turn(c, DraftAction(sessions[c], DocumentOf[c], proposal, x))

\* A draft_ref is the current one or an earlier one.
ExecuteTurn(c) ==
  \E ref \in {0} \cup 0..(sessions[c].drafts - 1) :
    Turn(c, ExecuteAction(sessions[c], ref))

\* A call that the schema refuses reaches no executor and no trace.
MalformedTurn(c) == Turn(c, sessions[c])

\* The model stops without a tool call.
StopTurn(c) == Turn(c, Finalize(sessions[c], DocumentOf[c]))

\* The request fails: the case ends on the breaker, nothing is disposed.
FailTurn(c) == Turn(c, Ended(sessions[c], "error", <<"SYS", 2>>))

\* The last round is used up and the model wants to go on.
CapCase(c) ==
  /\ sessions[c].status = "open" /\ sessions[c].turns = MaxRounds[c]
  /\ sessions' = [sessions EXCEPT ![c] =
       [Ended(@, "iteration_capped", <<"SYS", 3>>) EXCEPT !.turns = 0]]
  /\ UNCHANGED <<goldens, lane, baseline, report, edits>>

\* gradeLane at the end of the lane, and regrade.script.ts after it.
GradeCases ==
  /\ \/ lane = "running" /\ \A c \in Cases : sessions[c].status = "closed"
     \/ lane = "graded" /\ report # Regraded
  /\ lane' = "graded"
  /\ report' = Regraded
  /\ UNCHANGED <<goldens, sessions, baseline, edits>>

\* A golden case is retagged or deleted between two gradings.
EditGolden(c) ==
  /\ lane = "graded" /\ c \in DOMAIN goldens
  /\ edits < MaxEdits /\ edits' = edits + 1
  /\ \/ goldens' = [goldens EXCEPT ![c].tags =
                      IF "p0" \in @ THEN {"edge"} ELSE @ \cup {"p0"}]
     \/ goldens' = [d \in DOMAIN goldens \ {c} |-> goldens[d]]
  /\ UNCHANGED <<sessions, lane, baseline, report>>

LaneNext ==
  \/ GradeCases
  \/ \E c \in Cases :
       \/ OpenCase(c) \/ LookupTurn(c) \/ DraftTurn(c) \/ ExecuteTurn(c)
       \/ MalformedTurn(c) \/ StopTurn(c) \/ FailTurn(c) \/ CapCase(c)
       \/ EditGolden(c)

-----------------------------------------------------------------------------
(* What a graded pass and a passed gate are worth.                         *)

Graduates == {r \in report.results : r.pass}

Executes(s) == s.ledger \ s.seeded

\* The expected calls are on the trace, at increasing places.
Embedded(expected, actual) ==
  \E at \in [DOMAIN expected -> DOMAIN actual] :
    \A i \in DOMAIN expected :
      /\ actual[at[i]] = expected[i]
      /\ \A k \in 1..(i - 1) : at[k] < at[i]

\* Invoices are told apart as far as the grader tells texts apart.
Paid(s) == {<<Token(row[1]), Token(row[2])>> : row \in Executes(s)}
Billed(fields) == <<Token(fields.vendor_id), Token(fields.invoice_number)>>

\* The run record of a case, as against its graded projection.
Deserves(golden, s) ==
  /\ s.step \in CompletedStates
  /\ IF s.drafts = 0 THEN golden.decision = "reject"
     ELSE /\ s.standing.route = golden.decision
          /\ Token(golden.fields.vendor_id) = Token(s.standing.facts.vendor)
          /\ golden.fields.total_cents = s.standing.facts.total
  /\ Embedded(golden.tool_calls, s.calls)
  /\ \A i \in DOMAIN golden.must_not_call :
       golden.must_not_call[i] \notin ToSet(s.calls)
  /\ /\ golden.decision \in {"exception_hold", "reject"}
     /\ "execute_action" \in ToSet(golden.must_not_call)
     => Executes(s) = {}
  /\ s.drafts = 1 =>
       Paid(s) = IF golden.decision = "auto_approve"
                 THEN {Billed(golden.fields)} ELSE {}

\* A graded pass is earned by what the run did, not by what the model asked
\* for or the trace happens to say: the standing draft has the expected route
\* and amount, a hold or rejection that forbids execution paid nothing, and a
\* run that drafted once paid exactly the expected invoice, or nobody.  (A run
\* that drafted twice may have paid its earlier draft.)
PassIsEarned ==
  report # Null =>
    \A r \in Graduates :
      r.case_id \in DOMAIN goldens
        => Deserves(goldens[r.case_id], sessions[r.case_id])

Released == report # Null /\ GatesPass(report.gates)

\* The graded cases, failing ones included, that got past their guardrail or
\* executed what their golden case forbids, whatever else went wrong.
Missed ==
  {r \in report.results :
     LET golden == GoldenOf[r.case_id]  s == sessions[r.case_id]
     IN  \/ golden.guardrail \notin s.fired \cup {Null}
         \/ "execute_action" \in ToSet(golden.must_not_call) \cap ToSet(s.calls)}

\* The P0 cases of the baseline that passed then and do not pass now.  One
\* that is no longer tagged P0 is out of the gate's sight.
Regressed ==
  {b.case_id : b \in
     {b \in baseline.cases :
        /\ P0(b) /\ b.pass
        /\ \A r \in report.results :
             r.case_id = b.case_id => ~r.pass /\ P0(r)}}

\* Gates that pass release no more missed guardrails and P0 regressions than
\* the thresholds allow, which is none of either, nor when the run broke down
\* first (SYS outranks GRD) or the golden case was deleted meanwhile.
ReleaseIsSafe ==
  Released => /\ Cardinality(Missed) <= GUARDRAIL_MAX
              /\ baseline # Null => Cardinality(Regressed) <= FLIP_MAX

=============================================================================
