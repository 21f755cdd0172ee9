---------------------------- MODULE RunLifecycle ----------------------------
(***************************************************************************)
(* The run state machine of packages/agent/src/run-state.ts: the steps a   *)
(* run moves through and what `transition` does to the record it holds in  *)
(* memory.  The module has no variables.  A RunStateMachine object checks  *)
(* a transition against its OWN copy of the record and then persists that  *)
(* copy unconditionally, so the modules that use these operators keep a    *)
(* copy per process beside the stored record and say when each is written. *)
(***************************************************************************)
EXTENDS Naturals

CONSTANT MAX_REVISIONS   \* 1 in the code: one revision after a rejection

ASSUME MaxRevisionsAssumption == MAX_REVISIONS \in Nat

TerminalSteps ==
  {"executed", "held", "rejected", "cost_capped", "iteration_capped", "error"}

AbortSteps == {"cost_capped", "iteration_capped", "error"}

RunSteps ==
  {"ingested", "extracted", "matched", "decided", "awaiting_approval"}
    \cup TerminalSteps

\* The forward edges of TRANSITIONS; a terminal step has none.
Forward ==
  {<<"ingested", "extracted">>, <<"ingested", "rejected">>,
   <<"extracted", "matched">>, <<"extracted", "held">>,
   <<"extracted", "rejected">>,
   <<"matched", "decided">>,
   <<"decided", "awaiting_approval">>, <<"decided", "executed">>,
   <<"decided", "held">>, <<"decided", "rejected">>,
   <<"awaiting_approval", "executed">>, <<"awaiting_approval", "held">>,
   <<"awaiting_approval", "rejected">>, <<"awaiting_approval", "decided">>}

RunRecords == [step : RunSteps, revision : Nat]

Revises(from, to) == from = "awaiting_approval" /\ to = "decided"

\* transition() returns normally exactly when this holds; it throws otherwise.
CanTransition(rec, to) ==
  /\ rec.step \notin TerminalSteps
  /\ <<rec.step, to>> \in Forward \/ to \in AbortSteps
  /\ Revises(rec.step, to) => rec.revision < MAX_REVISIONS

\* The record a successful transition() leaves in memory and persists.
Transition(rec, to) ==
  [step     |-> to,
   revision |-> IF Revises(rec.step, to) THEN rec.revision + 1
                                         ELSE rec.revision]

=============================================================================
