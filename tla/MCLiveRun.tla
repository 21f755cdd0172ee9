------------------------------ MODULE MCLiveRun -----------------------------
(* LiveRun with small sets of invoices for TLC. *)
EXTENDS LiveRun

CONSTANTS v1, v2

Scenario(modes, aborts, vendors, c, v, f, r, o) ==
  [modes |-> modes, aborts |-> aborts, vendors |-> vendors, calls |-> c,
   visits |-> v, failures |-> f, faults |-> r, others |-> o]

\* A model that calls the tools as it likes, with a toggle that fails payments;
\* visitors who decide while it talks, and a refused store call; other runs
\* that write the same tables, alone and with a visitor.
RunScenarios ==
  {Scenario({"autonomous"}, {"error"}, {v1, v2}, 4, 0, 1, 0, 0),
   Scenario(Modes, AbortSteps, {v1}, 3, 2, 0, 0, 0),
   Scenario(Modes, AbortSteps, {v1}, 2, 1, 1, 1, 0),
   Scenario({"autonomous"}, {"cost_capped"}, {v1}, 2, 0, 0, 0, 2),
   Scenario(Modes, {"cost_capped"}, {v1}, 2, 1, 1, 0, 1)}

\* A re-draft while the approval of another draft is pending.
DraftScenarios ==
  {Scenario({"assisted"}, AbortSteps, {v1}, 3, 1, 0, 0, 0)}

=============================================================================
