----------------------------- MODULE Cassettes -----------------------------
(***************************************************************************)
(* The replay lane: evals/runner/src/cassettes.  Cassettes are recordings  *)
(* of the mock pipeline, one file per golden case; they are committed next *)
(* to a baseline, the summary of their grades.  CI records again, compares *)
(* and replays (.github/workflows/eval-replay.yml).                        *)
(*                                                                         *)
(* A cassette lies under a file name and carries the id of a case, and     *)
(* nothing compares the two: the recorder and the drift check go by the    *)
(* name, the replay goes by the id.  A case's own file has its id as its   *)
(* name (cassetteFileName).                                                *)
(*                                                                         *)
(* A recording is a script run by hand: it loads the golden cases once,    *)
(* then writes one file after the other, and it may stop anywhere.  The    *)
(* pipeline of a commit is a version of its parser.                        *)
(***************************************************************************)
EXTENDS EvalCase

CONSTANTS GoldenSets,     \* the sets of cases a golden directory may hold
          FileOrder,      \* the names a cassette may lie under, sorted
          MaxChanges      \* bound on the changes to the working tree

ASSUME CassetteAssumption ==
  /\ MaxChanges \in Nat
  /\ FileOrder \in Seq(ToSet(FileOrder))
  /\ ToSet(CaseOrder) \subseteq ToSet(FileOrder)
  /\ \A set \in GoldenSets : set \subseteq DOMAIN GoldenOf

VARIABLES
  version,         \* the pipeline in the working tree
  cassettes,       \* evals/cassettes: case_id and outcome, by file name
  replayBaseline,  \* evals/baseline/replay.json, or Null
  recording,       \* a recording under way: its cases and version, or Null
  verdict,         \* what CI says of the tree as it is
  settled,         \* observed: the tree is as a recording left it that ran
                   \* to its end, with nothing changed since it began
  changes

cassetteVars == <<version, cassettes, replayBaseline, recording, verdict,
                  settled, changes>>

-----------------------------------------------------------------------------
(* record.ts.                                                              *)

Called(condition, name) == IF condition THEN <<name>> ELSE <<>>

\* runOne: the mock pipeline in autonomous mode over the ledger, seen through
\* fromTraceEvents.  A rejection by GR-SCOPE comes before the extraction.  The
\* vendor's profile is written by a run that ends, held or executed.
RunOne(c, v, ledger) ==
  LET x == Parsed[v][c]
      facts == Facts(x, DocumentOf[c], ledger)
      route == Disposed(None, x, DocumentOf[c], ledger)
      po == OrderOf(x)
      outcome ==
        [fields |-> [x EXCEPT !.vendor_id = facts.vendor],
         decision |-> route,
         tool_calls |-> <<"lookup_vendor">>
           \o Called(facts.po_reference, "lookup_po")
           \o Called(po # None /\ po.goods, "lookup_receiving")
           \o <<"check_duplicate", "kb_search", "draft_action">>
           \o Called(route \in ApproveRoutes, "execute_action")
           \o Called(route # "route_for_approval" /\ facts.vendor # Null,
                     "update_vendor_profile"),
         guardrails_fired |-> Fired(facts),
         drafted_text |-> TRUE, output_schema_valid |-> TRUE,
         terminal_state |-> IF route = "auto_approve" THEN "executed"
                            ELSE IF route = "route_for_approval"
                            THEN "awaiting_approval" ELSE "held",
         failure_code |-> Null]
  IN  IF ~DocumentOf[c].out_of_scope THEN outcome
      ELSE [outcome EXCEPT !.fields = NoFields, !.decision = "reject",
              !.tool_calls = <<"draft_action">>,
              !.guardrails_fired = {"GR-SCOPE"},
              !.terminal_state = "rejected"]

\* normalizeOutcome: what the parser writes for a missing value is Null.
NormalizeOutcome(outcome) ==
  LET unless(value, sentinel) == IF value = sentinel THEN Null ELSE value
  IN  [outcome EXCEPT
         !.fields.invoice_number = unless(@, NumberSentinel),
         !.fields.total_cents    = unless(@, 0),
         !.fields.invoice_date   = unless(@, DateSentinel)]

\* recordCase: a fresh store, the predecessors, then the case.
RecordCase(c, v) ==
  NormalizeOutcome(RunOne(c, v, History \cup PreSeeded(c, v)))

\* recordCase throws when a predecessor is not in the golden set.
Recordable(c, ids) == PreSeed[c] \subseteq ids

\* toCassette, and the file it is written to.
Cassette(c, outcome) == [case_id |-> c, outcome |-> outcome]

Written(file, c, outcome) ==
  [f \in DOMAIN cassettes \cup {file} |->
     IF f = file THEN Cassette(c, outcome) ELSE cassettes[f]]

\* recordCassettes, the golden cases loaded.
StartRecording ==
  /\ recording = Null
  /\ recording' = [left |-> DOMAIN goldens, ids |-> DOMAIN goldens,
                   version |-> version, since |-> changes]
  /\ UNCHANGED <<goldens, version, cassettes, replayBaseline, verdict, settled,
                 changes>>

Place(order, x) == CHOOSE i \in DOMAIN order : order[i] = x

\* The next case, by file name, is recorded and written; or the recorder throws.
RecordNext(c) ==
  /\ recording # Null
  /\ c \in recording.left
  /\ \A d \in recording.left : Place(CaseOrder, c) <= Place(CaseOrder, d)
  /\ \/ /\ Recordable(c, recording.ids)
        /\ cassettes' = Written(c, c, RecordCase(c, recording.version))
        /\ recording' = [recording EXCEPT !.left = @ \ {c}]
     \/ /\ ~Recordable(c, recording.ids)
        /\ recording' = Null
        /\ UNCHANGED cassettes
  /\ verdict' = "none"
  /\ UNCHANGED <<goldens, version, replayBaseline, settled, changes>>

\* Slip: what is removed are cassettes of cases that are not golden.
PruneUnknown ==
  /\ recording # Null /\ recording.left = {}
  /\ cassettes' = [f \in {g \in DOMAIN cassettes :
                            cassettes[g].case_id \in recording.ids} |->
                     cassettes[f]]
  /\ settled' = (recording.since = changes)
  /\ recording' = Null
  /\ verdict' = "none"
  /\ UNCHANGED <<goldens, version, replayBaseline, changes>>

\* Files that are not the own file of a golden case are removed.
Prune ==
  /\ recording # Null /\ recording.left = {}
  /\ cassettes' = [f \in DOMAIN cassettes \cap recording.ids |-> cassettes[f]]
  /\ settled' = (recording.since = changes)
  /\ recording' = Null
  /\ verdict' = "none"
  /\ UNCHANGED <<goldens, version, replayBaseline, changes>>

\* The script dies between two files.
StopRecording ==
  /\ recording # Null
  /\ recording' = Null
  /\ UNCHANGED <<goldens, version, cassettes, replayBaseline, verdict, settled,
                 changes>>

-----------------------------------------------------------------------------
(* replay.ts, baseline.ts, drift.ts.                                       *)

\* The files that carry a case, and the cases that a file carries.
FilesOf(c) == {f \in DOMAIN cassettes : cassettes[f].case_id = c}
RecordedIds == {cassettes[f].case_id : f \in DOMAIN cassettes}

\* coverageProblems: golden cases and recorded ids, in both directions.
CoverageProblems ==
  (DOMAIN goldens \ RecordedIds) \cup (RecordedIds \ DOMAIN goldens)

\* replay throws on those, and on an empty set of cassettes (one model).
Replayable == CoverageProblems = {} /\ DOMAIN cassettes # {}

\* byId: of the files that carry a case, the last one counts.
Replaying(c) ==
  cassettes[CHOOSE f \in FilesOf(c) :
              \A g \in FilesOf(c) : Place(FileOrder, g) <= Place(FileOrder, f)]

\* Replay grades with the vendor catalog.
Replayed ==
  Summarize({Grade(c, goldens[c], Replaying(c).outcome, TRUE) :
               c \in DOMAIN goldens})

\* Slip: what differs is looked for in the route only.
DriftOfRoutes ==
  {c \in DOMAIN goldens :
     \/ ~Recordable(c, DOMAIN goldens)
     \/ c \notin DOMAIN cassettes
     \/ cassettes[c].outcome.decision # RecordCase(c, version).decision}

\* cassetteDrift: recorded again without pruning, so the golden cases are
\* compared with their own files; a throw of the recorder is a failed check.
DriftProblems ==
  {c \in DOMAIN goldens :
     \/ ~Recordable(c, DOMAIN goldens)
     \/ c \notin DOMAIN cassettes
     \/ cassettes[c] # Cassette(c, RecordCase(c, version))}

\* writeBaseline, after a replay that did not throw.
WriteBaseline ==
  /\ recording = Null
  /\ Replayable
  /\ replayBaseline' = Replayed
  /\ verdict' = "none"
  /\ UNCHANGED <<goldens, version, cassettes, recording, settled, changes>>

\* CI on the tree: check.script.ts, then replay.script.ts, both blocking.
RunCI ==
  /\ recording = Null
  /\ verdict' = IF /\ DriftProblems = {}
                   /\ Replayable
                   /\ Replayed = replayBaseline
                THEN "green" ELSE "red"
  /\ UNCHANGED <<goldens, version, cassettes, replayBaseline, recording,
                 settled, changes>>

-----------------------------------------------------------------------------
(* The working tree changes: code, golden cases, cassettes of a merge.     *)

Change ==
  /\ changes < MaxChanges /\ changes' = changes + 1
  /\ verdict' = "none" /\ settled' = FALSE

ChangePipeline ==
  /\ Change
  /\ version' \in DOMAIN Parsed \ {version}
  /\ UNCHANGED <<goldens, cassettes, replayBaseline, recording>>

\* A golden case is added or removed.
ChangeGoldens(c) ==
  /\ Change
  /\ goldens' = [d \in IF c \in DOMAIN goldens THEN DOMAIN goldens \ {c}
                                               ELSE DOMAIN goldens \cup {c} |->
                   GoldenOf[d]]
  /\ UNCHANGED <<version, cassettes, replayBaseline, recording>>

\* A merge, a copy or a rename leaves a cassette of a case under some name, as
\* some version of the pipeline recorded it.
MergeCassette(c) ==
  /\ Change
  /\ \E f \in ToSet(FileOrder), v \in DOMAIN Parsed :
       cassettes' = Written(f, c, RecordCase(c, v))
  /\ UNCHANGED <<goldens, version, replayBaseline, recording>>

CassetteInit ==
  /\ \E set \in GoldenSets :
       /\ goldens = [c \in set |-> GoldenOf[c]]
       /\ cassettes = [c \in set |-> Cassette(c, RecordCase(c, FirstVersion))]
  /\ version = FirstVersion
  /\ replayBaseline = Null
  /\ recording = Null
  /\ verdict = "none"
  /\ settled = FALSE
  /\ changes = 0

CassetteNext ==
  \/ StartRecording \/ Prune \/ StopRecording
  \/ WriteBaseline \/ RunCI \/ ChangePipeline
  \/ \E c \in ToSet(CaseOrder) :
       RecordNext(c) \/ ChangeGoldens(c) \/ MergeCassette(c)

-----------------------------------------------------------------------------
\* A recording heals the tree: whatever lay there, stale files, files of cases
\* that are gone, copies under other names or the start of a recording that was
\* cut short, once one has run to its end and nothing changed since it began,
\* the replay grades for every golden case what this very pipeline records, and
\* neither of CI's two checks has anything to say of the cassettes.
RecordingHeals ==
  settled =>
    /\ DriftProblems = {} /\ CoverageProblems = {}
    /\ \A c \in DOMAIN goldens :
         Replaying(c) = Cassette(c, RecordCase(c, version))

\* A cassette that lies under another name than its case's.
Stray == {f \in DOMAIN cassettes : cassettes[f].case_id # f}

\* When CI is green and no cassette lies under a strange name, the baseline is
\* what the outcomes grade to that this very pipeline records, the predecessors
\* included: however the tree got there, with a recording cut short, an edit
\* during it, or a merge.  A stray cassette is not noticed by either check.
GreenIsFresh ==
  verdict = "green" /\ Stray = {} =>
    replayBaseline = Summarize({Grade(c, goldens[c], RecordCase(c, version),
                                      TRUE) : c \in DOMAIN goldens})

=============================================================================
