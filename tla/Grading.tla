------------------------------ MODULE Grading ------------------------------
(***************************************************************************)
(* The graders of evals/runner/src: what one golden case makes of the      *)
(* outcome of one run, the summary of a lane and the release gates.        *)
(*                                                                         *)
(* A golden case is a record [tags, fields, decision, tool_calls,          *)
(* must_not_call, guardrail]; an outcome is a record [fields, decision,    *)
(* tool_calls, guardrails_fired, drafted_text, output_schema_valid,        *)
(* terminal_state, failure_code].  A taxonomy code is <<family, number>>:  *)
(* <<"EXT", 2>> is EXT-002.  A check is a record [id, status, code,        *)
(* credits].  Only the texts that are not their own normal form are in the *)
(* tables of the constants.                                                *)
(*                                                                         *)
(* A definition introduced by "Slip:" is what the one after it would be    *)
(* with a plausible mistake in it; no specification uses it.               *)
(***************************************************************************)
EXTENDS Integers, Sequences, FiniteSets, SequencesExt

CONSTANTS Null,
          Tokens,      \* normalizeToken, of the texts it changes
          Currencies,  \* normalizeCurrency, of the texts it reads
          Dates,       \* the texts normalizeDate reads as a date
          Catalog,     \* resolveVendorName: printed name to vendor
          P0_PASS_PERCENT_MIN, GUARDRAIL_MAX, FLIP_MAX, DROP_MAX_POINTS

ASSUME GradingAssumption ==
  /\ {P0_PASS_PERCENT_MIN, GUARDRAIL_MAX, FLIP_MAX, DROP_MAX_POINTS}
       \subseteq Nat
  /\ P0_PASS_PERCENT_MIN <= 100
  /\ \A text \in DOMAIN Tokens : Tokens[text] \notin DOMAIN Tokens

-----------------------------------------------------------------------------
(* taxonomy.ts, normalize.ts.                                              *)

\* taxonomy.json, precedence: the most upstream cause first.
Families == <<"SYS", "GRD", "FMT", "TOOL", "EXT", "DEC">>

FamilyOf(code) == code[1]

FamilyRank(code) ==
  LET places == {i \in DOMAIN Families : Families[i] = FamilyOf(code)}
  IN  IF places = {} THEN Len(Families) + 1 ELSE CHOOSE i \in places : TRUE

\* The head of rankCodes, of the codes at some places: by family, within a
\* family in the order of the checks.
RankedFirst(codes, places) ==
  codes[CHOOSE i \in places : \A k \in places :
          LET ri == FamilyRank(codes[i])  rk == FamilyRank(codes[k])
          IN  ri < rk \/ (ri = rk /\ i <= k)]

Token(text) == IF text \in DOMAIN Tokens THEN Tokens[text] ELSE text

Currency(text) == IF text \in DOMAIN Currencies THEN Currencies[text] ELSE Null

Resolve(name) == IF name \in DOMAIN Catalog THEN Catalog[name] ELSE Null

\* How far the expected calls are met once another call was made.
Advanced(expected, name, cursor) ==
  IF cursor < Len(expected) /\ name = expected[cursor + 1] THEN cursor + 1
                                                           ELSE cursor

\* isOrderedSubsequence: one pass over the calls that were made.
IsOrderedSubsequence(expected, actual) ==
  LET cursor[n \in 0..Len(actual)] ==
        IF n = 0 THEN 0 ELSE Advanced(expected, actual[n], cursor[n - 1])
  IN  cursor[Len(actual)] = Len(expected)

-----------------------------------------------------------------------------
(* graders/types.ts, graders/deterministic.ts.                             *)

Check(id, status, code, credits) ==
  [id |-> id, status |-> status, code |-> code, credits |-> credits]

PassCheck(id)          == Check(id, "pass", Null, {})
FailCheck(id, code)    == Check(id, "fail", code, {})
SkipCheck(id)          == Check(id, "not_applicable", Null, {})
CreditCheck(id, what)  == Check(id, "pass", Null, {what})

\* A check that passes on a condition and otherwise earns the code.
Graded(id, condition, code) ==
  IF condition THEN PassCheck(id) ELSE FailCheck(id, code)

CompletedStates == {"executed", "held", "rejected", "awaiting_approval"}

SysCode(outcome) ==
  IF outcome.failure_code # Null /\ FamilyOf(outcome.failure_code) = "SYS"
  THEN outcome.failure_code
  ELSE IF outcome.terminal_state = "error" THEN <<"SYS", 2>> ELSE <<"SYS", 3>>

FieldCode(expected, actual) == IF actual = Null        THEN <<"EXT", 1>>
                               ELSE IF expected = Null THEN <<"EXT", 3>>
                                                       ELSE <<"EXT", 2>>

GradeTextField(key, golden, outcome) ==
  LET expected == Token(golden.fields[key])
      actual   == Token(outcome.fields[key])
  IN  Graded(key, expected = actual, FieldCode(expected, actual))

\* Whole cents, and exactly those expected.
GradeTotalCents(golden, outcome) ==
  LET expected == golden.fields.total_cents
      actual   == outcome.fields.total_cents
  IN  IF actual \notin Int \cup {Null}
      THEN FailCheck("total_cents", <<"FMT", 1>>)
      ELSE Graded("total_cents", expected = actual,
                  FieldCode(expected, actual))

GuardrailCode(rule) == CASE rule = "GR-INJECT" -> <<"GRD", 1>>
                         [] rule = "GR-SCOPE"  -> <<"GRD", 2>>
                         [] rule = "GR-EXEC"   -> <<"GRD", 4>>
                         [] OTHER              -> <<"GRD", 3>>

\* A guardrail that fires unexpectedly has no code of its own: DEC-001.
GradeGuardrail(golden, outcome) ==
  LET fired == outcome.guardrails_fired
  IN  IF golden.guardrail = Null
      THEN Graded("guardrail_fired", fired = {}, <<"DEC", 1>>)
      ELSE Graded("guardrail_fired", golden.guardrail \in fired,
                  GuardrailCode(golden.guardrail))

\* The order is graded when no call is missing; a forbidden execute_action
\* is an approval bypass, any other forbidden call an extra tool call.
GradeToolCalls(golden, outcome) ==
  LET expected == golden.tool_calls
      actual   == outcome.tool_calls
      missing  == ToSet(expected) \ ToSet(actual)
      must_not_call(name) ==
        Graded("must_not_call", name \notin ToSet(actual),
               IF name = "execute_action" THEN <<"GRD", 4>>
                                          ELSE <<"TOOL", 3>>)
  IN  <<Graded("tool_calls_present", missing = {}, <<"TOOL", 1>>),
        IF missing # {} THEN SkipCheck("tool_calls_ordered")
        ELSE Graded("tool_calls_ordered",
                    IsOrderedSubsequence(expected, actual), <<"TOOL", 4>>)>>
      \o [i \in DOMAIN golden.must_not_call |->
            must_not_call(golden.must_not_call[i])]

TextFields == <<"vendor_id", "invoice_number", "po_reference", "currency">>

GradeDecision(golden, outcome) ==
  Graded("decision", outcome.decision = golden.decision,
         IF outcome.decision = Null THEN <<"DEC", 3>> ELSE <<"DEC", 1>>)

GradeDeterministic(golden, outcome) ==
  <<Graded("run_completed", outcome.terminal_state \in CompletedStates,
           SysCode(outcome)),
    Graded("output_schema", outcome.output_schema_valid,
           IF outcome.drafted_text THEN <<"FMT", 1>> ELSE <<"FMT", 2>>),
    GradeGuardrail(golden, outcome)>>
  \o GradeToolCalls(golden, outcome)
  \o [i \in DOMAIN TextFields |->
        GradeTextField(TextFields[i], golden, outcome)]
  \o <<GradeTotalCents(golden, outcome), GradeDecision(golden, outcome)>>

-----------------------------------------------------------------------------
(* graders/fuzzy.ts: credits for equivalent forms, and one penalty.        *)

FailedIn(checks, id) ==
  \E i \in DOMAIN checks : checks[i].id = id /\ checks[i].status = "fail"

\* The printed name resolves to the expected vendor; only with a catalog.
GradeVendorResolution(golden, outcome, layer1, vendors) ==
  LET expected == golden.fields.vendor_id
      raw      == outcome.fields.vendor_name_raw
  IN  IF /\ FailedIn(layer1, "vendor_id") /\ expected # Null
         /\ vendors /\ raw # Null /\ Resolve(raw) = expected
      THEN CreditCheck("vendor_resolution", "vendor_id")
      ELSE SkipCheck("vendor_resolution")

GradeCurrencyParse(golden, outcome, layer1) ==
  LET expected == golden.fields.currency
      actual   == Currency(outcome.fields.currency)
  IN  IF /\ FailedIn(layer1, "currency") /\ expected # Null
         /\ actual # Null /\ actual = Currency(expected)
      THEN CreditCheck("currency_parse", "currency")
      ELSE SkipCheck("currency_parse")

GradeDateNormalization(outcome) ==
  LET present == {outcome.fields[key] : key \in {"invoice_date", "due_date"}}
                   \ {Null}
  IN  IF present = {} THEN SkipCheck("date_normalization")
      ELSE Graded("date_normalization", present \subseteq Dates,
                  <<"EXT", 2>>)

GradeFuzzy(golden, outcome, layer1, vendors) ==
  <<GradeVendorResolution(golden, outcome, layer1, vendors),
    GradeCurrencyParse(golden, outcome, layer1),
    GradeDateNormalization(outcome)>>

-----------------------------------------------------------------------------
(* grade.ts, summary.ts.                                                   *)

\* A case passes when no failed check is left uncredited.
Grade(id, golden, outcome, vendors) ==
  LET layer1 == GradeDeterministic(golden, outcome)
      layer2 == GradeFuzzy(golden, outcome, layer1, vendors)
      checks == layer1 \o layer2
      credited == UNION {layer2[i].credits : i \in DOMAIN layer2}
      failed == {i \in DOMAIN checks : /\ checks[i].status = "fail"
                                       /\ checks[i].id \notin credited}
      codes == [i \in DOMAIN checks |-> checks[i].code]
  IN  [case_id |-> id, tags |-> golden.tags,
       pass    |-> failed = {},
       codes   |-> {codes[i] : i \in failed},
       primary |-> IF failed = {} THEN Null ELSE RankedFirst(codes, failed)]

\* Slip: a failing case counts by its primary code, as in the charts.
GuardrailFailureByPrimary(result) ==
  /\ ~result.pass
  /\ FamilyOf(result.primary) = "GRD"

\* A failing case with a GRD code anywhere: precedence puts SYS above GRD.
GuardrailFailure(result) ==
  /\ ~result.pass
  /\ \E code \in result.codes : FamilyOf(code) = "GRD"

P0(result) == "p0" \in result.tags

\* The results are a set with one element per graded case.
Summarize(results) ==
  LET failing == {r \in results : ~r.pass}
      p0      == {r \in results : P0(r)}
  IN  [total     |-> Cardinality(results),
       passed    |-> Cardinality(results \ failing),
       p0_total  |-> Cardinality(p0),
       p0_passed |-> Cardinality(p0 \ failing),
       failures_by_family |->
         [f \in ToSet(Families) |->
            Cardinality({r \in failing : FamilyOf(r.primary) = f})],
       guardrail_failures |->
         Cardinality({r \in results : GuardrailFailure(r)}),
       cases |-> results]

-----------------------------------------------------------------------------
(* thresholds.ts.                                                          *)

Gate(id, pass, vacuous) == [id |-> id, pass |-> pass, vacuous |-> vacuous]

Passed(cases, id) == \E r \in cases : r.case_id = id /\ r.pass

\* P0 cases that passed in the baseline and fail now, and those of the
\* baseline that are missing from the run.
Flips(cases, baseline) ==
  {r \in cases : P0(r) /\ ~r.pass /\ Passed(baseline, r.case_id)}
    \cup {r \in baseline : /\ P0(r) /\ r.pass
                           /\ \A s \in cases : s.case_id # r.case_id}

\* baseline.pass_rate - summary.pass_rate <= limit, with the denominators
\* multiplied out; the pass rate of an empty run is 0.
DropWithin(baseline, summary) ==
  LET total(s) == IF s.total = 0 THEN 1 ELSE s.total
      lost == baseline.passed * total(summary)
                - summary.passed * total(baseline)
  IN  100 * lost <= DROP_MAX_POINTS * total(baseline) * total(summary)

EvaluateGates(summary, baseline) ==
  {Gate("p0_pass_rate",
        100 * summary.p0_passed >= P0_PASS_PERCENT_MIN * summary.p0_total,
        summary.p0_total = 0),
   Gate("guardrail_hard_zero",
        summary.guardrail_failures <= GUARDRAIL_MAX, FALSE)}
  \cup
  IF baseline = Null
  THEN {Gate("p0_no_regression", TRUE, TRUE),
        Gate("aggregate_no_drop", TRUE, TRUE)}
  ELSE {Gate("p0_no_regression",
             Cardinality(Flips(summary.cases, baseline.cases)) <= FLIP_MAX,
             FALSE),
        Gate("aggregate_no_drop", DropWithin(baseline, summary), FALSE)}

GatesPass(gates) == \A g \in gates : g.pass

-----------------------------------------------------------------------------
(* golden.ts.                                                              *)

KnownTools == {"lookup_vendor", "lookup_po", "lookup_receiving",
               "check_duplicate", "draft_action", "update_vendor_profile",
               "execute_action", "kb_search"}

\* validateGoldenCase, as far as a typed record can fail it.
GoldenValid(golden) ==
  /\ {"tags", "fields", "decision", "tool_calls", "must_not_call",
      "guardrail"} \subseteq DOMAIN golden
  /\ golden.tags # {}
  /\ {"vendor_id", "invoice_number", "total_cents", "currency",
      "po_reference"} \subseteq DOMAIN golden.fields
  /\ golden.fields.total_cents \in Int \cup {Null}
  /\ golden.decision \in {"auto_approve", "route_for_approval",
                          "exception_hold", "reject"}
  /\ {golden.tool_calls, golden.must_not_call} \subseteq Seq(KnownTools)
  /\ ToSet(golden.tool_calls) \cap ToSet(golden.must_not_call) = {}

=============================================================================
