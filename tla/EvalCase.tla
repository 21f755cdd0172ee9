------------------------------ MODULE EvalCase ------------------------------
(***************************************************************************)
(* What the live lane and the replay lane share of one golden case: its    *)
(* document, the policy over an extraction of it, and the predecessors     *)
(* whose runs fill the ledger first.  Both lanes give every case a store   *)
(* of its own (createLivePipeline of packages/pipeline/src/live-agent.ts,  *)
(* recordCase of evals/runner/src/cassettes/record.ts).                    *)
(***************************************************************************)
EXTENDS Policy, Grading

CONSTANTS GoldenOf,      \* the golden case of each id
          CaseOrder,     \* the ids, by file name
          DocumentOf,    \* what the screens make of each fixture
          PreSeed,       \* PRE_SEED_RUNS: the predecessors of each case
          Parsed,        \* parseFixture: by pipeline version, by case
          FirstVersion,
          Orders,        \* the purchase orders, by reference
          History,       \* the seeded ledger: <<vendor, number>>
          NumberSentinel, DateSentinel

ASSUME CaseAssumption ==
  /\ None = Null
  /\ FirstVersion \in DOMAIN Parsed
  /\ CaseOrder \in Seq(ToSet(CaseOrder))
  /\ DOMAIN GoldenOf \subseteq ToSet(CaseOrder)
  /\ \A c \in DOMAIN GoldenOf : GoldenValid(GoldenOf[c])
  /\ HARD_FLOOR_CENTS \in Int

VARIABLE goldens    \* evals/golden: the cases, by id

\* loadGoldenCases: by file name.
Sorted(ids) == SelectSeq(CaseOrder, LAMBDA c : c \in ids)

\* The vendor and number an extraction is posted under.
Posts(x) == <<Resolve(x.vendor_name_raw), x.invoice_number>>

\* What the match and the guardrails read of an extraction.  The vendor is
\* resolved again from the printed name; the invoices are for services, with
\* no line items and nothing received.
Facts(x, document, ledger) ==
  [po_reference |-> x.po_reference # Null,
   usd          |-> x.currency = "USD",
   numbered     |-> x.invoice_number # NumberSentinel,
   dated        |-> x.invoice_date # DateSentinel,
   vendor       |-> Resolve(x.vendor_name_raw),
   total        |-> x.total_cents,
   qty          |-> 0,
   injection    |-> document.injection,
   note         |-> "none",
   duplicate    |-> Posts(x) \in ledger]

OrderOf(x) == IF x.po_reference \in DOMAIN Orders THEN Orders[x.po_reference]
                                                  ELSE None

\* The route one guardrail result leaves.
Raised(route, result) ==
  IF Raises(route, result) THEN Minimum(result.rule_id) ELSE route

\* constrainRoute, over all guardrail results.
ConstrainRoute(route, guardrails) ==
  LET after[n \in 0..Len(guardrails)] ==
        IF n = 0 THEN route ELSE Raised(after[n - 1], guardrails[n])
  IN  after[Len(guardrails)]

\* The disposed route: the model proposes, the policy is the floor.
Disposed(proposal, x, document, ledger) ==
  LET facts == Facts(x, document, ledger)
  IN  ConstrainRoute(Propose(proposal, facts,
                             MatchInvoice(facts, OrderOf(x), None)),
                     Guardrails(facts))

\* A predecessor runs through the mock pipeline first and, if its document is
\* approved at once, posts its invoice.
PreSeeded(c, version) ==
  {Posts(Parsed[version][p]) : p \in
     {q \in PreSeed[c] :
        /\ ~DocumentOf[q].out_of_scope
        /\ Disposed(None, Parsed[version][q], DocumentOf[q], History)
             = "auto_approve"}}

ApproveRoutes == {"auto_approve", "route_for_approval"}

NoFields ==
  [vendor_id |-> Null, vendor_name_raw |-> Null, invoice_number |-> Null,
   invoice_date |-> Null, due_date |-> Null, total_cents |-> Null,
   currency |-> Null, po_reference |-> Null]

\* The rules with a block verdict on the trace.
Fired(facts) ==
  {Guardrails(facts)[i].rule_id :
     i \in {k \in DOMAIN Guardrails(facts) : Guardrails(facts)[k].block}}

=============================================================================
