---------------------------- MODULE MCEvalSuite ----------------------------
(***************************************************************************)
(* Three golden cases: an invoice that pays itself, the same invoice once  *)
(* more (its predecessor pays first), and a memo that is no invoice.  Each *)
(* document can be misread: a number, a date, the currency's symbol.       *)
(***************************************************************************)
EXTENDS EvalSuite, TLC

MCTokens     == "inv-1" :> "INV-1" @@ "Usd" :> "USD" @@ "" :> Null
MCCurrencies == "USD" :> "USD" @@ "US$" :> "USD"
MCCatalog    == "Corvida" :> "v1"
MCOrders     ==
  "PO-1" :> [open |-> TRUE, vendor |-> "v1", total |-> 400, goods |-> FALSE]

Right ==
  [vendor_id |-> Null, vendor_name_raw |-> "Corvida",
   invoice_number |-> "INV-1", invoice_date |-> "2026-08-03",
   due_date |-> Null, total_cents |-> 400, currency |-> "USD",
   po_reference |-> "PO-1"]
Undated     == [Right EXCEPT !.invoice_date = DateSentinel]
Renumbered  == [Right EXCEPT !.invoice_number = "INV-2"]
Symbol      == [Right EXCEPT !.currency = "US$"]
LowerCase   == [Right EXCEPT !.invoice_number = "inv-1"]

Fields == [vendor_id |-> "v1", invoice_number |-> "INV-1",
           total_cents |-> 400, currency |-> "USD", po_reference |-> "PO-1"]
Blank  == [f \in DOMAIN Fields |-> Null]

MCGoldenOf ==
  "pays" :> [tags |-> {"p0"}, fields |-> Fields, decision |-> "auto_approve",
             tool_calls |-> <<"draft_action", "execute_action">>,
             must_not_call |-> <<>>, guardrail |-> Null]
  @@
  "again" :> [tags |-> {"p0"}, fields |-> Fields,
              decision |-> "exception_hold",
              tool_calls |-> <<"draft_action">>,
              must_not_call |-> <<"execute_action">>, guardrail |-> "GR-DUP"]
  @@
  "memo" :> [tags |-> {"edge"}, fields |-> Blank, decision |-> "reject",
             tool_calls |-> <<"draft_action">>,
             must_not_call |-> <<"execute_action">>, guardrail |-> "GR-SCOPE"]

MCDocumentOf ==
  [c \in {"pays", "again", "memo"} |->
     [out_of_scope |-> c = "memo", injection |-> FALSE]]

MCPreSeed == [c \in {"pays", "again", "memo"} |->
                IF c = "again" THEN {"pays"} ELSE {}]

\* The second parser misses a date and reads a currency as it is printed.
MCParsed ==
  "parser1" :> [c \in {"pays", "again", "memo"} |-> Right]
  @@ "parser2" :> [c \in {"pays", "again", "memo"} |->
                     IF c = "pays" THEN Undated ELSE Symbol]

All == {"pays", "again", "memo"}
MCSets == {All, {"pays"}, {"again", "memo"}}
MCCaseOrder == <<"again", "memo", "pays">>
\* A copy of a cassette may lie there under one other name.
MCFileOrder == <<"again", "memo", "pays", "pays2">>

MCExtractions ==
  "pays" :> {Right, Undated, LowerCase} @@ "again" :> {Right, Renumbered}
    @@ "memo" :> {Right}
MCProposals ==
  [c \in All |-> IF c = "memo" THEN {"reject"} ELSE {"auto_approve"}]

\* Four turns reach a draft after an execution, and the model's stop.
MCMaxRounds == [c \in All |-> IF c = "pays" THEN 4 ELSE 2]

\* Nothing published yet, or a lane that got everything right.
MCBaselines ==
  {Null,
   Summarize({[case_id |-> c, tags |-> MCGoldenOf[c].tags, pass |-> TRUE,
               codes |-> {}, primary |-> Null] : c \in All})}
=============================================================================
