---------------------------- MODULE RouteDecision ----------------------------
(***************************************************************************)
(* How one document gets its route: three-way match, proposed route,       *)
(* guardrails, approval gate.                                              *)
(*                                                                         *)
(* The match (packages/pipeline/src/match.ts) lists what is wrong with the *)
(* invoice.  A route is proposed: in the mock lane by decideRoute, in the  *)
(* live lane by the model, with decideRoute as the floor.  constrainRoute  *)
(* (packages/agent/src/guardrails.ts) then walks over the guardrail        *)
(* results and may raise the route, one result per iteration.  A route     *)
(* that approves goes through the gate (packages/agent/src/approval.ts),   *)
(* which executes at once only if canAutoApprove says so.                  *)
(*                                                                         *)
(* A document is what the parser and the screens make of its text; a       *)
(* purchase order and a receiving record are the totals the match reads.   *)
(***************************************************************************)
EXTENDS Policy

CONSTANTS Documents, PurchaseOrders, ReceivingRecords   \* what may arrive

DocumentFields ==
  [in_scope : BOOLEAN, po_reference : BOOLEAN, usd : BOOLEAN,
   numbered : BOOLEAN, dated : BOOLEAN, vendor : Vendors \cup {None},
   total : Int, qty : Nat, injection : BOOLEAN,
   note : {"none", "clean", "injection"}, duplicate : BOOLEAN]

OrderFields ==
  [open : BOOLEAN, vendor : Vendors, total : Int, goods : BOOLEAN]

ReceivingFields == [qty : Nat, value : Int]

ASSUME PolicyAssumption ==
  /\ AUTONOMY_CAP_CENTS \in Nat /\ HARD_FLOOR_CENTS \in Nat
  /\ AUTONOMY_CAP_CENTS < HARD_FLOOR_CENTS
  /\ PRICE_TOLERANCE_PERCENT \in Nat /\ PRICE_TOLERANCE_MIN_CENTS \in Nat
  /\ None \notin Vendors \cup Decisions \cup Modes
  /\ Documents \subseteq DocumentFields
  /\ PurchaseOrders \subseteq OrderFields
  /\ ReceivingRecords \subseteq ReceivingFields

VARIABLES
  stage,          \* where the decision stands
  document, po, receiving,
  match,          \* what matchInvoice returned
  proposed,       \* the route going into constrainRoute
  next,           \* the guardrail result it looks at next
  route,          \* its local variable route
  constrainedBy,  \* the rules that raised the route
  mode,           \* the run's mode, once the gate reads it
  outcome         \* what became of the document

inputs == <<document, po, receiving>>
vars == <<stage, inputs, match, proposed, next, route, constrainedBy,
          mode, outcome>>

-----------------------------------------------------------------------------
Init ==
  /\ stage = "screening"
  /\ document \in Documents
  /\ po \in IF document.po_reference THEN PurchaseOrders \cup {None}
                                     ELSE {None}
  /\ receiving \in IF po # None /\ po.goods THEN ReceivingRecords \cup {None}
                                            ELSE {None}
  /\ match = None
  /\ proposed = None /\ route = None
  /\ next = 1
  /\ constrainedBy = {}
  /\ mode = None
  /\ outcome = "none"

\* checkScope: a document that does not look like an invoice is rejected
\* before anything else is read.
Screen ==
  /\ stage = "screening"
  /\ IF document.in_scope
     THEN stage' = "matching" /\ UNCHANGED outcome
     ELSE stage' = "settled" /\ outcome' = "rejected"
  /\ UNCHANGED <<inputs, match, proposed, next, route, constrainedBy,
                 mode>>

Match ==
  /\ stage = "matching"
  /\ match' = MatchInvoice(document, po, receiving)
  /\ stage' = "proposing"
  /\ UNCHANGED <<inputs, proposed, next, route, constrainedBy, mode, outcome>>

ProposeRoute ==
  /\ stage = "proposing"
  /\ \E model \in Decisions \cup {None} :
        proposed' = Propose(model, document, match)
  /\ route' = proposed'
  /\ stage' = "constraining"
  /\ UNCHANGED <<inputs, match, next, constrainedBy, mode, outcome>>

\* One iteration of constrainRoute's loop.
Constrain ==
  /\ stage = "constraining"
  /\ next <= Len(Guardrails(document))
  /\ LET result == Guardrails(document)[next]
     IN  IF Raises(route, result)
         THEN /\ route' = Minimum(result.rule_id)
              /\ constrainedBy' = constrainedBy \cup {result.rule_id}
         ELSE UNCHANGED <<route, constrainedBy>>
  /\ next' = next + 1
  /\ UNCHANGED <<stage, inputs, match, proposed, mode, outcome>>

\* A route that does not approve settles the run; the others meet the gate.
Dispose ==
  /\ stage = "constraining"
  /\ next > Len(Guardrails(document))
  /\ \/ route = "reject"         /\ outcome' = "rejected" /\ stage' = "settled"
     \/ route = "exception_hold" /\ outcome' = "held"     /\ stage' = "settled"
     \/ route \in {"auto_approve", "route_for_approval"}
          /\ stage' = "gating" /\ UNCHANGED outcome
  /\ UNCHANGED <<inputs, match, proposed, next, route, constrainedBy,
                 mode>>

\* The gate, on a run that has no approval record yet.  Nothing before it
\* depends on the mode, so the mode is chosen here.
Gate ==
  /\ stage = "gating"
  /\ mode' \in Modes
  /\ outcome' = IF mode' = "shadow" THEN "simulated"
                ELSE IF CanAutoApprove(mode', route, document,
                                       Guardrails(document))
                     THEN "executed" ELSE "awaiting_approval"
  /\ stage' = "settled"
  /\ UNCHANGED <<inputs, match, proposed, next, route, constrainedBy>>

Next == Screen \/ Match \/ ProposeRoute \/ Constrain \/ Dispose \/ Gate

Spec == Init /\ [][Next]_vars

-----------------------------------------------------------------------------
ExceptionNames ==
  {"missing_po_reference", "non_usd_currency", "missing_invoice_number",
   "po_closed", "po_vendor_mismatch", "price_variance_exceeds_tolerance",
   "receiving_record_missing", "qty_billed_exceeds_received", "po_not_found"}
MinorNames == {"date_ambiguity", "price_variance_within_tolerance"}
Rules == {"GR-INJECT", "GR-FLOOR", "GR-VENDOR", "GR-DUP"}
Matches ==
  [matched : BOOLEAN, exceptions : SUBSET ExceptionNames,
   minor_exceptions : SUBSET MinorNames]

\* The decision's variables keep their shape from stage to stage.
TypeOK ==
  /\ stage \in {"screening", "matching", "proposing", "constraining",
                "gating", "settled"}
  /\ document \in DocumentFields
  /\ po \in OrderFields \cup {None}
  /\ receiving \in ReceivingFields \cup {None}
  /\ match \in Matches \cup {None}
  /\ proposed \in Decisions \cup {None}
  /\ next \in 1..(Len(Guardrails(document)) + 1)
  /\ route \in Decisions \cup {None}
  /\ constrainedBy \subseteq Rules
  /\ mode \in Modes \cup {None}
  /\ outcome \in {"none", "rejected", "held", "simulated", "executed",
                  "awaiting_approval"}

-----------------------------------------------------------------------------
(* What must be true of every decision, whatever the model proposed.       *)

Injected(d) == d.injection \/ d.note = "injection"

\* constrainRoute has looked at every guardrail result.
Decided == route # None /\ next > Len(Guardrails(document))

\* Money moves without a human only in autonomous mode, for a known vendor's
\* first submission, screened clean, at or under the cap, that is exactly
\* what an open order of that vendor says and, for goods, what was received.
AutoExecutionIsEarned ==
  outcome = "executed" =>
    /\ mode = "autonomous"
    /\ document.total <= AUTONOMY_CAP_CENTS
    /\ ~document.duplicate /\ ~Injected(document)
    /\ document.usd /\ document.numbered /\ document.dated
    /\ po # None
    /\ po.open /\ po.vendor = document.vendor /\ po.total = document.total
    /\ po.goods => receiving # None /\ ~Overbilled(document, po, receiving)

\* The model cannot talk the policy down: whatever it proposed, an exception
\* is at least held, and only a clean match at or under the cap is eligible
\* for autonomy.
PolicyIsFloor ==
  Decided =>
    /\ \/ document.duplicate \/ document.vendor = None
       \/ Injected(document)
       \/ Exceptions(document, po, receiving) # {}
       => Severity(route) >= Severity("exception_hold")
    /\ \/ document.total > AUTONOMY_CAP_CENTS
       \/ MinorExceptions(document, po) # {}
       => route # "auto_approve"

\* constrainRoute returns the least route at or above the proposed one that
\* every blocking result allows, though it looks at one result at a time.
Blocking == {i \in DOMAIN Guardrails(document) : Guardrails(document)[i].block}

Demands ==
  {Severity(proposed)}
    \cup {Severity(Minimum(Guardrails(document)[i].rule_id)) : i \in Blocking}

RouteIsLeastAllowed ==
  Decided => /\ Severity(route) \in Demands
             /\ \A demand \in Demands : demand <= Severity(route)

\* Code may escalate, never soften: no iteration lowers the route.
NeverSofter ==
  [][route # None => Severity(route') >= Severity(route)]_vars

\* The gate reads the policy a second time, from the facts.  The two readings
\* never disagree: in autonomous mode the eligible route is always executed
\* and no other one ever is.
GateAgreesWithRoute ==
  mode = "autonomous" =>
    (outcome = "executed" <=> route = "auto_approve")

=============================================================================
