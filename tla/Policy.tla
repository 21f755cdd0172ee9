------------------------------- MODULE Policy -------------------------------
(***************************************************************************)
(* The deterministic policy, shared by both lanes: the three-way match     *)
(* (packages/pipeline/src/match.ts), the route it leads to, the guardrails *)
(* (packages/agent/src/guardrails.ts) and the gate's own reading of it     *)
(* (canAutoApprove, packages/agent/src/approval.ts).                       *)
(*                                                                         *)
(* A document is a record of what the parser and the screens make of its   *)
(* text; an order and a receiving record are the totals the match reads.   *)
(* A definition introduced by "Slip:" is what the one after it would be    *)
(* with a plausible mistake in it; no specification uses it.               *)
(***************************************************************************)
EXTENDS Integers, Sequences

CONSTANTS AUTONOMY_CAP_CENTS, HARD_FLOOR_CENTS,
          PRICE_TOLERANCE_PERCENT, PRICE_TOLERANCE_MIN_CENTS,
          Vendors,          \* the ERP's canonical vendors
          None              \* null: no vendor, no record, no model

Modes == {"shadow", "assisted", "autonomous"}
Decisions == {"auto_approve", "route_for_approval", "exception_hold", "reject"}

-----------------------------------------------------------------------------
(* matchInvoice.                                                           *)

\* Math.round(pct * total), at least the minimum.  Math.round rounds half up.
PriceTolerance(total) ==
  LET rounded == (PRICE_TOLERANCE_PERCENT * total + 50) \div 100
  IN  IF rounded > PRICE_TOLERANCE_MIN_CENTS THEN rounded
                                             ELSE PRICE_TOLERANCE_MIN_CENTS

Variance(d, p) == IF d.total >= p.total THEN d.total - p.total
                                        ELSE p.total - d.total

\* More billed than received: by quantity, or by value when the invoice has
\* no parsed lines.
Overbilled(d, p, rec) ==
  IF d.qty > 0 THEN d.qty > rec.qty
               ELSE d.total > rec.value + PriceTolerance(p.total)

Flag(condition, name) == IF condition THEN {name} ELSE {}

HeaderExceptions(d) ==
  Flag(~d.po_reference, "missing_po_reference")
    \cup Flag(~d.usd, "non_usd_currency")
    \cup Flag(~d.numbered, "missing_invoice_number")

OrderExceptions(d, p) ==
  Flag(~p.open, "po_closed")
    \cup Flag(d.vendor # None /\ p.vendor # d.vendor, "po_vendor_mismatch")
    \cup Flag(Variance(d, p) > PriceTolerance(p.total),
              "price_variance_exceeds_tolerance")

GoodsExceptions(d, p, rec) ==
  IF ~p.goods THEN {}
  ELSE IF rec = None THEN {"receiving_record_missing"}
  ELSE Flag(Overbilled(d, p, rec), "qty_billed_exceeds_received")

Exceptions(d, p, rec) ==
  HeaderExceptions(d)
    \cup IF p = None THEN Flag(d.po_reference, "po_not_found")
                     ELSE OrderExceptions(d, p) \cup GoodsExceptions(d, p, rec)

\* Slip: a variance within the tolerance counts as a full match.
MinorWithoutVariance(d, p) == Flag(~d.dated, "date_ambiguity")

MinorExceptions(d, p) ==
  Flag(~d.dated, "date_ambiguity")
    \cup IF p = None THEN {}
         ELSE Flag(0 < Variance(d, p)
                     /\ Variance(d, p) <= PriceTolerance(p.total),
                   "price_variance_within_tolerance")

MatchInvoice(d, p, rec) ==
  [matched          |-> Exceptions(d, p, rec) = {},
   exceptions       |-> Exceptions(d, p, rec),
   minor_exceptions |-> MinorExceptions(d, p)]

-----------------------------------------------------------------------------
(* Routes.                                                                 *)

\* ROUTE_SEVERITY.
Severity(r) == IF r = "auto_approve"            THEN 0
               ELSE IF r = "route_for_approval" THEN 1
               ELSE IF r = "exception_hold"     THEN 2 ELSE 3

MoreSevere(a, b) == IF Severity(a) >= Severity(b) THEN a ELSE b

DecideRoute(d, m) ==
  IF d.duplicate \/ d.vendor = None \/ ~m.matched THEN "exception_hold"
  ELSE IF m.minor_exceptions # {}                 THEN "route_for_approval"
  ELSE IF d.total <= AUTONOMY_CAP_CENTS           THEN "auto_approve"
  ELSE "route_for_approval"

\* Slip: the live lane takes the model's route as it comes.
ProposeAsModel(model, d, m) == IF model = None THEN DecideRoute(d, m)
                                               ELSE model

\* The mock lane has no model; in the live lane the model's route counts
\* only as far as it is the more severe one.
Propose(model, d, m) ==
  IF model = None THEN DecideRoute(d, m)
                  ELSE MoreSevere(model, DecideRoute(d, m))

Result(rule, blocks) == [rule_id |-> rule, block |-> blocks]

\* checkInjection (document, then note), checkFloor, checkVendor and
\* checkDuplicate, in the order both lanes hand them to constrainRoute.
Guardrails(d) ==
  LET inject == Result("GR-INJECT", d.injection)
      noted  == Result("GR-INJECT", d.note = "injection")
      floor  == Result("GR-FLOOR", d.total >= HARD_FLOOR_CENTS)
      vendor == Result("GR-VENDOR", d.vendor = None)
      dup    == Result("GR-DUP", d.duplicate)
  IN  IF d.note = "none" THEN <<inject, floor, vendor, dup>>
                         ELSE <<inject, noted, floor, vendor, dup>>

\* The least severe route a blocking result leaves open.
Minimum(rule) == IF rule = "GR-FLOOR" THEN "route_for_approval"
                                      ELSE "exception_hold"

\* Slip: any other route is replaced, a more severe one too.
RaisesAny(r, result) == result.block /\ r # Minimum(result.rule_id)

\* atLeast: whether this result changes the route.
Raises(r, result) ==
  result.block /\ Severity(r) < Severity(Minimum(result.rule_id))

\* Slip: only the cap is looked at.
CanAutoApproveUnderCap(in, r, d, guardrails) ==
  in = "autonomous" /\ d.total <= AUTONOMY_CAP_CENTS

\* canAutoApprove: the gate's own reading of the policy.
CanAutoApprove(in, r, d, guardrails) ==
  /\ in = "autonomous"
  /\ r = "auto_approve"
  /\ d.vendor # None
  /\ d.total < HARD_FLOOR_CENTS
  /\ d.total <= AUTONOMY_CAP_CENTS
  /\ \A i \in DOMAIN guardrails : ~guardrails[i].block

=============================================================================
