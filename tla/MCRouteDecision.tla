--------------------------- MODULE MCRouteDecision ---------------------------
(* RouteDecision at the code's thresholds, with totals on both sides of    *)
(* each of them and at most one flaw in the document's header.             *)
EXTENDS RouteDecision

Headers ==
  {h \in [in_scope : BOOLEAN, po_reference : BOOLEAN, usd : BOOLEAN,
          numbered : BOOLEAN, dated : BOOLEAN] :
     \A f, g \in DOMAIN h : ~h[f] /\ ~h[g] => f = g}

\* On the cap and above it; at, inside and outside the tolerance of an order;
\* on the hard floor.
DocumentTotals == {50000, 50001, 490000, 500000}
OrderTotals == {47500, 50000, 500000}

MCDocuments ==
  {[in_scope |-> h.in_scope, po_reference |-> h.po_reference, usd |-> h.usd,
    numbered |-> h.numbered, dated |-> h.dated, vendor |-> v, total |-> t,
    qty |-> q, injection |-> i, note |-> n, duplicate |-> d] :
     h \in Headers, v \in Vendors \cup {None}, t \in DocumentTotals,
     q \in {0, 2}, i \in BOOLEAN, n \in {"none", "clean", "injection"},
     d \in BOOLEAN}

MCPurchaseOrders ==
  [open : BOOLEAN, vendor : Vendors, total : OrderTotals, goods : BOOLEAN]

MCReceivingRecords == [qty : {1, 2}, value : {40000, 500000}]

=============================================================================
