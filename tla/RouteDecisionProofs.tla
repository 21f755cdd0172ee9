------------------------- MODULE RouteDecisionProofs -------------------------
(***************************************************************************)
(* Proofs about RouteDecision for every threshold, every set of vendors,   *)
(* documents, orders and receiving records.                                *)
(*                                                                         *)
(* The invariants speak of the outcome, which is decided from the route,   *)
(* which is the result of a loop.  What links them is Inductive below: the *)
(* route stays at or above the proposal and at or above what every result  *)
(* the loop has passed demands, and equals one of those demands.           *)
(***************************************************************************)
EXTENDS RouteDecision, TLAPS

\* The guardrail results of the current document.
G == Guardrails(document)

\* Before a route exists nothing has been decided.
NothingYet ==
  route = None =>
    /\ stage # "constraining" /\ stage # "gating"
    /\ next = 1 /\ mode = None
    /\ outcome \in {"none", "rejected"}

\* A route comes from the match of exactly these inputs and stays at or above
\* it and every demand passed so far, equal to one of them.
RouteIsSupported ==
  route # None =>
    /\ stage \in {"constraining", "gating", "settled"}
    /\ match = MatchInvoice(document, po, receiving)
    /\ proposed \in Decisions
    /\ Severity(proposed) >= Severity(DecideRoute(document, match))
    /\ Severity(route) >= Severity(proposed)
    /\ \A i \in 1..(next - 1) :
         G[i].block => Severity(route) >= Severity(Minimum(G[i].rule_id))
    /\ \/ Severity(route) = Severity(proposed)
       \/ \E i \in 1..(next - 1) :
            G[i].block /\ Severity(route) = Severity(Minimum(G[i].rule_id))

\* What is read at each later stage was settled at the one before.
StagesAgree ==
  /\ stage = "proposing" => match = MatchInvoice(document, po, receiving)
  /\ stage \in {"screening", "matching", "proposing"} => route = None
  /\ stage \in {"gating", "settled"} /\ route # None => next > Len(G)
  /\ stage = "gating" => route \in {"auto_approve", "route_for_approval"}
  /\ stage # "settled" => outcome = "none" /\ mode = None

\* Only the gate executes, and only when canAutoApprove agrees.
GateDecides ==
  /\ outcome = "executed" => mode = "autonomous"
  /\ mode # None =>
       /\ route # None /\ stage = "settled"
       /\ mode = "autonomous" =>
            (outcome = "executed" <=> CanAutoApprove(mode, route, document, G))

Inductive ==
  /\ TypeOK
  /\ NothingYet
  /\ RouteIsSupported
  /\ StagesAgree
  /\ GateDecides

-----------------------------------------------------------------------------
(* The operators the decision is built from.                               *)

Results == [rule_id : Rules, block : BOOLEAN]

\* The list of guardrail results is well formed, and every screen and check
\* of the document has its place in it.
LEMMA GuardrailsShape ==
  ASSUME NEW d \in DocumentFields
  PROVE  /\ Guardrails(d) \in Seq(Results)
         /\ \E i \in DOMAIN Guardrails(d) :
              Guardrails(d)[i] = Result("GR-INJECT", d.injection)
         /\ d.note = "injection" =>
              \E i \in DOMAIN Guardrails(d) :
                Guardrails(d)[i] = Result("GR-INJECT", TRUE)
         /\ \E i \in DOMAIN Guardrails(d) :
              Guardrails(d)[i] = Result("GR-FLOOR",
                                        d.total >= HARD_FLOOR_CENTS)
         /\ \E i \in DOMAIN Guardrails(d) :
              Guardrails(d)[i] = Result("GR-VENDOR", d.vendor = None)
         /\ \E i \in DOMAIN Guardrails(d) :
              Guardrails(d)[i] = Result("GR-DUP", d.duplicate)
<1> DEFINE inject == Result("GR-INJECT", d.injection)
           noted  == Result("GR-INJECT", d.note = "injection")
           floor  == Result("GR-FLOOR", d.total >= HARD_FLOOR_CENTS)
           vendor == Result("GR-VENDOR", d.vendor = None)
           dup    == Result("GR-DUP", d.duplicate)
<1>0. Guardrails(d) = IF d.note = "none"
                      THEN <<inject, floor, vendor, dup>>
                      ELSE <<inject, noted, floor, vendor, dup>>
  BY DEF Guardrails
<1>1. /\ inject \in Results /\ noted \in Results /\ floor \in Results
      /\ vendor \in Results /\ dup \in Results
  BY DEF Results, Rules, Result, DocumentFields
<1> DEFINE has(result) == \E i \in DOMAIN Guardrails(d) :
                            Guardrails(d)[i] = result
<1> DEFINE listed == /\ Guardrails(d) \in Seq(Results)
                     /\ has(inject) /\ has(floor) /\ has(vendor) /\ has(dup)
                     /\ d.note # "none" => has(noted)
<1> HIDE DEF inject, noted, floor, vendor, dup
<1>2. ASSUME d.note = "none" PROVE listed
  <2>1. Guardrails(d) = <<inject, floor, vendor, dup>>
    BY <1>0, <1>2
  <2>2. /\ 1 \in DOMAIN Guardrails(d) /\ Guardrails(d)[1] = inject
        /\ 2 \in DOMAIN Guardrails(d) /\ Guardrails(d)[2] = floor
        /\ 3 \in DOMAIN Guardrails(d) /\ Guardrails(d)[3] = vendor
        /\ 4 \in DOMAIN Guardrails(d) /\ Guardrails(d)[4] = dup
    BY <2>1
  <2>3. Guardrails(d) \in Seq(Results)
    BY <2>1, <1>1
  <2> QED
    BY <1>2, <2>2, <2>3
<1>3. ASSUME d.note # "none" PROVE listed
  <2>1. Guardrails(d) = <<inject, noted, floor, vendor, dup>>
    BY <1>0, <1>3
  <2>2. /\ 1 \in DOMAIN Guardrails(d) /\ Guardrails(d)[1] = inject
        /\ 2 \in DOMAIN Guardrails(d) /\ Guardrails(d)[2] = noted
        /\ 3 \in DOMAIN Guardrails(d) /\ Guardrails(d)[3] = floor
        /\ 4 \in DOMAIN Guardrails(d) /\ Guardrails(d)[4] = vendor
        /\ 5 \in DOMAIN Guardrails(d) /\ Guardrails(d)[5] = dup
    BY <2>1
  <2>3. Guardrails(d) \in Seq(Results)
    BY <2>1, <1>1
  <2> QED
    BY <2>2, <2>3
<1>4. listed
  BY <1>2, <1>3
<1>5. ASSUME d.note = "injection" PROVE noted = Result("GR-INJECT", TRUE)
  BY <1>5 DEF noted, Result
<1>6. d.note = "injection" => has(Result("GR-INJECT", TRUE))
  <2> SUFFICES ASSUME d.note = "injection"
               PROVE  has(noted)
    BY <1>5
  <2> QED
    BY <1>4
<1>7. /\ Guardrails(d) \in Seq(Results)
      /\ has(inject) /\ has(floor) /\ has(vendor) /\ has(dup)
  BY <1>4
<1> QED
  BY <1>6, <1>7, Zenon DEF inject, floor, vendor, dup

\* Severity ranks the four routes and tells them apart.
LEMMA SeverityRanks ==
  /\ \A r : Severity(r) \in 0..3
  /\ \A q, r \in Decisions : Severity(q) = Severity(r) => q = r
  /\ \A rule : Minimum(rule) \in {"route_for_approval", "exception_hold"}
  /\ \A r : Severity(r) = 0 <=> r = "auto_approve"
BY DEF Severity, Decisions, Minimum

\* Half-up rounding of a percentage is an integer.
LEMMA ToleranceType ==
  ASSUME NEW total \in Int
  PROVE  PriceTolerance(total) \in Int
BY PolicyAssumption DEF PriceTolerance

\* decideRoute answers with a route, and is below exception_hold only for a
\* first submission of a known vendor that matched.
LEMMA DecideRouteMeets ==
  ASSUME NEW d \in DocumentFields, NEW m
  PROVE  /\ DecideRoute(d, m) \in Decisions
         /\ d.duplicate \/ d.vendor = None \/ ~m.matched
              => Severity(DecideRoute(d, m)) = 2
         /\ Severity(DecideRoute(d, m)) = 0
              => m.minor_exceptions = {} /\ d.total <= AUTONOMY_CAP_CENTS
BY DEF DecideRoute, Decisions, Severity

\* The proposal is a route and never below decideRoute's.
LEMMA ProposeIsFloored ==
  ASSUME NEW model \in Decisions \cup {None}, NEW d \in DocumentFields, NEW m
  PROVE  /\ Propose(model, d, m) \in Decisions
         /\ Severity(Propose(model, d, m)) >= Severity(DecideRoute(d, m))
<1>1. DecideRoute(d, m) \in Decisions
  BY DecideRouteMeets
<1>2. Severity(DecideRoute(d, m)) \in Int /\ Severity(model) \in Int
  BY SeverityRanks
<1> QED
  BY <1>1, <1>2 DEF Propose, MoreSevere

\* The match is a record of the two lists of names.
LEMMA MatchType ==
  ASSUME NEW d, NEW p, NEW rec
  PROVE  MatchInvoice(d, p, rec) \in Matches
<1>1. Exceptions(d, p, rec) \subseteq ExceptionNames
  BY DEF Exceptions, HeaderExceptions, OrderExceptions, GoodsExceptions, Flag,
         ExceptionNames
<1>2. MinorExceptions(d, p) \subseteq MinorNames
  BY DEF MinorExceptions, Flag, MinorNames
<1> QED
  BY <1>1, <1>2 DEF MatchInvoice, Matches

-----------------------------------------------------------------------------
(* The invariant is established and kept.                                  *)

\* Every document starts undecided.
LEMMA InitInductive == Init => Inductive
<1> SUFFICES ASSUME Init PROVE Inductive
  OBVIOUS
<1>1. document \in DocumentFields
  BY PolicyAssumption DEF Init
<1>2. /\ po \in OrderFields \cup {None}
      /\ receiving \in ReceivingFields \cup {None}
  BY PolicyAssumption DEF Init
<1>3. next \in 1..(Len(Guardrails(document)) + 1)
  BY <1>1, GuardrailsShape DEF Init
<1> QED
  BY <1>1, <1>2, <1>3
     DEF Init, Inductive, TypeOK, NothingYet, RouteIsSupported, StagesAgree,
         GateDecides, Decisions

\* Screening and matching leave the route open.
LEMMA EarlyInductive ==
  Inductive /\ (Screen \/ Match) => Inductive'
<1> SUFFICES ASSUME Inductive, Screen \/ Match PROVE Inductive'
  OBVIOUS
<1>1. CASE Screen
  BY <1>1
     DEF Screen, inputs, Inductive, TypeOK, NothingYet, RouteIsSupported,
         StagesAgree, GateDecides, G, Decisions
<1>2. CASE Match
  BY <1>2, MatchType
     DEF Match, inputs, Inductive, TypeOK, NothingYet, RouteIsSupported,
         StagesAgree, GateDecides, G, Decisions
<1> QED
  BY <1>1, <1>2

\* The proposal supports itself: no result has been passed yet.
LEMMA ProposeInductive == Inductive /\ ProposeRoute => Inductive'
<1> SUFFICES ASSUME Inductive, ProposeRoute PROVE Inductive'
  OBVIOUS
<1>1. /\ stage = "proposing" /\ stage' = "constraining"
      /\ route' = proposed' /\ next = 1
      /\ UNCHANGED <<document, po, receiving, match, next, constrainedBy,
                     mode, outcome>>
  BY DEF ProposeRoute, inputs, Inductive, NothingYet, StagesAgree
<1>2. /\ proposed' \in Decisions
      /\ Severity(proposed') >= Severity(DecideRoute(document, match))
  BY ProposeIsFloored DEF ProposeRoute, Inductive, TypeOK
<1>3. Severity(proposed') \in Int
  BY SeverityRanks
<1>4. TypeOK'
  BY <1>1, <1>2 DEF Inductive, TypeOK
<1>5. route' # None
  BY <1>1, <1>2, PolicyAssumption DEF Inductive, StagesAgree, Decisions
<1>6. RouteIsSupported'
  BY <1>1, <1>2, <1>3 DEF Inductive, StagesAgree, RouteIsSupported, G
<1> QED
  BY <1>1, <1>4, <1>5, <1>6
     DEF Inductive, NothingYet, StagesAgree, GateDecides, G

\* One iteration of constrainRoute: the demand of the result it looks at is
\* met afterwards, the demands met before still are.
LEMMA ConstrainInductive == Inductive /\ Constrain => Inductive'
<1> SUFFICES ASSUME Inductive, Constrain PROVE Inductive'
  OBVIOUS
<1> DEFINE result == G[next]
           demand == Minimum(result.rule_id)
<1>1. /\ stage = "constraining" /\ stage' = stage
      /\ UNCHANGED <<document, po, receiving, match, proposed, mode, outcome>>
      /\ next' = next + 1 /\ next <= Len(G)
  BY DEF Constrain, inputs, G
<1>2. G' = G /\ G \in Seq(Results) /\ Len(G) \in Nat
  <2>1. G' = G
    BY <1>1 DEF G
  <2>2. G \in Seq(Results)
    BY GuardrailsShape DEF G, Inductive, TypeOK
  <2> QED
    BY <2>1, <2>2
<1>3. next \in 1..Len(G) /\ result \in Results
  BY <1>1, <1>2 DEF Inductive, TypeOK, G
<1>4. \/ /\ Raises(route, result) /\ route' = demand
         /\ constrainedBy' = constrainedBy \cup {result.rule_id}
      \/ /\ ~Raises(route, result) /\ route' = route
         /\ constrainedBy' = constrainedBy
  BY DEF Constrain, G
<1> HIDE DEF result, demand
<1>5. route \in Decisions /\ route # None
  BY <1>1 DEF Inductive, TypeOK, NothingYet
<1>6. demand \in Decisions
  BY SeverityRanks DEF demand, Decisions
<1>7. route' \in Decisions /\ route' # None
  BY <1>4, <1>5, <1>6, PolicyAssumption
<1>8. TypeOK'
  <2>1. constrainedBy' \subseteq Rules
    BY <1>3, <1>4 DEF Inductive, TypeOK, Results
  <2>2. next' \in 1..(Len(Guardrails(document)') + 1)
    BY <1>1, <1>2, <1>3 DEF G
  <2> QED
    BY <1>1, <1>7, <2>1, <2>2 DEF Inductive, TypeOK
<1>9. RouteIsSupported'
  <2>1. /\ Severity(route) \in Int /\ Severity(route') \in Int
        /\ Severity(demand) \in Int /\ Severity(proposed) \in Int
    BY SeverityRanks
  <2>2. /\ Severity(route') >= Severity(route)
        /\ result.block => Severity(route') >= Severity(demand)
        /\ \/ Severity(route') = Severity(route)
           \/ result.block /\ Severity(route') = Severity(demand)
    BY <1>4, <2>1 DEF Raises, demand
  <2>3. ASSUME NEW i \in 1..(next' - 1), G[i].block
        PROVE  Severity(route') >= Severity(Minimum(G[i].rule_id))
    <3>1. Severity(Minimum(G[i].rule_id)) \in Int
      BY SeverityRanks
    <3>2. CASE i = next
      BY <2>2, <2>3, <3>2 DEF result, demand
    <3>3. CASE i # next
      <4>1. i \in 1..(next - 1)
        BY <1>1, <1>3, <3>3
      <4> QED
        BY <1>5, <2>1, <2>2, <2>3, <3>1, <4>1 DEF Inductive, RouteIsSupported
    <3> QED
      BY <3>2, <3>3
  <2>4. \/ Severity(route') = Severity(proposed)
        \/ \E i \in 1..(next' - 1) :
             G[i].block /\ Severity(route') = Severity(Minimum(G[i].rule_id))
    <3>1. CASE Severity(route') = Severity(route)
      BY <1>1, <1>3, <1>5, <3>1 DEF Inductive, RouteIsSupported
    <3>2. CASE result.block /\ Severity(route') = Severity(demand)
      BY <1>1, <1>3, <3>2 DEF result, demand
    <3> QED
      BY <2>2, <3>1, <3>2
  <2>5. Severity(route') >= Severity(proposed)
    BY <1>5, <2>1, <2>2 DEF Inductive, RouteIsSupported
  <2> QED
    BY <1>1, <1>2, <1>5, <2>3, <2>4, <2>5
       DEF Inductive, RouteIsSupported
<1> QED
  BY <1>1, <1>2, <1>7, <1>8, <1>9
     DEF Inductive, NothingYet, StagesAgree, GateDecides

\* A settled route keeps its support, and only a route that approves goes on.
LEMMA DisposeInductive == Inductive /\ Dispose => Inductive'
<1> SUFFICES ASSUME Inductive, Dispose PROVE Inductive'
  OBVIOUS
<1>1. /\ stage = "constraining" /\ next > Len(G) /\ route # None
      /\ G' = G
      /\ UNCHANGED <<document, po, receiving, match, proposed, next, route,
                     constrainedBy, mode>>
  BY DEF Dispose, inputs, G, Inductive, NothingYet
<1>2. \/ stage' = "settled" /\ outcome' \in {"rejected", "held"}
      \/ /\ stage' = "gating" /\ outcome' = outcome
         /\ route \in {"auto_approve", "route_for_approval"}
  BY DEF Dispose
<1> QED
  BY <1>1, <1>2
     DEF Inductive, TypeOK, NothingYet, RouteIsSupported, StagesAgree,
         GateDecides

\* The gate records exactly what canAutoApprove said.
LEMMA GateInductive == Inductive /\ Gate => Inductive'
<1> SUFFICES ASSUME Inductive, Gate PROVE Inductive'
  OBVIOUS
<1>1. /\ stage = "gating" /\ stage' = "settled" /\ mode' \in Modes
      /\ G' = G
      /\ UNCHANGED <<document, po, receiving, match, proposed, next, route,
                     constrainedBy>>
  BY DEF Gate, inputs, G
<1>2. route # None /\ next > Len(G)
  BY <1>1 DEF Inductive, NothingYet, StagesAgree
<1>3. /\ outcome' \in {"simulated", "executed", "awaiting_approval"}
      /\ outcome' = "executed" => mode' = "autonomous"
      /\ mode' = "autonomous" =>
           (outcome' = "executed"
              <=> CanAutoApprove(mode', route, document, G))
  BY DEF Gate, G, CanAutoApprove
<1>4. mode' # None
  BY <1>1, PolicyAssumption
<1> QED
  BY <1>1, <1>2, <1>3, <1>4
     DEF Inductive, TypeOK, NothingYet, RouteIsSupported, StagesAgree,
         GateDecides

\* Every step keeps the invariant.
LEMMA NextInductive == Inductive /\ [Next]_vars => Inductive'
<1> SUFFICES ASSUME Inductive, [Next]_vars PROVE Inductive'
  OBVIOUS
<1>1. CASE Next
  BY <1>1, EarlyInductive, ProposeInductive, ConstrainInductive,
     DisposeInductive, GateInductive DEF Next
<1>2. CASE UNCHANGED vars
  BY <1>2
     DEF vars, inputs, Inductive, TypeOK, NothingYet, RouteIsSupported,
         StagesAgree, GateDecides, G
<1> QED
  BY <1>1, <1>2

\* Hence it always holds.
LEMMA AlwaysInductive == Spec => []Inductive
BY InitInductive, NextInductive, PTL DEF Spec

-----------------------------------------------------------------------------
(* What follows from it.                                                   *)

\* Once the loop is finished the route meets every blocking result.
LEMMA DemandsAreMet ==
  ASSUME Inductive, Decided
  PROVE  \A i \in DOMAIN G :
           G[i].block => Severity(route) >= Severity(Minimum(G[i].rule_id))
<1>1. G \in Seq(Results)
  BY GuardrailsShape DEF G, Inductive, TypeOK
<1>2. next \in Nat /\ next > Len(G) /\ Len(G) \in Nat
  BY <1>1 DEF Decided, G, Inductive, TypeOK
<1>3. \A i \in DOMAIN G : i \in 1..(next - 1)
  BY <1>1, <1>2
<1> QED
  BY <1>3 DEF Inductive, RouteIsSupported, Decided

\* Whatever asks for a hold gets at least a hold: a known duplicate, an
\* unknown vendor, an injected text or note, a failed match.
LEMMA HoldsAreMet ==
  ASSUME Inductive, Decided,
         \/ document.duplicate \/ document.vendor = None \/ Injected(document)
         \/ Exceptions(document, po, receiving) # {}
  PROVE  Severity(route) >= 2
<1> DEFINE d == document
<1>1. d \in DocumentFields
  BY DEF Inductive, TypeOK
<1>2. /\ Severity(route) \in Int /\ Severity(proposed) \in Int
      /\ Severity(DecideRoute(document, match)) \in Int
  BY SeverityRanks
<1>3. /\ match = MatchInvoice(document, po, receiving)
      /\ Severity(route) >= Severity(DecideRoute(document, match))
  BY <1>2 DEF Inductive, RouteIsSupported, Decided
<1>4. CASE \/ document.duplicate \/ document.vendor = None
           \/ Exceptions(document, po, receiving) # {}
  <2>1. document.duplicate \/ document.vendor = None \/ ~match.matched
    BY <1>3, <1>4 DEF MatchInvoice
  <2> QED
    BY <1>1, <1>2, <1>3, <2>1, DecideRouteMeets
<1>5. CASE Injected(document)
  <2>1. \E i \in DOMAIN G : G[i] = Result("GR-INJECT", TRUE)
    <3>1. CASE document.note = "injection"
      BY <1>1, <3>1, GuardrailsShape DEF G
    <3>2. CASE document.injection
      <4>1. document.injection = TRUE
        BY <1>1, <3>2 DEF DocumentFields
      <4> QED
        BY <1>1, <4>1, GuardrailsShape DEF G
    <3> QED
      BY <1>5, <3>1, <3>2 DEF Injected
  <2>2. PICK i \in DOMAIN G : G[i] = Result("GR-INJECT", TRUE)
    BY <2>1
  <2>3. G[i].block /\ G[i].rule_id = "GR-INJECT"
    BY <2>2 DEF Result
  <2> QED
    BY <2>3, DemandsAreMet DEF Minimum, Severity
<1> QED
  BY <1>4, <1>5

\* An eligible route needs a match without even a minor exception, and a
\* total at or under the cap.
LEMMA EligibleIsClean ==
  ASSUME Inductive, Decided, route = "auto_approve"
  PROVE  /\ ~document.duplicate /\ document.vendor # None
         /\ ~Injected(document)
         /\ Exceptions(document, po, receiving) = {}
         /\ MinorExceptions(document, po) = {}
         /\ document.total <= AUTONOMY_CAP_CENTS
         /\ \A i \in DOMAIN G : ~G[i].block
<1>1. Severity(route) = 0 /\ ~(Severity(route) >= 2)
  BY DEF Severity
<1>2. /\ ~document.duplicate /\ document.vendor # None
      /\ ~Injected(document)
      /\ Exceptions(document, po, receiving) = {}
  BY <1>1, HoldsAreMet
<1>3. /\ match = MatchInvoice(document, po, receiving)
      /\ Severity(DecideRoute(document, match)) = 0
  <2>1. /\ Severity(proposed) \in 0..3
        /\ Severity(DecideRoute(document, match)) \in 0..3
    BY SeverityRanks
  <2> QED
    BY <1>1, <2>1 DEF Inductive, RouteIsSupported, Decided
<1>4. match.minor_exceptions = {} /\ document.total <= AUTONOMY_CAP_CENTS
  BY <1>3, DecideRouteMeets DEF Inductive, TypeOK
<1>5. MinorExceptions(document, po) = {}
  BY <1>3, <1>4 DEF MatchInvoice
<1>6. ASSUME NEW i \in DOMAIN G PROVE ~G[i].block
  <2>1. /\ Severity(Minimum(G[i].rule_id)) \in 0..3
        /\ Severity(Minimum(G[i].rule_id)) # 0
    BY SeverityRanks
  <2> QED
    BY <1>1, <2>1, DemandsAreMet
<1> QED
  BY <1>2, <1>4, <1>5, <1>6

\* The decision's variables always have their types.
THEOREM TypeCorrect == Spec => []TypeOK
<1>1. Inductive => TypeOK
  BY DEF Inductive
<1> QED
  BY <1>1, AlwaysInductive, PTL

\* For all thresholds and documents: the policy is a floor under the model.
THEOREM PolicyHolds == Spec => []PolicyIsFloor
<1>1. Inductive => PolicyIsFloor
  <2> SUFFICES ASSUME Inductive, Decided PROVE PolicyIsFloor
    BY DEF PolicyIsFloor
  <2>1. Severity("exception_hold") = 2
    BY DEF Severity
  <2>2. \/ document.duplicate \/ document.vendor = None
        \/ Injected(document)
        \/ Exceptions(document, po, receiving) # {}
        => Severity(route) >= 2
    BY HoldsAreMet
  <2>3. route = "auto_approve" =>
          /\ document.total <= AUTONOMY_CAP_CENTS
          /\ MinorExceptions(document, po) = {}
    BY EligibleIsClean
  <2>4. document.total \in Int /\ AUTONOMY_CAP_CENTS \in Int
    BY PolicyAssumption DEF Inductive, TypeOK, DocumentFields
  <2> QED
    BY <2>1, <2>2, <2>3, <2>4 DEF PolicyIsFloor
<1> QED
  BY <1>1, AlwaysInductive, PTL

\* For all thresholds and documents: the gate and the route never disagree.
THEOREM GateAgrees == Spec => []GateAgreesWithRoute
<1>1. Inductive => GateAgreesWithRoute
  <2> SUFFICES ASSUME Inductive, mode = "autonomous"
               PROVE  outcome = "executed" <=> route = "auto_approve"
    BY DEF GateAgreesWithRoute
  <2>1. mode # None
    BY PolicyAssumption DEF Modes
  <2>2. outcome = "executed" <=> CanAutoApprove(mode, route, document, G)
    BY <2>1 DEF Inductive, GateDecides
  <2>3. Decided
    BY <2>1 DEF Inductive, GateDecides, StagesAgree, Decided, G
  <2>4. ASSUME route = "auto_approve"
        PROVE  CanAutoApprove(mode, route, document, G)
    <3>1. document.total \in Int
      BY DEF Inductive, TypeOK, DocumentFields
    <3> QED
      BY <2>3, <2>4, <3>1, EligibleIsClean, PolicyAssumption
         DEF CanAutoApprove
  <2> QED
    BY <2>2, <2>4 DEF CanAutoApprove
<1> QED
  BY <1>1, AlwaysInductive, PTL

\* No iteration, and no later step, lowers a route once there is one.
THEOREM RouteOnlyRises == Spec => NeverSofter
<1>1. ASSUME Inductive, [Next]_vars, route # None
      PROVE  Severity(route') >= Severity(route)
  <2>1. Severity(route) \in Int /\ Severity(route') \in Int
    BY SeverityRanks
  <2>2. CASE Constrain
    BY <2>1, <2>2 DEF Constrain, Raises
  <2>3. stage \notin {"screening", "matching", "proposing"}
    BY <1>1 DEF Inductive, StagesAgree
  <2>4. CASE UNCHANGED route
    BY <2>1, <2>4
  <2> QED
    BY <1>1, <2>2, <2>3, <2>4
       DEF Next, vars, Screen, Match, ProposeRoute, Dispose, Gate
<1> QED
  BY <1>1, AlwaysInductive, PTL DEF Spec, NeverSofter

\* A match with no exception at all agrees with the order to the cent, and
\* with what was received.
LEMMA CleanMatch ==
  ASSUME NEW d \in DocumentFields, NEW p \in OrderFields \cup {None},
         NEW rec \in ReceivingFields \cup {None},
         d.vendor # None,
         Exceptions(d, p, rec) = {}, MinorExceptions(d, p) = {}
  PROVE  /\ d.usd /\ d.numbered /\ d.dated
         /\ p # None
         /\ p.open /\ p.vendor = d.vendor /\ p.total = d.total
         /\ p.goods => rec # None /\ ~Overbilled(d, p, rec)
<1>1. /\ d.po_reference /\ d.usd /\ d.numbered
  BY DEF Exceptions, HeaderExceptions, Flag
<1>2. d.dated
  BY DEF MinorExceptions, Flag
<1>3. p # None
  BY <1>1 DEF Exceptions, Flag
<1>4. OrderExceptions(d, p) = {} /\ GoodsExceptions(d, p, rec) = {}
  BY <1>3 DEF Exceptions
<1>5. p.open /\ p.vendor = d.vendor
  BY <1>4 DEF OrderExceptions, Flag
<1>6. p.total = d.total
  <2>1. d.total \in Int /\ p.total \in Int
    BY <1>3 DEF DocumentFields, OrderFields
  <2>2. PriceTolerance(p.total) \in Int /\ Variance(d, p) \in Nat
    BY <2>1, ToleranceType DEF Variance
  <2>3. ~(Variance(d, p) > PriceTolerance(p.total))
    BY <1>4 DEF OrderExceptions, Flag
  <2>4. ~(0 < Variance(d, p) /\ Variance(d, p) <= PriceTolerance(p.total))
    BY <1>3 DEF MinorExceptions, Flag
  <2> QED
    BY <2>1, <2>2, <2>3, <2>4 DEF Variance
<1>7. p.goods => rec # None /\ ~Overbilled(d, p, rec)
  BY <1>4 DEF GoodsExceptions, Flag
<1> QED
  BY <1>1, <1>2, <1>3, <1>5, <1>6, <1>7

\* For all thresholds, documents, orders and receiving records: whatever is
\* executed without a human has earned it.
THEOREM AutoExecutionEarned == Spec => []AutoExecutionIsEarned
<1>1. Inductive => AutoExecutionIsEarned
  <2> SUFFICES ASSUME Inductive, outcome = "executed"
               PROVE  AutoExecutionIsEarned
    BY DEF AutoExecutionIsEarned
  <2>1. mode = "autonomous" /\ mode # None
    BY PolicyAssumption DEF Inductive, GateDecides, Modes
  <2>2. route = "auto_approve"
    BY <2>1 DEF Inductive, GateDecides, CanAutoApprove
  <2>3. Decided
    BY <2>1 DEF Inductive, GateDecides, StagesAgree, Decided, G
  <2>4. /\ document \in DocumentFields /\ po \in OrderFields \cup {None}
        /\ receiving \in ReceivingFields \cup {None}
    BY DEF Inductive, TypeOK
  <2> QED
    BY <2>1, <2>2, <2>3, <2>4, EligibleIsClean, CleanMatch
       DEF AutoExecutionIsEarned
<1> QED
  BY <1>1, AlwaysInductive, PTL

\* For all documents: the loop over the results computes the least route that
\* the proposal and every blocking result allow.
THEOREM LeastRoute == Spec => []RouteIsLeastAllowed
<1>1. Inductive => RouteIsLeastAllowed
  <2> SUFFICES ASSUME Inductive, Decided
               PROVE  /\ Severity(route) \in Demands
                      /\ \A demand \in Demands : demand <= Severity(route)
    BY DEF RouteIsLeastAllowed
  <2>1. Severity(route) \in Int /\ Severity(proposed) \in Int
    BY SeverityRanks
  <2>2. G \in Seq(Results) /\ next \in 1..(Len(G) + 1)
    BY GuardrailsShape DEF G, Inductive, TypeOK
  <2>3. \A i \in 1..(next - 1) : i \in DOMAIN G
    BY <2>2
  <2>4. Severity(route) \in Demands
    BY <2>3 DEF Demands, Blocking, G, Inductive, RouteIsSupported, Decided
  <2>5. ASSUME NEW i \in Blocking
        PROVE  Severity(Minimum(Guardrails(document)[i].rule_id))
                 <= Severity(route)
    <3>1. Severity(Minimum(G[i].rule_id)) \in Int
      BY SeverityRanks
    <3> QED
      BY <2>1, <2>5, <3>1, DemandsAreMet DEF Blocking, G
  <2>6. Severity(proposed) <= Severity(route)
    BY <2>1 DEF Inductive, RouteIsSupported, Decided
  <2> QED
    BY <2>4, <2>5, <2>6 DEF Demands
<1> QED
  BY <1>1, AlwaysInductive, PTL

=============================================================================
