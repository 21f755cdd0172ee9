---------------------------- MODULE MCFirstPass ----------------------------
(***************************************************************************)
(* Two runs of one document, of two documents that carry one invoice, or   *)
(* of two invoices.                                                        *)
(***************************************************************************)
EXTENDS FirstPass, TLC

CONSTANTS u1, u2, d1, d2, i1, i2

Plan(runs, docs, invoices, modes, scripted, visited, r, t, f) ==
  [submitted |-> runs, doc |-> docs, invoice |-> invoices,
   mode |-> modes, scripted |-> scripted, visited |-> visited,
   resets |-> r, arms |-> t, faults |-> f]

Resubmitted == u1 :> d1 @@ u2 :> d1
Separate    == u1 :> d1 @@ u2 :> d2
OneInvoice  == d1 :> i1 @@ d2 :> i1
TwoInvoices == d1 :> i1 @@ d2 :> i2
AsModes(m1, m2) == u1 :> m1 @@ u2 :> m2

PassScenarios ==
  { \* a document submitted twice at once, with a failing payment service
    Plan(Runs, Resubmitted, OneInvoice, AsModes("autonomous", "autonomous"),
         {}, {}, 0, 2, 0),
    \* ... and with a visitor and a failing store
    Plan(Runs, Resubmitted, OneInvoice, AsModes("assisted", "autonomous"),
         {}, {u1}, 0, 0, 1),
    \* an invoice in two documents, one run approved by the script
    Plan(Runs, Separate, OneInvoice, AsModes("assisted", "autonomous"),
         {u1}, {}, 0, 0, 1),
    \* two invoices over the same tables
    Plan(Runs, Separate, TwoInvoices, AsModes("autonomous", "assisted"),
         {}, {u2}, 0, 1, 0),
    \* a shadow run beside a real one
    Plan(Runs, Resubmitted, OneInvoice, AsModes("shadow", "assisted"),
         {}, {u2}, 0, 0, 0),
    \* the nightly reset over a run and its visitor
    Plan({u1}, Resubmitted, OneInvoice, AsModes("assisted", "assisted"),
         {}, {u1}, 1, 0, 0),
    \* a visitor who approves what the script approves
    Plan({u1}, Resubmitted, OneInvoice, AsModes("assisted", "assisted"),
         {u1}, {u1}, 0, 0, 1)}

RaceScenarios ==
  {Plan(Runs, Resubmitted, OneInvoice, AsModes("autonomous", "autonomous"),
        {}, {}, 0, 0, 0)}
=============================================================================
