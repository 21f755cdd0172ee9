------------------------- MODULE ContainmentProofs -------------------------
(***************************************************************************)
(* Proofs about Containment for any number of handlers and sessions, any   *)
(* windows, limits, caps and budgets, any number of failed calls, crashes, *)
(* resets and requests.                                                    *)
(*                                                                         *)
(* Each limit is compared with what was read some steps earlier.  The      *)
(* invariants therefore count, besides what was used up, the handlers that *)
(* have read and not yet acted: Candidates for the windows, Spending for   *)
(* the budget.                                                             *)
(***************************************************************************)
EXTENDS Containment, FiniteSetTheorems, TLAPS

IntakeLabels == {"capacity", "current", "previous", "count", "session",
                 "stamp", "run", "settled", "refund", "giveback"}

\* What a handler's variables hold at each place: the intake has a session,
\* and what a live run cost is bounded.
LocalsFit ==
  \A h \in Handlers :
    /\ pc[h] \in IntakeLabels => Visitor(h) \in Sessions
    /\ pc[h] = "book" => Seen(h) \in 0..MaxCost

Typed == TypeOK /\ LocalsFit

-----------------------------------------------------------------------------
(* Arithmetic of the windows.                                              *)

LEMMA TicksType == /\ \A w \in Windows : Ticks(w) \in Nat \ {0}
                   /\ \A w \in Windows : Limit(w) \in Nat
  BY ContainmentAssumption DEF Windows, Ticks, Limit

\* Every tick falls into a bucket, and so does the tick a window before it.
LEMMA BucketType ==
  ASSUME NEW w \in Windows, NEW t \in 0..MaxTicks
  PROVE  Bucket(w, t) \in Buckets /\ Bucket(w, t) - 1 \in Buckets
         /\ Bucket(w, t) \in Nat
<1>1. Ticks(w) \in Nat \ {0} /\ t \in Nat /\ MaxTicks \in Nat
  BY TicksType, ContainmentAssumption
<1>2. \A k \in Nat \ {0} : t \div k \in 0..t
  BY <1>1
<1> QED
  BY <1>1, <1>2 DEF Bucket, Buckets

-----------------------------------------------------------------------------
(* Types.                                                                  *)

\* A request's variables stay a request's when one of them is set.
LEMMA RequestType ==
  ASSUME NEW r \in Request
  PROVE  /\ r.serial \in Nat /\ r.visitor \in Sessions \cup {Nobody}
         /\ r.now \in 0..MaxTicks /\ r.window \in Windows /\ r.seen \in Int
         /\ \A n \in Int : [r EXCEPT !.seen = n] \in Request
         /\ \A n \in Int :
              [r EXCEPT !.window = "d", !.seen = n] \in Request
         /\ \A n \in Nat, v \in Sessions :
              [r EXCEPT !.serial = n, !.visitor = v] \in Request
         /\ \A t \in 0..MaxTicks : [r EXCEPT !.now = t] \in Request
         /\ [r EXCEPT !.caught = TRUE] \in Request
<1>1. /\ r.serial \in Nat /\ r.visitor \in Sessions \cup {Nobody}
      /\ r.now \in 0..MaxTicks /\ r.window \in Windows /\ r.seen \in Int
  BY DEF Request
<1>2. \A n \in Int : [r EXCEPT !.seen = n] \in Request
  BY DEF Request
<1>3. \A n \in Int : [r EXCEPT !.window = "d", !.seen = n] \in Request
  BY DEF Request, Windows
<1>4. \A n \in Nat, v \in Sessions :
        [r EXCEPT !.serial = n, !.visitor = v] \in Request
  BY DEF Request
<1>5. \A t \in 0..MaxTicks : [r EXCEPT !.now = t] \in Request
  BY DEF Request
<1>6. [r EXCEPT !.caught = TRUE] \in Request
  BY DEF Request
<1> QED
  BY <1>1, <1>2, <1>3, <1>4, <1>5, <1>6

LEMMA NoRequestType == NoRequest \in Request
<1>1. 0 \in 0..MaxTicks
  BY ContainmentAssumption
<1> QED
  BY <1>1 DEF NoRequest, Request, Windows

\* So does a session's key.
LEMMA CounterType ==
  ASSUME NEW c \in Counter
  PROVE  /\ c.runs \in Int
         /\ \A n \in Int :
              [c EXCEPT !.exists = TRUE, !.runs = n] \in Counter
         /\ \A t \in Nat :
              [c EXCEPT !.expires = TRUE, !.at = t] \in Counter
<1>1. c.runs \in Int
  BY DEF Counter
<1>2. \A n \in Int : [c EXCEPT !.exists = TRUE, !.runs = n] \in Counter
  BY DEF Counter
<1>3. \A t \in Nat : [c EXCEPT !.expires = TRUE, !.at = t] \in Counter
  BY DEF Counter
<1> QED
  BY <1>1, <1>2, <1>3

LEMMA NoCounterType == NoCounter \in Counter
  BY DEF NoCounter, Counter

\* A handler that moves to a place its variables fit leaves all of them fit.
LEMMA MoveFits ==
  ASSUME Typed, NEW h \in Handlers, NEW to \in Labels, NEW r \in Request,
         Goes(h, to), local' = [local EXCEPT ![h] = r],
         to \in IntakeLabels => r.visitor \in Sessions,
         to = "book" => r.seen \in 0..MaxCost
  PROVE  /\ pc' \in [Handlers -> Labels]
         /\ local' \in [Handlers -> Request]
         /\ LocalsFit'
  BY DEF Typed, TypeOK, LocalsFit, Goes, Visitor, Seen

LEMMA LeaveFits ==
  ASSUME Typed, NEW h \in Handlers, Leaves(h)
  PROVE  /\ pc' \in [Handlers -> Labels]
         /\ local' \in [Handlers -> Request]
         /\ LocalsFit'
  BY NoRequestType, MoveFits DEF Leaves, Labels, IntakeLabels

\* A move that leaves the handler's variables alone, or sets only what it saw.
LEMMA GoFits ==
  ASSUME Typed, NEW h \in Handlers, NEW to \in Labels, Goes(h, to),
         UNCHANGED local \/ \E n \in Int : Sees(h, n),
         to \in IntakeLabels => pc[h] \in IntakeLabels,
         to = "book" => Seen(h)' \in 0..MaxCost
  PROVE  /\ pc' \in [Handlers -> Labels]
         /\ local' \in [Handlers -> Request]
         /\ LocalsFit'
<1>1. local[h] \in Request /\ local \in [Handlers -> Request]
  BY DEF Typed, TypeOK
<1>2. pc[h] \in IntakeLabels => local[h].visitor \in Sessions
  BY DEF Typed, LocalsFit, Visitor
<1>3. CASE UNCHANGED local
  <2>1. local' = [local EXCEPT ![h] = local[h]]
    BY <1>1, <1>3
  <2> QED
    BY <1>1, <1>2, <1>3, <2>1, MoveFits DEF Seen
<1>4. ASSUME NEW n \in Int, Sees(h, n)
      PROVE  /\ pc' \in [Handlers -> Labels]
             /\ local' \in [Handlers -> Request]
             /\ LocalsFit'
  <2> DEFINE r == [local[h] EXCEPT !.seen = n]
  <2>1. r \in Request /\ r.visitor = local[h].visitor /\ r.seen = n
    BY <1>1, RequestType DEF Request
  <2>2. local' = [local EXCEPT ![h] = r]
    BY <1>4 DEF Sees
  <2>3. Seen(h)' = n
    BY <1>1, <2>1, <2>2 DEF Seen
  <2> HIDE DEF r
  <2> QED
    BY <1>2, <2>1, <2>2, <2>3, MoveFits
<1> QED
  BY <1>3, <1>4

\* What a store call writes, applied by the call or by one that failed.
LEMMA StoreFits ==
  ASSUME Typed, NEW h \in Handlers
  PROVE  /\ pc[h] = "count" /\ RateCounted(h) =>
              rate' \in [Windows -> [Buckets -> Nat]]
         /\ pc[h] = "session" /\ Charged(h) =>
              /\ session' \in [Sessions -> Counter]
              /\ charged' \in [Sessions -> SUBSET Nat]
         /\ pc[h] = "stamp" /\ Stamped(h) =>
              session' \in [Sessions -> Counter]
         /\ pc[h] = "giveback" /\ GivenBack(h) =>
              /\ session' \in [Sessions -> Counter]
              /\ charged' \in [Sessions -> SUBSET Nat]
              /\ overcredit' \in [Sessions -> Nat]
         /\ pc[h] = "book" /\ Booked(h) => budget' \in [Buckets -> Nat]
<1>1. /\ local[h] \in Request /\ clock \in 0..MaxTicks
      /\ rate \in [Windows -> [Buckets -> Nat]]
      /\ session \in [Sessions -> Counter]
      /\ charged \in [Sessions -> SUBSET Nat]
      /\ overcredit \in [Sessions -> Nat]
      /\ budget \in [Buckets -> Nat]
  BY DEF Typed, TypeOK
<1>2. pc[h] \in IntakeLabels => Visitor(h) \in Sessions
  BY DEF Typed, LocalsFit
<1>3. ASSUME pc[h] = "count", RateCounted(h)
      PROVE  rate' \in [Windows -> [Buckets -> Nat]]
  <2>1. local[h].window \in Windows /\ local[h].now \in 0..MaxTicks
    BY <1>1, RequestType
  <2>2. Bucket(local[h].window, local[h].now) \in Buckets
    BY <2>1, BucketType
  <2> QED
    BY <1>1, <1>3, <2>1, <2>2 DEF RateCounted
<1>4. ASSUME Visitor(h) \in Sessions, Charged(h)
      PROVE  /\ session' \in [Sessions -> Counter]
             /\ charged' \in [Sessions -> SUBSET Nat]
  <2> DEFINE s == Visitor(h)
             n == RunsOf(s) + 1
             c == [session[s] EXCEPT !.exists = TRUE, !.runs = n]
  <2>1. session[s] \in Counter
    BY <1>1, <1>4
  <2>2. n \in Int
    <3>1. RunsOf(s) \in Int
      BY <2>1 DEF RunsOf, Counter
    <3> QED
      BY <3>1
  <2>3. session' = [session EXCEPT ![s] = c]
    BY <1>4 DEF Charged
  <2> HIDE DEF n
  <2>5. c \in Counter
    BY <2>1, <2>2, CounterType
  <2>4. local[h].serial \in Nat
    BY <1>1, RequestType
  <2> HIDE DEF c
  <2> QED
    BY <1>1, <1>4, <2>3, <2>4, <2>5 DEF Charged
<1>5. ASSUME Visitor(h) \in Sessions, Stamped(h)
      PROVE  session' \in [Sessions -> Counter]
  <2> DEFINE s == Visitor(h)
             c == [session[s] EXCEPT !.expires = TRUE,
                                     !.at = clock + DayTicks]
  <2>1. session[s] \in Counter /\ clock + DayTicks \in Nat
    BY <1>1, <1>5, ContainmentAssumption
  <2>2. c \in Counter
    BY <2>1, CounterType
  <2>3. session' = [session EXCEPT ![s] = IF session[s].exists THEN c
                                          ELSE session[s]]
    BY <1>5 DEF Stamped
  <2> HIDE DEF c
  <2> QED
    BY <1>1, <1>5, <2>1, <2>2, <2>3
<1>6. ASSUME Visitor(h) \in Sessions, GivenBack(h)
      PROVE  /\ session' \in [Sessions -> Counter]
             /\ charged' \in [Sessions -> SUBSET Nat]
             /\ overcredit' \in [Sessions -> Nat]
  <2> DEFINE s == Visitor(h)
             n == RunsOf(s) - 1
             c == [session[s] EXCEPT !.exists = TRUE, !.runs = n]
  <2>1. session[s] \in Counter
    BY <1>1, <1>6
  <2>2. n \in Int
    <3>1. RunsOf(s) \in Int
      BY <2>1 DEF RunsOf, Counter
    <3> QED
      BY <3>1
  <2>3. session' = [session EXCEPT ![s] = c]
    BY <1>6 DEF GivenBack
  <2> HIDE DEF n
  <2>4. c \in Counter
    BY <2>1, <2>2, CounterType
  <2> HIDE DEF c
  <2> QED
    BY <1>1, <1>6, <2>3, <2>4 DEF GivenBack
<1>7. ASSUME pc[h] = "book", Booked(h)
      PROVE  budget' \in [Buckets -> Nat]
  <2>1. Seen(h) \in 0..MaxCost /\ MaxCost \in Nat
    BY <1>7, ContainmentAssumption DEF Typed, LocalsFit
  <2>2. Day \in Buckets
    BY <1>1, BucketType DEF Day, Windows
  <2> QED
    BY <1>1, <1>7, <2>1, <2>2 DEF Booked
<1> QED
  BY <1>2, <1>3, <1>4, <1>5, <1>6, <1>7 DEF IntakeLabels

LEMMA TypeInit == Init => Typed
<1> SUFFICES ASSUME Init PROVE Typed
  OBVIOUS
<1>1. 0 \in Buckets /\ 0 \in 0..MaxTicks
  BY ContainmentAssumption DEF Buckets
<1>2. TypeOK
  BY <1>1, ContainmentAssumption, NoRequestType, NoCounterType
     DEF Init, TypeOK, Windows, Labels, Scenario
<1>3. LocalsFit
  BY DEF Init, LocalsFit, IntakeLabels
<1> QED
  BY <1>2, <1>3 DEF Typed

\* What a step of the program keeps when its locals fit and it leaves the
\* other variables alone.
LEMMA TypeStep == Typed /\ [Next]_vars => Typed'
<1> SUFFICES ASSUME Typed, [Next]_vars PROVE Typed'
  OBVIOUS
<1>1. ASSUME Tick PROVE Typed'
  BY <1>1, NoCounterType, ContainmentAssumption
     DEF Typed, Tick, TypeOK, LocalsFit, boundVars, Visitor, Seen
<1>2. ASSUME Reset PROVE Typed'
  BY <1>2 DEF Typed, Reset, TypeOK, LocalsFit, ghostVars, Visitor, Seen
<1>3. ASSUME NEW h \in Handlers, Step(h) PROVE Typed'
  <2> DEFINE Fits == /\ pc' \in [Handlers -> Labels]
                     /\ local' \in [Handlers -> Request]
                     /\ LocalsFit'
  <2>0. /\ local[h] \in Request
        /\ pc[h] \in IntakeLabels => Visitor(h) \in Sessions
    BY DEF Typed, TypeOK, LocalsFit
  <2> HIDE DEF Fits
  <2>1. ASSUME Arrive(h) PROVE Typed'
    <3>1. Fits
      <4>1. PICK v \in Sessions :
              local' = [local EXCEPT ![h].serial = requests + 1,
                                     ![h].visitor = v]
        BY <2>1 DEF Arrive
      <4> DEFINE r == [local[h] EXCEPT !.serial = requests + 1,
                                       !.visitor = v]
      <4>2. requests + 1 \in Nat
        BY DEF Typed, TypeOK
      <4>3. r \in Request /\ r.visitor \in Sessions
        BY <2>0, <4>2, RequestType DEF Request
      <4>4. local' = [local EXCEPT ![h] = r]
        BY <4>1
      <4> HIDE DEF r
      <4> QED
        BY <2>1, <4>3, <4>4, MoveFits DEF Arrive, Fits, Labels
    <3> QED
      BY <2>1, <3>1
         DEF Typed, TypeOK, Fits, Arrive, storeVars, ghostVars, boundVars
  <2>2. ASSUME ArriveLive(h) PROVE Typed'
    <3>1. Fits
      BY <2>2, GoFits, LeaveFits
         DEF Fits, ArriveLive, Labels, IntakeLabels
    <3>2. requests' \in Nat
      <4>1. requests \in Nat /\ requests' = requests + 1
        BY <2>2 DEF Typed, TypeOK, ArriveLive
      <4> QED
        BY <4>1
    <3>3. UNCHANGED <<clock, storeVars, ghostVars, boundVars>>
      BY <2>2 DEF ArriveLive
    <3> QED
      BY <3>1, <3>2, <3>3
         DEF Typed, TypeOK, Fits, storeVars, ghostVars, boundVars
  <2>3. ASSUME Capacity(h) PROVE Typed'
    <3>1. Fits
      <4> DEFINE r == [local[h] EXCEPT !.now = clock]
      <4>1. clock \in 0..MaxTicks
        BY DEF Typed, TypeOK
      <4>2. r \in Request /\ r.visitor = local[h].visitor
        BY <2>0, <4>1, RequestType DEF Request
      <4>3. CASE Goes(h, "current") /\ local' = [local EXCEPT ![h] = r]
        <5> HIDE DEF r
        <5> QED
          BY <2>0, <2>3, <4>2, <4>3, MoveFits
             DEF Capacity, Fits, Labels, IntakeLabels, Visitor
      <4> QED
        BY <2>3, <4>3, LeaveFits DEF Capacity, Fits
    <3> QED
      BY <2>3, <3>1
         DEF Typed, TypeOK, Fits, Capacity, storeVars, ghostVars, boundVars
  <2>4. ASSUME LiveCapacity(h) PROVE Typed'
    <3>1. Fits
      BY <2>4, GoFits, LeaveFits
         DEF Fits, LiveCapacity, Labels, IntakeLabels
    <3> QED
      BY <2>4, <3>1
         DEF Typed, TypeOK, Fits, LiveCapacity, storeVars, ghostVars, boundVars
  <2>5. ASSUME Current(h) PROVE Typed'
    <3>1. Fits
      <4> DEFINE w == local[h].window
                 n == Ticks(w) * rate[w][Bucket(w, local[h].now)]
      <4>1. n \in Int
        <5>1. w \in Windows /\ Bucket(w, local[h].now) \in Buckets
          BY <2>0, RequestType, BucketType
        <5>2. Ticks(w) \in Nat /\ rate[w][Bucket(w, local[h].now)] \in Nat
          BY <5>1, TicksType DEF Typed, TypeOK
        <5> QED
          BY <5>2
      <4>2. Sees(h, n)
        BY <2>5 DEF Current
      <4> HIDE DEF n
      <4> QED
        BY <2>5, <4>1, <4>2, GoFits DEF Fits, Current, Labels, IntakeLabels
    <3> QED
      BY <2>5, <3>1
         DEF Typed, TypeOK, Fits, Current, storeVars, ghostVars, boundVars
  <2>6. ASSUME Previous(h) PROVE Typed'
    <3>1. Fits
      <4> DEFINE w == local[h].window
                 m == Ticks(w) - (local[h].now % Ticks(w))
                 p == rate[w][Bucket(w, local[h].now) - 1]
                 n == Seen(h) + m * p
      <4>1. m \in Int /\ p \in Int
        <5>1. /\ w \in Windows /\ local[h].now \in Nat
              /\ Bucket(w, local[h].now) - 1 \in Buckets
          <6>1. w \in Windows /\ local[h].now \in 0..MaxTicks
            BY <2>0, RequestType
          <6> QED
            BY <6>1, BucketType, ContainmentAssumption
        <5>2. Ticks(w) \in Nat \ {0} /\ p \in Nat
          BY <5>1, TicksType DEF Typed, TypeOK
        <5>3. local[h].now % Ticks(w) \in Int
          BY <5>1, <5>2
        <5> QED
          BY <5>2, <5>3
      <4>2. Sees(h, n)
        BY <2>6 DEF Previous
      <4>3. n \in Int
        <5>1. Seen(h) \in Int
          BY <2>0, RequestType DEF Seen
        <5> HIDE DEF m, p
        <5> QED
          BY <4>1, <5>1
      <4> HIDE DEF n
      <4> QED
        BY <2>6, <4>2, <4>3, GoFits DEF Fits, Previous, Labels, IntakeLabels
    <3> QED
      BY <2>6, <3>1
         DEF Typed, TypeOK, Fits, Previous, storeVars, ghostVars, boundVars
  <2>7. ASSUME Count(h) PROVE Typed'
    <3>1. Fits
      <4> DEFINE r == [local[h] EXCEPT !.window = "d", !.seen = 0]
                 to == IF local[h].window = "h" THEN "current" ELSE "session"
      <4>1. r \in Request /\ r.visitor = local[h].visitor
        <5>1. 0 \in Int
          OBVIOUS
        <5>2. r \in Request
          BY <2>0, <5>1, RequestType
        <5> QED
          BY <2>0, <5>2 DEF Request
      <4>2. CASE Goes(h, to) /\ local' = [local EXCEPT ![h] = r]
        <5>1. to \in {"current", "session"}
          OBVIOUS
        <5> HIDE DEF r, to
        <5> QED
          BY <2>0, <2>7, <4>1, <4>2, <5>1, MoveFits
             DEF Count, Fits, Labels, IntakeLabels, Visitor
      <4> QED
        BY <2>7, <4>2, LeaveFits DEF Count, Fits
    <3>2. rate' \in [Windows -> [Buckets -> Nat]]
      BY <2>7, StoreFits DEF Count
    <3>3. admitted' \in [Windows -> [Buckets -> Nat]]
      <4>1. /\ local[h].window \in Windows
            /\ Bucket(local[h].window, local[h].now) \in Buckets
        BY <2>0, RequestType, BucketType
      <4>2. CASE UNCHANGED admitted
        BY <4>2 DEF Typed, TypeOK
      <4>3. CASE admitted' = [admitted EXCEPT
                    ![local[h].window][Bucket(local[h].window, local[h].now)]
                      = @ + 1]
        BY <4>1, <4>3 DEF Typed, TypeOK
      <4> QED
        BY <2>7, <4>2, <4>3 DEF Count
    <3> QED
      BY <2>7, <3>1, <3>2, <3>3
         DEF Typed, TypeOK, Fits, Count, storeVars, ghostVars, boundVars
  <2>8. ASSUME Charge(h) PROVE Typed'
    <3>1. Fits
      <4>1. Sees(h, 1) => \E n \in Int : Sees(h, n)
        OBVIOUS
      <4> QED
        BY <2>8, <4>1, GoFits, LeaveFits
           DEF Fits, Charge, Labels, IntakeLabels
    <3>2. /\ session' \in [Sessions -> Counter]
          /\ charged' \in [Sessions -> SUBSET Nat]
      BY <2>8, StoreFits DEF Charge
    <3>3. UNCHANGED <<clock, rate, budget, admitted, overcredit, requests,
                      boundVars>>
      BY <2>8 DEF Charge
    <3> QED
      BY <3>1, <3>2, <3>3 DEF Typed, TypeOK, Fits, boundVars
  <2>9. ASSUME Stamp(h) PROVE Typed'
    <3>1. Fits
      <4>1. Sees(h, 0) => \E n \in Int : Sees(h, n)
        OBVIOUS
      <4> QED
        BY <2>9, <4>1, GoFits, LeaveFits
           DEF Fits, Stamp, Labels, IntakeLabels
    <3>2. session' \in [Sessions -> Counter]
      BY <2>9, StoreFits DEF Stamp
    <3> QED
      BY <2>9, <3>1, <3>2
         DEF Typed, TypeOK, Fits, Stamp, storeVars, ghostVars, boundVars
  <2>10. ASSUME Run(h) PROVE Typed'
    <3>1. Fits
      <4> DEFINE r == [local[h] EXCEPT !.caught = TRUE]
      <4>1. r \in Request /\ r.visitor = local[h].visitor
        BY <2>0, RequestType DEF Request
      <4>2. CASE Goes(h, "refund") /\ local' = [local EXCEPT ![h] = r]
        <5> HIDE DEF r
        <5> QED
          BY <2>0, <2>10, <4>1, <4>2, MoveFits
             DEF Run, Fits, Labels, IntakeLabels, Visitor
      <4> QED
        BY <2>10, <4>2, GoFits DEF Run, Caught, Fits, Labels, IntakeLabels
    <3> QED
      BY <2>10, <3>1
         DEF Typed, TypeOK, Fits, Run, storeVars, ghostVars, boundVars
  <2>11. ASSUME Answer(h) PROVE Typed'
    <3>1. Fits
      BY <2>11, LeaveFits DEF Fits, Answer
    <3> QED
      BY <2>11, <3>1
         DEF Typed, TypeOK, Fits, Answer, storeVars, ghostVars, boundVars
  <2>12. ASSUME Refund(h) PROVE Typed'
    <3>1. Fits
      BY <2>12, GoFits, LeaveFits
         DEF Fits, Refund, Labels, IntakeLabels
    <3> QED
      BY <2>12, <3>1
         DEF Typed, TypeOK, Fits, Refund, storeVars, ghostVars, boundVars
  <2>13. ASSUME GiveBack(h) PROVE Typed'
    <3>1. Fits
      BY <2>13, LeaveFits DEF Fits, GiveBack
    <3>2. /\ session' \in [Sessions -> Counter]
          /\ charged' \in [Sessions -> SUBSET Nat]
          /\ overcredit' \in [Sessions -> Nat]
      BY <2>13, StoreFits DEF GiveBack
    <3> QED
      BY <2>13, <3>1, <3>2
         DEF Typed, TypeOK, Fits, GiveBack, storeVars, ghostVars, boundVars
  <2>14. ASSUME Live(h) PROVE Typed'
    <3>1. Fits
      <4>1. ASSUME NEW cost \in 0..MaxCost, Sees(h, cost), Goes(h, "book")
            PROVE  Fits
        <5>1. Seen(h)' = cost /\ cost \in Int
          BY <2>0, <4>1 DEF Seen, Sees, Typed, TypeOK, Request
        <5> QED
          BY <4>1, <5>1, GoFits DEF Fits, Labels, IntakeLabels
      <4> QED
        BY <2>14, <4>1, LeaveFits DEF Live, Fits
    <3> QED
      BY <2>14, <3>1
         DEF Typed, TypeOK, Fits, Live, storeVars, ghostVars, boundVars
  <2>15. ASSUME Book(h) PROVE Typed'
    <3>1. Fits
      BY <2>15, LeaveFits DEF Fits, Book
    <3>2. budget' \in [Buckets -> Nat]
      BY <2>15, StoreFits DEF Book
    <3> QED
      BY <2>15, <3>1, <3>2
         DEF Typed, TypeOK, Fits, Book, storeVars, ghostVars, boundVars
  <2>16. ASSUME Throw(h) PROVE Typed'
    <3>1. Fits
      <4> DEFINE r == [local[h] EXCEPT !.caught = TRUE]
      <4>1. r \in Request /\ r.visitor = local[h].visitor
        BY <2>0, RequestType DEF Request
      <4>2. ASSUME InTry(h), Goes(h, "refund"),
                   local' = [local EXCEPT ![h] = r]
            PROVE  Fits
        <5> HIDE DEF r
        <5> QED
          BY <2>0, <4>1, <4>2, MoveFits
             DEF InTry, Fits, Labels, IntakeLabels, Visitor
      <4> QED
        BY <2>16, <4>2, LeaveFits DEF Throw, Caught, Fits
    <3>2. /\ rate' \in [Windows -> [Buckets -> Nat]]
          /\ session' \in [Sessions -> Counter]
          /\ charged' \in [Sessions -> SUBSET Nat]
          /\ overcredit' \in [Sessions -> Nat]
          /\ budget' \in [Buckets -> Nat]
          /\ admitted' = admitted
      <4>1. CASE UNCHANGED <<storeVars, ghostVars>>
        BY <4>1 DEF Typed, TypeOK, storeVars, ghostVars
      <4>2. CASE Applied(h)
        BY <4>2, StoreFits
           DEF Applied, Typed, TypeOK, storeVars, ghostVars, RateCounted,
               Charged, Stamped, GivenBack, Booked
      <4> QED
        BY <2>16, <4>1, <4>2 DEF Throw
    <3> QED
      BY <2>16, <3>1, <3>2
         DEF Typed, TypeOK, Fits, Throw, storeVars, ghostVars, boundVars
  <2>17. ASSUME Crash(h) PROVE Typed'
    <3>1. Fits
      BY <2>17, LeaveFits DEF Fits, Crash
    <3> QED
      BY <2>17, <3>1
         DEF Typed, TypeOK, Fits, Crash, storeVars, ghostVars, boundVars
  <2> QED
    BY <1>3, <2>1, <2>2, <2>3, <2>4, <2>5, <2>6, <2>7, <2>8, <2>9, <2>10,
       <2>11, <2>12, <2>13, <2>14, <2>15, <2>16, <2>17
       DEF Step
<1>4. CASE UNCHANGED vars
  BY <1>4 DEF Typed, vars, TypeOK, LocalsFit, storeVars, ghostVars, boundVars,
     Visitor, Seen
<1> QED
  BY <1>1, <1>2, <1>3, <1>4 DEF Next

LEMMA AlwaysTyped == Spec => []Typed
<1>1. Init => Typed
  BY TypeInit
<1>2. Typed /\ [Next]_vars => Typed'
  BY TypeStep
<1> QED
  BY <1>1, <1>2, PTL DEF Spec

\* Every variable of the store, the handlers and the bounds keeps its type.
THEOREM TypeCorrect == Spec => []TypeOK
<1>1. Typed => TypeOK
  BY DEF Typed
<1> QED
  BY <1>1, AlwaysTyped, PTL

-----------------------------------------------------------------------------
(* The session cap.                                                        *)

\* The counter never runs behind the slots that are held, but for those that
\* were given back twice: what makes the increment's answer a sound test.
CounterCovers ==
  \A s \in Sessions :
    /\ IsFiniteSet(charged[s])
    /\ Cardinality(charged[s]) <= RunsOf(s) + overcredit[s]

CapInv == CounterCovers /\ SessionCapHolds

LEMMA CapInit == Init => CapInv
  BY FS_EmptySet, ContainmentAssumption
     DEF Init, CapInv, CounterCovers, SessionCapHolds, RunsOf, NoCounter

\* An increment hands out a slot only while the counter allows it.
LEMMA ChargeKeepsCap ==
  ASSUME Typed, CapInv, NEW h \in Handlers, Visitor(h) \in Sessions,
         Charged(h), UNCHANGED overcredit
  PROVE  CapInv'
<1> DEFINE v == Visitor(h)
<1> SUFFICES ASSUME NEW s \in Sessions
             PROVE  /\ IsFiniteSet(charged'[s])
                    /\ Cardinality(charged'[s]) <= RunsOf(s)' + overcredit[s]
                    /\ Cardinality(charged'[s])
                         <= SESSION_RUN_CAP + overcredit[s]
  BY DEF CapInv, CounterCovers, SessionCapHolds
<1>1. /\ IsFiniteSet(charged[s])
      /\ Cardinality(charged[s]) <= RunsOf(s) + overcredit[s]
      /\ Cardinality(charged[s]) <= SESSION_RUN_CAP + overcredit[s]
      /\ RunsOf(s) \in Int /\ overcredit[s] \in Nat
      /\ SESSION_RUN_CAP \in Nat
  BY ContainmentAssumption
     DEF CapInv, CounterCovers, SessionCapHolds, Typed, TypeOK, RunsOf, Counter
<1>2. Cardinality(charged[s]) \in Nat
  BY <1>1, FS_CardinalityType
<1>3. CASE s # v
  <2>1. charged'[s] = charged[s] /\ RunsOf(s)' = RunsOf(s)
    BY <1>3 DEF Charged, RunsOf, Typed, TypeOK
  <2> QED
    BY <1>1, <2>1
<1>4. CASE s = v
  <2>1. RunsOf(s)' = RunsOf(s) + 1
    BY <1>4 DEF Charged, RunsOf, Typed, TypeOK, Counter
  <2>2. CASE charged'[s] = charged[s]
    BY <1>1, <1>2, <2>1, <2>2
  <2>3. CASE /\ WithinCap(RunsOf(s) + 1)
             /\ charged'[s] = charged[s] \cup {local[h].serial}
    <3>1. /\ IsFiniteSet(charged'[s])
          /\ Cardinality(charged'[s]) <= Cardinality(charged[s]) + 1
          /\ Cardinality(charged'[s]) \in Nat
      <4> DEFINE C == charged[s]
                 x == local[h].serial
      <4>1. /\ IsFiniteSet(C \cup {x})
            /\ Cardinality(C \cup {x}) =
                 IF x \in C THEN Cardinality(C) ELSE Cardinality(C) + 1
        <5>1. IsFiniteSet(C)
          BY <1>1
        <5> HIDE DEF C, x
        <5> QED
          BY <5>1, FS_AddElement
      <4> QED
        BY <1>2, <2>3, <4>1
    <3>2. RunsOf(s) + 1 <= SESSION_RUN_CAP
      BY <2>3 DEF WithinCap
    <3> QED
      BY <1>1, <1>2, <2>1, <3>1, <3>2
  <2> QED
    BY <1>4, <2>2, <2>3 DEF Charged, Typed, TypeOK
<1> QED
  BY <1>3, <1>4

\* A refund takes back the slot it refunds, or is counted as an overcredit.
LEMMA RefundKeepsCap ==
  ASSUME Typed, CapInv, NEW h \in Handlers, Visitor(h) \in Sessions,
         GivenBack(h)
  PROVE  CapInv'
<1> DEFINE v == Visitor(h)
<1> SUFFICES ASSUME NEW s \in Sessions
             PROVE  /\ IsFiniteSet(charged'[s])
                    /\ Cardinality(charged'[s]) <= RunsOf(s)' + overcredit'[s]
                    /\ Cardinality(charged'[s])
                         <= SESSION_RUN_CAP + overcredit'[s]
  BY DEF CapInv, CounterCovers, SessionCapHolds
<1>1. /\ IsFiniteSet(charged[s])
      /\ Cardinality(charged[s]) <= RunsOf(s) + overcredit[s]
      /\ Cardinality(charged[s]) <= SESSION_RUN_CAP + overcredit[s]
      /\ RunsOf(s) \in Int /\ overcredit[s] \in Nat
      /\ SESSION_RUN_CAP \in Nat
  BY ContainmentAssumption
     DEF CapInv, CounterCovers, SessionCapHolds, Typed, TypeOK, RunsOf, Counter
<1>2. Cardinality(charged[s]) \in Nat
  BY <1>1, FS_CardinalityType
<1>3. CASE s # v
  <2>1. /\ charged'[s] = charged[s] /\ RunsOf(s)' = RunsOf(s)
        /\ overcredit'[s] = overcredit[s]
    BY <1>3 DEF GivenBack, RunsOf, Typed, TypeOK
  <2> QED
    BY <1>1, <2>1
<1>4. CASE s = v
  <2>1. RunsOf(s)' = RunsOf(s) - 1
    BY <1>4 DEF GivenBack, RunsOf, Typed, TypeOK, Counter
  <2>2. charged'[s] = charged[s] \ {local[h].serial}
    BY <1>4 DEF GivenBack, Typed, TypeOK
  <2>3. overcredit'[s] = IF local[h].serial \in charged[s]
                         THEN overcredit[s] ELSE overcredit[s] + 1
    BY <1>4 DEF GivenBack, Typed, TypeOK
  <2>4. /\ IsFiniteSet(charged'[s])
        /\ Cardinality(charged'[s]) = IF local[h].serial \in charged[s]
                                      THEN Cardinality(charged[s]) - 1
                                      ELSE Cardinality(charged[s])
    <3> DEFINE C == charged[s]
               x == local[h].serial
    <3>1. IsFiniteSet(C)
      BY <1>1
    <3>2. /\ IsFiniteSet(C \ {x})
          /\ Cardinality(C \ {x}) =
               IF x \in C THEN Cardinality(C) - 1 ELSE Cardinality(C)
      <4> HIDE DEF C, x
      <4> QED
        BY <3>1, FS_RemoveElement
    <3> QED
      BY <2>2, <3>2
  <2> QED
    BY <1>1, <1>2, <2>1, <2>3, <2>4
<1> QED
  BY <1>3, <1>4

\* Nothing else touches the slots, except that a key's expiry frees them all.
LEMMA CapStep == Typed /\ CapInv /\ [Next]_vars => CapInv'
<1> SUFFICES ASSUME Typed, CapInv, [Next]_vars PROVE CapInv'
  OBVIOUS
<1> DEFINE Same == UNCHANGED charged /\ UNCHANGED overcredit
                     /\ \A s \in Sessions : RunsOf(s)' = RunsOf(s)
<1>1. ASSUME Same PROVE CapInv'
  BY <1>1 DEF CapInv, CounterCovers, SessionCapHolds
<1>2. ASSUME Tick PROVE CapInv'
  <2> SUFFICES ASSUME NEW s \in Sessions
               PROVE  /\ IsFiniteSet(charged'[s])
                      /\ Cardinality(charged'[s])
                           <= RunsOf(s)' + overcredit'[s]
                      /\ Cardinality(charged'[s])
                           <= SESSION_RUN_CAP + overcredit'[s]
    BY DEF CapInv, CounterCovers, SessionCapHolds
  <2>1. CASE Gone(s)
    <3>1. charged'[s] = {} /\ overcredit'[s] = 0 /\ RunsOf(s)' = 0
      BY <1>2, <2>1 DEF Tick, RunsOf, NoCounter
    <3> QED
      BY <3>1, FS_EmptySet, ContainmentAssumption
  <2>2. CASE ~Gone(s)
    <3>1. /\ charged'[s] = charged[s] /\ overcredit'[s] = overcredit[s]
          /\ RunsOf(s)' = RunsOf(s)
      BY <1>2, <2>2 DEF Tick, RunsOf
    <3> QED
      BY <3>1 DEF CapInv, CounterCovers, SessionCapHolds
  <2> QED
    BY <2>1, <2>2
<1>3. ASSUME NEW h \in Handlers, Step(h) PROVE CapInv'
  <2>1. pc[h] \in IntakeLabels => Visitor(h) \in Sessions
    BY DEF Typed, LocalsFit
  <2>2. ASSUME UNCHANGED <<session, charged, overcredit>> PROVE CapInv'
    BY <1>1, <2>2 DEF RunsOf
  <2>3. ASSUME pc[h] = "stamp", Stamped(h), UNCHANGED <<charged, overcredit>>
        PROVE  CapInv'
    <3>1. Visitor(h) \in Sessions
      BY <2>1, <2>3 DEF IntakeLabels
    <3>2. \A s \in Sessions : RunsOf(s)' = RunsOf(s)
      BY <2>3, <3>1 DEF Stamped, RunsOf, Typed, TypeOK, Counter
    <3> QED
      BY <1>1, <2>3, <3>2
  <2>4. ASSUME Charge(h) PROVE CapInv'
    BY <2>1, <2>4, ChargeKeepsCap DEF Charge, IntakeLabels
  <2>5. ASSUME Stamp(h) PROVE CapInv'
    BY <2>3, <2>5 DEF Stamp, ghostVars
  <2>6. ASSUME GiveBack(h) PROVE CapInv'
    BY <2>1, <2>6, RefundKeepsCap DEF GiveBack, IntakeLabels
  <2>7. ASSUME Throw(h) PROVE CapInv'
    <3>1. CASE UNCHANGED <<storeVars, ghostVars>>
      BY <2>2, <3>1 DEF storeVars, ghostVars
    <3>2. CASE Applied(h)
      <4>1. CASE pc[h] = "session"
        BY <2>1, <3>2, <4>1, ChargeKeepsCap DEF Applied, IntakeLabels
      <4>2. CASE pc[h] = "stamp"
        BY <2>3, <3>2, <4>2 DEF Applied, ghostVars
      <4>3. CASE pc[h] = "giveback"
        BY <2>1, <3>2, <4>3, RefundKeepsCap DEF Applied, IntakeLabels
      <4>4. CASE pc[h] \notin {"session", "stamp", "giveback"}
        BY <2>2, <3>2, <4>4 DEF Applied, storeVars, ghostVars
      <4> QED
        BY <4>1, <4>2, <4>3, <4>4
    <3> QED
      BY <2>7, <3>1, <3>2 DEF Throw
  <2> QED
    BY <1>3, <2>2, <2>4, <2>5, <2>6, <2>7
       DEF Step, Arrive, ArriveLive, Capacity, LiveCapacity, Current,
           Previous, Count, Run, Answer, Refund, Live, Book, Crash,
           storeVars, ghostVars
<1>4. CASE Reset
  BY <1>1, <1>4 DEF Reset, ghostVars, RunsOf
<1>5. CASE UNCHANGED vars
  BY <1>1, <1>5 DEF vars, storeVars, ghostVars, RunsOf
<1> QED
  BY <1>2, <1>3, <1>4, <1>5 DEF Next

\* No session holds more slots than the cap, for any number of handlers that
\* charge and refund it at once, and any failures.
THEOREM SessionCap == Spec => []SessionCapHolds
<1>1. Init => CapInv
  BY CapInit
<1>2. Typed /\ CapInv /\ [Next]_vars => CapInv'
  BY CapStep
<1>3. CapInv => SessionCapHolds
  BY DEF CapInv
<1> QED
  BY <1>1, <1>2, <1>3, AlwaysTyped, PTL DEF Spec

-----------------------------------------------------------------------------
(* The horizon of a session.                                               *)

\* A step of one handler leaves the others where they are.
LEMMA StepIsLocal ==
  ASSUME Typed, NEW h \in Handlers, Step(h), NEW g \in Handlers \ {h}
  PROVE  pc'[g] = pc[g] /\ local'[g] = local[g]
<1>1. /\ pc \in [Handlers -> Labels] /\ local \in [Handlers -> Request]
      /\ g # h
  BY DEF Typed, TypeOK
<1>2. \A to : Goes(h, to) => pc'[g] = pc[g]
  BY <1>1 DEF Goes
<1>3. Leaves(h) => pc'[g] = pc[g] /\ local'[g] = local[g]
  BY <1>1 DEF Leaves, Goes
<1>4. \A n : Sees(h, n) => local'[g] = local[g]
  BY <1>1 DEF Sees
<1>5. Caught(h) => local'[g] = local[g]
  BY <1>1 DEF Caught
<1>6. Arrive(h) => pc'[g] = pc[g] /\ local'[g] = local[g]
  BY <1>1 DEF Arrive, Goes
<1>7. Capacity(h) => pc'[g] = pc[g] /\ local'[g] = local[g]
  BY <1>1, <1>3 DEF Capacity, Goes
<1>8. Count(h) => pc'[g] = pc[g] /\ local'[g] = local[g]
  BY <1>1, <1>3 DEF Count, Goes
<1>9. /\ Charge(h) => pc'[g] = pc[g] /\ local'[g] = local[g]
      /\ Stamp(h) => pc'[g] = pc[g] /\ local'[g] = local[g]
      /\ Live(h) => pc'[g] = pc[g] /\ local'[g] = local[g]
      /\ Current(h) => pc'[g] = pc[g] /\ local'[g] = local[g]
      /\ Previous(h) => pc'[g] = pc[g] /\ local'[g] = local[g]
  BY <1>2, <1>3, <1>4 DEF Charge, Stamp, Live, Current, Previous
<1> QED
  BY <1>2, <1>3, <1>5, <1>6, <1>7, <1>8, <1>9
     DEF Step, ArriveLive, LiveCapacity, Run, Answer, Refund, GiveBack, Book,
         Throw, Crash

\* A key that is gone counts nothing.
GoneIsEmpty ==
  \A s \in Sessions : ~session[s].exists => RunsOf(s) = 0

HorizonInv == GoneIsEmpty /\ HorizonIsStamped

\* Some handler is about to give the session's key its expiry.
Stamping(s) == \E h \in Handlers : pc[h] = "stamp" /\ Visitor(h) = s

\* A write that makes the counter positive comes with a stamp.
LEMMA HorizonUpdate ==
  ASSUME HorizonInv, NEW v \in Sessions, faults' = faults,
         \A s \in Sessions : s # v => session'[s] = session[s],
         session'[v].exists, session'[v].expires = session[v].expires,
         session'[v].runs > 0 => RunsOf(v) > 0 \/ Stamping(v)',
         \A s \in Sessions : Stamping(s) => Stamping(s)'
  PROVE  HorizonInv'
<1>1. GoneIsEmpty'
  BY DEF HorizonInv, GoneIsEmpty, RunsOf
<1>2. ASSUME NEW s \in Sessions, RunsOf(s)' > 0, ~session'[s].expires,
             faults' = 0
      PROVE  Stamping(s)'
  <2>1. RunsOf(s) > 0 /\ ~session[s].expires => Stamping(s)
    BY <1>2 DEF HorizonInv, HorizonIsStamped, Stamping
  <2>2. CASE s = v
    BY <1>2, <2>1, <2>2 DEF RunsOf
  <2>3. CASE s # v
    BY <1>2, <2>1, <2>3 DEF RunsOf
  <2> QED
    BY <2>2, <2>3
<1> QED
  BY <1>1, <1>2 DEF HorizonInv, HorizonIsStamped, Stamping

LEMMA HorizonStep == Typed /\ HorizonInv /\ [Next]_vars => HorizonInv'
<1> SUFFICES ASSUME Typed, HorizonInv, [Next]_vars PROVE HorizonInv'
  OBVIOUS
<1> USE DEF Stamping
<1>0. /\ faults \in Nat
      /\ session \in [Sessions -> Counter] /\ pc \in [Handlers -> Labels]
      /\ local \in [Handlers -> Request]
  BY DEF Typed, TypeOK
<1>1. ASSUME \A s \in Sessions : session'[s] = session[s],
             \A s \in Sessions : Stamping(s) => Stamping(s)',
             faults' = 0 => faults = 0
      PROVE  HorizonInv'
  BY <1>1 DEF HorizonInv, GoneIsEmpty, HorizonIsStamped, RunsOf
<1>2. ASSUME Tick PROVE HorizonInv'
  <2>1. /\ UNCHANGED <<pc, local, faults>>
        /\ \A s \in Sessions : \/ session'[s] = NoCounter
                               \/ session'[s] = session[s]
    BY <1>2 DEF Tick, boundVars
  <2>2. ~NoCounter.exists /\ NoCounter.runs = 0
    BY DEF NoCounter
  <2> QED
    BY <2>1, <2>2
       DEF HorizonInv, GoneIsEmpty, HorizonIsStamped, RunsOf, Visitor
<1>3. ASSUME NEW h \in Handlers, Step(h) PROVE HorizonInv'
  <2>1. /\ \A g \in Handlers :
             g # h => pc'[g] = pc[g] /\ Visitor(g)' = Visitor(g)
        /\ pc[h] \in IntakeLabels => Visitor(h) \in Sessions
    BY <1>3, StepIsLocal DEF Typed, LocalsFit, Visitor
  <2>2. ASSUME pc[h] # "stamp", UNCHANGED <<session, faults>> PROVE HorizonInv'
    BY <1>1, <2>1, <2>2
  <2>3. ASSUME Charge(h) PROVE HorizonInv'
    <3>0. PICK v \in Sessions : v = Visitor(h)
      BY <2>1, <2>3 DEF Charge, IntakeLabels
    <3>1. /\ v = Visitor(h) /\ pc[h] = "session" /\ faults' = faults
          /\ Charged(h)
      BY <2>3, <3>0 DEF Charge, boundVars
    <3>2. /\ \A s \in Sessions : s # v => session'[s] = session[s]
          /\ session'[v].exists /\ session'[v].runs = RunsOf(v) + 1
          /\ session'[v].expires = session[v].expires
      BY <1>0, <3>1 DEF Charged, Counter
    <3>3. \A s \in Sessions : Stamping(s) => Stamping(s)'
      BY <2>1, <3>1
    <3>4. FirstIncrement(v) => Stamping(v)'
      <4> SUFFICES ASSUME FirstIncrement(v) PROVE Stamping(v)'
        OBVIOUS
      <4>1. pc'[h] = "stamp" /\ local' = [local EXCEPT ![h].seen = 1]
        BY <1>0, <2>3, <3>0 DEF Charge, Goes, Sees
      <4>2. Visitor(h)' = v
        BY <1>0, <3>0, <4>1 DEF Visitor, Request
      <4> QED
        BY <4>1, <4>2
    <3>5. ~FirstIncrement(v) /\ session'[v].runs > 0 => RunsOf(v) > 0
      BY <1>0, <3>1, <3>2 DEF FirstIncrement, RunsOf, Counter
    <3>6. session'[v].runs > 0 => RunsOf(v) > 0 \/ Stamping(v)'
      BY <3>4, <3>5
    <3> HIDE DEF Stamping
    <3> QED
      BY <3>1, <3>2, <3>3, <3>6, HorizonUpdate
  <2>4. ASSUME Stamp(h) PROVE HorizonInv'
    <3> DEFINE v == Visitor(h)
    <3>1. /\ v \in Sessions /\ pc[h] = "stamp" /\ faults' = faults
          /\ Stamped(h)
      BY <2>1, <2>4 DEF Stamp, IntakeLabels, boundVars
    <3>2. /\ \A s \in Sessions : s # v => session'[s] = session[s]
          /\ ~session[v].exists => session'[v] = session[v]
          /\ session[v].exists => session'[v].exists /\ session'[v].expires
      BY <1>0, <3>1 DEF Stamped, Counter
    <3>3. \A s \in Sessions : s # v /\ Stamping(s) => Stamping(s)'
      BY <2>1, <3>1
    <3> QED
      BY <3>1, <3>2, <3>3
         DEF HorizonInv, GoneIsEmpty, HorizonIsStamped, RunsOf
  <2>5. ASSUME GiveBack(h) PROVE HorizonInv'
    <3> DEFINE v == Visitor(h)
    <3>1. /\ v \in Sessions /\ pc[h] = "giveback" /\ faults' = faults
          /\ GivenBack(h)
      BY <2>1, <2>5 DEF GiveBack, IntakeLabels, boundVars
    <3>2. /\ \A s \in Sessions : s # v => session'[s] = session[s]
          /\ session'[v].exists /\ session'[v].runs = RunsOf(v) - 1
          /\ session'[v].expires = session[v].expires
          /\ RunsOf(v) \in Int
      BY <1>0, <3>1 DEF GivenBack, Counter, RunsOf
    <3>3. \A s \in Sessions : Stamping(s) => Stamping(s)'
      BY <2>1, <3>1
    <3>4. session'[v].runs > 0 => RunsOf(v) > 0
      BY <3>2
    <3> QED
      BY <3>1, <3>2, <3>3, <3>4, HorizonUpdate
  <2>6. ASSUME faults' = faults + 1,
               \/ UNCHANGED session
               \/ pc[h] = "session" /\ Charged(h)
               \/ pc[h] = "stamp" /\ Stamped(h)
               \/ pc[h] = "giveback" /\ GivenBack(h)
        PROVE  HorizonInv'
    <3>1. faults' # 0
      BY <1>0, <2>6
    <3>2. GoneIsEmpty'
      <4> SUFFICES ASSUME NEW s \in Sessions, ~session'[s].exists
                   PROVE  session'[s].runs = 0
        BY DEF GoneIsEmpty, RunsOf
      <4>1. ~session[s].exists => session[s].runs = 0
        BY DEF HorizonInv, GoneIsEmpty, RunsOf
      <4>2. session'[s] = session[s]
        <5>1. CASE UNCHANGED session
          BY <5>1
        <5>2. CASE pc[h] \in {"session", "stamp", "giveback"}
          <6>1. Visitor(h) \in Sessions
            BY <2>1, <5>2 DEF IntakeLabels
          <6>2. Charged(h) => session'[s] = session[s]
            BY <1>0, <6>1 DEF Charged, Counter
          <6>3. Stamped(h) => session'[s] = session[s]
            BY <1>0, <6>1 DEF Stamped, Counter
          <6>4. GivenBack(h) => session'[s] = session[s]
            BY <1>0, <6>1 DEF GivenBack, Counter
          <6> QED
            BY <2>6, <6>2, <6>3, <6>4
        <5> QED
          BY <2>6, <5>1, <5>2
      <4> QED
        BY <4>1, <4>2
    <3> QED
      BY <3>1, <3>2 DEF HorizonInv, HorizonIsStamped
  <2>7. ASSUME Throw(h) PROVE HorizonInv'
    BY <2>6, <2>7 DEF Throw, Applied, storeVars
  <2>8. ASSUME Crash(h) PROVE HorizonInv'
    BY <2>6, <2>8 DEF Crash, storeVars
  <2> QED
    BY <1>3, <2>2, <2>3, <2>4, <2>5, <2>7, <2>8
       DEF Step, Arrive, ArriveLive, Capacity, LiveCapacity, Current,
           Previous, Count, Run, Answer, Refund, Live, Book,
           storeVars, boundVars
<1>4. CASE Reset
  BY <1>1, <1>4 DEF Reset, Visitor
<1>5. CASE UNCHANGED vars
  BY <1>1, <1>5 DEF vars, storeVars, boundVars, Visitor
<1> QED
  BY <1>2, <1>3, <1>4, <1>5 DEF Next

\* A session that has used something up will be free again: its counter has
\* an expiry or a handler is about to give it one, whatever else its handlers
\* charge and refund, as long as no call failed.
THEOREM Horizon == Spec => []HorizonIsStamped
<1>1. Init => HorizonInv
  BY DEF Init, HorizonInv, GoneIsEmpty, HorizonIsStamped, RunsOf, NoCounter
<1>2. Typed /\ HorizonInv /\ [Next]_vars => HorizonInv'
  BY HorizonStep
<1>3. HorizonInv => HorizonIsStamped
  BY DEF HorizonInv
<1> QED
  BY <1>1, <1>2, <1>3, AlwaysTyped, PTL DEF Spec

-----------------------------------------------------------------------------
(* The daily budget.                                                       *)

\* The handlers that were let through and have not booked.
Spending == {h \in Handlers : pc[h] \in {"live", "book"}}

\* What is booked, and may yet be by those let through, stays in the bound;
\* nothing is booked ahead.
SpendInv ==
  /\ \A d \in Buckets : d > Day => budget[d] = 0
  /\ budget[Day] + Cardinality(Spending) * MaxCost
       < DAILY_BUDGET_MICRO_USD + Cardinality(Handlers) * MaxCost
  /\ SpendIsBounded

LEMMA ProductMono ==
  ASSUME NEW j \in Nat, NEW k \in Nat, NEW m \in Nat, j <= k
  PROVE  j * m \in Nat /\ k * m \in Nat /\ j * m <= k * m
  OBVIOUS

LEMMA ProductLess ==
  ASSUME NEW k \in Nat, NEW m \in Nat, k > 0
  PROVE  (k - 1) * m = k * m - m
  OBVIOUS

\* A later tick is in no earlier bucket.
LEMMA DivMono ==
  ASSUME NEW k \in Nat \ {0}, NEW t \in Nat
  PROVE  (t + 1) \div k >= t \div k
  OBVIOUS

\* Any set of handlers is finite and no larger than all of them.
LEMMA HandlerSets ==
  ASSUME NEW S \in SUBSET Handlers
  PROVE  /\ IsFiniteSet(S) /\ Cardinality(S) \in Nat
         /\ Cardinality(Handlers) \in Nat /\ Cardinality(Handlers) > 0
         /\ Cardinality(S) <= Cardinality(Handlers)
         /\ \A T \in SUBSET S : Cardinality(T) <= Cardinality(S)
         /\ \A h \in S : Cardinality(S \ {h}) = Cardinality(S) - 1
<1>1. IsFiniteSet(Handlers) /\ Handlers # {}
  BY ContainmentAssumption
<1>2. IsFiniteSet(S) /\ Cardinality(S) <= Cardinality(Handlers)
  BY <1>1, FS_Subset
<1>3. Cardinality(S) \in Nat /\ Cardinality(Handlers) \in Nat
  BY <1>1, <1>2, FS_CardinalityType
<1>4. Cardinality(Handlers) # 0
  BY <1>1, FS_EmptySet
<1>5. \A T \in SUBSET S : Cardinality(T) <= Cardinality(S)
  BY <1>2, FS_Subset
<1>6. \A h \in S : Cardinality(S \ {h}) = Cardinality(S) - 1
  BY <1>2, FS_RemoveElement
<1> QED
  BY <1>2, <1>3, <1>4, <1>5, <1>6

\* Where no more is booked and no more handlers spend, the bound holds on.
LEMMA QuietSpending ==
  ASSUME Typed, SpendInv, UNCHANGED clock, budget' \in [Buckets -> Nat],
         \A d \in Buckets : budget'[d] <= budget[d],
         Spending' \subseteq Spending
  PROVE  SpendInv'
<1>1. /\ Day' = Day /\ Day \in Buckets /\ budget \in [Buckets -> Nat]
      /\ MaxCost \in Nat /\ DAILY_BUDGET_MICRO_USD \in Nat
  BY BucketType, ContainmentAssumption DEF Day, Windows, Typed, TypeOK
<1>2. Spending \subseteq Handlers /\ Spending' \subseteq Handlers
  BY DEF Spending
<1>3. /\ Cardinality(Spending') <= Cardinality(Spending)
      /\ Cardinality(Spending') \in Nat /\ Cardinality(Spending) \in Nat
      /\ Cardinality(Handlers) \in Nat
  BY <1>2, HandlerSets
<1>4. Cardinality(Spending') * MaxCost <= Cardinality(Spending) * MaxCost
  BY <1>1, <1>3, ProductMono
<1>5. /\ Cardinality(Spending') * MaxCost \in Nat
      /\ Cardinality(Spending) * MaxCost \in Nat
      /\ Cardinality(Handlers) * MaxCost \in Nat
  BY <1>1, <1>3, ProductMono
<1>6. \A d \in Buckets : d > Day => budget'[d] = 0
  BY <1>1 DEF SpendInv
<1>7. budget'[Day] + Cardinality(Spending') * MaxCost
        < DAILY_BUDGET_MICRO_USD + Cardinality(Handlers) * MaxCost
  <2>1. /\ budget'[Day] <= budget[Day]
        /\ budget'[Day] \in Nat /\ budget[Day] \in Nat
    BY <1>1
  <2> QED
    BY <1>1, <1>4, <1>5, <2>1 DEF SpendInv
<1>8. SpendIsBounded'
  <2> SUFFICES ASSUME NEW d \in Buckets
               PROVE  budget'[d] < DAILY_BUDGET_MICRO_USD
                                    + Cardinality(Handlers) * MaxCost
    BY DEF SpendIsBounded
  <2>1. /\ budget'[d] <= budget[d]
        /\ budget'[d] \in Nat /\ budget[d] \in Nat
    BY <1>1
  <2> QED
    BY <1>1, <1>5, <2>1 DEF SpendInv, SpendIsBounded
<1> QED
  BY <1>1, <1>6, <1>7, <1>8 DEF SpendInv

\* A handler that books moves what it spent from one term to the other.
LEMMA BookingStep ==
  ASSUME Typed, SpendInv, NEW h \in Handlers, pc[h] = "book", Booked(h),
         UNCHANGED clock, Spending' = Spending \ {h}
  PROVE  SpendInv'
<1>1. /\ Day' = Day /\ Day \in Buckets /\ budget \in [Buckets -> Nat]
      /\ MaxCost \in Nat /\ DAILY_BUDGET_MICRO_USD \in Nat
  BY BucketType, ContainmentAssumption DEF Day, Windows, Typed, TypeOK
<1>2. Seen(h) \in Nat /\ Seen(h) <= MaxCost
  BY <1>1 DEF Typed, LocalsFit
<1>3. Spending \subseteq Handlers /\ h \in Spending
  BY DEF Spending
<1> DEFINE k == Cardinality(Spending)
           n == Cardinality(Handlers) * MaxCost
<1>4. /\ k \in Nat /\ Cardinality(Handlers) \in Nat
      /\ Cardinality(Spending') = k - 1 /\ k - 1 \in Nat
  <2>1. Spending' \subseteq Handlers
    BY <1>3
  <2>2. k \in Nat /\ Cardinality(Handlers) \in Nat
        /\ Cardinality(Spending \ {h}) = k - 1
    BY <1>3, HandlerSets
  <2>3. Cardinality(Spending') \in Nat
    BY <2>1, HandlerSets
  <2> QED
    BY <2>2, <2>3
<1>5. n \in Nat
  BY <1>1, <1>4, ProductMono
<1>6. /\ (k - 1) * MaxCost = k * MaxCost - MaxCost
      /\ (k - 1) * MaxCost \in Nat /\ k * MaxCost \in Nat
  <2> HIDE DEF k
  <2> QED
    BY <1>1, <1>4, ProductLess, ProductMono
<1>7. budget[Day] + k * MaxCost < DAILY_BUDGET_MICRO_USD + n
  BY DEF SpendInv
<1>8. /\ budget'[Day] = budget[Day] + Seen(h)
      /\ \A d \in Buckets : d # Day => budget'[d] = budget[d]
  BY <1>1 DEF Booked
<1>9. budget'[Day] + Cardinality(Spending') * MaxCost
        < DAILY_BUDGET_MICRO_USD + n
  <2> DEFINE b == budget[Day]
             c == Seen(h)
             j == (k - 1) * MaxCost
             l == k * MaxCost
  <2>1. /\ b \in Nat /\ c \in Nat /\ c <= MaxCost
        /\ j = l - MaxCost /\ j \in Nat /\ l \in Nat
        /\ b + l < DAILY_BUDGET_MICRO_USD + n
    BY <1>1, <1>2, <1>6, <1>7
  <2> HIDE DEF b, c, j, l, n
  <2>2. (b + c) + j < DAILY_BUDGET_MICRO_USD + n
    BY <1>1, <1>5, <2>1
  <2> QED
    BY <1>4, <1>8, <2>2 DEF b, c, j
<1>10. SpendIsBounded'
  <2> SUFFICES ASSUME NEW d \in Buckets
               PROVE  budget'[d] < DAILY_BUDGET_MICRO_USD + n
    BY DEF SpendIsBounded
  <2>1. CASE d = Day
    <3>1. budget'[Day] \in Nat
      BY <1>1, <1>2, <1>8
    <3>2. Cardinality(Spending') * MaxCost \in Nat
      BY <1>4, <1>6
    <3> HIDE DEF n
    <3> QED
      BY <1>1, <1>5, <1>9, <2>1, <3>1, <3>2
  <2>2. CASE d # Day
    BY <1>8, <2>2 DEF SpendInv, SpendIsBounded
  <2> QED
    BY <2>1, <2>2
<1>11. \A d \in Buckets : d > Day => budget'[d] = 0
  <2>1. Day \in Int
    BY <1>1, ContainmentAssumption DEF Buckets
  <2> QED
    BY <1>8, <2>1 DEF SpendInv, Buckets
<1> QED
  BY <1>1, <1>9, <1>10, <1>11 DEF SpendInv

\* A handler is let through only while the budget is not used up.
LEMMA AdmissionStep ==
  ASSUME Typed, SpendInv, budget[Day] < DAILY_BUDGET_MICRO_USD,
         UNCHANGED <<clock, budget>>
  PROVE  SpendInv'
<1>1. /\ Day' = Day /\ Day \in Buckets /\ budget \in [Buckets -> Nat]
      /\ MaxCost \in Nat /\ DAILY_BUDGET_MICRO_USD \in Nat
  BY BucketType, ContainmentAssumption DEF Day, Windows, Typed, TypeOK
<1>2. Spending' \subseteq Handlers
  BY DEF Spending
<1>3. /\ Cardinality(Spending') <= Cardinality(Handlers)
      /\ Cardinality(Spending') \in Nat /\ Cardinality(Handlers) \in Nat
  BY <1>2, HandlerSets
<1> DEFINE j == Cardinality(Spending') * MaxCost
           n == Cardinality(Handlers) * MaxCost
<1>4. j \in Nat /\ n \in Nat /\ j <= n
  BY <1>1, <1>3, ProductMono
<1>5. budget'[Day] \in Nat /\ budget'[Day] < DAILY_BUDGET_MICRO_USD
  BY <1>1
<1>6. budget'[Day] + j < DAILY_BUDGET_MICRO_USD + n
  <2> HIDE DEF j, n
  <2> QED
    BY <1>1, <1>4, <1>5
<1> QED
  BY <1>1, <1>6 DEF SpendInv, SpendIsBounded

LEMMA SpendStep == Typed /\ SpendInv /\ [Next]_vars => SpendInv'
<1> SUFFICES ASSUME Typed, SpendInv, [Next]_vars PROVE SpendInv'
  OBVIOUS
<1>0. /\ pc \in [Handlers -> Labels] /\ clock \in Nat /\ MaxTicks \in Nat
      /\ budget \in [Buckets -> Nat]
      /\ DAILY_BUDGET_MICRO_USD \in Nat \ {0} /\ MaxCost \in Nat
  BY ContainmentAssumption DEF Typed, TypeOK
<1>1. ASSUME UNCHANGED <<clock, budget>>, Spending' \subseteq Spending
      PROVE  SpendInv'
  <2>1. \A d \in Buckets : budget'[d] <= budget[d]
    BY <1>0, <1>1
  <2> QED
    BY <1>0, <1>1, <2>1, QuietSpending
<1>2. ASSUME Tick PROVE SpendInv'
  <2>1. /\ clock' = clock + 1 /\ UNCHANGED <<budget, pc>>
        /\ clock \in 0..MaxTicks /\ clock' \in 0..MaxTicks
    BY <1>0, <1>2 DEF Tick
  <2>2. Day \in Buckets /\ Day' \in Buckets /\ Day \in Int /\ Day' \in Int
    <3>1. Day \in Buckets /\ Day' \in Buckets
      BY <2>1, BucketType DEF Day, Windows
    <3> QED
      BY <1>0, <3>1 DEF Buckets
  <2>3. Day' >= Day
    BY <1>0, <2>1, DivMono, ContainmentAssumption DEF Day, Bucket, Ticks
  <2>4. Spending' = Spending
    BY <2>1 DEF Spending
  <2>5. \A d \in Buckets : d > Day' => budget'[d] = 0
    BY <2>1, <2>2, <2>3 DEF SpendInv, Buckets
  <2>6. budget'[Day'] + Cardinality(Spending) * MaxCost
          < DAILY_BUDGET_MICRO_USD + Cardinality(Handlers) * MaxCost
    <3>1. CASE Day' = Day
      BY <2>1, <3>1 DEF SpendInv
    <3>2. CASE Day' # Day
      <4>1. budget'[Day'] = 0
        <5>1. Day' > Day
          BY <2>2, <2>3, <3>2
        <5>2. \A d \in Buckets : d > Day => budget[d] = 0
          BY DEF SpendInv
        <5> QED
          BY <2>1, <2>2, <5>1, <5>2
      <4>2. /\ Cardinality(Spending) \in Nat /\ Cardinality(Handlers) \in Nat
            /\ Cardinality(Spending) <= Cardinality(Handlers)
        <5>1. Spending \subseteq Handlers
          BY DEF Spending
        <5> QED
          BY <5>1, HandlerSets
      <4> DEFINE j == Cardinality(Spending) * MaxCost
                 n == Cardinality(Handlers) * MaxCost
      <4>3. j \in Nat /\ n \in Nat /\ j <= n
        BY <1>0, <4>2, ProductMono
      <4>4. 0 + j < DAILY_BUDGET_MICRO_USD + n
        <5> HIDE DEF j, n
        <5> QED
          BY <1>0, <4>3
      <4> QED
        BY <4>1, <4>4
    <3> QED
      BY <3>1, <3>2
  <2> QED
    BY <2>1, <2>4, <2>5, <2>6 DEF SpendInv, SpendIsBounded
<1>3. ASSUME Reset PROVE SpendInv'
  <2>1. /\ UNCHANGED <<clock, pc>> /\ budget' \in [Buckets -> Nat]
        /\ \A d \in Buckets : budget'[d] <= budget[d]
    BY <1>0, <1>3 DEF Reset
  <2> QED
    BY <2>1, QuietSpending DEF Spending
<1>4. ASSUME NEW h \in Handlers, Step(h) PROVE SpendInv'
  <2>1. \A g \in Handlers : g # h => pc'[g] = pc[g]
    BY <1>4, StepIsLocal
  <2>2. ASSUME \/ pc[h] \in {"live", "book"}
               \/ pc'[h] \notin {"live", "book"}
        PROVE  Spending' \subseteq Spending
    BY <2>1, <2>2 DEF Spending
  <2>3. ASSUME pc[h] = "book", pc'[h] \notin {"live", "book"}
        PROVE  Spending' = Spending \ {h}
    BY <2>1, <2>3 DEF Spending
  <2>4. /\ \A to : Goes(h, to) => pc'[h] = to
        /\ Leaves(h) => pc'[h] = "idle"
    BY <1>0 DEF Goes, Leaves
  <2>5. ASSUME LiveCapacity(h) PROVE SpendInv'
    <3>1. CASE budget[Day] < DAILY_BUDGET_MICRO_USD
      BY <2>5, <3>1, AdmissionStep DEF LiveCapacity, storeVars
    <3>2. CASE ~(budget[Day] < DAILY_BUDGET_MICRO_USD)
      <4>1. pc'[h] = "idle"
        BY <2>4, <2>5, <3>2 DEF LiveCapacity
      <4> QED
        BY <1>1, <2>2, <2>5, <4>1 DEF LiveCapacity, storeVars
    <3> QED
      BY <3>1, <3>2
  <2>6. ASSUME Live(h) PROVE SpendInv'
    BY <1>1, <2>2, <2>6 DEF Live, storeVars
  <2>7. ASSUME Book(h) PROVE SpendInv'
    BY <2>3, <2>4, <2>7, BookingStep DEF Book
  <2>8. ASSUME Throw(h) PROVE SpendInv'
    <3>1. pc'[h] \in {"idle", "refund"} /\ clock' = clock
      BY <2>4, <2>8 DEF Throw
    <3>2. CASE budget' = budget
      BY <1>1, <2>2, <3>1, <3>2
    <3>3. CASE Applied(h) /\ pc[h] = "book"
      BY <2>3, <3>1, <3>3, BookingStep DEF Applied
    <3>4. Applied(h) /\ pc[h] # "book" => budget' = budget
      BY DEF Applied, storeVars
    <3> QED
      BY <2>8, <3>2, <3>3, <3>4 DEF Throw, storeVars
  <2>9. ASSUME Crash(h) PROVE SpendInv'
    BY <1>1, <2>2, <2>4, <2>9 DEF Crash, storeVars
  <2>10. ASSUME pc'[h] \notin {"live", "book"}, UNCHANGED <<clock, budget>>
         PROVE  SpendInv'
    BY <1>1, <2>2, <2>10
  <2>11. ASSUME \/ Arrive(h) \/ ArriveLive(h) \/ Capacity(h) \/ Current(h)
                \/ Previous(h) \/ Count(h) \/ Charge(h) \/ Stamp(h) \/ Run(h)
                \/ Answer(h) \/ Refund(h) \/ GiveBack(h)
         PROVE  SpendInv'
    <3>1. UNCHANGED <<clock, budget>>
      BY <2>11
         DEF Arrive, ArriveLive, Capacity, Current, Previous, Count, Charge,
             Stamp, Run, Answer, Refund, GiveBack, storeVars
    <3>2. pc'[h] \notin {"live", "book"}
      <4>1. \/ Leaves(h)
            \/ \E to \in {"capacity", "live capacity", "current", "previous",
                         "count", "session", "stamp", "run", "settled",
                         "refund", "giveback"} : Goes(h, to)
        BY <2>11
           DEF Arrive, ArriveLive, Capacity, Current, Previous, Count, Charge,
               Stamp, Run, Answer, Refund, GiveBack
      <4> QED
        BY <2>4, <4>1
    <3> QED
      BY <2>10, <3>1, <3>2
  <2> QED
    BY <1>4, <2>5, <2>6, <2>7, <2>8, <2>9, <2>11 DEF Step
<1>5. CASE UNCHANGED vars
  BY <1>1, <1>5 DEF vars, storeVars, Spending
<1> QED
  BY <1>2, <1>3, <1>4, <1>5 DEF Next

LEMMA SpendInit == Init => SpendInv
<1> SUFFICES ASSUME Init PROVE SpendInv
  OBVIOUS
<1>1. /\ Day \in Buckets /\ budget = [d \in Buckets |-> 0]
      /\ DAILY_BUDGET_MICRO_USD \in Nat \ {0} /\ MaxCost \in Nat
  <2>1. clock \in 0..MaxTicks
    BY ContainmentAssumption DEF Init
  <2> QED
    BY <2>1, BucketType, ContainmentAssumption DEF Init, Day, Windows
<1>2. Spending = {}
  BY DEF Init, Spending
<1>3. Cardinality(Spending) = 0 /\ Cardinality(Handlers) \in Nat
  BY <1>2, FS_EmptySet, HandlerSets
<1> DEFINE n == Cardinality(Handlers) * MaxCost
<1>4. n \in Nat
  BY <1>1, <1>3, ProductMono
<1>5. 0 < DAILY_BUDGET_MICRO_USD + n
  <2> HIDE DEF n
  <2> QED
    BY <1>1, <1>4
<1> QED
  BY <1>1, <1>3, <1>5 DEF SpendInv, SpendIsBounded

\* A day's spend passes the budget by less than what its handlers can spend at
\* once, over midnight, resets and failures, for any number of handlers.
THEOREM BudgetHolds == Spec => []SpendIsBounded
<1>1. Init => SpendInv
  BY SpendInit
<1>2. Typed /\ SpendInv /\ [Next]_vars => SpendInv'
  BY SpendStep
<1>3. SpendInv => SpendIsBounded
  BY DEF SpendInv
<1> QED
  BY <1>1, <1>2, <1>3, AlwaysTyped, PTL DEF Spec

-----------------------------------------------------------------------------
(* The windows.                                                            *)

\* The handlers that have read a count of window w and bucket b that would
\* let them through, and have not counted themselves yet.
Candidate(h, w, b) ==
  /\ pc[h] \in {"previous", "count"} /\ local[h].window = w
  /\ Bucket(w, local[h].now) = b /\ Passes(w, Seen(h))

Candidates(w, b) == {h \in Handlers : Candidate(h, w, b)}

\* Those let through were counted, and together with those who will be they
\* stay within the burst.
BurstInv ==
  \A w \in Windows, b \in Buckets :
    /\ admitted[w][b] <= rate[w][b]
    /\ admitted[w][b] + Cardinality(Candidates(w, b))
         <= Limit(w) + Cardinality(Handlers) - 1

LEMMA CandidateSets ==
  ASSUME NEW w \in Windows, NEW b \in Buckets
  PROVE  /\ Candidates(w, b) \subseteq Handlers
         /\ Candidates(w, b)' \subseteq Handlers
         /\ Cardinality(Candidates(w, b)) \in Nat
         /\ Cardinality(Candidates(w, b)') \in Nat
         /\ Cardinality(Candidates(w, b)') <= Cardinality(Handlers)
         /\ Cardinality(Handlers) \in Nat /\ Cardinality(Handlers) > 0
<1>1. /\ Candidates(w, b) \subseteq Handlers
      /\ Candidates(w, b)' \subseteq Handlers
  BY DEF Candidates
<1> QED
  BY <1>1, HandlerSets

\* Where none is let through and no new candidate appears, the bound holds on.
LEMMA QuietBurst ==
  ASSUME Typed, BurstInv, NEW w \in Windows, NEW b \in Buckets,
         admitted'[w][b] = admitted[w][b],
         rate'[w][b] \in Nat, rate'[w][b] >= rate[w][b],
         Candidates(w, b)' \subseteq Candidates(w, b)
  PROVE  /\ admitted'[w][b] <= rate'[w][b]
         /\ admitted'[w][b] + Cardinality(Candidates(w, b)')
              <= Limit(w) + Cardinality(Handlers) - 1
<1>1. /\ admitted[w][b] \in Nat /\ rate[w][b] \in Nat /\ Limit(w) \in Nat
  BY TicksType DEF Typed, TypeOK
<1>2. Cardinality(Candidates(w, b)') <= Cardinality(Candidates(w, b))
  BY CandidateSets, HandlerSets
<1> QED
  BY <1>1, <1>2, CandidateSets DEF BurstInv

\* A count that was read lets through only below the limit.
LEMMA PassesBelowLimit ==
  ASSUME NEW t \in Nat \ {0}, NEW n \in Nat, NEW l \in Nat,
         t * n + t <= t * l
  PROVE  n + 1 <= l
<1>1. t * (n + 1) <= t * l
  OBVIOUS
<1>2. n + 1 > l => n >= l
  OBVIOUS
<1>3. n >= l => t * n >= t * l
  OBVIOUS
<1> QED
  BY <1>2, <1>3

\* The read of the current bucket makes at most this handler a candidate, and
\* only while fewer than the limit were counted.
LEMMA CurrentKeepsBurst ==
  ASSUME Typed, BurstInv, NEW h \in Handlers, Current(h)
  PROVE  BurstInv'
<1> SUFFICES ASSUME NEW w \in Windows, NEW b \in Buckets
             PROVE  /\ admitted'[w][b] <= rate'[w][b]
                    /\ admitted'[w][b] + Cardinality(Candidates(w, b)')
                         <= Limit(w) + Cardinality(Handlers) - 1
  BY DEF BurstInv
<1>1. /\ local[h] \in Request /\ local \in [Handlers -> Request]
      /\ pc \in [Handlers -> Labels]
      /\ rate[w][b] \in Nat /\ admitted[w][b] \in Nat
      /\ Ticks(w) \in Nat \ {0} /\ Limit(w) \in Nat
      /\ rate' = rate /\ admitted' = admitted
  BY TicksType DEF Typed, TypeOK, Current, storeVars, ghostVars
<1>2. \A g \in Handlers \ {h} : pc'[g] = pc[g] /\ local'[g] = local[g]
  BY StepIsLocal DEF Step
<1>3. /\ local'[h].window = local[h].window /\ local'[h].now = local[h].now
      /\ local'[h].seen = Ticks(local[h].window)
           * rate[local[h].window][Bucket(local[h].window, local[h].now)]
  BY <1>1 DEF Current, Sees, Request
<1>4. CASE ~Candidate(h, w, b)'
  <2>1. Candidates(w, b)' \subseteq Candidates(w, b)
    BY <1>2, <1>4 DEF Candidates, Candidate, Seen
  <2> QED
    BY <1>1, <2>1, QuietBurst
<1>5. CASE Candidate(h, w, b)'
  <2>1. /\ local[h].window = w /\ Bucket(w, local[h].now) = b
        /\ Seen(h)' = Ticks(w) * rate[w][b] /\ Passes(w, Seen(h)')
    BY <1>3, <1>5 DEF Candidate, Seen
  <2>2. Ticks(w) * rate[w][b] + Ticks(w) <= Ticks(w) * Limit(w)
    BY <2>1 DEF Passes
  <2>3. rate[w][b] + 1 <= Limit(w)
    BY <1>1, <2>2, PassesBelowLimit
  <2>4. admitted[w][b] <= rate[w][b]
    BY DEF BurstInv
  <2> QED
    BY <1>1, <2>3, <2>4, CandidateSets
<1> QED
  BY <1>4, <1>5

\* The weight of the previous bucket only holds handlers back.
LEMMA PreviousKeepsBurst ==
  ASSUME Typed, BurstInv, NEW h \in Handlers, Previous(h)
  PROVE  BurstInv'
<1> SUFFICES ASSUME NEW w \in Windows, NEW b \in Buckets
             PROVE  /\ admitted'[w][b] <= rate'[w][b]
                    /\ admitted'[w][b] + Cardinality(Candidates(w, b)')
                         <= Limit(w) + Cardinality(Handlers) - 1
  BY DEF BurstInv
<1>1. /\ local[h] \in Request /\ local \in [Handlers -> Request]
      /\ rate[w][b] \in Nat
      /\ rate' = rate /\ admitted' = admitted
  BY DEF Typed, TypeOK, Previous, storeVars, ghostVars
<1>2. \A g \in Handlers \ {h} : pc'[g] = pc[g] /\ local'[g] = local[g]
  BY StepIsLocal DEF Step
<1> DEFINE v == local[h].window
           m == Ticks(v) - (local[h].now % Ticks(v))
           p == rate[v][Bucket(v, local[h].now) - 1]
<1>3. /\ local'[h].window = v /\ local'[h].now = local[h].now
      /\ local'[h].seen = Seen(h) + m * p
  BY <1>1 DEF Previous, Sees, Request
<1>4. Seen(h)' >= Seen(h) /\ Seen(h) \in Int /\ Seen(h)' \in Int
  <2>1. v \in Windows /\ local[h].now \in 0..MaxTicks /\ Seen(h) \in Int
    BY <1>1, RequestType DEF Seen
  <2>2. /\ Ticks(v) \in Nat \ {0} /\ local[h].now \in Nat
        /\ Bucket(v, local[h].now) - 1 \in Buckets
    BY <2>1, TicksType, BucketType, ContainmentAssumption
  <2>3. local[h].now % Ticks(v) \in 0..(Ticks(v) - 1)
    BY <2>2
  <2>4. m \in Nat /\ p \in Nat
    BY <2>1, <2>2, <2>3 DEF Typed, TypeOK
  <2>5. m * p \in Nat
    <3> HIDE DEF m, p
    <3> QED
      BY <2>4
  <2>6. Seen(h)' = Seen(h) + m * p
    BY <1>3 DEF Seen
  <2> HIDE DEF m, p
  <2> QED
    BY <2>1, <2>5, <2>6
<1>5. pc[h] = "previous"
  BY DEF Previous
<1>6. Passes(w, Seen(h)') => Passes(w, Seen(h))
  BY <1>4, TicksType DEF Passes
<1>7. Candidate(h, w, b)' => Candidate(h, w, b)
  BY <1>3, <1>5, <1>6 DEF Candidate
<1>8. Candidates(w, b)' \subseteq Candidates(w, b)
  BY <1>2, <1>7 DEF Candidates, Candidate, Seen
<1> QED
  BY <1>1, <1>8, QuietBurst

\* A candidate that is let through stops being one.
LEMMA CountKeepsBurst ==
  ASSUME Typed, BurstInv, NEW h \in Handlers, Count(h)
  PROVE  BurstInv'
<1> SUFFICES ASSUME NEW w \in Windows, NEW b \in Buckets
             PROVE  /\ admitted'[w][b] <= rate'[w][b]
                    /\ admitted'[w][b] + Cardinality(Candidates(w, b)')
                         <= Limit(w) + Cardinality(Handlers) - 1
  BY DEF BurstInv
<1> DEFINE v == local[h].window
           c == Bucket(v, local[h].now)
<1>1. /\ pc \in [Handlers -> Labels] /\ rate[w][b] \in Nat
      /\ rate \in [Windows -> [Buckets -> Nat]]
      /\ admitted \in [Windows -> [Buckets -> Nat]]
      /\ local[h] \in Request
      /\ admitted[w][b] \in Nat /\ Limit(w) \in Nat
  BY TicksType DEF Typed, TypeOK
<1>2. \A g \in Handlers \ {h} : pc'[g] = pc[g] /\ local'[g] = local[g]
  BY StepIsLocal DEF Step
<1>3. pc[h] = "count" /\ pc'[h] \notin {"previous", "count"}
  BY <1>1 DEF Count, Leaves, Goes
<1>4. Candidates(w, b)' \subseteq Candidates(w, b) \ {h}
  BY <1>2, <1>3 DEF Candidates, Candidate, Seen
<1>5. v \in Windows /\ c \in Buckets
  BY <1>1, RequestType, BucketType
<1>6. rate'[w][b] = IF w = v /\ b = c THEN rate[w][b] + 1 ELSE rate[w][b]
  BY <1>1, <1>5 DEF Count, RateCounted
<1>7. CASE admitted'[w][b] = admitted[w][b]
  BY <1>1, <1>4, <1>6, <1>7, QuietBurst
<1>8. CASE w = v /\ b = c /\ Passes(v, Seen(h))
             /\ admitted'[w][b] = admitted[w][b] + 1
  <2>1. h \in Candidates(w, b)
    BY <1>3, <1>8 DEF Candidates, Candidate
  <2>2. Cardinality(Candidates(w, b)') <= Cardinality(Candidates(w, b)) - 1
    <3>1. /\ Candidates(w, b) \subseteq Handlers
          /\ Candidates(w, b) \ {h} \subseteq Handlers
      BY CandidateSets
    <3>2. Cardinality(Candidates(w, b) \ {h})
            = Cardinality(Candidates(w, b)) - 1
      BY <2>1, <3>1, HandlerSets
    <3>3. Cardinality(Candidates(w, b)')
            <= Cardinality(Candidates(w, b) \ {h})
      BY <1>4, <3>1, HandlerSets
    <3> QED
      BY <3>2, <3>3
  <2>3. /\ admitted[w][b] <= rate[w][b]
        /\ admitted[w][b] + Cardinality(Candidates(w, b))
             <= Limit(w) + Cardinality(Handlers) - 1
    BY DEF BurstInv
  <2>4. /\ Cardinality(Candidates(w, b)) \in Nat
        /\ Cardinality(Candidates(w, b)') \in Nat
        /\ Cardinality(Handlers) \in Nat
    BY CandidateSets
  <2> QED
    BY <1>1, <1>6, <1>8, <2>2, <2>3, <2>4
<1>9. \/ admitted' = admitted
      \/ /\ Passes(v, Seen(h))
         /\ admitted' = [admitted EXCEPT ![v][c] = @ + 1]
  BY DEF Count
<1> QED
  BY <1>1, <1>5, <1>7, <1>8, <1>9

\* A failed call counts nobody as let through.
LEMMA ThrowKeepsBurst ==
  ASSUME Typed, BurstInv, NEW h \in Handlers, Throw(h) \/ Crash(h)
  PROVE  BurstInv'
<1> SUFFICES ASSUME NEW w \in Windows, NEW b \in Buckets
             PROVE  /\ admitted'[w][b] <= rate'[w][b]
                    /\ admitted'[w][b] + Cardinality(Candidates(w, b)')
                         <= Limit(w) + Cardinality(Handlers) - 1
  BY DEF BurstInv
<1> DEFINE v == local[h].window
           c == Bucket(v, local[h].now)
<1>1. /\ pc \in [Handlers -> Labels] /\ rate[w][b] \in Nat
      /\ rate \in [Windows -> [Buckets -> Nat]] /\ local[h] \in Request
  BY DEF Typed, TypeOK
<1>2. \A g \in Handlers \ {h} : pc'[g] = pc[g] /\ local'[g] = local[g]
  BY StepIsLocal DEF Step
<1>3. pc'[h] \in {"idle", "refund"}
  BY <1>1 DEF Throw, Crash, Leaves, Goes
<1>4. Candidates(w, b)' \subseteq Candidates(w, b)
  BY <1>2, <1>3 DEF Candidates, Candidate, Seen
<1>5. v \in Windows /\ c \in Buckets
  BY <1>1, RequestType, BucketType
<1>6. admitted' = admitted /\ (rate' = rate \/ RateCounted(h))
  BY DEF Throw, Crash, Applied, Charged, Stamped, GivenBack, Booked,
         storeVars, ghostVars
<1>7. rate'[w][b] \in Nat /\ rate'[w][b] >= rate[w][b]
  <2>1. CASE rate' = rate
    BY <1>1, <2>1
  <2>2. CASE RateCounted(h)
    <3>1. rate'[w][b] = IF w = v /\ b = c THEN rate[w][b] + 1
                                          ELSE rate[w][b]
      BY <1>1, <1>5, <2>2 DEF RateCounted
    <3> QED
      BY <1>1, <3>1
  <2> QED
    BY <1>6, <2>1, <2>2
<1> QED
  BY <1>4, <1>6, <1>7, QuietBurst

LEMMA BurstStep == Typed /\ BurstInv /\ [Next]_vars => BurstInv'
<1> SUFFICES ASSUME Typed, BurstInv, [Next]_vars PROVE BurstInv'
  OBVIOUS
<1>0. /\ pc \in [Handlers -> Labels]
      /\ rate \in [Windows -> [Buckets -> Nat]]
  BY DEF Typed, TypeOK
<1>1. ASSUME UNCHANGED <<rate, admitted>>,
             \A w \in Windows, b \in Buckets :
               Candidates(w, b)' \subseteq Candidates(w, b)
      PROVE  BurstInv'
  BY <1>0, <1>1, QuietBurst DEF BurstInv
<1>2. ASSUME UNCHANGED <<rate, admitted, pc, local>> PROVE BurstInv'
  BY <1>1, <1>2 DEF Candidates, Candidate, Seen
<1>3. CASE Tick \/ Reset
  BY <1>2, <1>3 DEF Tick, Reset, ghostVars
<1>4. ASSUME NEW h \in Handlers, Step(h) PROVE BurstInv'
  <2>1. \A g \in Handlers \ {h} : pc'[g] = pc[g] /\ local'[g] = local[g]
    BY <1>4, StepIsLocal
  <2>2. ASSUME pc'[h] \notin {"previous", "count"},
               UNCHANGED <<rate, admitted>>
        PROVE  BurstInv'
    <3>1. ASSUME NEW w \in Windows, NEW b \in Buckets
          PROVE  Candidates(w, b)' \subseteq Candidates(w, b)
      BY <2>1, <2>2 DEF Candidates, Candidate, Seen
    <3> QED
      BY <1>1, <2>2, <3>1
  <2>3. CASE Current(h) \/ Previous(h) \/ Count(h)
    BY <2>3, CurrentKeepsBurst, PreviousKeepsBurst, CountKeepsBurst
  <2>4. CASE Throw(h) \/ Crash(h)
    BY <2>4, ThrowKeepsBurst
  <2>5. CASE \/ Arrive(h) \/ ArriveLive(h) \/ Capacity(h) \/ LiveCapacity(h)
             \/ Charge(h) \/ Stamp(h) \/ Run(h) \/ Answer(h) \/ Refund(h)
             \/ GiveBack(h) \/ Live(h) \/ Book(h)
    <3>1. UNCHANGED <<rate, admitted>>
      BY <2>5
         DEF Arrive, ArriveLive, Capacity, LiveCapacity, Charge, Stamp, Run,
             Answer, Refund, GiveBack, Live, Book, storeVars, ghostVars
    <3>2. \/ Leaves(h)
          \/ \E to \in {"capacity", "live capacity", "current", "stamp", "run",
                       "settled", "refund", "giveback", "live", "idle",
                       "book"} : Goes(h, to)
      BY <2>5
         DEF Arrive, ArriveLive, Capacity, LiveCapacity, Charge, Stamp, Run,
             Answer, Refund, GiveBack, Live, Book
    <3>3. pc'[h] \notin {"previous", "count"}
      BY <1>0, <3>2 DEF Leaves, Goes
    <3> QED
      BY <2>2, <3>1, <3>3
  <2> QED
    BY <1>4, <2>3, <2>4, <2>5 DEF Step
<1>5. CASE UNCHANGED vars
  BY <1>2, <1>5 DEF vars, storeVars, ghostVars
<1> QED
  BY <1>3, <1>4, <1>5 DEF Next

LEMMA BurstInit == Init => BurstInv
<1> SUFFICES ASSUME Init, NEW w \in Windows, NEW b \in Buckets
             PROVE  /\ admitted[w][b] <= rate[w][b]
                    /\ admitted[w][b] + Cardinality(Candidates(w, b))
                         <= Limit(w) + Cardinality(Handlers) - 1
  BY DEF BurstInv
<1>1. Candidates(w, b) = {}
  BY DEF Init, Candidates, Candidate
<1>2. admitted[w][b] = 0 /\ rate[w][b] = 0
  BY DEF Init
<1> QED
  BY <1>1, <1>2, FS_EmptySet, CandidateSets, TicksType

\* A clock hour, or day, lets through at most its limit and one request more
\* for each other handler, for any number of handlers and any windows.
THEOREM Burst == Spec => []BurstIsBounded
<1>1. Init => BurstInv
  BY BurstInit
<1>2. Typed /\ BurstInv /\ [Next]_vars => BurstInv'
  BY BurstStep
<1>3. Typed /\ BurstInv => BurstIsBounded
  <2> SUFFICES ASSUME Typed, BurstInv, NEW w \in Windows, NEW b \in Buckets
               PROVE  admitted[w][b] <= Limit(w) + Cardinality(Handlers) - 1
    BY DEF BurstIsBounded
  <2>1. admitted[w][b] \in Nat /\ Limit(w) \in Nat
    BY TicksType DEF Typed, TypeOK
  <2> QED
    BY <2>1, CandidateSets DEF BurstInv
<1> QED
  BY <1>1, <1>2, <1>3, AlwaysTyped, PTL DEF Spec
=============================================================================
