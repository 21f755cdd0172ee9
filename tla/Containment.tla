---------------------------- MODULE Containment ----------------------------
(***************************************************************************)
(* What a visitor may use up: the sliding windows per IP, the run cap per  *)
(* session and the daily budget (packages/agent/src/containment.ts), in    *)
(* the order the intake route and the live lane of the dev route consult   *)
(* them, over the increments of the Redis store, and the nightly reset.    *)
(*                                                                         *)
(* One IP: its keys are its own.  A handler serves one request after       *)
(* another, one store call per step.  Time is a clock of ticks.  Window    *)
(* and budget keys live two windows from their creation, so they are read  *)
(* for the last time before they expire, and only the session's counter is *)
(* given an expiry here.                                                   *)
(***************************************************************************)
EXTENDS Integers, FiniteSets

CONSTANTS Handlers, Sessions,
          HourTicks, DayTicks,
          IP_LIMIT_PER_HOUR, IP_LIMIT_PER_DAY, SESSION_RUN_CAP,
          DAILY_BUDGET_MICRO_USD,
          MaxCost,        \* what one live run may cost
          MaxTicks,
          Scenarios,      \* what may happen; see Scenario
          Nobody

\* The bounds of a behaviour: which routes are asked and how often, failing
\* store calls, nightly resets, and what the visitor has used up before.
Scenario == [lanes : SUBSET {"intake", "live"}, requests : Nat, faults : Nat,
             resets : Nat]

ASSUME ContainmentAssumption ==
  /\ IsFiniteSet(Handlers) /\ Handlers # {} /\ Nobody \notin Sessions
  /\ HourTicks \in Nat \ {0} /\ DayTicks \in Nat \ {0} /\ MaxTicks \in Nat
  /\ IP_LIMIT_PER_HOUR \in Nat /\ IP_LIMIT_PER_DAY \in Nat
  /\ SESSION_RUN_CAP \in Nat /\ DAILY_BUDGET_MICRO_USD \in Nat \ {0}
  /\ MaxCost \in Nat
  /\ Scenarios \subseteq Scenario

VARIABLES
  clock,
  \* the store
  rate,        \* of a window ("h", "d") and a bucket: requests counted
  session,     \* of a session: its counter, whether it exists and expires
  budget,      \* of a day: micro-USD recorded
  \* the handlers
  pc,
  local,       \* a handler's variables; see Request
  \* observed, not part of the program
  admitted,    \* of a window and a bucket: requests let through
  charged,     \* requests that hold a slot of their session
  overcredit,  \* of a session: slots given back that nobody held
  \* bounds
  scenario, requests, faults, resets

storeVars == <<rate, session, budget>>
ghostVars == <<admitted, charged, overcredit>>
boundVars == <<scenario, faults, resets>>
vars == <<clock, storeVars, pc, local, ghostVars, requests, boundVars>>

Windows == {"h", "d"}
Ticks(w) == IF w = "h" THEN HourTicks ELSE DayTicks
Limit(w) == IF w = "h" THEN IP_LIMIT_PER_HOUR ELSE IP_LIMIT_PER_DAY
Bucket(w, t) == t \div Ticks(w)
Buckets == -1 .. MaxTicks
Day == Bucket("d", clock)

\* Which request it is and of which session, nowMs and the window of
\* checkIpLimit, what was read or spent last, and whether the route's catch
\* block was entered.
Request == [serial : Nat, visitor : Sessions \cup {Nobody},
            now : 0..MaxTicks, window : Windows, seen : Int, caught : BOOLEAN]

NoRequest == [serial |-> 0, visitor |-> Nobody, now |-> 0, window |-> "h",
              seen |-> 0, caught |-> FALSE]

\* A session's key.
Counter == [exists : BOOLEAN, runs : Int, expires : BOOLEAN, at : Nat]

NoCounter == [exists |-> FALSE, runs |-> 0, expires |-> FALSE, at |-> 0]

Init ==
  /\ scenario \in Scenarios
  /\ clock = 0
  /\ rate = [w \in Windows |-> [b \in Buckets |-> 0]]
  /\ session = [s \in Sessions |-> NoCounter]
  /\ budget = [d \in Buckets |-> 0]
  /\ pc = [h \in Handlers |-> "idle"]
  /\ local = [h \in Handlers |-> NoRequest]
  /\ admitted = [w \in Windows |-> [b \in Buckets |-> 0]]
  /\ charged = [s \in Sessions |-> {}]
  /\ overcredit = [s \in Sessions |-> 0]
  /\ requests = 0 /\ faults = 0 /\ resets = 0

Goes(h, to) == pc' = [pc EXCEPT ![h] = to]
Leaves(h)   == Goes(h, "idle") /\ local' = [local EXCEPT ![h] = NoRequest]
Sees(h, n)  == local' = [local EXCEPT ![h].seen = n]

Visitor(h) == local[h].visitor
Seen(h)    == local[h].seen

-----------------------------------------------------------------------------
(* The routes.                                                             *)

\* A request of a session: the cookie's, or a new one.  The live lane has
\* none.
Arrive(h) ==
  /\ pc[h] = "idle" /\ requests < scenario.requests
  /\ requests' = requests + 1
  /\ "intake" \in scenario.lanes
  /\ \E v \in Sessions :
       local' = [local EXCEPT ![h].serial = requests + 1, ![h].visitor = v]
  /\ Goes(h, "capacity")
  /\ UNCHANGED <<clock, storeVars, ghostVars, boundVars>>

ArriveLive(h) ==
  /\ pc[h] = "idle" /\ requests < scenario.requests
  /\ "live" \in scenario.lanes
  /\ requests' = requests + 1
  /\ Goes(h, "live capacity")
  /\ UNCHANGED <<clock, storeVars, local, ghostVars, boundVars>>

\* isCapacityMode: a tripped breaker sends the visitor back; so does a form
\* that is not valid.
Capacity(h) ==
  /\ pc[h] = "capacity"
  /\ \/ Leaves(h)
     \/ /\ budget[Day] < DAILY_BUDGET_MICRO_USD
        /\ local' = [local EXCEPT ![h].now = clock]
        /\ Goes(h, "current")
  /\ UNCHANGED <<clock, storeVars, ghostVars, requests, boundVars>>

\* slidingCount reads the current bucket ...
Current(h) ==
  /\ pc[h] = "current"
  /\ LET w == local[h].window IN
     Sees(h, Ticks(w) * rate[w][Bucket(w, local[h].now)])
  /\ Goes(h, "previous")
  /\ UNCHANGED <<clock, storeVars, ghostVars, requests, boundVars>>

\* ... and the previous one, which weighs what is left of the current one.
Previous(h) ==
  /\ pc[h] = "previous"
  /\ LET w == local[h].window IN
     Sees(h, Seen(h) + (Ticks(w) - (local[h].now % Ticks(w)))
                       * rate[w][Bucket(w, local[h].now) - 1])
  /\ Goes(h, "count")
  /\ UNCHANGED <<clock, storeVars, ghostVars, requests, boundVars>>

\* The count that was read, and this request.
Passes(w, weighted) == weighted + Ticks(w) <= Ticks(w) * Limit(w)

RateCounted(h) ==
  LET w == local[h].window IN
  rate' = [rate EXCEPT ![w][Bucket(w, local[h].now)] = @ + 1]

\* checkIpLimit increments and then compares what it read before: first of
\* the hour, then of the day.
Count(h) ==
  /\ pc[h] = "count"
  /\ RateCounted(h)
  /\ LET w == local[h].window IN
     \/ ~Passes(w, Seen(h)) /\ Leaves(h) /\ UNCHANGED admitted
     \/ /\ Passes(w, Seen(h))
        /\ admitted' = [admitted EXCEPT ![w][Bucket(w, local[h].now)] = @ + 1]
        /\ local' = [local EXCEPT ![h].window = "d", ![h].seen = 0]
        /\ Goes(h, IF w = "h" THEN "current" ELSE "session")
  /\ UNCHANGED <<clock, session, budget, charged, overcredit, requests,
                 boundVars>>

-----------------------------------------------------------------------------
(* The session cap.                                                        *)

\* Slip: the cap is compared with the runs before this one.
WithinCapBefore(runs) == runs - 1 <= SESSION_RUN_CAP

WithinCap(runs) == runs <= SESSION_RUN_CAP

RunsOf(s) == session[s].runs

\* incrBy: INCRBY creates the key, without an expiry.
Charged(h) ==
  LET s == Visitor(h) IN
  /\ session' = [session EXCEPT ![s] = [@ EXCEPT !.exists = TRUE,
                                                  !.runs = RunsOf(s) + 1]]
  /\ charged' = [charged EXCEPT ![s] =
       IF WithinCap(RunsOf(s) + 1) THEN @ \cup {local[h].serial} ELSE @]

\* Slip: the expiry comes with the key, and not with the first run.
StampedOnCreation(s) == ~session[s].exists

\* The increment that is answered with its own delta is taken for the first.
FirstIncrement(s) == RunsOf(s) + 1 = 1

\* checkSessionCap.
Charge(h) ==
  /\ pc[h] = "session"
  /\ LET s == Visitor(h) IN
     /\ Charged(h)
     /\ \/ FirstIncrement(s) /\ Sees(h, 1) /\ Goes(h, "stamp")
        \/ /\ ~FirstIncrement(s) /\ WithinCap(RunsOf(s) + 1)
           /\ Goes(h, "run") /\ UNCHANGED local
        \/ ~FirstIncrement(s) /\ ~WithinCap(RunsOf(s) + 1) /\ Leaves(h)
  /\ UNCHANGED <<clock, rate, budget, admitted, overcredit, requests,
                 boundVars>>

\* EXPIRE is a second call.
Stamped(h) ==
  LET s == Visitor(h) IN
  session' = [session EXCEPT ![s] =
                IF @.exists THEN [@ EXCEPT !.expires = TRUE,
                                           !.at = clock + DayTicks]
                ELSE @]

Stamp(h) ==
  /\ pc[h] = "stamp"
  /\ Stamped(h)
  /\ \/ WithinCap(Seen(h)) /\ Sees(h, 0) /\ Goes(h, "run")
     \/ ~WithinCap(Seen(h)) /\ Leaves(h)
  /\ UNCHANGED <<clock, rate, budget, ghostVars, requests, boundVars>>

Caught(h) == local' = [local EXCEPT ![h].caught = TRUE]

\* The run: one that ended in an error is given back, and so is one that
\* threw, from the catch block.
Run(h) ==
  /\ pc[h] = "run"
  /\ \/ Goes(h, "settled") /\ UNCHANGED local
     \/ Goes(h, "refund") /\ UNCHANGED local
     \/ Goes(h, "refund") /\ Caught(h)
  /\ UNCHANGED <<clock, storeVars, ghostVars, requests, boundVars>>

\* recordRunCost of nothing, and the redirect to the run.
Answer(h) ==
  /\ pc[h] = "settled"
  /\ Leaves(h)
  /\ UNCHANGED <<clock, storeVars, ghostVars, requests, boundVars>>

\* refundSessionRun reads the counter ...
Refund(h) ==
  /\ pc[h] = "refund"
  /\ \/ RunsOf(Visitor(h)) > 0 /\ Goes(h, "giveback") /\ UNCHANGED local
     \/ RunsOf(Visitor(h)) <= 0 /\ Leaves(h)
  /\ UNCHANGED <<clock, storeVars, ghostVars, requests, boundVars>>

\* ... and then takes one off, of a key that may be gone by now.
GivenBack(h) ==
  LET s == Visitor(h)
      held == local[h].serial \in charged[s] IN
  /\ session' = [session EXCEPT ![s] = [@ EXCEPT !.exists = TRUE,
                                                  !.runs = RunsOf(s) - 1]]
  /\ charged' = [charged EXCEPT ![s] = @ \ {local[h].serial}]
  /\ overcredit' = [overcredit EXCEPT ![s] = IF held THEN @ ELSE @ + 1]

GiveBack(h) ==
  /\ pc[h] = "giveback"
  /\ GivenBack(h)
  /\ Leaves(h)
  /\ UNCHANGED <<clock, rate, budget, admitted, requests, boundVars>>

-----------------------------------------------------------------------------
(* The daily budget.                                                       *)

\* Slip: the lane is paid for out of a tripped budget, too.
LiveUnchecked(h) ==
  /\ pc[h] = "live capacity"
  /\ Goes(h, "live")
  /\ UNCHANGED <<clock, storeVars, local, ghostVars, requests, boundVars>>

\* The live lane of the dev route asks for capacity, too.
LiveCapacity(h) ==
  /\ pc[h] = "live capacity"
  /\ Goes(h, IF budget[Day] < DAILY_BUDGET_MICRO_USD THEN "live" ELSE "idle")
  /\ UNCHANGED <<clock, storeVars, local, ghostVars, requests, boundVars>>

\* A live run costs something, or fails and costs nobody knows what.
Live(h) ==
  /\ pc[h] = "live"
  /\ \/ /\ \E cost \in 0..MaxCost : Sees(h, cost)
        /\ Goes(h, "book")
     \/ Leaves(h)
  /\ UNCHANGED <<clock, storeVars, ghostVars, requests, boundVars>>

Booked(h) == budget' = [budget EXCEPT ![Day] = @ + Seen(h)]

\* recordRunCost.
Book(h) ==
  /\ pc[h] = "book"
  /\ Booked(h)
  /\ Leaves(h)
  /\ UNCHANGED <<clock, rate, session, ghostVars, requests, boundVars>>

\* resetDemo clears the budget of today and yesterday, and no visitor's limit.
Reset ==
  /\ resets < scenario.resets /\ resets' = resets + 1
  /\ budget' = [d \in Buckets |-> IF d \in {Day - 1, Day} THEN 0
                                  ELSE budget[d]]
  /\ UNCHANGED <<clock, rate, session, pc, local, ghostVars, requests,
                 scenario, faults>>

-----------------------------------------------------------------------------
(* Time and failures.                                                      *)

Gone(s) == session[s].exists /\ session[s].expires
             /\ session[s].at <= clock + 1

Tick ==
  /\ clock < MaxTicks
  /\ clock' = clock + 1
  /\ session' = [s \in Sessions |-> IF Gone(s) THEN NoCounter ELSE session[s]]
  /\ charged' = [s \in Sessions |-> IF Gone(s) THEN {} ELSE charged[s]]
  /\ overcredit' = [s \in Sessions |-> IF Gone(s) THEN 0 ELSE overcredit[s]]
  /\ UNCHANGED <<rate, budget, pc, local, admitted, requests, boundVars>>

\* What a failed call may still have done.
Applied(h) ==
  CASE pc[h] = "count"    -> RateCounted(h) /\ UNCHANGED <<session, budget,
                                                           ghostVars>>
    [] pc[h] = "session"  -> Charged(h) /\ UNCHANGED <<rate, budget, admitted,
                                                       overcredit>>
    [] pc[h] = "stamp"    -> Stamped(h) /\ UNCHANGED <<rate, budget,
                                                       ghostVars>>
    [] pc[h] = "giveback" -> GivenBack(h) /\ UNCHANGED <<rate, budget,
                                                         admitted>>
    [] pc[h] = "book"     -> Booked(h) /\ UNCHANGED <<rate, session,
                                                      ghostVars>>
    [] OTHER              -> UNCHANGED <<storeVars, ghostVars>>

InTry(h) == pc[h] \in {"settled", "refund", "giveback"} /\ ~local[h].caught

\* A store call throws, applied or not: from the intake's try block into its
\* catch block, which refunds; from anywhere else out of the handler.
Throw(h) ==
  /\ faults < scenario.faults /\ faults' = faults + 1
  /\ pc[h] \notin {"idle", "run", "live"}
  /\ Applied(h) \/ UNCHANGED <<storeVars, ghostVars>>
  /\ \/ InTry(h) /\ Goes(h, "refund") /\ Caught(h)
     \/ ~InTry(h) /\ Leaves(h)
  /\ UNCHANGED <<clock, requests, scenario, resets>>

\* The function is killed.
Crash(h) ==
  /\ faults < scenario.faults /\ faults' = faults + 1
  /\ pc[h] # "idle"
  /\ Leaves(h)
  /\ UNCHANGED <<clock, storeVars, ghostVars, requests, scenario, resets>>

Step(h) ==
  \/ Arrive(h) \/ ArriveLive(h) \/ Capacity(h) \/ LiveCapacity(h)
  \/ Current(h) \/ Previous(h) \/ Count(h) \/ Charge(h) \/ Stamp(h) \/ Run(h)
  \/ Answer(h) \/ Refund(h) \/ GiveBack(h) \/ Live(h) \/ Book(h)
  \/ Throw(h) \/ Crash(h)

Next == Tick \/ Reset \/ \E h \in Handlers : Step(h)

Spec == Init /\ [][Next]_vars

-----------------------------------------------------------------------------
(* Properties.                                                             *)

Labels == {"idle", "capacity", "current", "previous", "count", "session",
           "stamp", "run", "settled", "refund", "giveback",
           "live capacity", "live", "book"}

\* Every variable keeps its type.
TypeOK ==
  /\ clock \in 0..MaxTicks /\ scenario \in Scenarios
  /\ rate \in [Windows -> [Buckets -> Nat]]
  /\ session \in [Sessions -> Counter]
  /\ budget \in [Buckets -> Nat]
  /\ pc \in [Handlers -> Labels] /\ local \in [Handlers -> Request]
  /\ admitted \in [Windows -> [Buckets -> Nat]]
  /\ charged \in [Sessions -> SUBSET Nat]
  /\ overcredit \in [Sessions -> Nat]
  /\ requests \in Nat /\ faults \in Nat /\ resets \in Nat

\* Within the horizon of a session no more runs than the cap hold a slot,
\* however its requests, refunds and the counter's expiry interleave, but for
\* the slots that were given back twice or for a horizon that is over.
SessionCapHolds ==
  \A s \in Sessions :
    Cardinality(charged[s]) <= SESSION_RUN_CAP + overcredit[s]

\* A session that has used something up is free again after a day: its
\* counter expires, or is about to be told so, when no call failed.
HorizonIsStamped ==
  \A s \in Sessions :
    RunsOf(s) > 0 /\ ~session[s].expires /\ faults = 0 =>
      \E h \in Handlers : pc[h] = "stamp" /\ Visitor(h) = s

\* By how much a burst may overshoot: a clock hour, or day, lets through at most
\* its limit and one request more for each other handler that read the same
\* count.
BurstIsBounded ==
  \A w \in Windows, b \in Buckets :
    admitted[w][b] <= Limit(w) + Cardinality(Handlers) - 1

\* The day's counter passes the budget by less than what the runs cost that
\* were admitted side by side, resets and midnights included.
SpendIsBounded ==
  \A d \in Buckets :
    budget[d] < DAILY_BUDGET_MICRO_USD + Cardinality(Handlers) * MaxCost

-----------------------------------------------------------------------------
(* What a comment promises and the code does not keep.                     *)

\* checkIpLimit: "the old read-then-increment window let concurrent bursts
\* overshoot the cap; now the slot is claimed atomically before the check".
\* It is, but the check is of the count read before the claim: requests that
\* read together are let through together.
BurstNeverOvershoots ==
  \A w \in Windows, b \in Buckets : admitted[w][b] <= Limit(w)
=============================================================================
