----------------------------- MODULE MatrixRun -----------------------------
(***************************************************************************)
(* The live evaluation matrix (evals/runner/src/matrix): one invocation of *)
(* run.script.ts after another over the lanes, with the driver of batched  *)
(* runs (batch.ts), the judge (judge-batch.ts), the latency pass           *)
(* (latency.ts), the spend ledger and its file (ledger.ts), and the        *)
(* accounting afterwards (augment.script.ts).                              *)
(*                                                                         *)
(* The Batch API is external: a batch ends with one row per request, and a *)
(* cancelled batch may still have served, and billed, some of them.  Time  *)
(* is left out: a poll may find any deadline passed.  Money is CostUsd of  *)
(* what a row used, in fortieths of a token's input price.                 *)
(***************************************************************************)
EXTENDS Integers, Sequences, FiniteSets, Functions

CONSTANTS Cases,
          Lanes,          \* a sequence: cheapest first
          Cached,         \* the lanes that write the prompt cache, for 1h
          JudgedLanes,    \* the uncached lanes: their drafts are judged
          Usages,         \* what one turn may use, by the TTL of its cache
          MaxRounds,
          Hard, Soft,     \* the envelope
          Worst,          \* a case's estimated cost, padded: not a limit
          JudgeWorst,     \* ... a judged draft's
          LatencyCases,
          Scenarios       \* what an evaluation is made of; see Scenario

LaneSet == {Lanes[i] : i \in 1..Len(Lanes)}
Usage   == [fresh : Nat, written : Nat, cached : Nat]

Ttls    == {"1h", "5m", "none"}

\* The cases GR-SCOPE rejects before the model, the options of the driver, the
\* environments the script is run in (the stages they switch off), and the
\* bounds: how often it is run and how many calls may fail.
Scenario == [screened : SUBSET Cases, chunkSize : Nat \ {0}, retries : Nat,
             skips : SUBSET SUBSET {"judge", "latency"},
             invocations : Nat, faults : Nat]

ASSUME MatrixAssumption ==
  /\ Scenarios \subseteq Scenario /\ LatencyCases \subseteq Cases
  /\ IsFiniteSet(Cases) /\ Lanes \in Seq(LaneSet)
  /\ LaneSet \cap {"working", "published", "latency", "swept"} = {}
  /\ Usages \in [Ttls -> SUBSET Usage]
  /\ Cached \subseteq LaneSet /\ JudgedLanes \subseteq LaneSet
  /\ MaxRounds \in Nat \ {0}
  /\ {Hard, Soft, Worst, JudgeWorst} \subseteq Nat

VARIABLES
  scenario,
  \* the results directory and the ledger file
  disk,          \* the ledger file's entries, unless it cannot be parsed
  checkpoints,   \* of each lane: no file, a torn one, or what it found
  matrix,        \* lanes of the published matrix.json
  account,       \* what the accounting attributed to it
  \* the Batch API
  batches,       \* every batch ever created, in order
  \* the invocation under way
  pc, stage,
  skip,          \* stages switched off by its environment
  ledger,        \* SpendLedger's entries
  present,       \* outcomesByLane's keys
  at,            \* index of the lane
  \* runLane
  status,        \* of each case: "active" or how it ended
  pending,       \* cases whose model asked for a tool in this round
  iterations, spent,
  round, used,   \* batchIds
  \* the requests of a round, a judge pass or the latency pass
  unsent,
  attempt, batch, unread,
  \* observed, not part of the program
  forgotten,     \* an invocation opened a ledger file it could not parse
  \* bounds
  invocations, faults

diskVars == <<disk, checkpoints, matrix, account>>
laneVars == <<status, pending, iterations, spent, round, used>>
rowVars  == <<unsent, attempt, batch, unread>>
runVars  == <<skip, present, at>>
seenVars == <<forgotten>>
countVars == <<scenario, invocations, faults>>
vars == <<diskVars, batches, pc, stage, ledger, laneVars, rowVars, runVars,
          seenVars, countVars>>

-----------------------------------------------------------------------------
(* The ledger.                                                             *)

\* costUsd: a cache write costs 2.0 at the 1h TTL and 1.25 otherwise, a cache
\* read 0.1; the Batch API bills half of it.
CostUsd(usage, ttl, channel) ==
  (IF channel = "batch" THEN 1 ELSE 2)
    * (  20 * usage.fresh + (IF ttl = "1h" THEN 40 ELSE 25) * usage.written
       + 2 * usage.cached)

Price(e) == CostUsd(e.usage, e.ttl, e.channel)

CostOf(entries) == SumFunction([e \in entries |-> Price(e)])

\* Only the latency pass talks to the model outside of a batch.
Entry(key, lane, usage, ttl) ==
  [key |-> key, lane |-> lane, usage |-> usage, ttl |-> ttl,
   channel |-> IF lane = "latency" THEN "interactive" ELSE "batch"]

Keys(entries) == {e.key : e \in entries}

\* SpendLedger.add: a key that is present is not added again.
Added(entries, e) ==
  IF e.key \in Keys(entries) THEN entries ELSE entries \cup {e}

\* Slip: the bound is forgotten, only the money already spent counts.
NotSpentYet(worst) == CostOf(ledger) <= Hard

\* assertHeadroom.
Headroom(worst) == CostOf(ledger) + worst <= Hard

ShouldPause == CostOf(ledger) >= Soft

Lane == Lanes[at]
Ttl  == IF Lane \in Cached THEN "1h" ELSE "none"

-----------------------------------------------------------------------------
(* Memory of an invocation.                                                *)

NoCases == [c \in Cases |-> 0]
AllActive == [c \in Cases |-> "active"]

NoCheckpoint == [file |-> "none", batches |-> {}, iterations |-> NoCases,
                 spent |-> NoCases, ends |-> AllActive]
Torn == [NoCheckpoint EXCEPT !.file = "torn"]

\* openCase: a case that GR-SCOPE rejected is born done.
OpenCases ==
  /\ status' = [c \in Cases |-> IF c \in scenario.screened
                              THEN "short_circuit" ELSE "active"]
  /\ pending' = {} /\ iterations' = NoCases /\ spent' = NoCases
  /\ round' = 0 /\ used' = {}

\* A lane's cases are forgotten when it is over.
NoLane ==
  /\ status' = AllActive
  /\ pending' = {} /\ iterations' = NoCases /\ spent' = NoCases
  /\ round' = 0 /\ used' = {}

NoRequests == unsent' = {} /\ attempt' = 0 /\ batch' = 0 /\ unread' = {}

Init ==
  /\ scenario \in Scenarios
  /\ disk = [readable |-> TRUE, entries |-> {}]
  /\ checkpoints = [l \in LaneSet |-> NoCheckpoint]
  /\ matrix = {} /\ account = [lanes |-> {}, published |-> 0]
  /\ batches = <<>>
  /\ pc = "idle" /\ stage = "none"
  /\ skip = {} /\ ledger = {} /\ present = {} /\ at = 1
  /\ status = AllActive
  /\ pending = {} /\ iterations = NoCases /\ spent = NoCases
  /\ round = 0 /\ used = {}
  /\ unsent = {} /\ attempt = 0 /\ batch = 0 /\ unread = {}
  /\ forgotten = FALSE
  /\ invocations = 0 /\ faults = 0

\* The script ends, by itself or not.
Exit ==
  /\ pc' = "idle" /\ stage' = "none"
  /\ ledger' = {} /\ skip' = {} /\ present' = {} /\ at' = 1
  /\ NoRequests /\ NoLane

\* SpendLedger.open: a file that does not parse is an empty ledger.
Invoke ==
  /\ pc = "idle" /\ invocations < scenario.invocations
  /\ invocations' = invocations + 1
  /\ ledger' = IF disk.readable THEN disk.entries ELSE {}
  /\ forgotten' = (forgotten \/ ~disk.readable)
  /\ skip' \in scenario.skips
  /\ pc' = "lane" /\ stage' = "lanes"
  /\ UNCHANGED <<diskVars, batches, present, at, laneVars, rowVars,
                 scenario, faults>>

-----------------------------------------------------------------------------
(* The lanes.                                                              *)

Drafted(l) == {c \in Cases : checkpoints[l].ends[c] = "ended"}

\* One judged result per case and model.
Targets == UNION {{l} \X Drafted(l) : l \in JudgedLanes \cap present}

StageAfter == [lanes |-> "working", working |-> "published",
               published |-> "latency", latency |-> "report"]

\* The judge passes, the latency pass and the report follow the lanes.
NextStage ==
  LET next == StageAfter[stage] IN
  /\ stage' = next
  /\ pc' = IF next \in {"working", "published"} THEN "judge" ELSE next
  /\ unsent' = IF next = "latency" THEN JudgedLanes \X LatencyCases ELSE {}
  /\ attempt' = 0 /\ batch' = 0 /\ unread' = {}

\* The next lane is run, resumed from its checkpoint, or not there.  Only a
\* missing checkpoint file is caught: one that does not parse ends the script.
NextLane ==
  /\ pc = "lane"
  /\ \/ /\ at > Len(Lanes)
        /\ NextStage
        /\ UNCHANGED <<ledger, skip, present, at, laneVars>>
     \/ /\ at <= Len(Lanes) /\ checkpoints[Lane].file = "torn"
        /\ Exit
     \/ /\ at <= Len(Lanes) /\ checkpoints[Lane].file = "written"
        /\ present' = present \cup {Lane}
        /\ at' = at + 1
        /\ UNCHANGED <<pc, stage, ledger, skip, laneVars, rowVars>>
     \/ /\ at <= Len(Lanes) /\ checkpoints[Lane].file = "none"
        /\ OpenCases
        /\ pc' = "round"
        /\ UNCHANGED <<stage, ledger, runVars, rowVars>>
  /\ UNCHANGED <<diskVars, batches, seenVars, countVars>>

\* runLane threw: the lane is noted and the next one is tried.
LaneFails ==
  /\ at' = at + 1
  /\ pc' = "lane"
  /\ NoRequests /\ NoLane
  /\ UNCHANGED <<stage, skip, present>>

Active == {c \in Cases : status[c] = "active"}

\* The top of a round: nothing left to do, no headroom, or off it goes.
StartRound ==
  /\ pc = "round"
  /\ \/ /\ Active = {} \/ round = MaxRounds
        /\ pc' = "finish"
        /\ UNCHANGED <<stage, runVars, laneVars, rowVars>>
     \/ /\ Active # {} /\ round < MaxRounds
        /\ ~Headroom(Cardinality(Active) * Worst)
        /\ LaneFails
     \/ /\ Active # {} /\ round < MaxRounds
        /\ Headroom(Cardinality(Active) * Worst)
        /\ unsent' = {Lane} \X Active
        /\ pending' = {}
        /\ pc' = "submit"
        /\ UNCHANGED <<stage, runVars, status, iterations, spent, round, used,
                       attempt, batch, unread>>
  /\ UNCHANGED <<diskVars, batches, ledger, seenVars, countVars>>

\* The next chunk, in the order of the cases.
Chunk ==
  IF Cardinality(unsent) <= scenario.chunkSize THEN unsent
  ELSE CHOOSE S \in SUBSET unsent : Cardinality(S) = scenario.chunkSize

\* The next chunk; after the last one the round is over, and after the last
\* round a case that still wants a tool is capped.
NextChunk ==
  /\ pc = "submit"
  /\ \/ /\ unsent # {}
        /\ unread' = Chunk /\ unsent' = unsent \ Chunk
        /\ attempt' = 0
        /\ pc' = "create"
        /\ UNCHANGED <<batch, status, round>>
     \/ /\ unsent = {}
        /\ status' = [c \in Cases |->
             IF round = MaxRounds - 1 /\ c \in pending /\ status[c] = "active"
             THEN "capped" ELSE status[c]]
        /\ round' = round + 1
        /\ pc' = "round"
        /\ UNCHANGED rowVars
  /\ UNCHANGED <<diskVars, batches, stage, ledger, pending, iterations, spent,
                 used, runVars, seenVars, countVars>>

-----------------------------------------------------------------------------
(* The Batch API, for the lanes and the judge.                             *)

Unserved == [type |-> "pending", usage |-> [fresh |-> 0, written |-> 0,
                                            cached |-> 0]]
Served(row) == row.type \in {"tool_use", "end_turn"}

Create ==
  /\ pc = "create"
  /\ batches' = Append(batches,
       [role |-> stage, rows |-> [x \in unread |-> Unserved],
        ttl |-> IF stage = "lanes" THEN Ttl ELSE "none"])
  /\ batch' = Len(batches')
  /\ pc' = "poll"
  /\ UNCHANGED <<diskVars, stage, ledger, laneVars, runVars, unsent, attempt,
                 unread, seenVars, countVars>>

\* What a request may come back with.  Its price is the model's: the estimate
\* does not limit a turn.
Turns(b) ==
  {[type |-> "failed", usage |-> Unserved.usage]} \cup
    [type : IF batches[b].role = "lanes" THEN {"tool_use", "end_turn"}
                                         ELSE {"end_turn"},
     usage : Usages[batches[b].ttl]]

Requests(b) == DOMAIN batches[b].rows
Ended(b)    == \A x \in Requests(b) : batches[b].rows[x] # Unserved

Ends(b) ==
  \E rows \in [Requests(b) -> Turns(b)] :
    batches' = [batches EXCEPT ![b].rows = rows]

\* A batch that was given up ends too, cancelled or not, and what it served
\* is billed.  Nobody looks before the accounting does, so their order does
\* not matter.
AbandonedEnds ==
  /\ pc = "idle" /\ matrix # {}
  /\ \E b \in 1..Len(batches) : /\ ~Ended(b) /\ Ends(b)
                                 /\ \A a \in 1..b-1 : Ended(a)
  /\ UNCHANGED <<diskVars, pc, stage, ledger, laneVars, rowVars, runVars,
                 seenVars, countVars>>

\* The batch ends and the driver sees it.  Nothing says that it ever does.
BatchEnds ==
  /\ pc = "poll"
  /\ Ends(batch)
  /\ used' = IF stage = "lanes" THEN used \cup {batch} ELSE used
  /\ pc' = "read"
  /\ UNCHANGED <<diskVars, stage, ledger, runVars, status, pending, iterations,
                 spent, round, rowVars, seenVars, countVars>>

\* Slip: a batch that is still not done after the last retry is waited for.
GiveUpButNotLast ==
  /\ pc = "poll"
  /\ \/ /\ stage = "lanes" /\ attempt < scenario.retries
        /\ pc' = "cancel"
        /\ UNCHANGED <<stage, runVars, laneVars, rowVars>>
     \/ /\ stage # "lanes" /\ NextStage
        /\ UNCHANGED <<runVars, laneVars>>
  /\ UNCHANGED <<diskVars, batches, ledger, seenVars, countVars>>

\* pollUntilEnded: the batch stalled, or took longer than the caller waits.
\* The last retry fails the lane, and its batch is not cancelled.
GiveUp ==
  /\ pc = "poll"
  /\ \/ /\ stage = "lanes" /\ attempt < scenario.retries
        /\ pc' = "cancel"
        /\ UNCHANGED <<stage, runVars, laneVars, rowVars>>
     \/ /\ stage = "lanes" /\ attempt >= scenario.retries /\ LaneFails
     \/ /\ stage # "lanes" /\ NextStage
        /\ UNCHANGED <<runVars, laneVars>>
  /\ UNCHANGED <<diskVars, batches, ledger, seenVars, countVars>>

\* A stalled batch is cancelled and its requests are submitted again.
Cancel ==
  /\ pc = "cancel"
  /\ attempt' = attempt + 1
  /\ pc' = "create"
  /\ UNCHANGED <<diskVars, batches, stage, ledger, laneVars, runVars, unsent,
                 batch, unread, seenVars, countVars>>

\* A lane's row: a failed request ends its case, so does a turn without a
\* tool; what it cost is what the ledger added.
ReadTurn(x, row) ==
  LET c == x[2] IN
  /\ status' = [status EXCEPT ![c] = CASE row.type = "failed" -> "failed"
                                       [] row.type = "end_turn" -> "ended"
                                       [] OTHER -> @]
  /\ pending' = IF row.type = "tool_use" THEN pending \cup {c} ELSE pending
  /\ iterations' = [iterations EXCEPT ![c] = IF Served(row) THEN @ + 1 ELSE @]
  /\ spent' = [spent EXCEPT ![c] = @ + CostOf(ledger') - CostOf(ledger)]
  /\ UNCHANGED <<round, used>>

\* The results stream: a row that was served goes to the ledger first.
Read ==
  /\ pc = "read" /\ unread # {}
  /\ \E x \in unread :
       LET row == batches[batch].rows[x] IN
       /\ unread' = unread \ {x}
       /\ ledger' = IF Served(row)
                    THEN Added(ledger, Entry(<<batch, x>>,
                               IF stage = "lanes" THEN Lane ELSE stage,
                               row.usage, batches[batch].ttl))
                    ELSE ledger
       /\ IF stage = "lanes" THEN ReadTurn(x, row) ELSE UNCHANGED laneVars
       /\ pc' = IF Served(row) THEN "save" ELSE "read"
  /\ UNCHANGED <<diskVars, batches, stage, runVars, unsent, attempt, batch,
                 seenVars, countVars>>

\* Slip: the ledger is saved when a lane is done.
SaveLater ==
  /\ pc = "save"
  /\ pc' = IF stage = "latency" THEN "latency" ELSE "read"
  /\ UNCHANGED <<diskVars, batches, stage, ledger, laneVars, rowVars, runVars,
                 seenVars, countVars>>

\* SpendLedger.save: the whole file is written after every entry.
Save ==
  /\ pc = "save"
  /\ disk' = [readable |-> TRUE, entries |-> ledger]
  /\ pc' = IF stage = "latency" THEN "latency" ELSE "read"
  /\ UNCHANGED <<checkpoints, matrix, account, batches, stage, ledger,
                 laneVars, rowVars, runVars, seenVars, countVars>>

ReadAll ==
  /\ pc = "read" /\ unread = {}
  /\ IF stage = "lanes"
     THEN pc' = "submit" /\ UNCHANGED <<stage, rowVars>>
     ELSE NextStage
  /\ UNCHANGED <<diskVars, batches, ledger, laneVars, runVars, seenVars,
                 countVars>>

-----------------------------------------------------------------------------
(* The end of a lane.                                                      *)

\* Every session is finished: its breaker or its disposition is recorded.
FinishLane ==
  /\ pc = "finish"
  /\ present' = present \cup {Lane}
  /\ pc' = "checkpoint"
  /\ UNCHANGED <<diskVars, batches, stage, ledger, skip, at, laneVars,
                 rowVars, seenVars, countVars>>

\* The lane's checkpoint; past the soft line the remaining lanes are left.
Checkpoint ==
  /\ pc = "checkpoint"
  /\ checkpoints' = [checkpoints EXCEPT ![Lane] =
       [file |-> "written", batches |-> used, iterations |-> iterations,
        spent |-> spent, ends |-> status]]
  /\ at' = IF ShouldPause THEN Len(Lanes) + 1 ELSE at + 1
  /\ pc' = "lane"
  /\ NoRequests /\ NoLane
  /\ UNCHANGED <<disk, matrix, account, batches, stage, ledger, skip, present,
                 seenVars, countVars>>

-----------------------------------------------------------------------------
(* The judge, the latency pass, the report.                                *)

\* runJudgeBatch is skipped, has nothing to judge or no headroom, or submits
\* one batch; it throws into judgeSafely.
Judge ==
  /\ pc = "judge"
  /\ \/ /\ \/ "judge" \in skip \/ Targets = {}
           \/ ~Headroom(Cardinality(Targets) * JudgeWorst)
        /\ NextStage
     \/ /\ "judge" \notin skip /\ Targets # {}
        /\ Headroom(Cardinality(Targets) * JudgeWorst)
        /\ unread' = Targets
        /\ pc' = "create"
        /\ UNCHANGED <<stage, unsent, attempt, batch>>
  /\ UNCHANGED <<diskVars, batches, ledger, laneVars, runVars, seenVars,
                 countVars>>

\* runLatencyPass: interactive runs, one at a time, each under a breaker far
\* above the estimate.  The ledger's key names the model, the case and the
\* repetition, but not the invocation.
Latency ==
  /\ pc = "latency"
  /\ \/ /\ "latency" \in skip \/ unsent = {} \/ ~Headroom(Worst)
        /\ NextStage
        /\ UNCHANGED ledger
     \/ /\ "latency" \notin skip /\ Headroom(Worst)
        /\ \E x \in unsent, u \in Usages["5m"] :
             LET key == <<0, x>> IN
             /\ unsent' = unsent \ {x}
             /\ ledger' = Added(ledger, Entry(key, "latency", u, "5m"))
             /\ pc' = IF key \in Keys(ledger) THEN "latency" ELSE "save"
        /\ UNCHANGED <<stage, attempt, batch, unread>>
  /\ UNCHANGED <<diskVars, batches, laneVars, runVars, forgotten, countVars>>

\* writeMatrixResults, from the lanes that are present.
Report ==
  /\ pc = "report"
  /\ matrix' = present
  /\ Exit
  /\ UNCHANGED <<disk, checkpoints, account, batches, seenVars, countVars>>

-----------------------------------------------------------------------------
(* Failures.                                                               *)

\* A call of the Batch API, of the file system or of a session throws: the
\* lane fails, the judge pass or the latency pass is given up, and outside of
\* them the script is.  A file being written may be left torn.
Throw ==
  /\ faults < scenario.faults /\ faults' = faults + 1
  /\ pc \in {"create", "poll", "cancel", "read", "save", "finish",
             "checkpoint", "latency"}
  /\ disk' \in IF pc = "save" THEN {disk, [disk EXCEPT !.readable = FALSE]}
                              ELSE {disk}
  /\ checkpoints' \in
       IF pc = "checkpoint"
       THEN {checkpoints, [checkpoints EXCEPT ![Lane] = Torn]}
       ELSE {checkpoints}
  /\ CASE pc = "checkpoint" -> Exit
       [] pc # "checkpoint" /\ stage = "lanes" ->
            LaneFails /\ UNCHANGED ledger
       [] OTHER -> NextStage /\ UNCHANGED <<ledger, runVars, laneVars>>
  /\ UNCHANGED <<matrix, account, batches, seenVars, scenario, invocations>>

\* The process dies.
Crash ==
  /\ faults < scenario.faults /\ faults' = faults + 1
  /\ pc # "idle"
  /\ disk' \in IF pc = "save" THEN {disk, [disk EXCEPT !.readable = FALSE]}
                              ELSE {disk}
  /\ checkpoints' \in
       IF pc = "checkpoint"
       THEN {checkpoints, [checkpoints EXCEPT ![Lane] = Torn]}
       ELSE {checkpoints}
  /\ Exit
  /\ UNCHANGED <<matrix, account, batches, seenVars, scenario, invocations>>

-----------------------------------------------------------------------------
(* The accounting (augment.script.ts), between invocations.                *)

\* MATRIX_SWEEP: billed rows of ended batches that no entry has.
Unrecorded(entries) ==
  LET lost == {key \in UNION {{b} \X Requests(b) : b \in 1..Len(batches)} :
                 /\ Ended(key[1]) /\ Served(batches[key[1]].rows[key[2]])
                 /\ key \notin Keys(entries)}
  IN {Entry(key, "swept", batches[key[1]].rows[key[2]].usage, "none") :
        key \in lost}

\* Slip: a lane's entries are published whichever attempt wrote them.
PublishedByName(entries, e) == e.lane \in matrix

\* An entry of a lane is published by the batches of its lane's checkpoint,
\* and takes its batch with it.
Published(entries, e) ==
  \E f \in entries : /\ f.key[1] = e.key[1]
                     /\ f.lane \in matrix
                     /\ f.key[1] \in checkpoints[f.lane].batches

Augment ==
  /\ pc = "idle" /\ matrix # {} /\ disk.readable
  /\ \E entries \in {disk.entries,
                     disk.entries \cup Unrecorded(disk.entries)} :
       /\ disk' = [disk EXCEPT !.entries = entries]
       /\ account' = [lanes |-> matrix,
                      published |-> CostOf({e \in entries :
                        /\ e.lane \notin {"working", "published", "latency"}
                        /\ Published(entries, e)})]
  /\ UNCHANGED <<checkpoints, matrix, batches, pc, stage, ledger, laneVars,
                 rowVars, runVars, seenVars, countVars>>

-----------------------------------------------------------------------------
Drive ==
  \/ NextLane \/ StartRound \/ NextChunk \/ Create \/ GiveUp \/ Cancel
  \/ Read \/ Save \/ ReadAll \/ FinishLane \/ Checkpoint
  \/ Judge \/ Latency \/ Report

Next ==
  Invoke \/ Drive \/ BatchEnds \/ Throw \/ Crash \/ AbandonedEnds \/ Augment

Spec == Init /\ [][Next]_vars

\* A script that runs goes on: its calls return, and its clock does not stop.
FairSpec == Spec /\ WF_vars(Drive)

-----------------------------------------------------------------------------
(* Properties.                                                             *)

\* What an entry cost above what assertHeadroom had set aside for a whole
\* case, or a judged draft, before it was asked for.
SetAside(e) ==
  IF e.lane \in {"working", "published"} THEN JudgeWorst ELSE Worst

Excess(e) == IF Price(e) > SetAside(e) THEN Price(e) - SetAside(e) ELSE 0

Overrun(entries) == SumFunction([e \in entries |-> Excess(e)])

\* The hard stop is passed by no more than what single turns cost above the
\* estimate: whatever an earlier invocation, a failed lane, a judge pass or a
\* sweep left in the ledger, what the driver itself recorded stays within it
\* as long as no turn costs more than a whole case was estimated at, however
\* many turns a case takes.
OnlyOverrunPassesHard ==
  LET measured(entries) == {e \in entries : e.lane # "swept"} IN
  \A entries \in {measured(ledger), measured(disk.entries)} :
    CostOf(entries) <= Hard + Overrun(entries)

\* A published lane rests on what was paid for: its records' turns and costs
\* are the ledger file's entries of its batches, and every row those batches
\* served is among them.  A torn ledger file has forgotten them.
CheckpointIsPaidFor ==
  \A l \in LaneSet :
    checkpoints[l].file = "written" /\ disk.readable /\ ~forgotten =>
      LET of(c) == {e \in disk.entries : /\ e.key[1] \in checkpoints[l].batches
                                         /\ e.key[2] = <<l, c>>}
      IN \A c \in Cases :
           /\ Cardinality(of(c)) = checkpoints[l].iterations[c]
           /\ CostOf(of(c)) = checkpoints[l].spent[c]

\* The share of the ledger that the accounting attributes to the matrix is
\* what the records of its lanes cost, although lanes that failed were run
\* again and their first attempts are in the ledger under the same name.
PublishedIsMeasured ==
  ~forgotten =>
    account.published =
      SumFunction([l \in account.lanes |-> SumFunction(checkpoints[l].spent)])

\* Every invocation ends, however often batches stall, and leaves its report
\* or gives up.
InvocationEnds == pc # "idle" ~> pc = "idle"
=============================================================================
