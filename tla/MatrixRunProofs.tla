--------------------------- MODULE MatrixRunProofs ---------------------------
(***************************************************************************)
(* Proofs about MatrixRun for any lanes, cases, prices, envelope and       *)
(* options of the driver, any number of invocations, stalls and faults.    *)
(*                                                                         *)
(* Money and turns are sums over the entries of the ledger, so the module  *)
(* starts with what a sum over a finite set is worth when the set grows,   *)
(* is split or is covered, by induction over the subsets of a finite set.  *)
(* The invariants come in layers, each proved from those before it:        *)
(*   TypeOK     where the script stands, and that what it counts is finite *)
(*   SpendInv   the money of the requests under way is set aside           *)
(*   PaidInv    a batch is counted once, for one lane, from the ledger     *)
(*   ReportInv  what is published is in a checkpoint, which stays          *)
(***************************************************************************)
EXTENDS MatrixRun, FiniteSetTheorems, TLAPS

-----------------------------------------------------------------------------
(* Sums over finite sets.                                                   *)

Rec(g, f, S) ==
  g = [s \in SUBSET S |->
         IF s = {} THEN 0
         ELSE f[CHOOSE x \in s : TRUE] + g[s \ {CHOOSE x \in s : TRUE}]]

LEMMA SumIsRec ==
  ASSUME NEW f, NEW S
  PROVE  SumFunctionOnSet(f, S) = (CHOOSE g : Rec(g, f, S))[S]
BY DEF SumFunctionOnSet, FoldFunctionOnSet, MapThenFoldSet, Rec

\* Induction: a family of subsets of S that contains every set whose strict subsets it contains
LEMMA SubsetInduction ==
  ASSUME NEW S, IsFiniteSet(S), NEW P \in SUBSET SUBSET S,
         \A s \in SUBSET S : (\A t \in SUBSET s : t # s => t \in P) => s \in P
  PROVE  P = SUBSET S
<1> DEFINE T == (SUBSET S) \ P
<1>1. SUFFICES ASSUME T # {} PROVE FALSE
  OBVIOUS
<1>2. IsWellFoundedOn(StrictSubsetOrdering(S), SUBSET S)
  BY FS_StrictSubsetOrderingWellFounded, FS_FiniteSubsetsOfFinite
<1>3. T \subseteq SUBSET S
  OBVIOUS
<1> HIDE DEF T
<1>4. \E s \in T : \A t \in T : ~(<<t, s>> \in StrictSubsetOrdering(S))
  BY <1>1, <1>2, <1>3, WFMin
<1>5. PICK s \in T : \A t \in T : ~(<<t, s>> \in StrictSubsetOrdering(S))
  BY <1>4
<1>6. \A t \in SUBSET s : t # s => t \in P
  BY <1>5, <1>3 DEF StrictSubsetOrdering, T
<1> QED
  BY <1>5, <1>6 DEF T

LEMMA RecRestrict ==
  ASSUME NEW f, NEW S, NEW g, Rec(g, f, S), NEW T \in SUBSET S
  PROVE  Rec([s \in SUBSET T |-> g[s]], f, T)
BY DEF Rec

LEMMA RecUnique ==
  ASSUME NEW f, NEW S, IsFiniteSet(S), NEW g, NEW h, Rec(g, f, S), Rec(h, f, S)
  PROVE  g = h
<1> DEFINE P == {s \in SUBSET S : g[s] = h[s]}
<1>1. ASSUME NEW s \in SUBSET S, \A t \in SUBSET s : t # s => t \in P
      PROVE  s \in P
  <2>1. CASE s = {}
    BY <2>1 DEF Rec
  <2>2. CASE s # {}
    <3>1. (CHOOSE x \in s : TRUE) \in s
      BY <2>2
    <3>2. s \ {CHOOSE x \in s : TRUE} \in P
      BY <1>1, <3>1
    <3> QED
      BY <2>2, <3>2 DEF Rec
  <2> QED
    BY <2>1, <2>2
<1>2. P \in SUBSET SUBSET S
  OBVIOUS
<1> HIDE DEF P
<1>3. P = SUBSET S
  BY <1>1, <1>2, SubsetInduction
<1> QED
  BY <1>3 DEF Rec, P

LEMMA RecExists ==
  ASSUME NEW f, NEW S, IsFiniteSet(S)
  PROVE  \E g : Rec(g, f, S)
<1> DEFINE P == {s \in SUBSET S : \E g : Rec(g, f, s)}
           pick(t) == CHOOSE g : Rec(g, f, t)
           some(t) == CHOOSE x \in t : TRUE
<1>1. ASSUME NEW s \in SUBSET S, \A t \in SUBSET s : t # s => t \in P
      PROVE  s \in P
  <2> DEFINE less(t) == t \ {some(t)}
             G == [t \in SUBSET s |->
                     IF t = {} THEN 0 ELSE f[some(t)] + pick(less(t))[less(t)]]
  <2>1. ASSUME NEW t \in SUBSET s, t # s PROVE Rec(pick(t), f, t)
    BY <1>1, <2>1
  <2>2. ASSUME NEW t \in SUBSET s, t # {}
        PROVE  less(t) \in SUBSET s /\ less(t) # s /\ less(t) \in SUBSET t
    <3>1. some(t) \in t
      BY <2>2
    <3> QED
      BY <3>1
  <2> HIDE DEF pick, some, less
  <2>3. ASSUME NEW u \in SUBSET s, u # s
        PROVE  pick(u)[u] = G[u]
    <3>1. Rec(pick(u), f, u)
      BY <2>1, <2>3
    <3>2. CASE u = {}
      BY <3>1, <3>2 DEF Rec
    <3>3. CASE u # {}
      <4>1. less(u) \in SUBSET u /\ less(u) # s /\ less(u) \in SUBSET s
        BY <2>2, <3>3
      <4>2. pick(u)[u] = f[some(u)] + pick(u)[less(u)]
        BY <3>1, <3>3 DEF Rec, some, less
      <4>3. Rec([t \in SUBSET less(u) |-> pick(u)[t]], f, less(u))
        BY <3>1, <4>1, RecRestrict
      <4>4. Rec(pick(less(u)), f, less(u))
        BY <2>1, <4>1
      <4>5. IsFiniteSet(less(u))
        BY <4>1, FS_Subset
      <4>6. pick(less(u)) = [t \in SUBSET less(u) |-> pick(u)[t]]
        BY <4>3, <4>4, <4>5, RecUnique
      <4>7. pick(less(u))[less(u)] = pick(u)[less(u)]
        BY <4>6
      <4> QED
        BY <3>3, <4>2, <4>7
    <3> QED
      BY <3>2, <3>3
  <2>4. \A t \in SUBSET s : G[t] = IF t = {} THEN 0 ELSE f[some(t)] + G[less(t)]
    BY <2>2, <2>3
  <2>5. G = [t \in SUBSET s |-> IF t = {} THEN 0 ELSE f[some(t)] + G[less(t)]]
    <3> DEFINE H == [t \in SUBSET s |-> IF t = {} THEN 0 ELSE f[some(t)] + G[less(t)]]
    <3>1. G = [t \in SUBSET s |-> G[t]] /\ H = [t \in SUBSET s |-> H[t]]
      OBVIOUS
    <3>2. \A t \in SUBSET s : G[t] = H[t]
      BY <2>4
    <3> HIDE DEF G, H
    <3>3. G = H
      BY <3>1, <3>2
    <3> QED
      BY <3>3 DEF H
  <2> HIDE DEF G
  <2>6. Rec(G, f, s)
    BY <2>5 DEF Rec, some, less
  <2> QED
    BY <2>6
<1> HIDE DEF P, pick, some
<1>2. P = SUBSET S
  <2>1. P \in SUBSET SUBSET S
    BY DEF P
  <2> QED
    BY <1>1, <2>1, SubsetInduction
<1> QED
  BY <1>2 DEF P

LEMMA SumStep ==
  ASSUME NEW f, NEW S, IsFiniteSet(S)
  PROVE  SumFunctionOnSet(f, S) =
           IF S = {} THEN 0
           ELSE f[CHOOSE x \in S : TRUE]
                  + SumFunctionOnSet(f, S \ {CHOOSE x \in S : TRUE})
<1> DEFINE x == CHOOSE x \in S : TRUE
           T == S \ {x}
           G(s) == CHOOSE g : Rec(g, f, s)
<1>1. Rec(G(S), f, S)
  BY RecExists
<1>2. IsFiniteSet(T) /\ T \in SUBSET S
  BY FS_Subset
<1>3. Rec(G(T), f, T)
  BY <1>2, RecExists
<1> HIDE DEF G
<1>4. Rec([s \in SUBSET T |-> G(S)[s]], f, T)
  BY <1>1, <1>2, RecRestrict
<1>5. G(T) = [s \in SUBSET T |-> G(S)[s]]
  BY <1>2, <1>3, <1>4, RecUnique
<1>6. G(T)[T] = G(S)[T]
  BY <1>5
<1>7. SumFunctionOnSet(f, S) = G(S)[S] /\ SumFunctionOnSet(f, T) = G(T)[T]
  BY SumIsRec DEF G
<1> QED
  BY <1>1, <1>6, <1>7 DEF Rec

LEMMA SumEmpty == ASSUME NEW f PROVE SumFunctionOnSet(f, {}) = 0
BY SumStep, FS_EmptySet

LEMMA SumType ==
  ASSUME NEW f, NEW S, IsFiniteSet(S), \A x \in S : f[x] \in Nat
  PROVE  SumFunctionOnSet(f, S) \in Nat
<1> DEFINE P == {s \in SUBSET S : SumFunctionOnSet(f, s) \in Nat}
<1>1. ASSUME NEW s \in SUBSET S, \A t \in SUBSET s : t # s => t \in P
      PROVE  s \in P
  <2>1. IsFiniteSet(s)
    BY FS_Subset
  <2>2. CASE s = {}
    BY <2>2, SumEmpty
  <2>3. CASE s # {}
    <3>1. (CHOOSE x \in s : TRUE) \in s
      BY <2>3
    <3>2. s \ {CHOOSE x \in s : TRUE} \in P
      BY <1>1, <3>1
    <3>3. SumFunctionOnSet(f, s) = f[CHOOSE x \in s : TRUE]
                  + SumFunctionOnSet(f, s \ {CHOOSE x \in s : TRUE})
      BY <2>1, <2>3, SumStep
    <3> QED
      BY <3>1, <3>2, <3>3
  <2> QED
    BY <2>2, <2>3
<1>2. P \in SUBSET SUBSET S
  OBVIOUS
<1> HIDE DEF P
<1>3. P = SUBSET S
  BY <1>1, <1>2, SubsetInduction
<1> QED
  BY <1>3 DEF P

\* The order does not matter.
LEMMA SumTake ==
  ASSUME NEW f, NEW S, IsFiniteSet(S), \A x \in S : f[x] \in Nat, NEW z \in S
  PROVE  SumFunctionOnSet(f, S) = f[z] + SumFunctionOnSet(f, S \ {z})
<1> DEFINE P == {s \in SUBSET S : \A x \in s :
                   SumFunctionOnSet(f, s) = f[x] + SumFunctionOnSet(f, s \ {x})}
<1>1. ASSUME NEW s \in SUBSET S, \A t \in SUBSET s : t # s => t \in P,
             NEW x \in s
      PROVE  SumFunctionOnSet(f, s) = f[x] + SumFunctionOnSet(f, s \ {x})
  <2> DEFINE y == CHOOSE y \in s : TRUE
  <2>1. y \in s
    OBVIOUS
  <2>2. IsFiniteSet(s)
    BY FS_Subset
  <2>3. SumFunctionOnSet(f, s) = f[y] + SumFunctionOnSet(f, s \ {y})
    BY <2>2, SumStep
  <2> HIDE DEF y
  <2>4. CASE x = y
    BY <2>3, <2>4
  <2>5. CASE x # y
    <3>1. s \ {y} \in P /\ s \ {x} \in P
      BY <1>1, <2>1
    <3>2. /\ SumFunctionOnSet(f, s \ {y})
               = f[x] + SumFunctionOnSet(f, (s \ {y}) \ {x})
          /\ SumFunctionOnSet(f, s \ {x})
               = f[y] + SumFunctionOnSet(f, (s \ {x}) \ {y})
      BY <2>1, <2>5, <3>1
    <3>3. (s \ {y}) \ {x} = (s \ {x}) \ {y}
      OBVIOUS
    <3>4. SumFunctionOnSet(f, (s \ {x}) \ {y}) \in Nat
      <4>1. IsFiniteSet((s \ {x}) \ {y})
        BY <2>2, FS_Subset
      <4> QED
        BY <4>1, SumType
    <3> QED
      BY <2>1, <2>3, <3>2, <3>3, <3>4
  <2> QED
    BY <2>4, <2>5
<1>2. P \in SUBSET SUBSET S
  OBVIOUS
<1>3. \A s \in SUBSET S : (\A t \in SUBSET s : t # s => t \in P) => s \in P
  BY <1>1
<1> HIDE DEF P
<1>4. P = SUBSET S
  BY <1>2, <1>3, SubsetInduction
<1> QED
  BY <1>4 DEF P

LEMMA SumCong ==
  ASSUME NEW f, NEW g, NEW S, IsFiniteSet(S), \A x \in S : f[x] = g[x]
  PROVE  SumFunctionOnSet(f, S) = SumFunctionOnSet(g, S)
<1> DEFINE P == {s \in SUBSET S :
                   SumFunctionOnSet(f, s) = SumFunctionOnSet(g, s)}
<1>1. ASSUME NEW s \in SUBSET S, \A t \in SUBSET s : t # s => t \in P
      PROVE  s \in P
  <2>1. IsFiniteSet(s)
    BY FS_Subset
  <2>2. CASE s = {}
    BY <2>2, SumEmpty
  <2>3. CASE s # {}
    <3>1. (CHOOSE x \in s : TRUE) \in s
      BY <2>3
    <3>2. s \ {CHOOSE x \in s : TRUE} \in P
      BY <1>1, <3>1
    <3>3. SumFunctionOnSet(f, s) = f[CHOOSE x \in s : TRUE]
                  + SumFunctionOnSet(f, s \ {CHOOSE x \in s : TRUE})
      BY <2>1, <2>3, SumStep
    <3>4. SumFunctionOnSet(g, s) = g[CHOOSE x \in s : TRUE]
                  + SumFunctionOnSet(g, s \ {CHOOSE x \in s : TRUE})
      BY <2>1, <2>3, SumStep
    <3> QED
      BY <3>1, <3>2, <3>3, <3>4
  <2> QED
    BY <2>2, <2>3
<1>2. P \in SUBSET SUBSET S
  OBVIOUS
<1> HIDE DEF P
<1>3. P = SUBSET S
  BY <1>1, <1>2, SubsetInduction
<1> QED
  BY <1>3 DEF P

\* A sum over two disjoint sets.
LEMMA SumDisjoint ==
  ASSUME NEW f, NEW A, NEW S, IsFiniteSet(A), IsFiniteSet(S), A \cap S = {},
         \A x \in A \cup S : f[x] \in Nat
  PROVE  SumFunctionOnSet(f, A \cup S)
           = SumFunctionOnSet(f, A) + SumFunctionOnSet(f, S)
<1> DEFINE P == {s \in SUBSET S : SumFunctionOnSet(f, A \cup s)
                   = SumFunctionOnSet(f, A) + SumFunctionOnSet(f, s)}
<1>1. ASSUME NEW s \in SUBSET S, \A t \in SUBSET s : t # s => t \in P
      PROVE  s \in P
  <2>1. IsFiniteSet(s) /\ IsFiniteSet(A \cup s)
    BY FS_Subset, FS_Union
  <2>2. SumFunctionOnSet(f, A) \in Nat
    BY SumType
  <2>3. CASE s = {}
    BY <2>2, <2>3, SumEmpty
  <2>4. CASE s # {}
    <3>1. PICK x \in s : TRUE
      BY <2>4
    <3>2. s \ {x} \in P
      BY <1>1, <3>1
    <3>3. (A \cup s) \ {x} = A \cup (s \ {x})
      BY <3>1
    <3>4. SumFunctionOnSet(f, A \cup s)
            = f[x] + SumFunctionOnSet(f, (A \cup s) \ {x})
      BY <2>1, <3>1, SumTake
    <3>5. SumFunctionOnSet(f, s) = f[x] + SumFunctionOnSet(f, s \ {x})
      BY <2>1, <3>1, SumTake
    <3>6. SumFunctionOnSet(f, s \ {x}) \in Nat /\ f[x] \in Nat
      <4>1. IsFiniteSet(s \ {x})
        BY <2>1, FS_Subset
      <4> QED
        BY <4>1, SumType
    <3> QED
      BY <2>2, <3>2, <3>3, <3>4, <3>5, <3>6
  <2> QED
    BY <2>3, <2>4
<1>2. P \in SUBSET SUBSET S
  OBVIOUS
<1> HIDE DEF P
<1>3. P = SUBSET S
  BY <1>1, <1>2, SubsetInduction
<1> QED
  BY <1>3 DEF P

LEMMA SumMonotone ==
  ASSUME NEW f, NEW S, IsFiniteSet(S), NEW T \in SUBSET S,
         \A x \in S : f[x] \in Nat
  PROVE  SumFunctionOnSet(f, T) <= SumFunctionOnSet(f, S)
<1>1. IsFiniteSet(T) /\ IsFiniteSet(S \ T) /\ T \cup (S \ T) = S
  BY FS_Subset
<1>2. SumFunctionOnSet(f, S)
        = SumFunctionOnSet(f, T) + SumFunctionOnSet(f, S \ T)
  BY <1>1, SumDisjoint
<1>3. SumFunctionOnSet(f, T) \in Nat /\ SumFunctionOnSet(f, S \ T) \in Nat
  BY <1>1, SumType
<1> QED
  BY <1>2, <1>3

\* As many summands as there are elements, each at most k.
LEMMA SumBounded ==
  ASSUME NEW f, NEW S, IsFiniteSet(S), NEW k \in Nat,
         \A x \in S : f[x] \in Nat /\ f[x] <= k
  PROVE  SumFunctionOnSet(f, S) <= Cardinality(S) * k
<1> DEFINE P == {s \in SUBSET S :
                   SumFunctionOnSet(f, s) <= Cardinality(s) * k}
<1>1. ASSUME NEW s \in SUBSET S, \A t \in SUBSET s : t # s => t \in P
      PROVE  s \in P
  <2>1. IsFiniteSet(s)
    BY FS_Subset
  <2>2. CASE s = {}
    BY <2>2, SumEmpty, FS_EmptySet
  <2>3. CASE s # {}
    <3>1. PICK x \in s : TRUE
      BY <2>3
    <3>2. s \ {x} \in P
      BY <1>1, <3>1
    <3>3. /\ IsFiniteSet(s \ {x})
          /\ Cardinality(s \ {x}) = Cardinality(s) - 1
          /\ Cardinality(s) \in Nat
      BY <2>1, <3>1, FS_RemoveElement, FS_CardinalityType
    <3>4. SumFunctionOnSet(f, s) = f[x] + SumFunctionOnSet(f, s \ {x})
      BY <2>1, <3>1, SumTake
    <3>5. SumFunctionOnSet(f, s \ {x}) \in Nat
      BY <3>3, SumType
    <3>6. (Cardinality(s) - 1) * k = Cardinality(s) * k - k
      BY <3>3
    <3>7. f[x] + (Cardinality(s) * k - k) <= Cardinality(s) * k
      <4>1. Cardinality(s) * k \in Nat
        BY <3>3
      <4> QED
        BY <4>1, <3>1
    <3> QED
      BY <3>2, <3>3, <3>4, <3>5, <3>6, <3>7
  <2> QED
    BY <2>2, <2>3
<1>2. P \in SUBSET SUBSET S
  OBVIOUS
<1> HIDE DEF P
<1>3. P = SUBSET S
  BY <1>1, <1>2, SubsetInduction
<1> QED
  BY <1>3 DEF P
-----------------------------------------------------------------------------
(* Types.                                                                  *)

Calls == LaneSet \X Cases
Rows  == [type : {"pending", "failed", "tool_use", "end_turn"}, usage : Usage]

\* Where an invocation stands, by what it is doing.
Batching   == {"create", "poll", "read", "save"}
StagePcs   == [none |-> {"idle"},
               lanes |-> {"lane", "round", "submit", "cancel", "finish",
                          "checkpoint"} \cup Batching,
               working |-> {"judge"} \cup Batching,
               published |-> {"judge"} \cup Batching,
               latency |-> {"latency", "save"},
               report |-> {"report"}]
Stages == DOMAIN StagePcs
Judging == {"working", "published"}

\* An ended batch whose rows are being read and billed.
Reading == pc = "read" \/ (pc = "save" /\ stage # "latency")

\* The places at which the lane Lanes[at] is under way.
InLane == StagePcs.lanes \ {"lane"}

RowTables == UNION {[X -> Rows] : X \in SUBSET Calls}
Batches   == [role : Stages, rows : RowTables, ttl : Ttls]
Entries   == [key : Nat \X Calls,
              lane : LaneSet \cup Judging \cup {"latency", "swept"},
              usage : Usage, ttl : Ttls,
              channel : {"batch", "interactive"}]
Endings   == {"short_circuit", "active", "failed", "ended", "capped"}
Counts    == [Cases -> Nat]
CheckpointFiles ==
  [file : {"none", "torn", "written"}, batches : SUBSET Nat,
   iterations : Counts, spent : Counts, ends : [Cases -> Endings]]

StoreOK ==
  /\ scenario \in Scenarios
  /\ disk \in [readable : BOOLEAN, entries : SUBSET Entries]
  /\ IsFiniteSet(disk.entries)
  /\ checkpoints \in [LaneSet -> CheckpointFiles]
  /\ matrix \subseteq LaneSet
  /\ account \in [lanes : SUBSET LaneSet, published : Nat]
  /\ forgotten \in BOOLEAN
BatchOK == batches \in Seq(Batches)
PlaceOK ==
  /\ stage \in Stages /\ pc \in StagePcs[stage]
  /\ at \in Nat \ {0}
  /\ stage = "lanes" /\ pc # "lane" => at <= Len(Lanes)
MemoryOK ==
  /\ ledger \in SUBSET Entries /\ IsFiniteSet(ledger)
  /\ present \subseteq LaneSet
LaneOK ==
  /\ status \in [Cases -> Endings] /\ pending \subseteq Cases
  /\ iterations \in Counts /\ spent \in Counts
  /\ round \in Nat /\ used \subseteq Nat
RowOK ==
  /\ unsent \subseteq Calls /\ unread \subseteq Calls
  /\ attempt \in Nat /\ batch \in Nat
  /\ pc = "poll" \/ Reading =>
       batch \in 1..Len(batches) /\ unread \subseteq Requests(batch)

TypeOK == StoreOK /\ BatchOK /\ PlaceOK /\ MemoryOK /\ LaneOK /\ RowOK

-----------------------------------------------------------------------------
(* The envelope.                                                           *)

Measured(entries) == {e \in entries : e.lane # "swept"}

\* What the requests under way may still cost.
Outstanding ==
  IF stage = "lanes" THEN Cardinality(unsent \cup unread) * Worst
                     ELSE Cardinality(unread) * JudgeWorst

Budgeting == pc \in {"submit", "cancel"} \/ (pc \in Batching /\ stage # "latency")

\* The money recorded and the money set aside pass the hard stop by no more
\* than what the turns recorded cost above their estimate.
Within(S)  == CostOf(Measured(S)) <= Hard + Overrun(Measured(S))
Reserved   ==
  Budgeting => CostOf(Measured(ledger)) + Outstanding
                 <= Hard + Overrun(Measured(ledger))
NoneUnread ==
  pc \in {"idle", "lane", "round", "submit", "finish", "checkpoint"} =>
    unread = {}
Apart  == stage = "lanes" => unsent \cap unread = {}
Polled == pc = "poll" => Requests(batch) = unread /\ batches[batch].role = stage

SpendInv ==
  /\ OnlyOverrunPassesHard
  /\ Reserved /\ NoneUnread /\ Apart /\ Polled

-----------------------------------------------------------------------------
(* What the entries of a set of batches say of a lane.                     *)

Of(entries, numbers, l, c) ==
  {e \in entries : e.key[1] \in numbers /\ e.key[2] = <<l, c>>}

\* A lane's counters are what the table has of its batches.
Accounts(entries, numbers, l, its, costs) ==
  /\ \A e \in entries : e.key[1] \in numbers => e.lane = l /\ e.key[2][1] = l
  /\ \A c \in Cases :
       /\ Cardinality(Of(entries, numbers, l, c)) = its[c]
       /\ CostOf(Of(entries, numbers, l, c)) = costs[c]

\* The rows that batches served, but for those left to read, are in it.
Recorded(table, entries, numbers, left) ==
  \A b \in numbers : \A x \in DOMAIN table[b].rows :
    Served(table[b].rows[x]) => <<b, x>> \in Keys(entries) \cup left

\* Batches that are over, created for lane l.
OverFor(table, numbers, l) ==
  \A b \in numbers :
    /\ b \in 1..Len(table)
    /\ \A x \in DOMAIN table[b].rows : /\ table[b].rows[x] # Unserved
                                       /\ x \in {l} \X Cases

\* The rows of the batch at hand that are still to be read.
Left == IF Reading THEN {batch} \X unread ELSE {}

Saved(l) == checkpoints[l].batches

\* Nothing is remembered of a lane before its cases are opened, and after it.
NoneUnderWay == used = {} /\ iterations = NoCases /\ spent = NoCases
NoneAsked  == pc \in {"idle", "lane"} => unsent = {}
NoneYet    == pc \notin InLane \/ stage # "lanes" => NoneUnderWay
OwnLane    == pc \in InLane /\ stage = "lanes" =>
                /\ checkpoints[Lane].file = "none"
                /\ unsent \cup unread \subseteq {Lane} \X Cases
OwnBatch   == Reading /\ stage = "lanes" => batch \in used
LaneControl == NoneAsked /\ NoneYet /\ OwnLane /\ OwnBatch

\* No batch is counted for two lanes, nor for two runs of one.
UsedOver  == OverFor(batches, used, Lane)
SavedOver == \A l \in LaneSet : OverFor(batches, Saved(l), l)
Unwritten == \A l \in LaneSet : checkpoints[l].file # "written" => Saved(l) = {}
SavedOnce == /\ \A l \in LaneSet : Saved(l) \cap used = {}
             /\ \A l, m \in LaneSet : l # m => Saved(l) \cap Saved(m) = {}
FreshBatch == /\ pc = "poll" => batch \notin used
              /\ pc = "poll" \/ Reading =>
                   \A l \in LaneSet : batch \notin Saved(l)
BatchInv  == UsedOver /\ SavedOver /\ Unwritten /\ SavedOnce /\ FreshBatch

\* The ledger has every row that was read once, and the file has what is
\* counted, but for the entry that is being saved.
KeysKnown  == \A e \in ledger \cup disk.entries : e.key[1] <= Len(batches)
KeysFresh  == pc = "poll" => \A e \in ledger \cup disk.entries : e.key[1] # batch
IdleEmpty  == pc = "idle" => ledger = {}
Unkeyed    == Reading => \A x \in unread : <<batch, x>> \notin Keys(ledger)
Accounted  == Accounts(ledger, used, Lane, iterations, spent)
AllRead    == Recorded(batches, ledger, used, Left)
Filed      == pc # "save" => {e \in ledger : e.key[1] \in used} \subseteq disk.entries
LedgerInv  == /\ KeysKnown /\ KeysFresh /\ IdleEmpty /\ Unkeyed
              /\ Accounted /\ AllRead /\ Filed

\* A checkpoint is paid for in a table of entries.
Settled(entries, l) ==
  /\ Accounts(entries, Saved(l), l, checkpoints[l].iterations,
              checkpoints[l].spent)
  /\ Recorded(batches, entries, Saved(l), {})

CheckpointInv ==
  ~forgotten =>
    /\ \A l \in LaneSet : /\ Settled(disk.entries, l)
                          /\ pc # "idle" => Settled(ledger, l)
    /\ pc # "idle" => disk.entries \subseteq ledger

PaidInv == LaneControl /\ BatchInv /\ LedgerInv /\ CheckpointInv

Kept == {l \in LaneSet : checkpoints[l].file = "written"}

\* What is reported is in a checkpoint, or about to be.
PresentKept == present \subseteq Kept \cup (IF pc = "checkpoint" THEN {Lane} ELSE {})
NonePresent == pc = "idle" => present = {}
ReportKept  == matrix \subseteq Kept /\ account.lanes \subseteq Kept
ReportInv   == PresentKept /\ NonePresent /\ ReportKept /\ PublishedIsMeasured

-----------------------------------------------------------------------------
LEMMA LaneInSet ==
  ASSUME at \in Nat \ {0}, at <= Len(Lanes)
  PROVE  Lane \in LaneSet
BY MatrixAssumption DEF Lane, LaneSet

LEMMA FiniteCalls == IsFiniteSet(LaneSet) /\ IsFiniteSet(Calls)
<1>1. Len(Lanes) \in Nat /\ IsFiniteSet(1..Len(Lanes))
  BY MatrixAssumption, FS_Interval
<1>2. IsFiniteSet(LaneSet)
  <2> DEFINE f == [i \in 1..Len(Lanes) |-> Lanes[i]]
  <2>1. f \in Surjection(1..Len(Lanes), LaneSet)
    BY MatrixAssumption DEF Surjection, LaneSet
  <2> QED
    BY <1>1, <2>1, FS_Surjection
<1> QED
  BY <1>2, MatrixAssumption, FS_Product DEF Calls

LEMMA NoCasesType ==
  /\ NoCases \in Counts
  /\ AllActive \in [Cases -> Endings]
  /\ NoCheckpoint \in CheckpointFiles /\ Torn \in CheckpointFiles
BY DEF NoCases, AllActive, NoCheckpoint, Torn, Counts, Endings,
       CheckpointFiles

\* What is left alone keeps its type.
LEMMA SameGroups ==
  ASSUME TypeOK
  PROVE  /\ UNCHANGED <<scenario, diskVars, forgotten>> => StoreOK'
         /\ UNCHANGED batches => BatchOK'
         /\ UNCHANGED <<pc, stage, at>> => PlaceOK'
         /\ UNCHANGED <<ledger, present>> => MemoryOK'
         /\ UNCHANGED laneVars => LaneOK'
         /\ UNCHANGED <<pc, stage, batches, rowVars>> => RowOK'
<1>1. UNCHANGED <<scenario, diskVars, forgotten>> => StoreOK'
  BY DEF TypeOK, StoreOK, diskVars
<1>2. UNCHANGED laneVars => LaneOK'
  BY DEF TypeOK, LaneOK, laneVars
<1>3. UNCHANGED <<pc, stage, batches, rowVars>> => RowOK'
  BY DEF TypeOK, RowOK, rowVars, Reading, Requests
<1> QED
  BY <1>1, <1>2, <1>3 DEF TypeOK, BatchOK, PlaceOK, MemoryOK

\* Elsewhere the requests under way need not be those of a batch.
LEMMA RowsQuiet ==
  ASSUME RowOK, unsent' \subseteq Calls, unread' \subseteq Calls,
         attempt' \in Nat, UNCHANGED batch,
         pc' # "poll", ~Reading'
  PROVE  RowOK'
BY DEF RowOK

LEMMA ExitTyped ==
  ASSUME Exit PROVE PlaceOK' /\ MemoryOK' /\ LaneOK' /\ RowOK'
<1>1. IsFiniteSet({})
  BY FS_EmptySet
<1>2. PlaceOK'
  BY DEF Exit, PlaceOK, Stages, StagePcs
<1>3. MemoryOK'
  BY <1>1 DEF Exit, MemoryOK
<1>4. LaneOK'
  BY NoCasesType DEF Exit, NoLane, LaneOK
<1>5. RowOK'
  BY DEF Exit, NoRequests, RowOK, Reading
<1> QED
  BY <1>2, <1>3, <1>4, <1>5

LEMMA LaneFailsTyped ==
  ASSUME TypeOK, stage = "lanes", LaneFails, ledger' = ledger
  PROVE  PlaceOK' /\ MemoryOK' /\ LaneOK' /\ RowOK'
<1>1. PlaceOK'
  BY DEF LaneFails, TypeOK, PlaceOK, Stages, StagePcs
<1>2. MemoryOK'
  BY DEF LaneFails, TypeOK, MemoryOK
<1>3. LaneOK'
  BY NoCasesType DEF LaneFails, NoLane, LaneOK
<1>4. RowOK'
  BY DEF LaneFails, NoRequests, RowOK, Reading
<1> QED
  BY <1>1, <1>2, <1>3, <1>4

LEMMA NextStageTyped ==
  ASSUME TypeOK, stage \in DOMAIN StageAfter, NextStage, at' = at
  PROVE  /\ PlaceOK' /\ RowOK'
         /\ stage' \in {"working", "published", "latency", "report"}
         /\ pc' \in {"judge", "latency", "report"}
<1>1. /\ stage' \in {"working", "published", "latency", "report"}
      /\ pc' = IF stage' \in {"working", "published"} THEN "judge" ELSE stage'
  BY DEF NextStage, StageAfter
<1>2. PlaceOK'
  BY <1>1 DEF TypeOK, PlaceOK, Stages, StagePcs
<1>3. JudgedLanes \X LatencyCases \subseteq Calls
  BY MatrixAssumption DEF Calls
<1>4. RowOK'
  BY <1>1, <1>3 DEF NextStage, RowOK, Reading
<1> QED
  BY <1>1, <1>2, <1>4

\* The stages that one may find at each place.
LEMMA StageOf ==
  ASSUME TypeOK
  PROVE  /\ stage \in {"none", "lanes", "working", "published", "latency",
                       "report"}
         /\ pc = "idle" <=> stage = "none"
         /\ pc = "report" <=> stage = "report"
         /\ pc \in {"lane", "round", "submit", "cancel", "finish",
                    "checkpoint"} => stage = "lanes"
         /\ pc \in {"create", "poll", "read"} => stage \in {"lanes"} \cup Judging
         /\ pc = "save" => stage \in {"lanes", "latency"} \cup Judging
         /\ pc = "judge" => stage \in Judging
         /\ pc = "latency" => stage = "latency"
BY DEF TypeOK, PlaceOK, Stages, StagePcs, Batching, Judging

\* A set has subsets of every size up to its own.
LEMMA SubsetOfSize ==
  ASSUME NEW S, IsFiniteSet(S), NEW k \in Nat, k <= Cardinality(S)
  PROVE  \E T \in SUBSET S : Cardinality(T) = k
<1> DEFINE P == {s \in SUBSET S : k <= Cardinality(s) =>
                   \E T \in SUBSET s : Cardinality(T) = k}
<1>1. ASSUME NEW s \in SUBSET S, \A t \in SUBSET s : t # s => t \in P
      PROVE  s \in P
  <2>1. IsFiniteSet(s)
    BY FS_Subset
  <2>2. Cardinality(s) \in Nat
    BY <2>1, FS_CardinalityType
  <2>3. CASE k >= Cardinality(s)
    BY <2>2, <2>3
  <2>4. CASE k < Cardinality(s)
    <3>1. s # {}
      BY <2>4, FS_EmptySet
    <3>2. PICK x \in s : TRUE
      BY <3>1
    <3>3. Cardinality(s \ {x}) = Cardinality(s) - 1
      BY <2>1, <3>2, FS_RemoveElement
    <3>4. s \ {x} \in P
      BY <1>1, <3>2
    <3>5. \E T \in SUBSET (s \ {x}) : Cardinality(T) = k
      BY <2>2, <2>4, <3>3, <3>4
    <3> QED
      BY <3>5
  <2> QED
    BY <2>2, <2>3, <2>4
<1>2. P \in SUBSET SUBSET S
  OBVIOUS
<1> HIDE DEF P
<1>3. P = SUBSET S
  BY <1>1, <1>2, SubsetInduction
<1> QED
  BY <1>3 DEF P

LEMMA FiniteRequests ==
  ASSUME TypeOK
  PROVE  /\ IsFiniteSet(unsent) /\ IsFiniteSet(unread)
         /\ Cardinality(unsent) \in Nat /\ Cardinality(unread) \in Nat
BY FiniteCalls, FS_Subset, FS_CardinalityType DEF TypeOK, RowOK

LEMMA ChunkIsPart ==
  ASSUME TypeOK
  PROVE  Chunk \subseteq unsent
<1>1. scenario.chunkSize \in Nat
  BY MatrixAssumption DEF TypeOK, StoreOK, Scenario
<1>2. CASE Cardinality(unsent) <= scenario.chunkSize
  BY <1>2 DEF Chunk
<1>3. CASE ~(Cardinality(unsent) <= scenario.chunkSize)
  <2>1. \E S \in SUBSET unsent : Cardinality(S) = scenario.chunkSize
    BY <1>1, <1>3, FiniteRequests, SubsetOfSize
  <2> QED
    BY <1>3, <2>1 DEF Chunk
<1> QED
  BY <1>2, <1>3

\* A row that a batch may end with is a row.
LEMMA TurnsAreRows ==
  ASSUME TypeOK, NEW b \in 1..Len(batches)
  PROVE  /\ Turns(b) \subseteq Rows
         /\ \A row \in Turns(b) : row # Unserved
<1>1. batches[b].ttl \in Ttls
  <2>1. batches[b] \in Batches
    BY DEF TypeOK, BatchOK
  <2> QED
    BY <2>1 DEF Batches
<1>2. Usages[batches[b].ttl] \subseteq Usage
  BY <1>1, MatrixAssumption
<1>3. Unserved.usage \in Usage /\ Unserved \in Rows /\ Unserved.type = "pending"
  BY DEF Unserved, Usage, Rows
<1> QED
  BY <1>2, <1>3 DEF Turns, Rows

\* What the end of a batch changes: its rows, and every one of them.
LEMMA EndsEffect ==
  ASSUME TypeOK, NEW b \in 1..Len(batches), Ends(b)
  PROVE  /\ Len(batches') = Len(batches) /\ BatchOK'
         /\ \A i \in 1..Len(batches) :
              /\ batches'[i].role = batches[i].role
              /\ batches'[i].ttl = batches[i].ttl
              /\ DOMAIN batches'[i].rows = DOMAIN batches[i].rows
              /\ i # b => batches'[i] = batches[i]
         /\ \A x \in Requests(b) : batches'[b].rows[x] \in Turns(b)
<1>1. PICK rows \in [Requests(b) -> Turns(b)] :
        batches' = [batches EXCEPT ![b].rows = rows]
  BY DEF Ends
<1>2. batches \in Seq(Batches) /\ batches[b] \in Batches
  BY DEF TypeOK, BatchOK
<1>3. /\ Requests(b) \in SUBSET Calls
      /\ DOMAIN rows = Requests(b)
  BY <1>2 DEF Requests, Batches, RowTables
<1>4. \A x \in Requests(b) : rows[x] \in Rows
  BY <1>1, TurnsAreRows
<1>5. rows \in [Requests(b) -> Rows]
  BY <1>1, <1>4
<1>6. rows \in RowTables
  BY <1>3, <1>5 DEF RowTables
<1>7. [batches[b] EXCEPT !.rows = rows] \in Batches
  BY <1>2, <1>6 DEF Batches
<1>8. batches' = [batches EXCEPT ![b] = [batches[b] EXCEPT !.rows = rows]]
  BY <1>1
<1>9. batches' \in Seq(Batches) /\ Len(batches') = Len(batches)
  BY <1>2, <1>7, <1>8
<1>10. \A i \in 1..Len(batches) :
              /\ batches'[i].role = batches[i].role
              /\ batches'[i].ttl = batches[i].ttl
              /\ DOMAIN batches'[i].rows = DOMAIN batches[i].rows
              /\ i # b => batches'[i] = batches[i]
  <2> TAKE i \in 1..Len(batches)
  <2>1. CASE i # b
    BY <1>2, <1>8, <2>1
  <2>2. CASE i = b
    <3>1. batches'[b] = [batches[b] EXCEPT !.rows = rows]
      BY <1>2, <1>8
    <3> QED
      BY <1>2, <1>3, <2>2, <3>1 DEF Batches, Requests
  <2> QED
    BY <2>1, <2>2
<1>11. batches'[b].rows = rows
  BY <1>2, <1>8 DEF Batches
<1> QED
  BY <1>1, <1>9, <1>10, <1>11 DEF BatchOK

-----------------------------------------------------------------------------
(* Every step keeps the types.                                             *)

LEMMA TypeInvoke == TypeOK /\ Invoke => TypeOK'
<1> SUFFICES ASSUME TypeOK, Invoke PROVE TypeOK'
  OBVIOUS
<1> USE DEF Invoke
<1>1. StoreOK'
  BY DEF TypeOK, StoreOK, diskVars
<1>2. BatchOK'
  BY SameGroups
<1>3. PlaceOK'
  BY DEF TypeOK, PlaceOK, Stages, StagePcs
<1>4. MemoryOK'
  BY FS_EmptySet DEF TypeOK, StoreOK, MemoryOK
<1>5. LaneOK'
  BY SameGroups
<1>6. RowOK'
  BY RowsQuiet DEF TypeOK, RowOK, rowVars, Reading
<1> QED
  BY <1>1, <1>2, <1>3, <1>4, <1>5, <1>6 DEF TypeOK

LEMMA TypeNextLane == TypeOK /\ NextLane => TypeOK'
<1> SUFFICES ASSUME TypeOK, NextLane PROVE TypeOK'
  OBVIOUS
<1>1. StoreOK' /\ BatchOK'
  BY SameGroups DEF NextLane, countVars, seenVars
<1>2. stage = "lanes"
  BY StageOf DEF NextLane
<1>3. CASE at > Len(Lanes) /\ NextStage /\ UNCHANGED <<ledger, skip, present, at, laneVars>>
  <2>1. PlaceOK' /\ RowOK'
    BY <1>2, <1>3, NextStageTyped DEF StageAfter
  <2> QED
    BY <1>1, <1>3, <2>1, SameGroups DEF TypeOK
<1>4. CASE Exit
  BY <1>1, <1>4, ExitTyped DEF TypeOK
<1>5. CASE /\ at <= Len(Lanes) /\ present' = present \cup {Lane} /\ at' = at + 1
           /\ UNCHANGED <<pc, stage, ledger, skip, laneVars, rowVars>>
  <2>1. Lane \in LaneSet
    BY <1>5, LaneInSet DEF TypeOK, PlaceOK
  <2>2. PlaceOK'
    BY <1>5 DEF NextLane, TypeOK, PlaceOK
  <2>3. MemoryOK'
    BY <1>5, <2>1 DEF TypeOK, MemoryOK
  <2> QED
    BY <1>1, <1>5, <2>2, <2>3, SameGroups DEF TypeOK, NextLane
<1>6. CASE /\ at <= Len(Lanes) /\ OpenCases /\ pc' = "round"
           /\ UNCHANGED <<stage, ledger, runVars, rowVars>>
  <2>1. PlaceOK'
    BY <1>2, <1>6 DEF TypeOK, PlaceOK, StagePcs, runVars
  <2>2. LaneOK'
    BY <1>6, NoCasesType DEF OpenCases, LaneOK, Endings
  <2>3. RowOK'
    BY <1>6, RowsQuiet DEF TypeOK, RowOK, rowVars, Reading
  <2> QED
    BY <1>1, <1>6, <2>1, <2>2, <2>3, SameGroups DEF TypeOK, runVars
<1> QED
  BY <1>3, <1>4, <1>5, <1>6 DEF NextLane

LEMMA TypeStartRound == TypeOK /\ StartRound => TypeOK'
<1> SUFFICES ASSUME TypeOK, StartRound PROVE TypeOK'
  OBVIOUS
<1>1. StoreOK' /\ BatchOK' /\ ledger' = ledger
  BY SameGroups DEF StartRound, countVars, seenVars
<1>2. stage = "lanes"
  BY StageOf DEF StartRound
<1>3. CASE pc' = "finish" /\ UNCHANGED <<stage, runVars, laneVars, rowVars>>
  <2>1. PlaceOK'
    BY <1>2, <1>3 DEF StartRound, TypeOK, PlaceOK, StagePcs, runVars
  <2>2. RowOK'
    BY <1>3, RowsQuiet DEF TypeOK, RowOK, rowVars, Reading
  <2> QED
    BY <1>1, <1>3, <2>1, <2>2, SameGroups DEF TypeOK, runVars
<1>4. CASE LaneFails
  BY <1>1, <1>2, <1>4, LaneFailsTyped DEF TypeOK
<1>5. CASE /\ unsent' = {Lane} \X Active /\ pending' = {} /\ pc' = "submit"
           /\ UNCHANGED <<stage, runVars, status, iterations, spent, round,
                          used, attempt, batch, unread>>
  <2>1. at <= Len(Lanes) /\ Lane \in LaneSet
    BY <1>2, LaneInSet DEF StartRound, TypeOK, PlaceOK
  <2>2. PlaceOK'
    BY <1>2, <1>5, <2>1 DEF TypeOK, PlaceOK, StagePcs, runVars
  <2>3. LaneOK'
    BY <1>5 DEF TypeOK, LaneOK
  <2>4. unsent' \subseteq Calls
    BY <1>5, <2>1 DEF Calls, Active
  <2>5. RowOK'
    BY <1>5, <2>4, RowsQuiet DEF TypeOK, RowOK, Reading
  <2> QED
    BY <1>1, <1>5, <2>2, <2>3, <2>5, SameGroups DEF TypeOK, runVars
<1> QED
  BY <1>3, <1>4, <1>5 DEF StartRound

LEMMA TypeNextChunk == TypeOK /\ NextChunk => TypeOK'
<1> SUFFICES ASSUME TypeOK, NextChunk PROVE TypeOK'
  OBVIOUS
<1>1. StoreOK' /\ BatchOK' /\ MemoryOK'
  BY SameGroups DEF NextChunk, countVars, seenVars, runVars
<1>2. stage = "lanes" /\ stage' = stage /\ at' = at /\ pc = "submit"
  BY StageOf DEF NextChunk, runVars
<1>3. CASE /\ unread' = Chunk /\ unsent' = unsent \ Chunk /\ attempt' = 0
           /\ pc' = "create" /\ UNCHANGED <<batch, status, round>>
  <2>1. PlaceOK'
    BY <1>2, <1>3 DEF TypeOK, PlaceOK, StagePcs, Batching
  <2>2. LaneOK'
    BY <1>3 DEF NextChunk, TypeOK, LaneOK
  <2>3. unread' \subseteq Calls /\ unsent' \subseteq Calls
    BY <1>3, ChunkIsPart DEF TypeOK, RowOK
  <2>4. RowOK'
    BY <1>3, <2>3, RowsQuiet DEF TypeOK, RowOK, Reading
  <2> QED
    BY <1>1, <2>1, <2>2, <2>4 DEF TypeOK
<1>4. CASE /\ status' = [c \in Cases |->
                IF round = MaxRounds - 1 /\ c \in pending /\ status[c] = "active"
                THEN "capped" ELSE status[c]]
           /\ round' = round + 1 /\ pc' = "round" /\ UNCHANGED rowVars
  <2>1. PlaceOK'
    BY <1>2, <1>4 DEF TypeOK, PlaceOK, StagePcs
  <2>2. \A c \in Cases : status[c] \in Endings /\ "capped" \in Endings
    BY DEF TypeOK, LaneOK, Endings
  <2>3. status' \in [Cases -> Endings]
    BY <1>4, <2>2
  <2>4. LaneOK'
    BY <1>4, <2>3 DEF NextChunk, TypeOK, LaneOK
  <2>5. RowOK'
    BY <1>4, RowsQuiet DEF TypeOK, RowOK, rowVars, Reading
  <2> QED
    BY <1>1, <2>1, <2>4, <2>5 DEF TypeOK
<1> QED
  BY <1>3, <1>4 DEF NextChunk

LEMMA CreateEffect ==
  ASSUME TypeOK, Create
  PROVE  /\ BatchOK' /\ Len(batches') = Len(batches) + 1
         /\ batch' = Len(batches) + 1
         /\ \A i \in 1..Len(batches) : batches'[i] = batches[i]
         /\ batches'[batch'].rows = [x \in unread |-> Unserved]
         /\ batches'[batch'].role = stage
         /\ batches'[batch'].ttl = IF stage = "lanes" THEN Ttl ELSE "none"
<1> DEFINE new == [role |-> stage, rows |-> [x \in unread |-> Unserved],
                   ttl |-> IF stage = "lanes" THEN Ttl ELSE "none"]
<1>1. Unserved \in Rows
  BY DEF Unserved, Rows, Usage
<1>2. [x \in unread |-> Unserved] \in [unread -> Rows]
  BY <1>1
<1>3. unread \in SUBSET Calls
  BY DEF TypeOK, RowOK
<1>4. [x \in unread |-> Unserved] \in RowTables
  BY <1>2, <1>3 DEF RowTables
<1>5. new \in Batches
  BY <1>4 DEF Batches, Ttls, Ttl, TypeOK, PlaceOK
<1>6. batches \in Seq(Batches) /\ batches' = Append(batches, new)
  BY DEF TypeOK, BatchOK, Create
<1> HIDE DEF new
<1>7. /\ batches' \in Seq(Batches) /\ Len(batches') = Len(batches) + 1
      /\ \A i \in 1..Len(batches) : batches'[i] = batches[i]
      /\ batches'[Len(batches) + 1] = new
  BY <1>5, <1>6
<1>8. batch' = Len(batches) + 1
  BY <1>7 DEF Create
<1> QED
  BY <1>7, <1>8 DEF BatchOK, new

LEMMA TypeCreate == TypeOK /\ Create => TypeOK'
<1> SUFFICES ASSUME TypeOK, Create PROVE TypeOK'
  OBVIOUS
<1>1. StoreOK' /\ LaneOK' /\ MemoryOK'
  BY SameGroups DEF Create, countVars, seenVars, runVars
<1>2. stage' = stage /\ at' = at /\ pc' = "poll" /\ pc = "create"
  BY DEF Create, runVars
<1>3. PlaceOK'
  BY <1>2 DEF TypeOK, PlaceOK, StagePcs, Stages, Batching
<1>4. Len(batches) \in Nat
  BY DEF TypeOK, BatchOK
<1>5. batch' \in 1..Len(batches') /\ batch' \in Nat
  BY <1>4, CreateEffect
<1>6. Requests(batch)' = unread'
  BY CreateEffect DEF Requests, Create
<1>7. RowOK'
  BY <1>5, <1>6 DEF Create, TypeOK, RowOK
<1> QED
  BY <1>1, <1>3, <1>7, CreateEffect DEF TypeOK

LEMMA TypeGiveUp == TypeOK /\ GiveUp => TypeOK'
<1> SUFFICES ASSUME TypeOK, GiveUp PROVE TypeOK'
  OBVIOUS
<1>1. StoreOK' /\ BatchOK' /\ ledger' = ledger /\ pc = "poll"
  BY SameGroups DEF GiveUp, countVars, seenVars
<1>2. stage \in {"lanes"} \cup Judging
  BY <1>1, StageOf
<1>3. CASE /\ stage = "lanes" /\ pc' = "cancel"
           /\ UNCHANGED <<stage, runVars, laneVars, rowVars>>
  <2>1. PlaceOK'
    BY <1>1, <1>3 DEF TypeOK, PlaceOK, StagePcs, runVars
  <2>2. RowOK'
    BY <1>3, RowsQuiet DEF TypeOK, RowOK, rowVars, Reading
  <2> QED
    BY <1>1, <1>3, <2>1, <2>2, SameGroups DEF TypeOK, runVars
<1>4. CASE stage = "lanes" /\ LaneFails
  BY <1>1, <1>4, LaneFailsTyped DEF TypeOK
<1>5. CASE stage # "lanes" /\ NextStage /\ UNCHANGED <<runVars, laneVars>>
  <2>1. PlaceOK' /\ RowOK'
    BY <1>2, <1>5, NextStageTyped DEF StageAfter, Judging, runVars
  <2> QED
    BY <1>1, <1>5, <2>1, SameGroups DEF TypeOK, runVars
<1> QED
  BY <1>3, <1>4, <1>5 DEF GiveUp

LEMMA TypeCancel == TypeOK /\ Cancel => TypeOK'
<1> SUFFICES ASSUME TypeOK, Cancel PROVE TypeOK'
  OBVIOUS
<1>1. StoreOK' /\ BatchOK' /\ LaneOK' /\ MemoryOK'
  BY SameGroups DEF Cancel, countVars, seenVars, runVars
<1>2. PlaceOK'
  BY DEF Cancel, TypeOK, PlaceOK, StagePcs, Stages, Batching, runVars
<1>3. RowOK'
  BY RowsQuiet DEF Cancel, TypeOK, RowOK, Reading
<1> QED
  BY <1>1, <1>2, <1>3 DEF TypeOK

LEMMA TypeBatchEnds == TypeOK /\ BatchEnds => TypeOK'
<1> SUFFICES ASSUME TypeOK, BatchEnds PROVE TypeOK'
  OBVIOUS
<1>1. batch \in 1..Len(batches) /\ unread \subseteq Requests(batch)
  BY DEF BatchEnds, TypeOK, RowOK
<1>2. Ends(batch)
  BY DEF BatchEnds
<1>3. /\ BatchOK' /\ Len(batches') = Len(batches)
      /\ DOMAIN batches'[batch].rows = DOMAIN batches[batch].rows
  BY <1>1, <1>2, EndsEffect
<1>4. StoreOK' /\ MemoryOK'
  BY SameGroups DEF BatchEnds, countVars, seenVars, runVars
<1>5. PlaceOK'
  BY DEF BatchEnds, TypeOK, PlaceOK, StagePcs, Stages, Batching, runVars
<1>6. LaneOK'
  BY <1>1 DEF BatchEnds, TypeOK, LaneOK, BatchOK
<1>7. RowOK'
  BY <1>1, <1>3 DEF BatchEnds, TypeOK, RowOK, rowVars, Requests
<1> QED
  BY <1>3, <1>4, <1>5, <1>6, <1>7 DEF TypeOK

LEMMA TypeAbandonedEnds == TypeOK /\ AbandonedEnds => TypeOK'
<1> SUFFICES ASSUME TypeOK, AbandonedEnds PROVE TypeOK'
  OBVIOUS
<1>1. PICK b \in 1..Len(batches) : Ends(b)
  BY DEF AbandonedEnds
<1>2. BatchOK'
  BY <1>1, EndsEffect
<1>3. StoreOK' /\ MemoryOK' /\ LaneOK' /\ PlaceOK'
  BY SameGroups DEF AbandonedEnds, countVars, seenVars, runVars
<1>4. RowOK'
  BY RowsQuiet DEF AbandonedEnds, TypeOK, RowOK, rowVars, Reading
<1> QED
  BY <1>2, <1>3, <1>4 DEF TypeOK

\* The usage of a row that was served is that of an entry.
LEMMA RowTyped ==
  ASSUME TypeOK, NEW b \in 1..Len(batches), NEW x \in Requests(b)
  PROVE  /\ batches[b].rows[x] \in Rows /\ batches[b].ttl \in Ttls
         /\ batches[b].rows[x].usage \in Usage /\ x \in Calls
<1>1. batches[b] \in Batches
  BY DEF TypeOK, BatchOK
<1>2. batches[b].rows[x] \in Rows /\ batches[b].ttl \in Ttls /\ x \in Calls
  BY <1>1 DEF Batches, RowTables, Requests
<1> QED
  BY <1>2 DEF Rows

\* The ledger after a row or a call was added to it.
LEMMA AddedTyped ==
  ASSUME NEW S \in SUBSET Entries, IsFiniteSet(S), NEW e \in Entries
  PROVE  Added(S, e) \in SUBSET Entries /\ IsFiniteSet(Added(S, e))
<1>1. IsFiniteSet(S \cup {e})
  BY FS_AddElement
<1> QED
  BY <1>1 DEF Added

\* What a row adds to the ledger.
RowEntry(x) == Entry(<<batch, x>>, IF stage = "lanes" THEN Lane ELSE stage,
                     batches[batch].rows[x].usage, batches[batch].ttl)

LEMMA RowEntryTyped ==
  ASSUME TypeOK, pc = "read", NEW x \in unread
  PROVE  RowEntry(x) \in Entries
<1>1. batch \in 1..Len(batches) /\ x \in Requests(batch) /\ batch \in Nat
  BY DEF TypeOK, RowOK, Reading
<1>2. /\ batches[batch].ttl \in Ttls /\ x \in Calls
      /\ batches[batch].rows[x].usage \in Usage
  BY <1>1, RowTyped
<1>3. stage \in {"lanes"} \cup Judging
  BY StageOf
<1>4. stage = "lanes" => Lane \in LaneSet
  BY LaneInSet DEF TypeOK, PlaceOK
<1> QED
  BY <1>1, <1>2, <1>3, <1>4 DEF RowEntry, Entry, Entries

\* One row is read: its pieces.
LEMMA ReadEffect ==
  ASSUME TypeOK, Read
  PROVE  \E x \in unread :
           LET row == batches[batch].rows[x] IN
           /\ x \in Requests(batch) /\ row \in Rows
           /\ unread' = unread \ {x}
           /\ ledger' = IF Served(row) THEN Added(ledger, RowEntry(x))
                        ELSE ledger
           /\ ledger' \in SUBSET Entries /\ IsFiniteSet(ledger')
           /\ IF stage = "lanes" THEN ReadTurn(x, row) ELSE UNCHANGED laneVars
           /\ pc' = IF Served(row) THEN "save" ELSE "read"
<1>1. PICK x \in unread :
       LET row == batches[batch].rows[x] IN
       /\ unread' = unread \ {x}
       /\ ledger' = IF Served(row) THEN Added(ledger, RowEntry(x))
                    ELSE ledger
       /\ IF stage = "lanes" THEN ReadTurn(x, row) ELSE UNCHANGED laneVars
       /\ pc' = IF Served(row) THEN "save" ELSE "read"
  BY DEF Read, RowEntry
<1>2. pc = "read"
  BY DEF Read
<1>3. batch \in 1..Len(batches) /\ x \in Requests(batch)
  BY <1>2 DEF TypeOK, RowOK, Reading
<1>4. RowEntry(x) \in Entries /\ batches[batch].rows[x] \in Rows
  BY <1>2, <1>3, RowEntryTyped, RowTyped
<1>5. ledger' \in SUBSET Entries /\ IsFiniteSet(ledger')
  BY <1>1, <1>4, AddedTyped DEF TypeOK, MemoryOK
<1> QED
  BY <1>1, <1>3, <1>4, <1>5

-----------------------------------------------------------------------------
(* What sets of entries cost.                                              *)

LEMMA EntryPrice == \A e \in Entries : Price(e) \in Nat
<1> SUFFICES ASSUME NEW e \in Entries PROVE Price(e) \in Nat
  OBVIOUS
<1> DEFINE u == e.usage
<1>1. u.fresh \in Nat /\ u.written \in Nat /\ u.cached \in Nat
  BY DEF Entries, Usage
<1>2. \A k \in Nat : 20 * k \in Nat /\ 40 * k \in Nat /\ 25 * k \in Nat
                      /\ 2 * k \in Nat /\ 1 * k \in Nat
  OBVIOUS
<1> HIDE DEF u
<1>3. 20 * u.fresh + (IF e.ttl = "1h" THEN 40 ELSE 25) * u.written
        + 2 * u.cached \in Nat
  BY <1>1, <1>2
<1> QED
  BY <1>2, <1>3 DEF Price, CostUsd, u

\* The cost of a set within S, by the prices of S.
LEMMA CostBy ==
  ASSUME NEW S \in SUBSET Entries, IsFiniteSet(S), NEW T \in SUBSET S
  PROVE  CostOf(T) = SumFunctionOnSet([e \in S |-> Price(e)], T)
<1> DEFINE f == [e \in T |-> Price(e)]
           g == [e \in S |-> Price(e)]
<1>1. IsFiniteSet(T)
  BY FS_Subset
<1>2. \A e \in T : f[e] = g[e]
  OBVIOUS
<1>3. CostOf(T) = SumFunctionOnSet(f, T)
  BY DEF CostOf, SumFunction
<1> HIDE DEF f, g
<1>4. SumFunctionOnSet(f, T) = SumFunctionOnSet(g, T)
  BY <1>1, <1>2, SumCong
<1> QED
  BY <1>3, <1>4 DEF g

LEMMA CostType ==
  ASSUME NEW S \in SUBSET Entries, IsFiniteSet(S)
  PROVE  CostOf(S) \in Nat
<1> DEFINE g == [e \in S |-> Price(e)]
<1>1. \A e \in S : g[e] \in Nat
  BY EntryPrice
<1>2. CostOf(S) = SumFunctionOnSet(g, S)
  BY CostBy
<1> HIDE DEF g
<1> QED
  BY <1>1, <1>2, SumType

LEMMA CostEmpty == CostOf({}) = 0
<1>1. CostOf({}) = SumFunctionOnSet([e \in {} |-> Price(e)], {})
  BY FS_EmptySet, CostBy
<1> QED
  BY <1>1, SumEmpty

LEMMA CostDisjoint ==
  ASSUME NEW S \in SUBSET Entries, IsFiniteSet(S),
         NEW T \in SUBSET Entries, IsFiniteSet(T), S \cap T = {}
  PROVE  CostOf(S \cup T) = CostOf(S) + CostOf(T)
<1> DEFINE U == S \cup T
           g == [e \in U |-> Price(e)]
<1>1. IsFiniteSet(U) /\ U \in SUBSET Entries
  BY FS_Union
<1>2. \A e \in S \cup T : g[e] \in Nat
  BY EntryPrice
<1>3. /\ CostOf(U) = SumFunctionOnSet(g, U)
      /\ CostOf(S) = SumFunctionOnSet(g, S)
      /\ CostOf(T) = SumFunctionOnSet(g, T)
  <2>1. U \in SUBSET U /\ S \in SUBSET U /\ T \in SUBSET U
    OBVIOUS
  <2> HIDE DEF U
  <2> QED
    BY <1>1, <2>1, CostBy
<1> HIDE DEF g
<1>4. SumFunctionOnSet(g, S \cup T)
        = SumFunctionOnSet(g, S) + SumFunctionOnSet(g, T)
  BY <1>2, SumDisjoint
<1> QED
  BY <1>3, <1>4

LEMMA CostOne ==
  ASSUME NEW e \in Entries
  PROVE  CostOf({e}) = Price(e)
<1> DEFINE g == [x \in {e} |-> Price(x)]
           S == {e}
<1>1. IsFiniteSet(S) /\ IsFiniteSet(S \ {e}) /\ S \ {e} = {}
  BY FS_Singleton, FS_EmptySet
<1>2. \A x \in S : g[x] \in Nat
  BY EntryPrice
<1>3. CostOf(S) = SumFunctionOnSet(g, S)
  BY <1>1, CostBy
<1>4. g[e] = Price(e) /\ e \in S
  OBVIOUS
<1> HIDE DEF g
<1>5. SumFunctionOnSet(g, S) = g[e] + SumFunctionOnSet(g, S \ {e})
  BY <1>1, <1>2, <1>4, SumTake
<1>6. SumFunctionOnSet(g, S \ {e}) = 0
  BY <1>1, SumEmpty
<1>7. Price(e) \in Nat
  BY EntryPrice
<1>8. CostOf(S) = Price(e)
  BY <1>3, <1>4, <1>5, <1>6, <1>7
<1> QED
  BY <1>8

LEMMA CostAdd ==
  ASSUME NEW S \in SUBSET Entries, IsFiniteSet(S), NEW e \in Entries, e \notin S
  PROVE  CostOf(S \cup {e}) = CostOf(S) + Price(e)
<1>1. {e} \in SUBSET Entries /\ IsFiniteSet({e}) /\ S \cap {e} = {}
  BY FS_Singleton
<1>2. CostOf(S \cup {e}) = CostOf(S) + CostOf({e})
  BY <1>1, CostDisjoint
<1> QED
  BY <1>2, CostOne

LEMMA CostMonotone ==
  ASSUME NEW S \in SUBSET Entries, IsFiniteSet(S), NEW T \in SUBSET S
  PROVE  CostOf(T) <= CostOf(S)
<1>1. IsFiniteSet(T) /\ IsFiniteSet(S \ T) /\ T \cup (S \ T) = S
  BY FS_Subset
<1>2. CostOf(S) = CostOf(T) + CostOf(S \ T)
  BY <1>1, CostDisjoint
<1>3. CostOf(T) \in Nat /\ CostOf(S \ T) \in Nat
  BY <1>1, CostType
<1> QED
  BY <1>2, <1>3

\* What a row may use keeps within the bound of its pass.
LEMMA CostAdded ==
  ASSUME NEW S \in SUBSET Entries, IsFiniteSet(S), NEW e \in Entries
  PROVE  /\ CostOf(Added(S, e)) \in Nat
         /\ CostOf(S) <= CostOf(Added(S, e))
         /\ CostOf(Added(S, e)) <= CostOf(S) + Price(e)
         /\ e.key \notin Keys(S) => CostOf(Added(S, e)) = CostOf(S) + Price(e)
<1>1. Price(e) \in Nat /\ CostOf(S) \in Nat
  BY EntryPrice, CostType
<1>2. e.key \notin Keys(S) => e \notin S
  BY DEF Keys
<1>3. e.key \notin Keys(S) => CostOf(S \cup {e}) = CostOf(S) + Price(e)
  BY <1>2, CostAdd
<1> QED
  BY <1>1, <1>3 DEF Added

LEMMA TypeRead == TypeOK /\ Read => TypeOK'
<1> SUFFICES ASSUME TypeOK, Read PROVE TypeOK'
  OBVIOUS
<1>1. PICK x \in unread :
        /\ x \in Requests(batch) /\ batches[batch].rows[x] \in Rows
        /\ unread' = unread \ {x}
        /\ ledger' = IF Served(batches[batch].rows[x])
                     THEN Added(ledger, RowEntry(x)) ELSE ledger
        /\ ledger' \in SUBSET Entries /\ IsFiniteSet(ledger')
        /\ IF stage = "lanes" THEN ReadTurn(x, batches[batch].rows[x])
           ELSE UNCHANGED laneVars
        /\ pc' = IF Served(batches[batch].rows[x]) THEN "save" ELSE "read"
  BY ReadEffect
<1>2. pc = "read" /\ RowEntry(x) \in Entries
  BY RowEntryTyped DEF Read
<1>3. StoreOK' /\ BatchOK' /\ MemoryOK'
  BY <1>1, SameGroups DEF Read, TypeOK, MemoryOK, countVars, seenVars, runVars
<1>4. PlaceOK'
  BY <1>1, <1>2 DEF Read, TypeOK, PlaceOK, Stages, StagePcs, Batching, runVars
<1>5. LaneOK'
  <2>1. CASE stage # "lanes"
    BY <1>1, <2>1, SameGroups
  <2>2. CASE stage = "lanes"
    <3> DEFINE c == x[2]
               row == batches[batch].rows[x]
    <3>1. c \in Cases
      BY DEF TypeOK, RowOK, Calls
    <3>2. ReadTurn(x, row)
      BY <1>1, <2>2
    <3>3. status' \in [Cases -> Endings]
      BY <3>1, <3>2 DEF ReadTurn, TypeOK, LaneOK, Endings
    <3>4. pending' \subseteq Cases /\ round' = round /\ used' = used
      BY <3>1, <3>2 DEF ReadTurn, TypeOK, LaneOK
    <3>5. iterations' \in Counts
      BY <3>1, <3>2 DEF ReadTurn, TypeOK, LaneOK, Counts
    <3>6. /\ CostOf(ledger) \in Nat /\ CostOf(ledger') \in Nat
          /\ CostOf(ledger) <= CostOf(ledger')
      BY <1>1, <1>2, CostType, CostAdded DEF TypeOK, MemoryOK
    <3>7. spent[c] \in Nat /\ spent[c] + CostOf(ledger') - CostOf(ledger) \in Nat
      <4>1. spent[c] \in Nat
        BY <3>1 DEF TypeOK, LaneOK, Counts
      <4> QED
        BY <3>6, <4>1
    <3>8. spent' \in Counts
      BY <3>1, <3>2, <3>7 DEF ReadTurn, TypeOK, LaneOK, Counts
    <3> QED
      BY <3>3, <3>4, <3>5, <3>8 DEF TypeOK, LaneOK
  <2> QED
    BY <2>1, <2>2
<1>6. RowOK'
  BY <1>1 DEF Read, TypeOK, RowOK, Reading, Requests
<1> QED
  BY <1>3, <1>4, <1>5, <1>6 DEF TypeOK

LEMMA TypeSave == TypeOK /\ Save => TypeOK'
<1> SUFFICES ASSUME TypeOK, Save PROVE TypeOK'
  OBVIOUS
<1>1. BatchOK' /\ LaneOK' /\ MemoryOK'
  BY SameGroups DEF Save, countVars, seenVars, runVars
<1>2. StoreOK'
  BY DEF Save, TypeOK, StoreOK, MemoryOK, countVars, seenVars
<1>3. PlaceOK'
  BY DEF Save, TypeOK, PlaceOK, Stages, StagePcs, Batching, runVars
<1>4. RowOK'
  BY DEF Save, TypeOK, RowOK, rowVars, Reading, Requests
<1> QED
  BY <1>1, <1>2, <1>3, <1>4 DEF TypeOK

LEMMA TypeReadAll == TypeOK /\ ReadAll => TypeOK'
<1> SUFFICES ASSUME TypeOK, ReadAll PROVE TypeOK'
  OBVIOUS
<1>1. StoreOK' /\ BatchOK' /\ LaneOK' /\ MemoryOK' /\ at' = at
  BY SameGroups DEF ReadAll, countVars, seenVars, runVars
<1>2. stage \in {"lanes"} \cup Judging
  BY StageOf DEF ReadAll
<1>3. CASE stage = "lanes"
  <2>1. PlaceOK'
    BY <1>1, <1>3 DEF ReadAll, TypeOK, PlaceOK, StagePcs
  <2>2. RowOK'
    BY <1>3, RowsQuiet DEF ReadAll, TypeOK, RowOK, rowVars, Reading
  <2> QED
    BY <1>1, <2>1, <2>2 DEF TypeOK
<1>4. CASE stage # "lanes"
  BY <1>1, <1>2, <1>4, NextStageTyped DEF ReadAll, StageAfter, Judging, TypeOK
<1> QED
  BY <1>3, <1>4

LEMMA TypeFinishLane == TypeOK /\ FinishLane => TypeOK'
<1> SUFFICES ASSUME TypeOK, FinishLane PROVE TypeOK'
  OBVIOUS
<1>1. StoreOK' /\ BatchOK' /\ LaneOK'
  BY SameGroups DEF FinishLane, countVars, seenVars
<1>2. stage = "lanes" /\ at <= Len(Lanes)
  BY StageOf DEF FinishLane, TypeOK, PlaceOK
<1>3. PlaceOK'
  BY <1>2 DEF FinishLane, TypeOK, PlaceOK, StagePcs
<1>4. MemoryOK'
  BY <1>2, LaneInSet DEF FinishLane, TypeOK, PlaceOK, MemoryOK
<1>5. RowOK'
  BY RowsQuiet DEF FinishLane, TypeOK, RowOK, rowVars, Reading
<1> QED
  BY <1>1, <1>3, <1>4, <1>5 DEF TypeOK

LEMMA TypeCheckpoint == TypeOK /\ Checkpoint => TypeOK'
<1> SUFFICES ASSUME TypeOK, Checkpoint PROVE TypeOK'
  OBVIOUS
<1>1. BatchOK' /\ MemoryOK'
  BY SameGroups DEF Checkpoint, countVars, seenVars
<1>2. stage = "lanes" /\ at \in Nat \ {0} /\ Len(Lanes) \in Nat
  BY StageOf, MatrixAssumption DEF Checkpoint, TypeOK, PlaceOK
<1>3. at' \in Nat \ {0}
  BY <1>2 DEF Checkpoint
<1>4. PlaceOK'
  BY <1>2, <1>3 DEF Checkpoint, TypeOK, PlaceOK, StagePcs
<1>5. [file |-> "written", batches |-> used, iterations |-> iterations,
       spent |-> spent, ends |-> status] \in CheckpointFiles
  BY DEF TypeOK, LaneOK, CheckpointFiles
<1>6. StoreOK'
  BY <1>5 DEF Checkpoint, TypeOK, StoreOK, countVars, seenVars
<1>7. LaneOK'
  BY NoCasesType DEF Checkpoint, NoLane, LaneOK
<1>8. RowOK'
  BY DEF Checkpoint, NoRequests, RowOK, Reading
<1> QED
  BY <1>1, <1>4, <1>6, <1>7, <1>8 DEF TypeOK

LEMMA TypeJudge == TypeOK /\ Judge => TypeOK'
<1> SUFFICES ASSUME TypeOK, Judge PROVE TypeOK'
  OBVIOUS
<1>1. StoreOK' /\ BatchOK' /\ LaneOK' /\ MemoryOK' /\ at' = at
  BY SameGroups DEF Judge, countVars, seenVars, runVars
<1>2. stage \in Judging
  BY StageOf DEF Judge
<1>3. CASE NextStage
  BY <1>1, <1>2, <1>3, NextStageTyped DEF StageAfter, Judging, TypeOK
<1>4. CASE /\ unread' = Targets /\ pc' = "create"
           /\ UNCHANGED <<stage, unsent, attempt, batch>>
  <2>1. Targets \subseteq Calls
    BY MatrixAssumption DEF Targets, Drafted, Calls
  <2>2. PlaceOK'
    BY <1>1, <1>2, <1>4 DEF TypeOK, PlaceOK, Stages, StagePcs, Batching, Judging
  <2>3. RowOK'
    BY <1>4, <2>1, RowsQuiet DEF TypeOK, RowOK, Reading
  <2> QED
    BY <1>1, <2>2, <2>3 DEF TypeOK
<1> QED
  BY <1>3, <1>4 DEF Judge

\* What an interactive call adds to the ledger.
LEMMA LatencyEntryTyped ==
  ASSUME TypeOK, NEW x \in unsent, NEW u \in Usages["5m"]
  PROVE  Entry(<<0, x>>, "latency", u, "5m") \in Entries
<1>1. u \in Usage /\ x \in Calls
  BY MatrixAssumption DEF TypeOK, RowOK, Ttls
<1> QED
  BY <1>1 DEF Entry, Entries, Ttls

LEMMA TypeLatency == TypeOK /\ Latency => TypeOK'
<1> SUFFICES ASSUME TypeOK, Latency PROVE TypeOK'
  OBVIOUS
<1>1. StoreOK' /\ BatchOK' /\ LaneOK' /\ at' = at /\ present' = present
  BY SameGroups DEF Latency, countVars, runVars
<1>2. stage = "latency" /\ pc = "latency"
  BY StageOf DEF Latency
<1>3. CASE NextStage /\ UNCHANGED ledger
  BY <1>1, <1>2, <1>3, NextStageTyped, SameGroups DEF StageAfter, TypeOK
<1>4. ASSUME NEW x \in unsent, NEW u \in Usages["5m"],
             unsent' = unsent \ {x},
             ledger' = Added(ledger, Entry(<<0, x>>, "latency", u, "5m")),
             pc' \in {"latency", "save"},
             UNCHANGED <<stage, attempt, batch, unread>>
      PROVE  TypeOK'
  <2>1. Entry(<<0, x>>, "latency", u, "5m") \in Entries
    BY LatencyEntryTyped
  <2>2. MemoryOK'
    BY <1>1, <1>4, <2>1, AddedTyped DEF TypeOK, MemoryOK
  <2>3. PlaceOK'
    BY <1>1, <1>2, <1>4 DEF TypeOK, PlaceOK, Stages, StagePcs
  <2>4. RowOK'
    BY <1>2, <1>4, RowsQuiet DEF TypeOK, RowOK, Reading
  <2> QED
    BY <1>1, <2>2, <2>3, <2>4 DEF TypeOK
<1> QED
  BY <1>3, <1>4 DEF Latency

LEMMA TypeReport == TypeOK /\ Report => TypeOK'
<1> SUFFICES ASSUME TypeOK, Report PROVE TypeOK'
  OBVIOUS
<1>1. BatchOK'
  BY SameGroups DEF Report
<1>2. StoreOK'
  BY DEF Report, TypeOK, StoreOK, MemoryOK, countVars, seenVars
<1> QED
  BY <1>1, <1>2, ExitTyped DEF Report, TypeOK

\* A failure leaves the ledger file and a checkpoint as they were, or torn.
LEMMA TornTyped ==
  ASSUME TypeOK,
         disk' \in IF pc = "save" THEN {disk, [disk EXCEPT !.readable = FALSE]}
                                 ELSE {disk},
         checkpoints' \in
           IF pc = "checkpoint"
           THEN {checkpoints, [checkpoints EXCEPT ![Lane] = Torn]}
           ELSE {checkpoints},
         UNCHANGED <<scenario, matrix, account, forgotten>>
  PROVE  StoreOK'
<1>1. /\ disk' \in [readable : BOOLEAN, entries : SUBSET Entries]
      /\ disk'.entries = disk.entries
  BY DEF TypeOK, StoreOK
<1>2. checkpoints' \in [LaneSet -> CheckpointFiles]
  BY NoCasesType DEF TypeOK, StoreOK
<1> QED
  BY <1>1, <1>2 DEF TypeOK, StoreOK

LEMMA TypeThrow == TypeOK /\ Throw => TypeOK'
<1> SUFFICES ASSUME TypeOK, Throw PROVE TypeOK'
  OBVIOUS
<1>1. BatchOK' /\ StoreOK'
  BY SameGroups, TornTyped DEF Throw, seenVars
<1>2. pc \in {"create", "poll", "cancel", "read", "save", "finish",
              "checkpoint", "latency"}
  BY DEF Throw
<1>3. CASE pc = "checkpoint"
  BY <1>1, <1>3, ExitTyped DEF Throw, TypeOK
<1>4. CASE pc # "checkpoint" /\ stage = "lanes"
  <2>1. LaneFails /\ UNCHANGED ledger
    BY <1>4 DEF Throw
  <2> QED
    BY <1>1, <1>4, <2>1, LaneFailsTyped DEF TypeOK
<1>5. CASE pc # "checkpoint" /\ stage # "lanes"
  <2>1. NextStage /\ UNCHANGED <<ledger, runVars, laneVars>>
    BY <1>5 DEF Throw
  <2>2. stage \in DOMAIN StageAfter
    BY <1>2, <1>5, StageOf DEF StageAfter, Judging
  <2> QED
    BY <1>1, <2>1, <2>2, NextStageTyped, SameGroups DEF TypeOK, runVars
<1> QED
  BY <1>3, <1>4, <1>5

LEMMA TypeCrash == TypeOK /\ Crash => TypeOK'
<1> SUFFICES ASSUME TypeOK, Crash PROVE TypeOK'
  OBVIOUS
<1>1. BatchOK' /\ StoreOK'
  BY SameGroups, TornTyped DEF Crash, seenVars
<1> QED
  BY <1>1, ExitTyped DEF Crash, TypeOK

\* A row the sweep finds, and the entry it becomes.
Sweepable(entries) ==
  {key \in UNION {{b} \X Requests(b) : b \in 1..Len(batches)} :
     /\ Ended(key[1]) /\ Served(batches[key[1]].rows[key[2]])
     /\ key \notin Keys(entries)}
SweptEntry(key) ==
  Entry(key, "swept", batches[key[1]].rows[key[2]].usage, "none")

LEMMA SweptOf == \A entries :
  Unrecorded(entries) = {SweptEntry(key) : key \in Sweepable(entries)}
BY DEF Unrecorded, Sweepable, SweptEntry

LEMMA SweepTyped ==
  ASSUME TypeOK, NEW entries
  PROVE  /\ Unrecorded(entries) \in SUBSET Entries
         /\ IsFiniteSet(Unrecorded(entries))
<1>1. \A key \in Sweepable(entries) :
        /\ key \in (1..Len(batches)) \X Calls
        /\ key[1] \in 1..Len(batches) /\ key[2] \in Requests(key[1])
  <2> TAKE key \in Sweepable(entries)
  <2>1. PICK b \in 1..Len(batches) : key \in {b} \X Requests(b)
    BY DEF Sweepable
  <2>2. Requests(b) \subseteq Calls
    BY RowTyped
  <2> QED
    BY <2>1, <2>2
<1>2. \A key \in Sweepable(entries) : SweptEntry(key) \in Entries
  <2> TAKE key \in Sweepable(entries)
  <2>1. batches[key[1]].rows[key[2]].usage \in Usage
    BY <1>1, RowTyped
  <2>2. key \in Nat \X Calls /\ Len(batches) \in Nat
    BY <1>1 DEF TypeOK, BatchOK
  <2> QED
    BY <2>1, <2>2 DEF SweptEntry, Entry, Entries, Ttls
<1>3. IsFiniteSet(Sweepable(entries))
  <2>1. IsFiniteSet((1..Len(batches)) \X Calls)
    <3>1. Len(batches) \in Nat
      BY DEF TypeOK, BatchOK
    <3>2. IsFiniteSet(1..Len(batches))
      BY <3>1, FS_Interval
    <3> QED
      BY <3>2, FiniteCalls, FS_Product
  <2> QED
    BY <1>1, <2>1, FS_Subset
<1>4. IsFiniteSet(Unrecorded(entries))
  <2> DEFINE f == [key \in Sweepable(entries) |-> SweptEntry(key)]
  <2>1. f \in Surjection(Sweepable(entries), Unrecorded(entries))
    BY SweptOf DEF Surjection
  <2> QED
    BY <1>3, <2>1, FS_Surjection
<1> QED
  BY <1>2, <1>4, SweptOf

LEMMA TypeAugment == TypeOK /\ Augment => TypeOK'
<1> SUFFICES ASSUME TypeOK, Augment PROVE TypeOK'
  OBVIOUS
<1>1. PICK entries \in {disk.entries,
                        disk.entries \cup Unrecorded(disk.entries)} :
       /\ disk' = [disk EXCEPT !.entries = entries]
       /\ account' = [lanes |-> matrix,
                      published |-> CostOf({e \in entries :
                        /\ e.lane \notin {"working", "published", "latency"}
                        /\ Published(entries, e)})]
  BY DEF Augment
<1>2. entries \in SUBSET Entries /\ IsFiniteSet(entries)
  <2>1. disk.entries \in SUBSET Entries /\ IsFiniteSet(disk.entries)
    BY DEF TypeOK, StoreOK
  <2>2. /\ Unrecorded(disk.entries) \in SUBSET Entries
        /\ IsFiniteSet(Unrecorded(disk.entries))
    BY SweepTyped
  <2>3. IsFiniteSet(disk.entries \cup Unrecorded(disk.entries))
    BY <2>1, <2>2, FS_Union
  <2> QED
    BY <2>1, <2>2, <2>3
<1> DEFINE own == {e \in entries :
                        /\ e.lane \notin {"working", "published", "latency"}
                        /\ Published(entries, e)}
<1>3. own \in SUBSET Entries /\ IsFiniteSet(own)
  BY <1>2, FS_Subset
<1> HIDE DEF own
<1>4. CostOf(own) \in Nat
  BY <1>3, CostType
<1>5. account' = [lanes |-> matrix, published |-> CostOf(own)]
  BY <1>1 DEF own
<1>6. StoreOK'
  BY <1>1, <1>2, <1>4, <1>5 DEF Augment, TypeOK, StoreOK, countVars, seenVars
<1>7. BatchOK' /\ PlaceOK' /\ MemoryOK' /\ LaneOK' /\ RowOK'
  BY SameGroups DEF Augment, runVars
<1> QED
  BY <1>6, <1>7 DEF TypeOK

LEMMA TypeInit == Init => TypeOK
<1> SUFFICES ASSUME Init PROVE TypeOK
  OBVIOUS
<1>1. StoreOK
  BY NoCasesType, FS_EmptySet DEF Init, StoreOK
<1>2. LaneOK
  BY NoCasesType DEF Init, LaneOK
<1>3. BatchOK /\ PlaceOK /\ MemoryOK
  BY FS_EmptySet DEF Init, BatchOK, PlaceOK, MemoryOK, Stages, StagePcs
<1>4. RowOK
  BY DEF Init, RowOK, Reading
<1> QED
  BY <1>1, <1>2, <1>3, <1>4 DEF TypeOK

LEMMA TypeStutter == TypeOK /\ UNCHANGED vars => TypeOK'
<1> SUFFICES ASSUME TypeOK, UNCHANGED vars PROVE TypeOK'
  OBVIOUS
<1> QED
  BY SameGroups DEF vars, TypeOK, runVars, seenVars, countVars

LEMMA TypeStep == TypeOK /\ [Next]_vars => TypeOK'
BY TypeInvoke, TypeNextLane, TypeStartRound, TypeNextChunk, TypeCreate,
   TypeGiveUp, TypeCancel, TypeBatchEnds, TypeAbandonedEnds, TypeRead,
   TypeSave, TypeReadAll, TypeFinishLane, TypeCheckpoint, TypeJudge,
   TypeLatency, TypeReport, TypeThrow, TypeCrash, TypeAugment, TypeStutter
   DEF Next, Drive

\* Whatever stalls, throws or dies, the script is at a place that its stage has,
\* a batch that is polled or read exists and has the rows that are left to read,
\* and the ledger stays finite.
THEOREM TypeCorrect == Spec => []TypeOK
BY TypeInit, TypeStep, PTL DEF Spec

-----------------------------------------------------------------------------
(* Who changes what.                                                       *)

\* The ledger is forgotten, opened, or given one more entry.
LedgerRead ==
  \E x \in unread :
    /\ Served(batches[batch].rows[x])
    /\ ledger' = Added(ledger, RowEntry(x))
    /\ unread' = unread \ {x}
LedgerCall ==
  \E x \in unsent, u \in Usages["5m"] :
    ledger' = Added(ledger, Entry(<<0, x>>, "latency", u, "5m"))

LEMMA LedgerEffect ==
  ASSUME TypeOK, [Next]_vars
  PROVE  \/ ledger' = ledger
         \/ ledger' = {} /\ pc' = "idle"
         \/ Invoke
         \/ Read /\ LedgerRead /\ pc' = "save"
         \/ Latency /\ Headroom(Worst) /\ LedgerCall
              /\ (pc' = "save" \/ ledger' = ledger)
<1>1. CASE Invoke
  BY <1>1
<1>2. CASE NextLane \/ Report \/ Throw \/ Crash
  BY <1>2 DEF NextLane, Report, Throw, Crash, Exit
<1>3. CASE StartRound \/ NextChunk \/ Create \/ GiveUp \/ Cancel \/ Save
             \/ ReadAll \/ FinishLane \/ Checkpoint \/ Judge
  BY <1>3 DEF StartRound, NextChunk, Create, GiveUp, Cancel, Save, ReadAll,
              FinishLane, Checkpoint, Judge
<1>4. CASE Read
  BY <1>4, ReadEffect DEF LedgerRead
<1>5. CASE Latency
  BY <1>5 DEF Latency, LedgerCall, Added, Entry
<1>6. CASE BatchEnds \/ AbandonedEnds \/ Augment \/ UNCHANGED vars
  BY <1>6 DEF BatchEnds, AbandonedEnds, Augment, vars
<1> QED
  BY <1>1, <1>2, <1>3, <1>4, <1>5, <1>6 DEF Next, Drive

\* The ledger file's entries are those of the ledger at a save; the accounting
\* adds swept ones.
LEMMA DiskEffect ==
  ASSUME TypeOK, [Next]_vars
  PROVE  \/ disk' = disk
         \/ disk'.entries = disk.entries /\ ~disk'.readable /\ pc = "save"
         \/ Save
         \/ Augment
<1>1. CASE Invoke \/ NextLane \/ StartRound \/ NextChunk \/ Create \/ GiveUp
  BY <1>1 DEF Invoke, NextLane, StartRound, NextChunk, Create, GiveUp, diskVars
<1>2. CASE Cancel \/ Read \/ ReadAll \/ FinishLane \/ Checkpoint \/ Judge
  BY <1>2 DEF Cancel, Read, ReadAll, FinishLane, Checkpoint, Judge, diskVars
<1>3. CASE Latency \/ Report \/ BatchEnds \/ AbandonedEnds \/ UNCHANGED vars
  BY <1>3 DEF Latency, Report, BatchEnds, AbandonedEnds, diskVars, vars
<1>4. CASE Throw \/ Crash
  BY <1>4 DEF Throw, Crash, TypeOK, StoreOK
<1> QED
  BY <1>1, <1>2, <1>3, <1>4 DEF Next, Drive

\* Batches are created and end.
LEMMA BatchesEffect ==
  ASSUME TypeOK, [Next]_vars
  PROVE  \/ batches' = batches
         \/ Create
         \/ BatchEnds
         \/ AbandonedEnds
BY DEF Next, Drive, Invoke, NextLane, StartRound, NextChunk, GiveUp, Cancel,
       Read, Save, ReadAll, FinishLane, Checkpoint, Judge, Latency, Report,
       Throw, Crash, Augment, vars

\* Checkpoints are written once a lane is finished, or torn.
LEMMA CheckpointsEffect ==
  ASSUME TypeOK, [Next]_vars
  PROVE  \/ checkpoints' = checkpoints
         \/ Checkpoint
         \/ /\ pc = "checkpoint" /\ Exit /\ UNCHANGED <<batches, forgotten>>
            /\ disk' = disk
            /\ checkpoints' = [checkpoints EXCEPT ![Lane] = Torn]
<1>1. CASE Invoke \/ NextLane \/ StartRound \/ NextChunk \/ Create \/ GiveUp
  BY <1>1 DEF Invoke, NextLane, StartRound, NextChunk, Create, GiveUp, diskVars
<1>2. CASE Cancel \/ Read \/ ReadAll \/ FinishLane \/ Save \/ Judge
  BY <1>2 DEF Cancel, Read, ReadAll, FinishLane, Save, Judge, diskVars
<1>3. CASE Latency \/ Report \/ BatchEnds \/ AbandonedEnds \/ Augment \/ UNCHANGED vars
  BY <1>3 DEF Latency, Report, BatchEnds, AbandonedEnds, Augment, diskVars, vars
<1>4. CASE Throw \/ Crash
  BY <1>4 DEF Throw, Crash, seenVars
<1> QED
  BY <1>1, <1>2, <1>3, <1>4 DEF Next, Drive

-----------------------------------------------------------------------------
(* The envelope.                                                           *)

LEMMA MeasuredTyped ==
  ASSUME NEW S \in SUBSET Entries, IsFiniteSet(S)
  PROVE  /\ Measured(S) \in SUBSET Entries /\ IsFiniteSet(Measured(S))
         /\ CostOf(S) \in Nat /\ CostOf(Measured(S)) \in Nat
         /\ CostOf(Measured(S)) <= CostOf(S)
<1>1. Measured(S) \in SUBSET S
  BY DEF Measured
<1>2. IsFiniteSet(Measured(S))
  BY <1>1, FS_Subset
<1> QED
  BY <1>1, <1>2, CostType, CostMonotone

LEMMA Bounds == Hard \in Nat /\ Worst \in Nat /\ JudgeWorst \in Nat
BY MatrixAssumption

LEMMA EnvelopeIs ==
  OnlyOverrunPassesHard <=> Within(ledger) /\ Within(disk.entries)
BY DEF OnlyOverrunPassesHard, Within, Measured

\* An entry's price is what was set aside for it and its excess.
LEMMA ExcessCovers ==
  ASSUME NEW e \in Entries
  PROVE  /\ Price(e) \in Nat /\ Excess(e) \in Nat /\ SetAside(e) \in Nat
         /\ Price(e) <= SetAside(e) + Excess(e)
<1>1. Price(e) \in Nat /\ SetAside(e) \in Nat
  BY EntryPrice, Bounds DEF SetAside
<1> QED
  BY <1>1 DEF Excess

LEMMA OverrunType ==
  ASSUME NEW S \in SUBSET Entries, IsFiniteSet(S)
  PROVE  Overrun(S) \in Nat
<1> DEFINE g == [e \in S |-> Excess(e)]
<1>1. \A e \in S : g[e] \in Nat
  BY ExcessCovers
<1>2. Overrun(S) = SumFunctionOnSet(g, S)
  BY DEF Overrun, SumFunction
<1> HIDE DEF g
<1> QED
  BY <1>1, <1>2, SumType

LEMMA OverrunAdd ==
  ASSUME NEW S \in SUBSET Entries, IsFiniteSet(S), NEW e \in Entries, e \notin S
  PROVE  Overrun(S \cup {e}) = Overrun(S) + Excess(e)
<1> DEFINE U == S \cup {e}
           f == [x \in S |-> Excess(x)]
           g == [x \in U |-> Excess(x)]
<1>1. IsFiniteSet(U) /\ e \in U /\ U \ {e} = S
  BY FS_AddElement
<1>2. (\A x \in U : g[x] \in Nat) /\ g[e] = Excess(e)
  BY ExcessCovers
<1>3. \A x \in S : g[x] = f[x]
  OBVIOUS
<1>4. Overrun(U) = SumFunctionOnSet(g, U) /\ Overrun(S) = SumFunctionOnSet(f, S)
  BY DEF Overrun, SumFunction
<1>5. SumFunctionOnSet(f, S) \in Nat /\ Excess(e) \in Nat
  BY <1>4, OverrunType, ExcessCovers
<1> HIDE DEF f, g, U
<1>6. SumFunctionOnSet(g, U) = g[e] + SumFunctionOnSet(g, U \ {e})
  BY <1>1, <1>2, SumTake
<1>7. SumFunctionOnSet(g, S) = SumFunctionOnSet(f, S)
  BY <1>3, SumCong
<1>8. SumFunctionOnSet(g, U) = Excess(e) + SumFunctionOnSet(f, S)
  <2>1. SumFunctionOnSet(g, U) = Excess(e) + SumFunctionOnSet(g, S)
    BY <1>1, <1>2, <1>6
  <2> QED
    BY <1>7, <2>1
<1>9. Overrun(U) = Overrun(S) + Excess(e)
  BY <1>4, <1>5, <1>8
<1> QED
  BY <1>9 DEF U

\* An entry the driver adds raises the cost and the overrun by its own.
LEMMA MeasuredAdded ==
  ASSUME NEW S \in SUBSET Entries, IsFiniteSet(S), NEW e \in Entries,
         e.lane # "swept"
  PROVE  \/ Added(S, e) = S
         \/ /\ CostOf(Measured(Added(S, e))) = CostOf(Measured(S)) + Price(e)
            /\ Overrun(Measured(Added(S, e))) = Overrun(Measured(S)) + Excess(e)
<1>1. CASE e.key \in Keys(S)
  BY <1>1 DEF Added
<1>2. CASE e.key \notin Keys(S)
  <2>1. e \notin Measured(S)
    BY <1>2 DEF Keys, Measured
  <2>2. Measured(Added(S, e)) = Measured(S) \cup {e}
    BY <1>2 DEF Added, Measured
  <2> QED
    BY <2>1, <2>2, MeasuredTyped, CostAdd, OverrunAdd
<1> QED
  BY <1>1, <1>2

\* The envelope after an entry for which money had been set aside.
LEMMA WithinAfter ==
  ASSUME NEW S \in SUBSET Entries, IsFiniteSet(S), NEW e \in Entries,
         e.lane # "swept", NEW left \in Nat,
         CostOf(Measured(S)) + SetAside(e) + left <= Hard + Overrun(Measured(S))
  PROVE  CostOf(Measured(Added(S, e))) + left
           <= Hard + Overrun(Measured(Added(S, e)))
<1>1. /\ CostOf(Measured(S)) \in Nat /\ Overrun(Measured(S)) \in Nat
      /\ Hard \in Nat
  BY MeasuredTyped, OverrunType, Bounds
<1>2. /\ Price(e) \in Nat /\ Excess(e) \in Nat /\ SetAside(e) \in Nat
      /\ Price(e) <= SetAside(e) + Excess(e)
  BY ExcessCovers
<1>3. CASE Added(S, e) = S
  BY <1>1, <1>2, <1>3
<1>4. CASE /\ CostOf(Measured(Added(S, e))) = CostOf(Measured(S)) + Price(e)
           /\ Overrun(Measured(Added(S, e))) = Overrun(Measured(S)) + Excess(e)
  BY <1>1, <1>2, <1>4
<1> QED
  BY <1>3, <1>4, MeasuredAdded

\* Headroom in the whole ledger is headroom in what was measured.
LEMMA HeadroomMeasured ==
  ASSUME TypeOK, NEW worst \in Nat, Headroom(worst)
  PROVE  CostOf(Measured(ledger)) + worst <= Hard + Overrun(Measured(ledger))
<1>1. /\ CostOf(ledger) \in Nat /\ CostOf(Measured(ledger)) \in Nat
      /\ CostOf(Measured(ledger)) <= CostOf(ledger)
      /\ Overrun(Measured(ledger)) \in Nat /\ Hard \in Nat
  BY MeasuredTyped, OverrunType, Bounds DEF TypeOK, MemoryOK
<1> QED
  BY <1>1 DEF Headroom

\* Reading a row frees what was set aside for it.
LEMMA OutstandingReserves ==
  ASSUME TypeOK, SpendInv, pc = "read", NEW x \in unread
  PROVE  /\ RowEntry(x).lane # "swept"
         /\ UNCHANGED <<stage, unsent>> /\ unread' = unread \ {x} =>
              /\ Outstanding \in Nat /\ Outstanding' \in Nat
              /\ SetAside(RowEntry(x)) + Outstanding' = Outstanding
<1> DEFINE k == SetAside(RowEntry(x))
           S == IF stage = "lanes" THEN unsent \cup unread ELSE unread
<1>1. /\ k = IF stage = "lanes" THEN Worst ELSE JudgeWorst
      /\ RowEntry(x).lane # "swept"
  <2>1. stage = "lanes" => Lane \in LaneSet
    BY LaneInSet DEF TypeOK, PlaceOK
  <2>2. stage \in {"lanes"} \cup Judging
    BY StageOf
  <2> QED
    BY <2>1, <2>2, MatrixAssumption DEF SetAside, RowEntry, Entry, Judging
<1>2. k \in Nat /\ IsFiniteSet(S) /\ x \in S
  BY <1>1, Bounds, FiniteRequests, FS_Union
<1>3. /\ Cardinality(S) \in Nat /\ Cardinality(S \ {x}) \in Nat
      /\ Cardinality(S \ {x}) = Cardinality(S) - 1
  BY <1>2, FS_CardinalityType, FS_RemoveElement, FS_Subset
<1>4. Outstanding = Cardinality(S) * k
  BY <1>1 DEF Outstanding
<1>5. ASSUME UNCHANGED <<stage, unsent>>, unread' = unread \ {x}
      PROVE  Outstanding' = Cardinality(S \ {x}) * k
  <2>1. CASE stage = "lanes"
    <3>1. x \notin unsent
      BY <2>1 DEF SpendInv, Apart
    <3>2. unsent' \cup unread' = S \ {x}
      BY <1>5, <2>1, <3>1
    <3> QED
      BY <1>1, <1>5, <2>1, <3>2 DEF Outstanding
  <2>2. CASE stage # "lanes"
    BY <1>1, <1>5, <2>2 DEF Outstanding
  <2> QED
    BY <2>1, <2>2
<1> HIDE DEF k, S
<1>6. /\ Cardinality(S) * k \in Nat /\ Cardinality(S \ {x}) * k \in Nat
      /\ k + Cardinality(S \ {x}) * k = Cardinality(S) * k
  BY <1>2, <1>3
<1>7. ASSUME UNCHANGED <<stage, unsent>>, unread' = unread \ {x}
      PROVE  /\ Outstanding \in Nat /\ Outstanding' \in Nat
             /\ k + Outstanding' = Outstanding
  BY <1>4, <1>5, <1>6, <1>7
<1> QED
  BY <1>1, <1>7 DEF k

\* A row is added out of the money set aside for it.
LEMMA ReadReserved ==
  ASSUME TypeOK, SpendInv, Read
  PROVE  /\ CostOf(Measured(ledger')) + Outstanding'
              <= Hard + Overrun(Measured(ledger'))
         /\ Within(ledger')
<1>1. PICK x \in unread :
        /\ unread' = unread \ {x}
        /\ ledger' = IF Served(batches[batch].rows[x])
                     THEN Added(ledger, RowEntry(x)) ELSE ledger
        /\ ledger' \in SUBSET Entries /\ IsFiniteSet(ledger')
  BY ReadEffect
<1>2. pc = "read" /\ UNCHANGED <<stage, unsent>>
  BY DEF Read
<1>3. CostOf(Measured(ledger)) + Outstanding <= Hard + Overrun(Measured(ledger))
  BY <1>2, StageOf DEF SpendInv, Reserved, Budgeting, Batching, Judging
<1> DEFINE e == RowEntry(x)
<1>4. /\ Outstanding \in Nat /\ Outstanding' \in Nat
      /\ SetAside(e) + Outstanding' = Outstanding
      /\ e.lane # "swept"
  BY <1>1, <1>2, OutstandingReserves
<1>5. ledger \in SUBSET Entries /\ IsFiniteSet(ledger) /\ e \in Entries
  BY <1>2, RowEntryTyped DEF TypeOK, MemoryOK
<1> HIDE DEF e
<1>6. /\ CostOf(Measured(ledger)) \in Nat /\ Overrun(Measured(ledger)) \in Nat
      /\ CostOf(Measured(ledger')) \in Nat /\ Overrun(Measured(ledger')) \in Nat
      /\ SetAside(e) \in Nat /\ Hard \in Nat
  BY <1>1, <1>5, MeasuredTyped, OverrunType, ExcessCovers, Bounds
<1>7. CostOf(Measured(ledger)) + SetAside(e) + Outstanding'
        <= Hard + Overrun(Measured(ledger))
  BY <1>3, <1>4, <1>6
<1>8. CostOf(Measured(Added(ledger, e))) + Outstanding'
        <= Hard + Overrun(Measured(Added(ledger, e)))
  BY <1>4, <1>5, <1>7, WithinAfter
<1>9. CostOf(Measured(ledger')) + Outstanding' <= Hard + Overrun(Measured(ledger'))
  BY <1>1, <1>4, <1>6, <1>7, <1>8 DEF e
<1> QED
  BY <1>4, <1>6, <1>9 DEF Within

LEMMA LatencyReserved ==
  ASSUME TypeOK, Headroom(Worst), LedgerCall
  PROVE  Within(ledger')
<1>1. PICK x \in unsent, u \in Usages["5m"] :
        ledger' = Added(ledger, Entry(<<0, x>>, "latency", u, "5m"))
  BY DEF LedgerCall
<1> DEFINE e == Entry(<<0, x>>, "latency", u, "5m")
<1>2. e \in Entries
  BY LatencyEntryTyped
<1>3. SetAside(e) = Worst /\ e.lane # "swept"
  BY DEF SetAside, Entry
<1>4. ledger \in SUBSET Entries /\ IsFiniteSet(ledger)
  BY DEF TypeOK, MemoryOK
<1>5. ledger' = Added(ledger, e)
  BY <1>1
<1> HIDE DEF e
<1>6. /\ CostOf(Measured(ledger)) \in Nat /\ Worst \in Nat
      /\ CostOf(Measured(Added(ledger, e))) \in Nat
  BY <1>2, <1>4, AddedTyped, MeasuredTyped, Bounds
<1>7. CostOf(Measured(ledger)) + SetAside(e) + 0
        <= Hard + Overrun(Measured(ledger))
  BY <1>3, <1>6, HeadroomMeasured
<1>8. CostOf(Measured(Added(ledger, e))) + 0
        <= Hard + Overrun(Measured(Added(ledger, e)))
  BY <1>2, <1>3, <1>4, <1>7, WithinAfter
<1> QED
  BY <1>5, <1>6, <1>8 DEF Within

\* The sweep adds nothing that was measured.
LEMMA SweepNotMeasured ==
  ASSUME NEW S
  PROVE  Measured(S \cup Unrecorded(S)) = Measured(S)
<1>1. \A e \in Unrecorded(S) : e.lane = "swept"
  BY SweptOf DEF SweptEntry, Entry
<1> QED
  BY <1>1 DEF Measured

LEMMA NothingWithin == Within({})
<1>1. Measured({}) = {} /\ CostOf({}) = 0
  BY CostEmpty DEF Measured
<1>2. Overrun({}) \in Nat
  BY OverrunType, FS_EmptySet
<1> QED
  BY <1>1, <1>2, Bounds DEF Within

LEMMA EnvelopeStep ==
  ASSUME TypeOK, SpendInv, [Next]_vars
  PROVE  OnlyOverrunPassesHard'
<1>1. Within(ledger) /\ Within(disk.entries)
  BY EnvelopeIs DEF SpendInv
<1>2. Within(ledger')
  <2>1. CASE ledger' = ledger
    BY <1>1, <2>1
  <2>2. CASE ledger' = {} \/ Invoke
    BY <1>1, <2>2, NothingWithin DEF Invoke
  <2>3. CASE Read
    BY <2>3, ReadReserved
  <2>4. CASE Latency /\ Headroom(Worst) /\ LedgerCall
    BY <2>4, LatencyReserved
  <2> QED
    BY <2>1, <2>2, <2>3, <2>4, LedgerEffect
<1>3. Within(disk'.entries)
  <2>1. CASE disk'.entries = disk.entries
    BY <1>1, <2>1
  <2>2. CASE Save
    BY <1>1, <2>2 DEF Save
  <2>3. CASE Augment
    <3>1. disk'.entries \in {disk.entries,
                             disk.entries \cup Unrecorded(disk.entries)}
      BY <2>3 DEF Augment, TypeOK, StoreOK
    <3> QED
      BY <1>1, <3>1, SweepNotMeasured DEF Within
  <2> QED
    BY <2>1, <2>2, <2>3, DiskEffect
<1> QED
  BY <1>2, <1>3 DEF OnlyOverrunPassesHard, Within, Measured

\* The places a failed lane, an exit and the next stage lead to.
LEMMA Leaving ==
  ASSUME TypeOK, pc \notin {"idle", "report"}
  PROVE  /\ Exit => pc' = "idle" /\ stage' = "none" /\ unread' = {} /\ unsent' = {}
         /\ LaneFails => pc' = "lane" /\ unread' = {} /\ unsent' = {}
         /\ NextStage => /\ pc' \in {"judge", "latency", "report"}
                         /\ stage' \in Judging \cup {"latency", "report"}
                         /\ unread' = {}
<1>1. Exit => pc' = "idle" /\ stage' = "none" /\ unread' = {} /\ unsent' = {}
  BY DEF Exit, NoRequests
<1>2. LaneFails => pc' = "lane" /\ unread' = {} /\ unsent' = {}
  BY DEF LaneFails, NoRequests
<1>3. NextStage => /\ pc' \in {"judge", "latency", "report"}
                   /\ stage' \in Judging \cup {"latency", "report"}
                   /\ unread' = {}
  BY StageOf DEF NextStage, StageAfter, Judging
<1> QED
  BY <1>1, <1>2, <1>3

\* A step that ends what was under way.
Leaves ==
  /\ pc # "idle"
  /\ \/ Exit
     \/ LaneFails /\ pc # "report" /\ ledger' = ledger
     \/ /\ NextStage /\ pc # "report" /\ (pc = "lane" \/ stage # "lanes")
        /\ UNCHANGED <<ledger, laneVars>>
  /\ UNCHANGED <<batches, forgotten>> /\ disk'.entries = disk.entries
  /\ \/ checkpoints' = checkpoints
     \/ /\ pc = "checkpoint" /\ Exit
        /\ checkpoints' = [checkpoints EXCEPT ![Lane] = Torn]

LEMMA LeavesOf ==
  ASSUME TypeOK, Leaves
  PROVE  /\ unread' = {}
         /\ pc' \in {"idle", "lane", "judge", "latency", "report"}
         /\ stage' = stage \/ stage' \in Judging \cup {"none", "latency", "report"}
BY Leaving DEF Leaves, Exit, NoRequests, LaneFails

\* What else a step may be.
EntersLane == NextLane /\ pc' \in {"lane", "round"} /\ UNCHANGED <<stage, rowVars>>
Rounds     == StartRound /\ pc' \in {"finish", "submit"}
Abandons   == GiveUp /\ pc' = "cancel" /\ UNCHANGED <<stage, laneVars, rowVars>>
Resumes    == ReadAll /\ pc' = "submit" /\ UNCHANGED <<stage, rowVars>>
Judges     == Judge /\ pc' = "create"
CallsOn    == Latency /\ UNCHANGED stage
Afterwards == pc = "idle" /\ (AbandonedEnds \/ Augment)
Stutters   == UNCHANGED vars

LEMMA StepKinds ==
  ASSUME TypeOK, [Next]_vars
  PROVE  \/ Leaves \/ Invoke \/ EntersLane \/ Rounds \/ NextChunk \/ Create
         \/ BatchEnds \/ Abandons \/ Cancel \/ Read \/ Save \/ Resumes
         \/ FinishLane \/ Checkpoint \/ Judges \/ CallsOn \/ Afterwards
         \/ Stutters
<1> USE DEF EntersLane, Rounds, Abandons, Resumes, Judges, CallsOn, Afterwards,
            Stutters
<1>1. CASE NextLane
  BY <1>1 DEF NextLane, Leaves, diskVars, seenVars
<1>2. CASE StartRound
  BY <1>2 DEF StartRound, Leaves, diskVars, seenVars
<1>3. CASE GiveUp
  BY <1>3 DEF GiveUp, Leaves, diskVars, seenVars
<1>4. CASE ReadAll
  BY <1>4 DEF ReadAll, Leaves, diskVars, seenVars
<1>5. CASE Judge
  BY <1>5, StageOf DEF Judge, Judging, Leaves, diskVars, seenVars
<1>6. CASE Latency
  BY <1>6, StageOf DEF Latency, Leaves, diskVars
<1>7. CASE Report
  BY <1>7 DEF Report, Leaves, seenVars
<1>8. CASE Throw \/ Crash
  <2>1. UNCHANGED <<batches, forgotten>> /\ disk'.entries = disk.entries
    BY <1>8 DEF Throw, Crash, TypeOK, StoreOK, seenVars
  <2>2. CASE pc = "checkpoint" \/ Crash
    BY <1>8, <2>1, <2>2 DEF Throw, Crash, Leaves
  <2>3. CASE pc # "checkpoint" /\ Throw
    BY <1>8, <2>1, <2>3 DEF Throw, Leaves
  <2> QED
    BY <1>8, <2>2, <2>3
<1>9. CASE AbandonedEnds \/ Augment
  BY <1>9 DEF AbandonedEnds, Augment
<1> QED
  BY <1>1, <1>2, <1>3, <1>4, <1>5, <1>6, <1>7, <1>8, <1>9 DEF Next, Drive

\* Most steps touch no table, and of a lane neither what it counts.
Calm == UNCHANGED <<batches, ledger, disk, checkpoints, forgotten, at, used,
                    iterations, spent>>

LEMMA CalmSteps ==
  ASSUME Rounds \/ NextChunk \/ Abandons \/ Cancel \/ Resumes \/ FinishLane
           \/ Judges \/ Stutters
  PROVE  Calm
<1>1. CASE Rounds
  BY <1>1 DEF Rounds, StartRound, LaneFails, Calm, diskVars, laneVars, runVars,
             seenVars
<1>2. CASE NextChunk \/ Cancel \/ FinishLane
  BY <1>2 DEF NextChunk, Cancel, FinishLane, Calm, diskVars, laneVars, runVars,
             seenVars
<1>3. CASE Abandons
  BY <1>3 DEF Abandons, GiveUp, LaneFails, Calm, diskVars, laneVars, runVars,
             seenVars
<1>4. CASE Resumes \/ Judges
  BY <1>4 DEF Resumes, ReadAll, Judges, Judge, Calm, diskVars, laneVars,
             runVars, seenVars
<1>5. CASE Stutters
  BY <1>5 DEF Stutters, vars, Calm, diskVars, laneVars, runVars, seenVars
<1> QED
  BY <1>1, <1>2, <1>3, <1>4, <1>5

LEMMA NoneUnreadStep ==
  ASSUME TypeOK, SpendInv, [Next]_vars
  PROVE  NoneUnread'
<1> USE DEF EntersLane, Rounds, Abandons, Resumes, Judges, CallsOn, Afterwards,
            Stutters
<1> USE DEF NoneUnread
<1>1. NoneUnread
  BY DEF SpendInv
<1>2. CASE Leaves
  BY <1>2, LeavesOf
<1>3. CASE Invoke \/ EntersLane
  BY <1>1, <1>3 DEF Invoke, NextLane, rowVars
<1>4. CASE Rounds \/ NextChunk
  BY <1>1, <1>4 DEF StartRound, NextChunk, rowVars, LaneFails
<1>5. CASE Create \/ BatchEnds \/ Cancel \/ Read \/ Save \/ FinishLane
  BY <1>1, <1>5 DEF Create, BatchEnds, Cancel, Read, Save, FinishLane, rowVars
<1>6. CASE Abandons \/ Judges
  BY <1>1, <1>6
<1>7. CASE Resumes
  BY <1>7 DEF ReadAll, rowVars
<1>8. CASE Checkpoint
  BY <1>8 DEF Checkpoint, NoRequests
<1>9. CASE CallsOn
  BY <1>9, Leaving DEF Latency
<1>10. CASE Afterwards \/ Stutters
  BY <1>1, <1>10 DEF AbandonedEnds, Augment, rowVars, vars
<1> HIDE DEF EntersLane, Rounds, Abandons, Resumes, Judges, CallsOn,
             Afterwards, Stutters
<1> QED
  BY <1>2, <1>3, <1>4, <1>5, <1>6, <1>7, <1>8, <1>9, <1>10, StepKinds

LEMMA ApartStep ==
  ASSUME TypeOK, SpendInv, [Next]_vars
  PROVE  Apart'
<1> USE DEF EntersLane, Rounds, Abandons, Resumes, Judges, CallsOn, Afterwards,
            Stutters
<1> USE DEF Apart
<1>1. NoneUnread /\ Apart
  BY DEF SpendInv
<1>2. CASE Leaves
  BY <1>2, LeavesOf
<1>3. CASE Invoke \/ EntersLane
  BY <1>1, <1>3 DEF Invoke, NextLane, rowVars, NoneUnread
<1>4. CASE Rounds \/ NextChunk
  BY <1>1, <1>4 DEF StartRound, NextChunk, rowVars, LaneFails, NoneUnread
<1>5. CASE Create \/ BatchEnds \/ Cancel \/ Read \/ Save \/ FinishLane
  BY <1>1, <1>5 DEF Create, BatchEnds, Cancel, Read, Save, FinishLane, rowVars
<1>6. CASE Abandons
  BY <1>1, <1>6 DEF rowVars
<1>7. CASE Resumes
  BY <1>1, <1>7 DEF rowVars
<1>8. CASE Checkpoint
  BY <1>8 DEF Checkpoint, NoRequests
<1>9. CASE Judges \/ CallsOn
  BY <1>9, StageOf, Leaving DEF Judge, Latency, Judging
<1>10. CASE Afterwards \/ Stutters
  BY <1>1, <1>10 DEF AbandonedEnds, Augment, rowVars, vars
<1> HIDE DEF EntersLane, Rounds, Abandons, Resumes, Judges, CallsOn,
             Afterwards, Stutters
<1> QED
  BY <1>2, <1>3, <1>4, <1>5, <1>6, <1>7, <1>8, <1>9, <1>10, StepKinds

LEMMA PolledStep ==
  ASSUME TypeOK, SpendInv, [Next]_vars
  PROVE  Polled'
<1> USE DEF EntersLane, Rounds, Abandons, Resumes, Judges, CallsOn, Afterwards,
            Stutters
<1> USE DEF Polled
<1>1. CASE Create
  <2>1. /\ DOMAIN batches'[batch'].rows = unread
        /\ batches'[batch'].role = stage
        /\ unread' = unread /\ stage' = stage
    BY <1>1, CreateEffect DEF Create
  <2> QED
    BY <2>1 DEF Requests
<1>2. CASE Stutters
  BY <1>2 DEF vars, rowVars, Requests, SpendInv
<1>3. CASE ~Create /\ ~Stutters
  <2>1. pc' # "poll"
    <3>1. CASE Leaves
      BY <3>1, LeavesOf
    <3>2. CASE ~Leaves
      BY <1>3, <3>2, StepKinds, Leaving DEF Invoke, NextChunk, BatchEnds, Cancel,
         Read, Save, FinishLane, Checkpoint, Latency, AbandonedEnds, Augment
    <3> QED
      BY <3>1, <3>2
  <2> QED
    BY <2>1
<1> HIDE DEF EntersLane, Rounds, Abandons, Resumes, Judges, CallsOn,
             Afterwards, Stutters
<1> QED
  BY <1>1, <1>2, <1>3

LEMMA ReservedStep ==
  ASSUME TypeOK, SpendInv, [Next]_vars
  PROVE  Reserved'
<1> USE DEF EntersLane, Rounds, Abandons, Resumes, Judges, CallsOn, Afterwards,
            Stutters
<1> USE DEF Reserved, Budgeting, Batching
<1>1. Reserved /\ NoneUnread
  BY DEF SpendInv
<1>2. CASE Leaves
  BY <1>2, LeavesOf
<1>3. CASE Rounds
  <2>1. CASE pc' = "finish"
    BY <2>1
  <2>2. CASE pc' = "submit"
    <3>1. /\ Headroom(Cardinality(Active) * Worst)
          /\ unsent' = {Lane} \X Active /\ unread' = unread
          /\ UNCHANGED <<stage, ledger>> /\ pc = "round"
      BY <1>3, <2>2 DEF StartRound, LaneFails
    <3>2. unread' = {} /\ stage' = "lanes"
      BY <1>1, <3>1, StageOf DEF NoneUnread
    <3>3. IsFiniteSet({Lane}) /\ Cardinality({Lane}) = 1 /\ IsFiniteSet(Active)
      BY FS_Singleton, FS_Subset, MatrixAssumption DEF Active
    <3>4. Cardinality({Lane} \X Active) = 1 * Cardinality(Active)
      BY <3>3, FS_Product
    <3>5. Cardinality(unsent' \cup unread') = Cardinality(Active)
      BY <3>1, <3>2, <3>3, <3>4, FS_CardinalityType
    <3>6. Outstanding' = Cardinality(Active) * Worst
      BY <3>2, <3>5 DEF Outstanding
    <3>7. Cardinality(Active) * Worst \in Nat
      <4>1. Cardinality(Active) \in Nat /\ Worst \in Nat
        BY <3>3, FS_CardinalityType, Bounds
      <4> QED
        BY <4>1
    <3> QED
      BY <3>1, <3>6, <3>7, HeadroomMeasured
  <2> QED
    BY <1>3, <2>1, <2>2
<1>4. CASE NextChunk
  <2>1. CASE pc' = "create"
    <3>1. /\ unread' = Chunk /\ unsent' = unsent \ Chunk /\ pc = "submit"
          /\ UNCHANGED <<stage, ledger>> /\ stage = "lanes"
      BY <1>4, <2>1, StageOf DEF NextChunk
    <3>2. unread = {}
      BY <1>1, <3>1 DEF NoneUnread
    <3>3. unsent' \cup unread' = unsent \cup unread
      BY <3>1, <3>2, ChunkIsPart
    <3> QED
      BY <1>1, <3>1, <3>3 DEF Outstanding
  <2>2. CASE pc' = "round"
    BY <2>2
  <2> QED
    BY <1>4, <2>1, <2>2 DEF NextChunk
<1>5. CASE Create \/ BatchEnds \/ Cancel
  BY <1>1, <1>5, StageOf DEF Create, BatchEnds, Cancel, rowVars, Outstanding
<1>6. CASE Read
  BY <1>6, ReadReserved
<1>7. CASE Abandons
  BY <1>1, <1>7, StageOf DEF GiveUp, rowVars, Outstanding, Judging
<1>8. CASE Save
  BY <1>1, <1>8 DEF Save, rowVars, Outstanding
<1>9. CASE Resumes
  BY <1>1, <1>9, StageOf DEF ReadAll, rowVars, Outstanding, Judging
<1>10. CASE Judges
  <2>1. /\ Headroom(Cardinality(Targets) * JudgeWorst) /\ unread' = Targets
        /\ UNCHANGED <<stage, ledger>> /\ stage \in Judging
    BY <1>10, StageOf, Leaving DEF Judge
  <2>2. Cardinality(Targets) * JudgeWorst \in Nat
    <3>1. Cardinality(Targets) \in Nat /\ JudgeWorst \in Nat
      <4>1. Targets \subseteq Calls
        BY MatrixAssumption DEF Targets, Drafted, Calls
      <4> QED
        BY <4>1, FiniteCalls, FS_Subset, FS_CardinalityType, Bounds
    <3> QED
      BY <3>1
  <2>3. Outstanding' = Cardinality(Targets) * JudgeWorst
    BY <2>1 DEF Outstanding, Judging
  <2> QED
    BY <2>1, <2>2, <2>3, HeadroomMeasured
<1>11. CASE CallsOn
  BY <1>11, StageOf, Leaving DEF Latency
<1>12. CASE Invoke \/ EntersLane \/ FinishLane \/ Checkpoint
  BY <1>12 DEF Invoke, FinishLane, Checkpoint
<1>13. CASE Afterwards
  BY <1>13 DEF AbandonedEnds, Augment
<1>14. CASE Stutters
  BY <1>1, <1>14 DEF vars, rowVars, Outstanding
<1> HIDE DEF EntersLane, Rounds, Abandons, Resumes, Judges, CallsOn,
             Afterwards, Stutters
<1> QED
  BY <1>2, <1>3, <1>4, <1>5, <1>6, <1>7, <1>8, <1>9, <1>10, <1>11, <1>12,
     <1>13, <1>14, StepKinds

LEMMA SpendInit == Init => SpendInv
<1> SUFFICES ASSUME Init PROVE SpendInv
  OBVIOUS
<1>1. OnlyOverrunPassesHard
  BY NothingWithin, EnvelopeIs DEF Init
<1> QED
  BY <1>1 DEF Init, SpendInv, Reserved, Budgeting, Batching, NoneUnread,
     Apart, Polled

LEMMA SpendStep == TypeOK /\ SpendInv /\ [Next]_vars => SpendInv'
BY EnvelopeStep, ReservedStep, NoneUnreadStep, ApartStep, PolledStep
   DEF SpendInv

\* Whatever a turn costs, what the driver recorded passes the hard stop by no
\* more than the excess of single turns over the estimate of a whole case:
\* assertHeadroom, asked once at the top of a round or a judge pass, covers every
\* row that its batches can still bill up to that estimate, whichever chunks are
\* cancelled, submitted again, read in part or abandoned.
THEOREM HardStopUpToOverrun == Spec => []OnlyOverrunPassesHard
<1>1. Init => TypeOK /\ SpendInv
  BY TypeInit, SpendInit
<1>2. TypeOK /\ SpendInv /\ [Next]_vars => (TypeOK /\ SpendInv)'
  BY TypeStep, SpendStep
<1>3. SpendInv => OnlyOverrunPassesHard
  BY DEF SpendInv
<1> QED
  BY <1>1, <1>2, <1>3, PTL DEF Spec

-----------------------------------------------------------------------------
(* What a table of entries says of a set of batches.                       *)

\* Nothing is said of no batches.
LEMMA NoneSaid ==
  ASSUME NEW table, NEW S, NEW l, NEW left
  PROVE  /\ Accounts(S, {}, l, NoCases, NoCases)
         /\ Recorded(table, S, {}, left) /\ OverFor(table, {}, l)
<1>1. \A c \in Cases : Of(S, {}, l, c) = {} /\ NoCases[c] = 0
  BY DEF Of, NoCases
<1>2. Cardinality({}) = 0
  BY FS_EmptySet
<1> QED
  BY <1>1, <1>2, CostEmpty DEF Accounts, Recorded, OverFor

\* Tables with the same entries of the batches say the same.
LEMMA SameSaid ==
  ASSUME NEW S, NEW T, NEW numbers, NEW others, NEW l, NEW its, NEW costs,
         \A e \in S \cup T : e \in S /\ e.key[1] \in numbers
                               <=> e \in T /\ e.key[1] \in others,
         Accounts(S, numbers, l, its, costs)
  PROVE  Accounts(T, others, l, its, costs)
<1>1. \A c \in Cases : Of(T, others, l, c) = Of(S, numbers, l, c)
  BY DEF Of
<1> QED
  BY <1>1 DEF Accounts

LEMMA StillRecorded ==
  ASSUME NEW s, NEW t, NEW S, NEW T, NEW numbers, NEW left, NEW more,
         \A b \in numbers : t[b] = s[b], S \subseteq T, left \subseteq more,
         Recorded(s, S, numbers, left)
  PROVE  Recorded(t, T, numbers, more)
BY DEF Recorded, Keys

LEMMA StillOver ==
  ASSUME NEW s, NEW t, NEW numbers, NEW l,
         \A b \in numbers : t[b] = s[b],
         Len(s) \in Nat, Len(t) \in Nat, Len(s) <= Len(t),
         OverFor(s, numbers, l)
  PROVE  OverFor(t, numbers, l)
BY DEF OverFor

-----------------------------------------------------------------------------
(* The lane under way.                                                     *)

LEMMA LanePcs ==
  /\ InLane = {"round", "submit", "cancel", "finish", "checkpoint", "create",
               "poll", "read", "save"}
  /\ StagePcs.lanes = InLane \cup {"lane"}
BY DEF InLane, StagePcs, Batching

\* The kinds of steps by what they do to the place of an invocation.
LEMMA KindsOf ==
  ASSUME TypeOK
  PROVE  /\ Invoke => /\ pc = "idle" /\ pc' = "lane" /\ stage' = "lanes"
                      /\ UNCHANGED <<unsent, unread, used, iterations, spent>>
         /\ EntersLane => /\ pc = "lane" /\ stage = "lanes" /\ stage' = stage
                          /\ UNCHANGED <<unsent, unread, batch>>
         /\ Rounds => pc = "round" /\ stage = "lanes" /\ stage' = stage
         /\ NextChunk => /\ pc = "submit" /\ pc' \in {"create", "round"}
                         /\ stage = "lanes" /\ stage' = stage
         /\ Create => /\ pc = "create" /\ pc' = "poll" /\ stage' = stage
                      /\ UNCHANGED <<unsent, unread>>
         /\ BatchEnds => /\ pc = "poll" /\ pc' = "read" /\ stage' = stage
                         /\ UNCHANGED <<unsent, unread, batch>>
         /\ Abandons => /\ pc = "poll" /\ pc' = "cancel" /\ stage = "lanes"
                        /\ UNCHANGED <<stage, unsent, unread, batch>>
         /\ Cancel => /\ pc = "cancel" /\ pc' = "create" /\ stage = "lanes"
                      /\ UNCHANGED <<stage, unsent, unread, batch>>
         /\ Read => /\ pc = "read" /\ pc' \in {"read", "save"}
                    /\ UNCHANGED <<stage, unsent, batch>>
         /\ Save => /\ pc = "save" /\ UNCHANGED <<stage, unsent, unread, batch>>
                    /\ pc' = IF stage = "latency" THEN "latency" ELSE "read"
         /\ Resumes => /\ pc = "read" /\ pc' = "submit" /\ stage = "lanes"
                       /\ unread = {} /\ UNCHANGED <<stage, unsent, unread, batch>>
         /\ FinishLane => /\ pc = "finish" /\ pc' = "checkpoint" /\ stage = "lanes"
                          /\ UNCHANGED <<stage, unsent, unread, batch>>
         /\ Checkpoint => /\ pc = "checkpoint" /\ pc' = "lane" /\ stage = "lanes"
                          /\ stage' = stage /\ NoRequests /\ NoLane
         /\ Judges => /\ pc = "judge" /\ pc' = "create" /\ stage \in Judging
                      /\ stage' = stage
         /\ CallsOn => /\ pc = "latency" /\ pc' \in {"latency", "save"}
                       /\ stage = "latency" /\ stage' = stage
                       /\ UNCHANGED laneVars
         /\ Afterwards => /\ pc = "idle" /\ pc' = "idle" /\ stage' = stage
                          /\ UNCHANGED <<unsent, unread, batch, laneVars, ledger>>
<1> USE StageOf
<1>1. Invoke => /\ pc = "idle" /\ pc' = "lane" /\ stage' = "lanes"
                /\ UNCHANGED <<unsent, unread, used, iterations, spent>>
  BY DEF Invoke, laneVars, rowVars
<1>2. EntersLane => /\ pc = "lane" /\ stage = "lanes" /\ stage' = stage
                    /\ UNCHANGED <<unsent, unread, batch>>
  BY DEF EntersLane, NextLane, rowVars
<1>3. Rounds => pc = "round" /\ stage = "lanes" /\ stage' = stage
  BY DEF Rounds, StartRound, LaneFails
<1>4. NextChunk => /\ pc = "submit" /\ pc' \in {"create", "round"}
                   /\ stage = "lanes" /\ stage' = stage
  BY DEF NextChunk
<1>5. /\ Create => /\ pc = "create" /\ pc' = "poll" /\ stage' = stage
                   /\ UNCHANGED <<unsent, unread>>
      /\ BatchEnds => /\ pc = "poll" /\ pc' = "read" /\ stage' = stage
                      /\ UNCHANGED <<unsent, unread, batch>>
  BY DEF Create, BatchEnds, rowVars
<1>6. /\ Abandons => /\ pc = "poll" /\ pc' = "cancel" /\ stage = "lanes"
                     /\ UNCHANGED <<stage, unsent, unread, batch>>
      /\ Cancel => /\ pc = "cancel" /\ pc' = "create" /\ stage = "lanes"
                   /\ UNCHANGED <<stage, unsent, unread, batch>>
  <2>1. Abandons => stage = "lanes"
    BY Leaving DEF Abandons, GiveUp, Judging
  <2> QED
    BY <2>1 DEF Abandons, GiveUp, Cancel, rowVars
<1>7. /\ Read => /\ pc = "read" /\ pc' \in {"read", "save"}
                 /\ UNCHANGED <<stage, unsent, batch>>
      /\ Save => /\ pc = "save" /\ UNCHANGED <<stage, unsent, unread, batch>>
                 /\ pc' = IF stage = "latency" THEN "latency" ELSE "read"
  BY DEF Read, Save, rowVars
<1>8. Resumes => /\ pc = "read" /\ pc' = "submit" /\ stage = "lanes"
                 /\ unread = {} /\ UNCHANGED <<stage, unsent, unread, batch>>
  BY Leaving DEF Resumes, ReadAll, rowVars
<1>9. /\ FinishLane => /\ pc = "finish" /\ pc' = "checkpoint" /\ stage = "lanes"
                       /\ UNCHANGED <<stage, unsent, unread, batch>>
      /\ Checkpoint => /\ pc = "checkpoint" /\ pc' = "lane" /\ stage = "lanes"
                       /\ stage' = stage /\ NoRequests /\ NoLane
  BY DEF FinishLane, Checkpoint, rowVars
<1>10. Judges => /\ pc = "judge" /\ pc' = "create" /\ stage \in Judging
                 /\ stage' = stage
  BY Leaving DEF Judges, Judge
<1>11. CallsOn => /\ pc = "latency" /\ pc' \in {"latency", "save"}
                  /\ stage = "latency" /\ stage' = stage
                  /\ UNCHANGED laneVars
  BY DEF CallsOn, Latency, NextStage, StageAfter
<1>12. Afterwards => /\ pc = "idle" /\ pc' = "idle" /\ stage' = stage
                     /\ UNCHANGED <<unsent, unread, batch, laneVars, ledger>>
  BY DEF Afterwards, AbandonedEnds, Augment, rowVars
<1> QED
  BY <1>1, <1>2, <1>3, <1>4, <1>5, <1>6, <1>7, <1>8, <1>9, <1>10, <1>11, <1>12

LEMMA NoneAskedStep ==
  ASSUME TypeOK, NoneAsked, [Next]_vars
  PROVE  NoneAsked'
<1> USE DEF NoneAsked
<1>1. CASE Leaves
  <2>1. NextStage /\ pc # "report" => pc' \notin {"idle", "lane"}
    BY <1>1, Leaving DEF Leaves
  <2> QED
    BY <1>1, <2>1 DEF Leaves, Exit, LaneFails, NoRequests
<1>2. CASE NextChunk
  BY <1>2 DEF NextChunk
<1>3. CASE Checkpoint
  BY <1>3, KindsOf DEF NoRequests
<1>4. CASE Rounds
  BY <1>4 DEF Rounds
<1>5. CASE Stutters
  BY <1>5 DEF Stutters, vars, rowVars
<1>6. CASE ~Leaves /\ ~NextChunk /\ ~Checkpoint /\ ~Rounds /\ ~Stutters
  BY <1>6, StepKinds, KindsOf
<1> QED
  BY <1>1, <1>2, <1>3, <1>4, <1>5, <1>6

\* What a lane counts, when it is over and when it is opened.
LEMMA NoneYetStep ==
  ASSUME TypeOK, NoneYet, [Next]_vars
  PROVE  NoneYet'
<1> USE LanePcs DEF NoneYet, NoneUnderWay
<1>1. CASE Leaves
  <2>1. CASE Exit \/ LaneFails
    BY <2>1 DEF Exit, LaneFails, NoLane
  <2>2. CASE UNCHANGED laneVars /\ (pc = "lane" \/ stage # "lanes")
    BY <2>2 DEF laneVars
  <2> QED
    BY <1>1, <2>1, <2>2 DEF Leaves
<1>2. CASE EntersLane
  <2>1. CASE pc' = "lane" /\ UNCHANGED laneVars
    BY <1>2, <2>1, KindsOf DEF laneVars
  <2>2. CASE OpenCases
    BY <2>2 DEF OpenCases
  <2> QED
    BY <1>2, <2>1, <2>2, KindsOf DEF EntersLane, NextLane, Exit, NextStage, StageAfter
<1>3. CASE Invoke \/ Checkpoint \/ Afterwards
  BY <1>3, KindsOf DEF NoLane, laneVars
<1>4. CASE CallsOn
  BY <1>4, KindsOf DEF laneVars
<1>5. CASE Create \/ BatchEnds \/ Save
  <2>1. stage # "lanes" => UNCHANGED <<used, iterations, spent>>
    BY <1>5 DEF Create, BatchEnds, Save, laneVars
  <2> QED
    BY <1>5, <2>1, KindsOf
<1>6. CASE Read
  <2>1. stage # "lanes" => UNCHANGED <<used, iterations, spent>>
    BY <1>6 DEF Read, laneVars
  <2> QED
    BY <1>6, <2>1, KindsOf
<1>7. CASE Rounds \/ NextChunk \/ Abandons \/ Cancel \/ Resumes \/ FinishLane
  <2>1. stage' = "lanes" /\ pc' \in InLane
    BY <1>7, KindsOf DEF Rounds
  <2> QED
    BY <2>1
<1>8. CASE Judges
  BY <1>8, KindsOf, CalmSteps DEF Calm, Judging
<1>9. CASE Stutters
  BY <1>9, CalmSteps DEF Calm, Stutters, vars
<1> HIDE DEF NoneYet, NoneUnderWay
<1> QED
  BY <1>1, <1>2, <1>3, <1>4, <1>5, <1>6, <1>7, <1>8, <1>9, StepKinds

LEMMA OwnBatchStep ==
  ASSUME TypeOK, OwnBatch, [Next]_vars
  PROVE  OwnBatch'
<1> USE DEF OwnBatch, Reading
<1>1. CASE Leaves
  BY <1>1, LeavesOf
<1>2. CASE BatchEnds
  BY <1>2, KindsOf DEF BatchEnds
<1>3. CASE Read
  <2>1. stage = "lanes" => used' = used
    BY <1>3 DEF Read, ReadTurn
  <2> QED
    BY <1>3, <2>1, KindsOf
<1>4. CASE Save
  BY <1>4, KindsOf DEF Save, laneVars
<1>5. CASE Stutters
  BY <1>5 DEF Stutters, vars, laneVars, rowVars
<1>6. CASE ~Leaves /\ ~BatchEnds /\ ~Read /\ ~Save /\ ~Stutters
  <2>1. ~Reading'
    BY <1>6, StepKinds, KindsOf DEF EntersLane, Rounds
  <2> QED
    BY <2>1
<1> QED
  BY <1>1, <1>2, <1>3, <1>4, <1>5, <1>6

\* No checkpoint is written while its lane is under way, and every request of
\* a lane is one of its cases.
LEMMA OwnLaneStep ==
  ASSUME TypeOK, NoneAsked, NoneUnread, OwnLane, [Next]_vars
  PROVE  OwnLane'
<1> USE LanePcs DEF OwnLane
<1>1. CASE Leaves
  BY <1>1, LeavesOf DEF Judging
<1>2. CASE EntersLane
  <2>1. CASE pc' = "lane"
    BY <2>1
  <2>2. CASE pc' = "round"
    <3>1. /\ checkpoints[Lane].file = "none" /\ UNCHANGED <<checkpoints, at>>
          /\ UNCHANGED <<unsent, unread>> /\ unsent = {} /\ unread = {}
      BY <1>2, <2>2, KindsOf DEF EntersLane, NextLane, Exit, NextStage,
         StageAfter, diskVars, runVars, NoneAsked, NoneUnread
    <3> QED
      BY <3>1 DEF Lane
  <2> QED
    BY <1>2, <2>1, <2>2 DEF EntersLane
<1>3. CASE Rounds \/ NextChunk \/ Abandons \/ Cancel \/ Resumes \/ FinishLane \/ Stutters
  <2>1. UNCHANGED <<checkpoints, at>>
    BY <1>3, CalmSteps DEF Calm
  <2>2. CASE Rounds
    BY <2>1, <2>2, KindsOf DEF Rounds, StartRound, LaneFails, NoneUnread, rowVars,
       Active, Lane
  <2>3. CASE NextChunk
    <3>1. unsent' \cup unread' \subseteq unsent \cup unread
      BY <2>3, ChunkIsPart DEF NextChunk, rowVars
    <3> QED
      BY <2>1, <2>3, <3>1, KindsOf DEF Lane
  <2>4. CASE Abandons \/ Cancel \/ Resumes \/ FinishLane
    BY <2>1, <2>4, KindsOf DEF Lane
  <2>5. CASE Stutters
    BY <2>1, <2>5 DEF Stutters, vars, rowVars, Lane
  <2> QED
    BY <1>3, <2>2, <2>3, <2>4, <2>5
<1>4. CASE Create \/ BatchEnds \/ Save
  <2>1. UNCHANGED <<checkpoints, at>>
    BY <1>4 DEF Create, BatchEnds, Save, diskVars, runVars
  <2> QED
    BY <1>4, <2>1, KindsOf DEF Lane
<1>5. CASE Read
  <2>1. UNCHANGED <<checkpoints, at>> /\ unread' \subseteq unread
    BY <1>5 DEF Read, diskVars, runVars
  <2> QED
    BY <1>5, <2>1, KindsOf DEF Lane
<1>6. CASE Invoke \/ Checkpoint \/ Judges \/ CallsOn \/ Afterwards
  BY <1>6, KindsOf DEF Judging
<1> HIDE DEF OwnLane
<1> QED
  BY <1>1, <1>2, <1>3, <1>4, <1>5, <1>6, StepKinds

LEMMA LaneControlStep ==
  TypeOK /\ SpendInv /\ LaneControl /\ [Next]_vars => LaneControl'
BY NoneAskedStep, NoneYetStep, OwnBatchStep, OwnLaneStep DEF LaneControl, SpendInv

-----------------------------------------------------------------------------
(* The batches that are counted.                                           *)

\* What was counted for the lane under way stays, grows by the batch that
\* ends, or is forgotten.
LEMMA UsedEffect ==
  ASSUME TypeOK, NoneYet, [Next]_vars
  PROVE  \/ NoneUnderWay'
         \/ /\ used' = used /\ at' = at
            /\ Read \/ UNCHANGED <<iterations, spent>>
         \/ /\ BatchEnds /\ stage = "lanes" /\ used' = used \cup {batch}
            /\ at' = at /\ UNCHANGED <<iterations, spent>>
<1> USE DEF NoneUnderWay
<1>1. CASE Leaves
  <2>1. CASE Exit \/ LaneFails
    BY <2>1 DEF Exit, LaneFails, NoLane
  <2>2. CASE UNCHANGED laneVars /\ (pc = "lane" \/ stage # "lanes")
    BY <2>2, LanePcs DEF laneVars, NoneYet
  <2> QED
    BY <1>1, <2>1, <2>2 DEF Leaves
<1>2. CASE EntersLane
  <2>1. CASE pc' = "lane" /\ UNCHANGED laneVars
    BY <1>2, <2>1, KindsOf, LanePcs DEF laneVars, NoneYet
  <2>2. CASE OpenCases
    BY <2>2 DEF OpenCases
  <2> QED
    BY <1>2, <2>1, <2>2, KindsOf DEF EntersLane, NextLane, Exit, NextStage, StageAfter
<1>3. CASE Checkpoint
  BY <1>3, KindsOf DEF NoLane
<1>4. CASE Rounds \/ NextChunk \/ Abandons \/ Cancel \/ Resumes \/ FinishLane
             \/ Judges \/ Stutters
  BY <1>4, CalmSteps DEF Calm
<1>5. CASE Invoke \/ CallsOn \/ Afterwards
  BY <1>5 DEF Invoke, CallsOn, Latency, Afterwards, AbandonedEnds, Augment,
     laneVars, runVars
<1>6. CASE Create \/ Save
  BY <1>6 DEF Create, Save, laneVars, runVars
<1>7. CASE BatchEnds
  BY <1>7 DEF BatchEnds, runVars
<1>8. CASE Read
  BY <1>8 DEF Read, ReadTurn, laneVars, runVars
<1> HIDE DEF NoneUnderWay
<1> QED
  BY <1>1, <1>2, <1>3, <1>4, <1>5, <1>6, <1>7, <1>8, StepKinds

\* A batch that is over does not change.
LEMMA TableKept ==
  ASSUME TypeOK, [Next]_vars
  PROVE  /\ Len(batches) \in Nat /\ Len(batches') \in Nat
         /\ Len(batches) <= Len(batches')
         /\ \A b \in 1..Len(batches) :
              Ended(b) /\ ~(BatchEnds /\ b = batch) => batches'[b] = batches[b]
<1>1. Len(batches) \in Nat
  BY DEF TypeOK, BatchOK
<1>2. CASE batches' = batches
  BY <1>1, <1>2
<1>3. CASE Create
  BY <1>1, <1>3, CreateEffect
<1>4. CASE BatchEnds
  <2>1. batch \in 1..Len(batches) /\ Ends(batch)
    BY <1>4 DEF BatchEnds, TypeOK, RowOK
  <2> QED
    BY <1>1, <1>4, <2>1, EndsEffect
<1>5. CASE AbandonedEnds
  <2>1. PICK b \in 1..Len(batches) : ~Ended(b) /\ Ends(b)
    BY <1>5 DEF AbandonedEnds
  <2> QED
    BY <1>1, <2>1, EndsEffect
<1> QED
  BY <1>2, <1>3, <1>4, <1>5, BatchesEffect

LEMMA CountedKept ==
  ASSUME TypeOK, BatchInv, [Next]_vars
  PROVE  /\ \A b \in used : batches'[b] = batches[b]
         /\ \A l \in LaneSet : \A b \in Saved(l) : batches'[b] = batches[b]
<1>1. BatchEnds => /\ batch \notin used
                   /\ \A l \in LaneSet : batch \notin Saved(l)
  BY KindsOf DEF BatchInv, FreshBatch
<1>2. \A b \in used : b \in 1..Len(batches) /\ Ended(b)
  BY DEF BatchInv, UsedOver, OverFor, Ended, Requests
<1>3. \A l \in LaneSet : \A b \in Saved(l) : b \in 1..Len(batches) /\ Ended(b)
  BY DEF BatchInv, SavedOver, OverFor, Ended, Requests
<1> QED
  BY <1>1, <1>2, <1>3, TableKept

\* The end of the batch at hand: every row is there to be read.
LEMMA BatchOver ==
  ASSUME TypeOK, SpendInv, OwnLane, BatchEnds, stage = "lanes"
  PROVE  OverFor(batches', {batch}, Lane)
<1>1. /\ batch \in 1..Len(batches) /\ Ends(batch)
      /\ Requests(batch) = unread /\ unread \subseteq {Lane} \X Cases
  BY KindsOf, LanePcs DEF BatchEnds, TypeOK, RowOK, SpendInv, Polled, OwnLane
<1>2. /\ Len(batches') = Len(batches)
      /\ DOMAIN batches'[batch].rows = unread
      /\ \A x \in unread : batches'[batch].rows[x] \in Turns(batch)
  BY <1>1, EndsEffect DEF Requests
<1>3. \A x \in unread : batches'[batch].rows[x] # Unserved
  BY <1>1, <1>2, TurnsAreRows
<1> QED
  BY <1>1, <1>2, <1>3 DEF OverFor

LEMMA UsedOverStep ==
  ASSUME TypeOK, SpendInv, LaneControl, BatchInv, [Next]_vars
  PROVE  UsedOver'
<1>1. CASE NoneUnderWay'
  BY <1>1, NoneSaid DEF NoneUnderWay, UsedOver
<1>2. OverFor(batches', used, Lane)
  BY CountedKept, TableKept, StillOver DEF BatchInv, UsedOver
<1>3. CASE used' = used /\ at' = at
  BY <1>2, <1>3 DEF UsedOver, Lane
<1>4. CASE BatchEnds /\ stage = "lanes" /\ used' = used \cup {batch} /\ at' = at
  <2>1. OverFor(batches', {batch}, Lane)
    BY <1>4, BatchOver DEF LaneControl
  <2> QED
    BY <1>2, <1>4, <2>1 DEF UsedOver, OverFor, Lane
<1> QED
  BY <1>1, <1>3, <1>4, UsedEffect DEF LaneControl

\* What becomes of the checkpoints' batches.
LEMMA SavedEffect ==
  ASSUME TypeOK, OwnLane, BatchInv, [Next]_vars
  PROVE  \/ checkpoints' = checkpoints
         \/ /\ pc = "checkpoint" /\ Lane \in LaneSet /\ batches' = batches
            /\ NoneUnderWay' /\ pc' \in {"lane", "idle"}
            /\ \A l \in LaneSet \ {Lane} : checkpoints'[l] = checkpoints[l]
            /\ Saved(Lane) = {}
            /\ \/ /\ checkpoints'[Lane] = Torn /\ Exit
                  /\ UNCHANGED <<disk, forgotten>>
               \/ /\ Checkpoint /\ UNCHANGED <<disk, ledger, forgotten>>
                  /\ checkpoints'[Lane] =
                       [file |-> "written", batches |-> used,
                        iterations |-> iterations, spent |-> spent,
                        ends |-> status]
<1>1. pc = "checkpoint" => Lane \in LaneSet /\ Saved(Lane) = {}
  <2>1. pc = "checkpoint" => stage = "lanes" /\ Lane \in LaneSet
    BY StageOf, LaneInSet DEF TypeOK, PlaceOK
  <2> QED
    BY <2>1, LanePcs DEF OwnLane, BatchInv, Unwritten
<1>2. checkpoints \in [LaneSet -> CheckpointFiles]
  BY DEF TypeOK, StoreOK
<1>3. CASE Checkpoint
  <2>1. pc = "checkpoint" /\ pc' = "lane" /\ NoLane
    BY <1>3, KindsOf
  <2>2. checkpoints' = [checkpoints EXCEPT ![Lane] =
                         [file |-> "written", batches |-> used,
                          iterations |-> iterations, spent |-> spent,
                          ends |-> status]]
    BY <1>3 DEF Checkpoint
  <2>3. UNCHANGED <<disk, ledger, forgotten, batches>>
    BY <1>3 DEF Checkpoint, seenVars
  <2> QED
    BY <1>1, <1>2, <1>3, <2>1, <2>2, <2>3 DEF NoLane, NoneUnderWay
<1>4. CASE /\ pc = "checkpoint" /\ Exit /\ UNCHANGED <<batches, forgotten>>
           /\ disk' = disk
           /\ checkpoints' = [checkpoints EXCEPT ![Lane] = Torn]
  BY <1>1, <1>2, <1>4 DEF Exit, NoLane, NoneUnderWay
<1> QED
  BY <1>3, <1>4, CheckpointsEffect

LEMMA SavedOverStep ==
  ASSUME TypeOK, LaneControl, BatchInv, [Next]_vars
  PROVE  SavedOver' /\ Unwritten'
<1> USE DEF SavedOver, Unwritten, Saved
<1>1. CASE checkpoints' = checkpoints
  <2>1. \A l \in LaneSet : OverFor(batches', Saved(l), l)
    BY CountedKept, TableKept, StillOver DEF BatchInv
  <2> QED
    BY <1>1, <2>1 DEF BatchInv
<1>2. CASE checkpoints' # checkpoints
  <2>1. /\ Lane \in LaneSet /\ batches' = batches
        /\ \A l \in LaneSet \ {Lane} : checkpoints'[l] = checkpoints[l]
        /\ \/ checkpoints'[Lane] = Torn
           \/ checkpoints'[Lane] =
                [file |-> "written", batches |-> used, iterations |-> iterations,
                 spent |-> spent, ends |-> status]
    BY <1>2, SavedEffect DEF LaneControl
  <2>2. Torn.batches = {}
    BY DEF Torn, NoCheckpoint
  <2>3. checkpoints'[Lane].batches \in {{}, used}
    BY <2>1, <2>2
  <2>4. OverFor(batches', checkpoints'[Lane].batches, Lane)
    BY <2>1, <2>3, NoneSaid DEF BatchInv, UsedOver
  <2>5. checkpoints'[Lane].file # "written" => checkpoints'[Lane].batches = {}
    BY <2>1, <2>2
  <2> QED
    BY <2>1, <2>4, <2>5 DEF BatchInv
<1> QED
  BY <1>1, <1>2

LEMMA SavedOnceStep ==
  ASSUME TypeOK, LaneControl, BatchInv, [Next]_vars
  PROVE  SavedOnce'
<1> USE DEF SavedOnce, Saved
<1>1. CASE checkpoints' = checkpoints
  <2>1. \A l \in LaneSet : Saved(l) \cap used' = {}
    <3>1. CASE NoneUnderWay'
      BY <3>1 DEF NoneUnderWay
    <3>2. CASE used' = used
      BY <3>2 DEF BatchInv
    <3>3. CASE BatchEnds /\ used' = used \cup {batch}
      BY <3>3, KindsOf DEF BatchInv, FreshBatch
    <3> QED
      BY <3>1, <3>2, <3>3, UsedEffect DEF LaneControl
  <2> QED
    BY <1>1, <2>1 DEF BatchInv
<1>2. CASE checkpoints' # checkpoints
  <2>1. /\ Lane \in LaneSet /\ used' = {}
        /\ \A l \in LaneSet \ {Lane} : checkpoints'[l] = checkpoints[l]
        /\ checkpoints'[Lane].batches \in {{}, used}
    <3>1. Torn.batches = {}
      BY DEF Torn, NoCheckpoint
    <3> QED
      BY <1>2, <3>1, SavedEffect DEF LaneControl, NoneUnderWay
  <2> QED
    BY <2>1 DEF BatchInv
<1> QED
  BY <1>1, <1>2

LEMMA FreshBatchStep ==
  ASSUME TypeOK, SpendInv, LaneControl, BatchInv, [Next]_vars
  PROVE  FreshBatch'
<1> USE DEF FreshBatch, Saved
<1>1. CASE Create
  <2>1. batch' = Len(batches) + 1 /\ Len(batches) \in Nat
    BY <1>1, CreateEffect, TableKept
  <2>2. batch' \notin used /\ \A l \in LaneSet : batch' \notin Saved(l)
    BY <2>1 DEF BatchInv, UsedOver, SavedOver, OverFor
  <2>3. UNCHANGED <<used, checkpoints>>
    BY <1>1 DEF Create, diskVars, laneVars
  <2> QED
    BY <2>2, <2>3
<1>2. CASE BatchEnds \/ Read \/ Save \/ Stutters
  <2>1. checkpoints' = checkpoints /\ batch' = batch
    BY <1>2 DEF BatchEnds, Read, Save, Stutters, vars, diskVars, rowVars
  <2>2. pc' = "poll" => pc = "poll" /\ used' = used
    BY <1>2, KindsOf DEF Stutters, vars, laneVars
  <2>3. pc' = "poll" \/ Reading' => pc = "poll" \/ Reading
    BY <1>2, KindsOf DEF Reading, Stutters, vars
  <2> QED
    BY <2>1, <2>2, <2>3 DEF BatchInv
<1>3. CASE ~Create /\ ~BatchEnds /\ ~Read /\ ~Save /\ ~Stutters
  <2>1. pc' # "poll" /\ ~Reading'
    <3>1. CASE Leaves
      BY <3>1, LeavesOf DEF Reading
    <3>2. CASE ~Leaves
      BY <1>3, <3>2, StepKinds, KindsOf DEF EntersLane, Rounds, Reading
    <3> QED
      BY <3>1, <3>2
  <2> QED
    BY <2>1
<1> QED
  BY <1>1, <1>2, <1>3

LEMMA BatchStep ==
  TypeOK /\ SpendInv /\ LaneControl /\ BatchInv /\ [Next]_vars => BatchInv'
BY UsedOverStep, SavedOverStep, SavedOnceStep, FreshBatchStep DEF BatchInv

-----------------------------------------------------------------------------
(* The ledger and its file.                                                *)

\* The steps of a lane that has counted something.
LEMMA UnderWayEffect ==
  ASSUME TypeOK, LaneControl, [Next]_vars, ~NoneUnderWay'
  PROVE  \/ Read /\ stage = "lanes" /\ used' = used /\ at' = at
         \/ /\ BatchEnds /\ stage = "lanes" /\ used' = used \cup {batch}
            /\ UNCHANGED <<at, iterations, spent, ledger, disk>>
         \/ /\ Save /\ stage = "lanes"
            /\ UNCHANGED <<at, used, iterations, spent, ledger, batches>>
         \/ /\ UNCHANGED <<at, used, iterations, spent, ledger, disk>>
            /\ Left \subseteq Left' /\ (pc' = "save" <=> pc = "save")
<1> USE DEF LaneControl
<1>1. CASE Read
  <2>1. CASE stage # "lanes"
    BY <1>1, <2>1 DEF Read, NoneYet, NoneUnderWay, laneVars
  <2> QED
    BY <1>1, <2>1 DEF Read, ReadTurn, laneVars, runVars
<1>2. CASE BatchEnds
  <2>1. CASE stage # "lanes"
    BY <1>2, <2>1 DEF BatchEnds, NoneYet, NoneUnderWay
  <2> QED
    BY <1>2, <2>1 DEF BatchEnds, diskVars, runVars
<1>3. CASE Save
  <2>1. CASE stage # "lanes"
    BY <1>3, <2>1 DEF Save, NoneYet, NoneUnderWay, laneVars
  <2> QED
    BY <1>3, <2>1 DEF Save, laneVars, runVars
<1>4. CASE Create
  <2>1. ~Reading /\ ~Reading'
    BY <1>4, KindsOf DEF Reading
  <2> QED
    BY <1>4, <2>1 DEF Create, diskVars, laneVars, runVars, Left
<1>5. CASE Rounds \/ NextChunk \/ Abandons \/ Cancel \/ Resumes \/ FinishLane
             \/ Judges
  <2>1. Calm
    BY <1>5, CalmSteps
  <2>2. Left = {} /\ pc # "save" /\ pc' # "save"
    BY <1>5, KindsOf DEF Left, Reading, Rounds
  <2> QED
    BY <2>1, <2>2 DEF Calm
<1>6. CASE Stutters
  BY <1>6, CalmSteps DEF Calm, Stutters, vars, rowVars, Left, Reading
<1>7. CASE Leaves \/ Invoke \/ EntersLane \/ Checkpoint \/ CallsOn \/ Afterwards
  <2>1. NoneUnderWay'
    <3>1. CASE Leaves
      <4>1. CASE Exit \/ LaneFails
        BY <4>1 DEF Exit, LaneFails, NoLane, NoneUnderWay
      <4>2. CASE UNCHANGED laneVars /\ (pc = "lane" \/ stage # "lanes")
        BY <4>2, LanePcs DEF laneVars, NoneYet, NoneUnderWay
      <4> QED
        BY <3>1, <4>1, <4>2 DEF Leaves
    <3>2. CASE EntersLane
      <4>1. CASE UNCHANGED laneVars
        BY <3>2, <4>1, KindsOf, LanePcs DEF laneVars, NoneYet, NoneUnderWay
      <4>2. CASE OpenCases
        BY <4>2 DEF OpenCases, NoneUnderWay
      <4> QED
        BY <3>2, <4>1, <4>2, KindsOf
           DEF EntersLane, NextLane, Exit, NextStage, StageAfter
    <3>3. CASE Invoke \/ CallsOn \/ Afterwards
      <4>1. pc \notin InLane \/ stage # "lanes"
        BY <3>3, KindsOf, LanePcs
      <4> QED
        BY <3>3, <4>1, KindsOf DEF NoneYet, NoneUnderWay, laneVars
    <3>4. CASE Checkpoint
      BY <3>4, KindsOf DEF NoLane, NoneUnderWay
    <3> QED
      BY <1>7, <3>1, <3>2, <3>3, <3>4
  <2> QED
    BY <2>1
<1> QED
  BY <1>1, <1>2, <1>3, <1>4, <1>5, <1>6, <1>7, StepKinds

\* The keys of what a row, a call and the sweep add.
LEMMA NewKeys ==
  ASSUME TypeOK
  PROVE  /\ \A x : RowEntry(x).key = <<batch, x>>
         /\ LedgerCall => \A e \in ledger' : e \in ledger \/ e.key[1] = 0
         /\ \A S : \A e \in Unrecorded(S) :
              /\ e.key \notin Keys(S) /\ e.key[1] \in 1..Len(batches)
              /\ Ended(e.key[1]) /\ e.key[2] \in Requests(e.key[1])
              /\ Served(batches[e.key[1]].rows[e.key[2]])
<1>1. \A S : \A key \in Sweepable(S) :
         /\ SweptEntry(key).key = key
         /\ key \notin Keys(S) /\ key[1] \in 1..Len(batches)
         /\ Ended(key[1]) /\ key[2] \in Requests(key[1])
         /\ Served(batches[key[1]].rows[key[2]])
  BY DEF Sweepable, SweptEntry, Entry
<1>2. LedgerCall => \A e \in ledger' : e \in ledger \/ e.key[1] = 0
  BY DEF LedgerCall, Added, Entry
<1> QED
  BY <1>1, <1>2, SweptOf DEF RowEntry, Entry

LEMMA KeysKnownStep ==
  ASSUME TypeOK, KeysKnown, [Next]_vars
  PROVE  KeysKnown'
<1>1. /\ Len(batches) \in Nat /\ Len(batches') \in Nat
      /\ Len(batches) <= Len(batches')
  BY TableKept
<1>2. \A e \in ledger \cup disk.entries :
        e.key[1] \in Nat /\ e.key[1] <= Len(batches)
  <2>1. ledger \cup disk.entries \subseteq Entries
    BY DEF TypeOK, StoreOK, MemoryOK
  <2> QED
    BY <2>1 DEF KeysKnown, Entries
<1>3. \A e \in ledger' : e.key[1] <= Len(batches) /\ e.key[1] \in Nat
  <2>1. CASE ledger' = ledger \/ ledger' = {} \/ Invoke
    BY <1>2, <2>1 DEF Invoke
  <2>2. CASE Read /\ LedgerRead
    <3>1. PICK x \in unread : ledger' = Added(ledger, RowEntry(x))
      BY <2>2 DEF LedgerRead
    <3>2. RowEntry(x).key[1] \in 1..Len(batches)
      BY <2>2, NewKeys, KindsOf DEF TypeOK, RowOK, Reading
    <3> QED
      BY <1>1, <1>2, <3>1, <3>2 DEF Added
  <2>3. CASE LedgerCall
    BY <1>1, <1>2, <2>3, NewKeys
  <2> QED
    BY <2>1, <2>2, <2>3, LedgerEffect
<1>4. \A e \in disk'.entries : e.key[1] <= Len(batches) /\ e.key[1] \in Nat
  <2>1. CASE disk'.entries = disk.entries \/ Save
    BY <1>2, <2>1 DEF Save
  <2>2. CASE Augment
    <3>1. disk'.entries \subseteq disk.entries \cup Unrecorded(disk.entries)
      BY <2>2 DEF Augment, TypeOK, StoreOK
    <3> QED
      BY <1>1, <1>2, <3>1, NewKeys
  <2> QED
    BY <2>1, <2>2, DiskEffect
<1> QED
  BY <1>1, <1>3, <1>4 DEF KeysKnown

LEMMA KeysFreshStep ==
  ASSUME TypeOK, KeysKnown, KeysFresh, [Next]_vars
  PROVE  KeysFresh'
<1> USE DEF KeysFresh
<1>1. CASE Create
  <2>1. batch' = Len(batches) + 1 /\ Len(batches) \in Nat
    BY <1>1, CreateEffect, TableKept
  <2>2. UNCHANGED <<ledger, disk>>
    BY <1>1 DEF Create, diskVars
  <2>3. \A e \in ledger \cup disk.entries : e.key[1] # batch'
    BY <2>1 DEF KeysKnown
  <2> QED
    BY <2>2, <2>3
<1>2. CASE Stutters
  BY <1>2 DEF Stutters, vars, diskVars, rowVars
<1>3. CASE ~Create /\ ~Stutters
  <2>1. pc' # "poll"
    <3>1. CASE Leaves
      BY <3>1, LeavesOf
    <3>2. CASE ~Leaves
      BY <1>3, <3>2, StepKinds, KindsOf DEF EntersLane, Rounds
    <3> QED
      BY <3>1, <3>2
  <2> QED
    BY <2>1
<1> QED
  BY <1>1, <1>2, <1>3

LEMMA IdleEmptyStep ==
  ASSUME TypeOK, IdleEmpty, [Next]_vars
  PROVE  IdleEmpty'
<1> USE DEF IdleEmpty
<1>1. CASE Leaves
  <2>1. LaneFails \/ (NextStage /\ pc # "report") => pc' # "idle"
    BY <1>1, Leaving DEF Leaves, LaneFails
  <2> QED
    BY <1>1, <2>1 DEF Leaves, Exit
<1>2. CASE Afterwards \/ Stutters
  BY <1>2, KindsOf DEF Stutters, vars
<1>3. CASE ~Leaves /\ ~Afterwards /\ ~Stutters
  BY <1>3, StepKinds, KindsOf DEF EntersLane, Rounds
<1> QED
  BY <1>1, <1>2, <1>3

\* A row is read once.
LEMMA ReadOnce ==
  ASSUME TypeOK, Unkeyed, Read
  PROVE  \E x \in unread :
           /\ unread' = unread \ {x} /\ RowEntry(x) \in Entries
           /\ RowEntry(x) \notin ledger /\ RowEntry(x).key = <<batch, x>>
           /\ ledger' = IF Served(batches[batch].rows[x])
                        THEN ledger \cup {RowEntry(x)} ELSE ledger
           /\ pc' = IF Served(batches[batch].rows[x]) THEN "save" ELSE "read"
           /\ stage = "lanes" => ReadTurn(x, batches[batch].rows[x])
           /\ batches[batch].rows[x] \in Rows
<1>1. PICK x \in unread :
        /\ unread' = unread \ {x} /\ batches[batch].rows[x] \in Rows
        /\ ledger' = IF Served(batches[batch].rows[x])
                     THEN Added(ledger, RowEntry(x)) ELSE ledger
        /\ pc' = IF Served(batches[batch].rows[x]) THEN "save" ELSE "read"
        /\ stage = "lanes" => ReadTurn(x, batches[batch].rows[x])
  BY ReadEffect
<1>2. pc = "read" /\ RowEntry(x).key = <<batch, x>>
  BY KindsOf, NewKeys
<1>3. RowEntry(x).key \notin Keys(ledger)
  BY <1>2 DEF Unkeyed, Reading
<1>4. RowEntry(x) \in Entries
  BY <1>2, RowEntryTyped
<1> QED
  BY <1>1, <1>2, <1>3, <1>4 DEF Added, Keys

LEMMA UnkeyedStep ==
  ASSUME TypeOK, KeysFresh, Unkeyed, [Next]_vars
  PROVE  Unkeyed'
<1> USE DEF Unkeyed, Reading
<1>1. CASE BatchEnds
  <2>1. \A x \in unread : <<batch, x>> \notin Keys(ledger)
    BY <1>1, KindsOf DEF KeysFresh, Keys
  <2>2. UNCHANGED <<batch, unread, ledger>>
    BY <1>1 DEF BatchEnds, rowVars
  <2> QED
    BY <2>1, <2>2 DEF Keys
<1>2. CASE Read
  <2>1. PICK x \in unread :
          /\ unread' = unread \ {x} /\ RowEntry(x).key = <<batch, x>>
          /\ \/ ledger' = ledger \cup {RowEntry(x)}
             \/ ledger' = ledger
    BY <1>2, ReadOnce
  <2>2. \A y \in unread : <<batch, y>> \notin Keys(ledger)
    BY <1>2, KindsOf
  <2> QED
    BY <1>2, <2>1, <2>2, KindsOf DEF Keys
<1>3. CASE Save
  BY <1>3, KindsOf DEF Save, Keys
<1>4. CASE Stutters
  BY <1>4 DEF Stutters, vars, rowVars, Keys
<1>5. CASE ~BatchEnds /\ ~Read /\ ~Save /\ ~Stutters
  <2>1. ~Reading'
    <3>1. CASE Leaves
      BY <3>1, LeavesOf
    <3>2. CASE ~Leaves
      BY <1>5, <3>2, StepKinds, KindsOf DEF EntersLane, Rounds
    <3> QED
      BY <3>1, <3>2
  <2> QED
    BY <2>1
<1> QED
  BY <1>1, <1>2, <1>3, <1>4, <1>5

\* What is counted of a case is a finite set of entries.
LEMMA OfTyped ==
  ASSUME NEW S \in SUBSET Entries, IsFiniteSet(S), NEW numbers, NEW l, NEW c
  PROVE  /\ Of(S, numbers, l, c) \in SUBSET Entries
         /\ IsFiniteSet(Of(S, numbers, l, c))
         /\ Cardinality(Of(S, numbers, l, c)) \in Nat
         /\ CostOf(Of(S, numbers, l, c)) \in Nat
<1>1. Of(S, numbers, l, c) \in SUBSET S
  BY DEF Of
<1>2. IsFiniteSet(Of(S, numbers, l, c))
  BY <1>1, FS_Subset
<1> QED
  BY <1>1, <1>2, FS_CardinalityType, CostType

\* A turn that was served counts once, for its case, at its price.
LEMMA TurnCounted ==
  ASSUME TypeOK, SpendInv, LaneControl, LedgerInv, Read, stage = "lanes"
  PROVE  Accounts(ledger', used, Lane, iterations', spent')
<1>1. PICK x \in unread :
        /\ RowEntry(x) \in Entries /\ RowEntry(x) \notin ledger
        /\ RowEntry(x).key = <<batch, x>>
        /\ ledger' = IF Served(batches[batch].rows[x])
                     THEN ledger \cup {RowEntry(x)} ELSE ledger
        /\ ReadTurn(x, batches[batch].rows[x])
  BY ReadOnce DEF LedgerInv
<1> DEFINE c == x[2]
           e == RowEntry(x)
           row == batches[batch].rows[x]
<1>2. pc = "read" /\ Reading
  BY KindsOf DEF Reading
<1>3. batch \in used /\ x = <<Lane, c>> /\ c \in Cases
  BY <1>2, LanePcs DEF LaneControl, OwnBatch, OwnLane
<1>4. Accounts(ledger, used, Lane, iterations, spent)
  BY DEF LedgerInv, Accounted
<1>5. ledger \in SUBSET Entries /\ IsFiniteSet(ledger)
  BY DEF TypeOK, MemoryOK
<1>6. /\ iterations \in [Cases -> Nat] /\ spent \in [Cases -> Nat]
      /\ CostOf(ledger) \in Nat /\ Price(e) \in Nat
  BY <1>1, <1>5, CostType, EntryPrice DEF TypeOK, LaneOK, Counts
<1>7. /\ iterations' = [iterations EXCEPT ![c] = IF Served(row) THEN @ + 1 ELSE @]
      /\ spent' = [spent EXCEPT ![c] = @ + CostOf(ledger') - CostOf(ledger)]
  BY <1>1 DEF ReadTurn
<1>8. CASE ~Served(row)
  <2>1. ledger' = ledger
    BY <1>1, <1>8
  <2>2. spent[c] + CostOf(ledger') - CostOf(ledger) = spent[c]
    BY <1>3, <1>6, <2>1
  <2>3. iterations' = iterations /\ spent' = spent
    BY <1>3, <1>6, <1>7, <1>8, <2>2
  <2> QED
    BY <1>4, <2>1, <2>3
<1>9. CASE Served(row)
  <2>1. ledger' = ledger \cup {e} /\ e.lane = Lane /\ e.key = <<batch, x>>
        /\ e \notin ledger /\ e \in Entries
    BY <1>1, <1>9 DEF RowEntry, Entry
  <2> HIDE DEF e, row
  <2>2. CostOf(ledger') = CostOf(ledger) + Price(e)
    BY <1>5, <2>1, CostAdd
  <2>3. /\ iterations' = [iterations EXCEPT ![c] = @ + 1]
        /\ spent' = [spent EXCEPT ![c] = @ + Price(e)]
    <3>1. spent[c] + CostOf(ledger') - CostOf(ledger) = spent[c] + Price(e)
      BY <1>3, <1>6, <2>2
    <3> QED
      BY <1>3, <1>6, <1>7, <1>9, <3>1
  <2>4. \A d \in ledger' : d.key[1] \in used => d.lane = Lane /\ d.key[2][1] = Lane
    BY <1>3, <1>4, <2>1 DEF Accounts
  <2>5. ASSUME NEW d \in Cases
        PROVE  /\ Cardinality(Of(ledger', used, Lane, d)) = iterations'[d]
               /\ CostOf(Of(ledger', used, Lane, d)) = spent'[d]
    <3> DEFINE old == Of(ledger, used, Lane, d)
    <3>1. /\ old \in SUBSET Entries /\ IsFiniteSet(old)
          /\ Cardinality(old) \in Nat /\ CostOf(old) \in Nat
      BY <1>5, OfTyped
    <3>2. Cardinality(old) = iterations[d] /\ CostOf(old) = spent[d]
      BY <1>4 DEF Accounts
    <3>3. CASE d = c
      <4>1. Of(ledger', used, Lane, d) = old \cup {e} /\ e \notin old
        BY <1>3, <2>1, <3>3 DEF Of
      <4> HIDE DEF old
      <4>2. Cardinality(old \cup {e}) = Cardinality(old) + 1
        BY <3>1, <4>1, FS_AddElement
      <4>3. CostOf(old \cup {e}) = CostOf(old) + Price(e)
        BY <2>1, <3>1, <4>1, CostAdd
      <4>4. iterations'[d] = iterations[d] + 1 /\ spent'[d] = spent[d] + Price(e)
        BY <1>3, <1>6, <2>3, <3>3
      <4> QED
        BY <3>2, <4>1, <4>2, <4>3, <4>4
    <3>4. CASE d # c
      <4>1. Of(ledger', used, Lane, d) = old
        BY <1>3, <2>1, <3>4 DEF Of
      <4>2. iterations'[d] = iterations[d] /\ spent'[d] = spent[d]
        BY <1>6, <2>3, <3>4
      <4> QED
        BY <3>2, <4>1, <4>2
    <3> QED
      BY <3>3, <3>4
  <2> QED
    BY <2>4, <2>5 DEF Accounts
<1> QED
  BY <1>8, <1>9

LEMMA AccountedStep ==
  ASSUME TypeOK, SpendInv, LaneControl, LedgerInv, [Next]_vars
  PROVE  Accounted'
<1> USE DEF Accounted
<1>1. CASE NoneUnderWay'
  BY <1>1, NoneSaid DEF NoneUnderWay
<1>2. CASE Read /\ stage = "lanes" /\ used' = used /\ at' = at
  BY <1>2, TurnCounted DEF Lane
<1>3. CASE /\ BatchEnds /\ used' = used \cup {batch}
           /\ UNCHANGED <<at, iterations, spent, ledger, disk>>
  <2>1. \A e \in ledger : e.key[1] # batch
    BY <1>3, KindsOf DEF LedgerInv, KeysFresh
  <2>2. Accounts(ledger, used \cup {batch}, Lane, iterations, spent)
    BY <2>1, SameSaid DEF LedgerInv
  <2> QED
    BY <1>3, <2>2 DEF Lane
<1>4. CASE UNCHANGED <<at, used, iterations, spent, ledger>>
  BY <1>4 DEF LedgerInv, Lane
<1> QED
  BY <1>1, <1>2, <1>3, <1>4, UnderWayEffect

LEMMA AllReadStep ==
  ASSUME TypeOK, SpendInv, LaneControl, BatchInv, LedgerInv, [Next]_vars
  PROVE  AllRead'
<1> USE DEF AllRead
<1>1. CASE NoneUnderWay'
  BY <1>1, NoneSaid DEF NoneUnderWay
<1>2. /\ Recorded(batches, ledger, used, Left)
      /\ \A b \in used : batches'[b] = batches[b]
  BY CountedKept DEF LedgerInv
<1>3. CASE Read /\ stage = "lanes" /\ used' = used
  <2>1. PICK x \in unread :
          /\ unread' = unread \ {x}
          /\ RowEntry(x).key = <<batch, x>>
          /\ ledger' = IF Served(batches[batch].rows[x])
                       THEN ledger \cup {RowEntry(x)} ELSE ledger
    BY <1>3, ReadOnce DEF LedgerInv
  <2>2. /\ Left = {batch} \X unread /\ Left' = {batch} \X (unread \ {x})
        /\ UNCHANGED <<batch, batches>>
    <3>1. pc = "read" /\ pc' \in {"read", "save"} /\ UNCHANGED <<stage, batch, batches>>
      BY <1>3, KindsOf DEF Read
    <3> QED
      BY <1>3, <2>1, <3>1 DEF Left, Reading
  <2>3. ASSUME NEW b \in used, NEW y \in DOMAIN batches[b].rows,
               Served(batches[b].rows[y])
        PROVE  <<b, y>> \in Keys(ledger') \cup Left'
    <3>1. <<b, y>> \in Keys(ledger) \cup Left
      BY <1>2, <2>3 DEF Recorded
    <3>2. Keys(ledger) \subseteq Keys(ledger')
      BY <2>1 DEF Keys
    <3>3. CASE <<b, y>> \in Left
      <4>1. CASE y = x
        <5>1. b = batch /\ RowEntry(x) \in ledger'
          BY <2>1, <2>2, <2>3, <3>3, <4>1
        <5> QED
          BY <2>1, <4>1, <5>1 DEF Keys
      <4>2. CASE y # x
        BY <2>2, <3>3, <4>2
      <4> QED
        BY <4>1, <4>2
    <3> QED
      BY <3>1, <3>2, <3>3
  <2> QED
    BY <1>3, <2>2, <2>3 DEF Recorded
<1>4. CASE /\ BatchEnds /\ stage = "lanes" /\ used' = used \cup {batch}
           /\ ledger' = ledger
  <2>1. pc = "poll" /\ pc' = "read" /\ UNCHANGED <<unread, batch, stage>>
    BY <1>4, KindsOf
  <2>2. Left = {} /\ Left' = {batch} \X unread
    BY <2>1 DEF Left, Reading
  <2>3. DOMAIN batches'[batch].rows = unread
    <3>1. /\ batch \in 1..Len(batches) /\ Ends(batch)
          /\ Requests(batch) = unread
      BY <1>4, <2>1 DEF BatchEnds, TypeOK, RowOK, SpendInv, Polled
    <3> QED
      BY <3>1, EndsEffect DEF Requests
  <2>4. ASSUME NEW b \in used, NEW y \in DOMAIN batches'[b].rows,
               Served(batches'[b].rows[y])
        PROVE  <<b, y>> \in Keys(ledger)
    BY <1>2, <2>2, <2>4 DEF Recorded
  <2> QED
    BY <1>4, <2>2, <2>3, <2>4 DEF Recorded
<1>5. CASE UNCHANGED <<used, ledger>> /\ Left \subseteq Left'
  <2>1. Recorded(batches', ledger, used, Left')
    BY <1>2, <1>5, StillRecorded
  <2> QED
    BY <1>5, <2>1
<1>6. CASE Save /\ stage = "lanes" /\ UNCHANGED <<used, ledger>>
  <2>1. Left' = Left
    BY <1>6, KindsOf DEF Left, Reading
  <2> QED
    BY <1>5, <1>6, <2>1
<1> QED
  BY <1>1, <1>3, <1>4, <1>5, <1>6, UnderWayEffect

LEMMA FiledStep ==
  ASSUME TypeOK, LaneControl, LedgerInv, [Next]_vars
  PROVE  Filed'
<1> USE DEF Filed
<1>1. CASE NoneUnderWay'
  BY <1>1 DEF NoneUnderWay
<1>2. CASE Read /\ stage = "lanes" /\ used' = used
  <2>1. CASE pc' = "save"
    BY <2>1
  <2>2. CASE pc' # "save"
    <3>1. ledger' = ledger
      BY <1>2, <2>2, ReadOnce DEF LedgerInv
    <3>2. disk' = disk /\ pc # "save"
      BY <1>2, KindsOf DEF Read, diskVars
    <3> QED
      BY <1>2, <3>1, <3>2 DEF LedgerInv
  <2> QED
    BY <2>1, <2>2
<1>3. CASE /\ BatchEnds /\ used' = used \cup {batch}
           /\ UNCHANGED <<ledger, disk>>
  <2>1. pc = "poll" /\ \A e \in ledger : e.key[1] # batch
    BY <1>3, KindsOf DEF LedgerInv, KeysFresh
  <2> QED
    BY <1>3, <2>1 DEF LedgerInv
<1>4. CASE Save
  BY <1>4 DEF Save
<1>5. CASE UNCHANGED <<used, ledger, disk>> /\ (pc' = "save" <=> pc = "save")
  BY <1>5 DEF LedgerInv
<1> QED
  BY <1>1, <1>2, <1>3, <1>4, <1>5, UnderWayEffect

LEMMA LedgerStep ==
  TypeOK /\ SpendInv /\ LaneControl /\ BatchInv /\ LedgerInv /\ [Next]_vars
    => LedgerInv'
BY KeysKnownStep, KeysFreshStep, IdleEmptyStep, UnkeyedStep, AccountedStep,
   AllReadStep, FiledStep DEF LedgerInv

-----------------------------------------------------------------------------
(* The checkpoints.                                                        *)

\* Entries of other batches leave what a checkpoint says.
LEMMA StillSettled ==
  ASSUME NEW s, NEW t, NEW S, NEW T, NEW numbers, NEW l, NEW its, NEW costs,
         Accounts(S, numbers, l, its, costs), Recorded(s, S, numbers, {}),
         \A b \in numbers : t[b] = s[b], S \subseteq T,
         \A e \in T : e \in S \/ e.key[1] \notin numbers
  PROVE  Accounts(T, numbers, l, its, costs) /\ Recorded(t, T, numbers, {})
<1>1. \A e \in S \cup T : e \in S /\ e.key[1] \in numbers
                            <=> e \in T /\ e.key[1] \in numbers
  OBVIOUS
<1>2. Accounts(T, numbers, l, its, costs)
  BY <1>1, SameSaid
<1> QED
  BY <1>2, StillRecorded

\* An entry that is new in the ledger is of no batch that a checkpoint counts.
LEMMA LedgerGrows ==
  ASSUME TypeOK, LaneControl, BatchInv, LedgerInv, [Next]_vars, pc # "idle",
         pc' # "idle", NEW l \in LaneSet
  PROVE  /\ ledger \subseteq ledger'
         /\ \A e \in ledger' : e \in ledger \/ e.key[1] \notin Saved(l)
<1>1. CASE ledger' = ledger
  BY <1>1
<1>2. CASE Read
  <2>1. PICK x \in unread :
          /\ RowEntry(x).key = <<batch, x>>
          /\ ledger' = IF Served(batches[batch].rows[x])
                       THEN ledger \cup {RowEntry(x)} ELSE ledger
    BY <1>2, ReadOnce DEF LedgerInv
  <2>2. batch \notin Saved(l)
    BY <1>2, KindsOf DEF BatchInv, FreshBatch, Reading
  <2> QED
    BY <2>1, <2>2
<1>3. CASE LedgerCall
  <2>1. 0 \notin Saved(l)
    BY TableKept DEF BatchInv, SavedOver, OverFor
  <2>2. ledger \subseteq ledger'
    BY <1>3 DEF LedgerCall, Added
  <2> QED
    BY <1>3, <2>1, <2>2, NewKeys
<1> QED
  BY <1>1, <1>2, <1>3, LedgerEffect, KindsOf

\* Nor does the sweep add one.
LEMMA SweepSpares ==
  ASSUME TypeOK, NEW l \in LaneSet, NEW S, Recorded(batches, S, Saved(l), {})
  PROVE  \A e \in Unrecorded(S) : e.key[1] \notin Saved(l)
<1> TAKE e \in Unrecorded(S)
<1>1. /\ e.key \notin Keys(S) /\ e.key[2] \in DOMAIN batches[e.key[1]].rows
      /\ Served(batches[e.key[1]].rows[e.key[2]])
  BY NewKeys DEF Requests
<1>2. e.key = <<e.key[1], e.key[2]>>
  BY SweepTyped DEF Entries
<1> QED
  BY <1>1, <1>2 DEF Recorded

LEMMA DiskSettled ==
  ASSUME TypeOK, SpendInv, LaneControl, BatchInv, LedgerInv, CheckpointInv,
         [Next]_vars, ~forgotten, checkpoints' = checkpoints,
         NEW l \in LaneSet
  PROVE  Settled(disk.entries, l)'
<1>1. \A b \in Saved(l) : batches'[b] = batches[b]
  BY CountedKept
<1>2. /\ Settled(disk.entries, l)
      /\ pc # "idle" => Settled(ledger, l)
  BY DEF CheckpointInv
<1>3. ASSUME NEW S, NEW T, Settled(S, l), S \subseteq T,
             \A e \in T : e \in S \/ e.key[1] \notin Saved(l),
             disk'.entries = T
      PROVE  Settled(disk.entries, l)'
  <2>1. /\ Accounts(T, Saved(l), l, checkpoints[l].iterations, checkpoints[l].spent)
        /\ Recorded(batches', T, Saved(l), {})
    BY <1>1, <1>3, StillSettled DEF Settled
  <2> QED
    BY <1>3, <2>1 DEF Settled, Saved
<1>4. CASE disk'.entries = disk.entries
  BY <1>2, <1>3, <1>4
<1>5. CASE Save
  BY <1>2, <1>3, <1>5, KindsOf DEF Save
<1>6. CASE Augment
  <2>1. disk'.entries \in {disk.entries,
                           disk.entries \cup Unrecorded(disk.entries)}
    BY <1>6 DEF Augment, TypeOK, StoreOK
  <2>2. \A e \in Unrecorded(disk.entries) : e.key[1] \notin Saved(l)
    BY <1>2, SweepSpares DEF Settled
  <2> QED
    BY <1>2, <1>3, <2>1, <2>2
<1> QED
  BY <1>4, <1>5, <1>6, DiskEffect

LEMMA LedgerSettled ==
  ASSUME TypeOK, SpendInv, LaneControl, BatchInv, LedgerInv, CheckpointInv,
         [Next]_vars, ~forgotten, ~forgotten', checkpoints' = checkpoints,
         pc' # "idle", NEW l \in LaneSet
  PROVE  Settled(ledger, l)'
<1>1. \A b \in Saved(l) : batches'[b] = batches[b]
  BY CountedKept
<1>2. ASSUME NEW S, NEW T, Settled(S, l), S \subseteq T,
             \A e \in T : e \in S \/ e.key[1] \notin Saved(l), ledger' = T
      PROVE  Settled(ledger, l)'
  <2>1. /\ Accounts(S, Saved(l), l, checkpoints[l].iterations,
                    checkpoints[l].spent)
        /\ Recorded(batches, S, Saved(l), {})
    BY <1>2 DEF Settled
  <2>2. /\ Accounts(T, Saved(l), l, checkpoints[l].iterations,
                    checkpoints[l].spent)
        /\ Recorded(batches', T, Saved(l), {})
    BY <1>1, <1>2, <2>1, StillSettled
  <2> QED
    BY <1>2, <2>2 DEF Settled, Saved
<1>3. CASE pc = "idle"
  <2>1. Invoke
    BY <1>3, StepKinds, KindsOf DEF Leaves, EntersLane, Rounds, Stutters, vars
  <2>2. ledger' = disk.entries
    BY <2>1 DEF Invoke
  <2> QED
    BY <1>2, <2>2 DEF CheckpointInv
<1>4. CASE pc # "idle"
  BY <1>2, <1>4, LedgerGrows DEF CheckpointInv
<1> QED
  BY <1>3, <1>4

LEMMA DiskBehind ==
  ASSUME TypeOK, LaneControl, BatchInv, LedgerInv, CheckpointInv,
         [Next]_vars, ~forgotten, ~forgotten', pc' # "idle"
  PROVE  disk'.entries \subseteq ledger'
<1>1. CASE pc = "idle"
  <2>1. Invoke
    BY <1>1, StepKinds, KindsOf DEF Leaves, EntersLane, Rounds, Stutters, vars
  <2> QED
    BY <2>1 DEF Invoke, diskVars
<1>2. CASE pc # "idle"
  <2>1. ledger \subseteq ledger'
    <3>1. CASE LaneSet = {}
      <4>1. ledger' = ledger \/ Read \/ LedgerCall
        BY <1>2, LedgerEffect, KindsOf
      <4>2. Read => ledger \subseteq ledger'
        BY ReadOnce DEF LedgerInv
      <4> QED
        BY <4>1, <4>2 DEF LedgerCall, Added
    <3>2. CASE LaneSet # {}
      BY <1>2, <3>2, LedgerGrows
    <3> QED
      BY <3>1, <3>2
  <2>2. disk.entries \subseteq ledger
    BY <1>2 DEF CheckpointInv
  <2>3. ~Augment
    BY <1>2 DEF Augment
  <2> QED
    BY <2>1, <2>2, <2>3, DiskEffect DEF Save
<1> QED
  BY <1>1, <1>2

\* What was counted for a lane is what its checkpoint is written from.
LEMMA SettledByCheckpoint ==
  ASSUME TypeOK, LaneControl, BatchInv, LedgerInv, CheckpointInv, [Next]_vars,
         ~forgotten, Checkpoint, UNCHANGED <<disk, ledger, batches>>,
         checkpoints'[Lane] =
           [file |-> "written", batches |-> used, iterations |-> iterations,
            spent |-> spent, ends |-> status]
  PROVE  /\ Accounts(ledger', used, Lane, iterations, spent)
         /\ Recorded(batches', ledger', used, {})
         /\ Accounts(disk'.entries, used, Lane, iterations, spent)
         /\ Recorded(batches', disk'.entries, used, {})
<1>1. pc = "checkpoint"
  BY KindsOf
<1>2. Left = {}
  BY <1>1 DEF Left, Reading
<1>3. /\ Accounts(ledger, used, Lane, iterations, spent)
      /\ Recorded(batches, ledger, used, {})
  BY <1>2 DEF LedgerInv, Accounted, AllRead
<1>4. \A e : e \in ledger /\ e.key[1] \in used
               <=> e \in disk.entries /\ e.key[1] \in used
  BY <1>1 DEF LedgerInv, Filed, CheckpointInv
<1>5. Accounts(disk.entries, used, Lane, iterations, spent)
  BY <1>3, <1>4, SameSaid
<1>6. Recorded(batches, disk.entries, used, {})
  <2>1. ASSUME NEW b \in used, NEW x, <<b, x>> \in Keys(ledger)
        PROVE  <<b, x>> \in Keys(disk.entries)
    <3>1. PICK e \in ledger : e.key = <<b, x>>
      BY <2>1 DEF Keys
    <3>2. e \in disk.entries
      BY <1>4, <3>1
    <3> QED
      BY <3>1, <3>2 DEF Keys
  <2> QED
    BY <1>3, <2>1 DEF Recorded
<1> QED
  BY <1>3, <1>5, <1>6

LEMMA ForgottenStays == [Next]_vars => (forgotten => forgotten')
BY DEF Next, Drive, Invoke, NextLane, StartRound, NextChunk, Create, GiveUp,
   Cancel, Read, Save, ReadAll, FinishLane, Checkpoint, Judge, Latency, Report,
   BatchEnds, AbandonedEnds, Throw, Crash, Augment, vars, seenVars

LEMMA CheckpointStep ==
  TypeOK /\ SpendInv /\ LaneControl /\ BatchInv /\ LedgerInv /\ CheckpointInv
    /\ [Next]_vars => CheckpointInv'
<1> SUFFICES ASSUME TypeOK, SpendInv, LaneControl, BatchInv, LedgerInv,
                    CheckpointInv, [Next]_vars, ~forgotten'
             PROVE  CheckpointInv'
  BY DEF CheckpointInv
<1>1. ~forgotten
  BY ForgottenStays
<1>2. CASE checkpoints' = checkpoints
  BY <1>1, <1>2, DiskSettled, LedgerSettled, DiskBehind DEF CheckpointInv
<1>3. CASE checkpoints' # checkpoints
  <2>1. /\ pc = "checkpoint" /\ Lane \in LaneSet /\ batches' = batches
        /\ disk' = disk
        /\ \A l \in LaneSet \ {Lane} : checkpoints'[l] = checkpoints[l]
    BY <1>3, SavedEffect DEF LaneControl
  <2>2. ASSUME NEW l \in LaneSet \ {Lane}
        PROVE  Settled(disk.entries, l)'
    BY <1>1, <2>1, <2>2 DEF CheckpointInv, Settled, Saved
  <2>3. CASE checkpoints'[Lane] = Torn /\ Exit
    <3>1. /\ checkpoints'[Lane].batches = {}
          /\ checkpoints'[Lane].iterations = NoCases
          /\ checkpoints'[Lane].spent = NoCases
      BY <2>3 DEF Torn, NoCheckpoint
    <3>2. /\ Accounts(disk'.entries, {}, Lane, NoCases, NoCases)
          /\ Recorded(batches', disk'.entries, {}, {})
      BY NoneSaid
    <3>3. \A l \in LaneSet : Settled(disk.entries, l)'
      BY <2>2, <3>1, <3>2 DEF Settled, Saved
    <3> QED
      BY <2>3, <3>3 DEF CheckpointInv, Exit
  <2>4. CASE /\ Checkpoint /\ ledger' = ledger
             /\ checkpoints'[Lane] =
                  [file |-> "written", batches |-> used,
                   iterations |-> iterations, spent |-> spent,
                   ends |-> status]
    <3>1. /\ Accounts(ledger', used, Lane, iterations, spent)
          /\ Recorded(batches', ledger', used, {})
          /\ Accounts(disk'.entries, used, Lane, iterations, spent)
          /\ Recorded(batches', disk'.entries, used, {})
      BY <1>1, <2>1, <2>4, SettledByCheckpoint
    <3>2. \A l \in LaneSet : Settled(disk.entries, l)' /\ Settled(ledger, l)'
      <4> TAKE l \in LaneSet
      <4>1. CASE l = Lane
        BY <2>4, <3>1, <4>1 DEF Settled, Saved
      <4>2. CASE l # Lane
        <5>1. Settled(ledger, l)
          BY <1>1, <2>1 DEF CheckpointInv
        <5> QED
          BY <2>1, <2>2, <2>4, <4>2, <5>1 DEF Settled, Saved
      <4> QED
        BY <4>1, <4>2
    <3>3. disk'.entries \subseteq ledger'
      BY <1>1, <2>1, <2>4 DEF CheckpointInv
    <3> QED
      BY <3>2, <3>3 DEF CheckpointInv
  <2> QED
    BY <1>3, <2>3, <2>4, SavedEffect DEF LaneControl
<1> QED
  BY <1>2, <1>3

LEMMA PaidStep ==
  TypeOK /\ SpendInv /\ PaidInv /\ [Next]_vars => PaidInv'
BY LaneControlStep, BatchStep, LedgerStep, CheckpointStep DEF PaidInv

LEMMA PaidInit == Init => PaidInv
<1> SUFFICES ASSUME Init PROVE PaidInv
  OBVIOUS
<1>1. LaneControl
  BY LanePcs DEF Init, LaneControl, NoneAsked, NoneYet, NoneUnderWay, OwnLane,
     OwnBatch, Reading
<1>2. \A l \in LaneSet : checkpoints[l] = NoCheckpoint /\ Saved(l) = {}
  BY DEF Init, Saved, NoCheckpoint
<1>3. BatchInv
  BY <1>2, NoneSaid DEF Init, BatchInv, UsedOver, SavedOver, Unwritten,
     SavedOnce, FreshBatch, Reading
<1>4. LedgerInv
  BY NoneSaid DEF Init, LedgerInv, KeysKnown, KeysFresh, IdleEmpty, Unkeyed,
     Accounted, AllRead, Filed, Reading
<1>5. CheckpointInv
  <2>1. \A l \in LaneSet : Settled(disk.entries, l)
    BY <1>2, NoneSaid DEF Settled, NoCheckpoint
  <2> QED
    BY <2>1 DEF Init, CheckpointInv
<1> QED
  BY <1>1, <1>3, <1>4, <1>5 DEF PaidInv

\* Every lane that has a checkpoint, of this invocation or an earlier one, has
\* its turns and its cost, case by case, in the ledger file under the batches the
\* checkpoint names, and every row those batches served is there; unless a torn
\* file was forgotten.
THEOREM CheckpointsArePaidFor == Spec => []CheckpointIsPaidFor
<1>1. Init => TypeOK /\ SpendInv /\ PaidInv
  BY TypeInit, SpendInit, PaidInit
<1>2. TypeOK /\ SpendInv /\ PaidInv /\ [Next]_vars
        => (TypeOK /\ SpendInv /\ PaidInv)'
  BY TypeStep, SpendStep, PaidStep
<1>3. PaidInv => CheckpointIsPaidFor
  BY DEF PaidInv, CheckpointInv, Settled, Accounts, Of, Saved,
     CheckpointIsPaidFor
<1> QED
  BY <1>1, <1>2, <1>3, PTL DEF Spec

-----------------------------------------------------------------------------
(* The report and its accounting.                                          *)

\* A set of entries costs what the parts cost that it is divided into.
LEMMA CostOfParts ==
  ASSUME NEW S \in SUBSET Entries, IsFiniteSet(S), NEW I, IsFiniteSet(I),
         NEW F \in [I -> SUBSET S], NEW f,
         \A i, j \in I : i # j => F[i] \cap F[j] = {},
         \A i \in I : f[i] = CostOf(F[i])
  PROVE  CostOf(UNION {F[i] : i \in I}) = SumFunctionOnSet(f, I)
<1> DEFINE parts(J) == UNION {F[i] : i \in J}
           P == {J \in SUBSET I : CostOf(parts(J)) = SumFunctionOnSet(f, J)}
<1>1. ASSUME NEW J \in SUBSET I, \A K \in SUBSET J : K # J => K \in P
      PROVE  J \in P
  <2>1. CASE J = {}
    <3>1. parts(J) = {}
      BY <2>1
    <3> QED
      BY <2>1, <3>1, CostEmpty, SumEmpty
  <2>2. CASE J # {}
    <3>1. PICK i \in J : TRUE
      BY <2>2
    <3> DEFINE K == J \ {i}
    <3>2. K \in P /\ IsFiniteSet(J)
      BY <1>1, <3>1, FS_Subset
    <3>3. parts(J) = parts(K) \cup F[i] /\ parts(K) \cap F[i] = {}
      BY <3>1
    <3>4. parts(K) \in SUBSET S /\ F[i] \in SUBSET S
      BY <3>1
    <3>5. IsFiniteSet(parts(K)) /\ IsFiniteSet(F[i])
      BY <3>4, FS_Subset
    <3>6. CostOf(parts(J)) = CostOf(parts(K)) + CostOf(F[i])
      <4> HIDE DEF parts, K
      <4>1. CostOf(parts(K) \cup F[i]) = CostOf(parts(K)) + CostOf(F[i])
        BY <3>3, <3>4, <3>5, CostDisjoint
      <4> QED
        BY <3>3, <4>1
    <3>7. CostOf(F[i]) \in Nat /\ CostOf(parts(K)) \in Nat
      <4> HIDE DEF parts, K
      <4> QED
        BY <3>4, <3>5, CostType
    <3>8. SumFunctionOnSet(f, J) = f[i] + SumFunctionOnSet(f, K)
      <4>1. \A j \in J : f[j] \in Nat
        <5> TAKE j \in J
        <5>1. F[j] \in SUBSET S
          OBVIOUS
        <5>2. IsFiniteSet(F[j])
          BY <5>1, FS_Subset
        <5>3. CostOf(F[j]) \in Nat
          BY <5>1, <5>2, CostType
        <5> QED
          BY <5>3
      <4> QED
        BY <3>1, <3>2, <4>1, SumTake
    <3>9. f[i] = CostOf(F[i])
      BY <3>1
    <3>10. CostOf(parts(K)) = SumFunctionOnSet(f, K)
      BY <3>2
    <3> HIDE DEF parts, K
    <3>11. CostOf(parts(J)) = SumFunctionOnSet(f, J)
      BY <3>6, <3>7, <3>8, <3>9, <3>10
    <3> QED
      BY <3>11
  <2> QED
    BY <2>1, <2>2
<1>2. P \in SUBSET SUBSET I
  OBVIOUS
<1> HIDE DEF P
<1>3. P = SUBSET I
  BY <1>1, <1>2, SubsetInduction
<1> QED
  BY <1>3 DEF P

\* What a table has of a lane's batches costs what its checkpoint says.
LEMMA LaneCosts ==
  ASSUME TypeOK, NEW S \in SUBSET Entries, IsFiniteSet(S),
         NEW l \in LaneSet, Settled(S, l)
  PROVE  CostOf({e \in S : e.key[1] \in Saved(l)})
           = SumFunction(checkpoints[l].spent)
<1> DEFINE F == [c \in Cases |-> Of(S, Saved(l), l, c)]
           f == checkpoints[l].spent
<1>1. checkpoints[l] \in CheckpointFiles
  BY DEF TypeOK, StoreOK
<1>2. DOMAIN f = Cases
  BY <1>1 DEF CheckpointFiles, Counts
<1>3. F \in [Cases -> SUBSET S]
  BY DEF Of
<1>4. \A c, d \in Cases : c # d => F[c] \cap F[d] = {}
  BY DEF Of
<1>5. \A c \in Cases : f[c] = CostOf(F[c])
  BY DEF Settled, Accounts
<1>6. UNION {F[c] : c \in Cases} = {e \in S : e.key[1] \in Saved(l)}
  <2>1. ASSUME NEW e \in S, e.key[1] \in Saved(l)
        PROVE  \E c \in Cases : e \in Of(S, Saved(l), l, c)
    <3>1. e.key[2][1] = l
      BY <2>1 DEF Settled, Accounts
    <3>2. e.key[2] \in LaneSet \X Cases
      BY DEF Entries, Calls
    <3>3. e.key[2] = <<l, e.key[2][2]>> /\ e.key[2][2] \in Cases
      BY <3>1, <3>2
    <3> QED
      BY <2>1, <3>3 DEF Of
  <2> QED
    BY <2>1 DEF Of
<1> HIDE DEF F, f
<1>7. CostOf(UNION {F[c] : c \in Cases}) = SumFunctionOnSet(f, Cases)
  BY <1>3, <1>4, <1>5, CostOfParts, MatrixAssumption
<1> QED
  BY <1>2, <1>6, <1>7 DEF SumFunction, f

\* What the accounting attributes to the published lanes.
LEMMA PublishedCosts ==
  ASSUME TypeOK, SavedOnce, NEW S \in SUBSET Entries, IsFiniteSet(S),
         \A l \in LaneSet : Settled(S, l)
  PROVE  CostOf({e \in S : /\ e.lane \notin {"working", "published", "latency"}
                           /\ Published(S, e)})
           = SumFunction([l \in matrix |-> SumFunction(checkpoints[l].spent)])
<1> DEFINE own == {e \in S : /\ e.lane \notin {"working", "published", "latency"}
                             /\ Published(S, e)}
           F == [l \in matrix |-> {e \in S : e.key[1] \in Saved(l)}]
           f == [l \in matrix |-> SumFunction(checkpoints[l].spent)]
<1>1. matrix \subseteq LaneSet /\ IsFiniteSet(matrix)
  BY FiniteCalls, FS_Subset DEF TypeOK, StoreOK
<1>2. own = UNION {F[l] : l \in matrix}
  <2>1. ASSUME NEW e \in S, NEW l \in matrix, e.key[1] \in Saved(l)
        PROVE  e \in own
    <3>1. e.lane = l
      BY <1>1, <2>1 DEF Settled, Accounts
    <3>2. l \notin {"working", "published", "latency"}
      BY <1>1, MatrixAssumption
    <3> QED
      BY <2>1, <3>1, <3>2 DEF Published, Saved
  <2>2. ASSUME NEW e \in own
        PROVE  \E l \in matrix : e.key[1] \in Saved(l)
    BY <2>2 DEF Published, Saved
  <2> HIDE DEF own
  <2>3. own \subseteq S
    BY DEF own
  <2> QED
    BY <2>1, <2>2, <2>3
<1>3. F \in [matrix -> SUBSET S]
  OBVIOUS
<1>4. \A l, m \in matrix : l # m => F[l] \cap F[m] = {}
  BY <1>1 DEF SavedOnce
<1>5. \A l \in matrix : f[l] = CostOf(F[l])
  BY <1>1, LaneCosts
<1> HIDE DEF F
<1>6. CostOf(UNION {F[l] : l \in matrix}) = SumFunctionOnSet(f, matrix)
  <2> HIDE DEF f
  <2> QED
    BY <1>1, <1>3, <1>4, <1>5, CostOfParts
<1> QED
  BY <1>2, <1>6 DEF SumFunction

\* A checkpoint that is written stays as it is.
LEMMA KeptStays ==
  ASSUME TypeOK, LaneControl, BatchInv, [Next]_vars
  PROVE  \A l \in Kept : checkpoints'[l] = checkpoints[l] /\ l \in Kept'
<1>1. CASE checkpoints' = checkpoints
  BY <1>1 DEF Kept
<1>2. CASE checkpoints' # checkpoints
  <2>1. /\ pc = "checkpoint" /\ Lane \in LaneSet
        /\ \A l \in LaneSet \ {Lane} : checkpoints'[l] = checkpoints[l]
    BY <1>2, SavedEffect DEF LaneControl
  <2>2. Lane \notin Kept
    BY <2>1, LanePcs, StageOf DEF LaneControl, OwnLane, Kept
  <2> QED
    BY <2>1, <2>2 DEF Kept
<1> QED
  BY <1>1, <1>2

\* Who changes what is reported.
LEMMA PresentEffect ==
  ASSUME TypeOK, [Next]_vars
  PROVE  \/ present' = {}
         \/ present' = present /\ (pc = "checkpoint" => Stutters \/ Checkpoint)
         \/ /\ present' = present \cup {Lane} /\ Lane \in LaneSet
            /\ pc # "checkpoint"
            /\ \/ FinishLane /\ at' = at
               \/ checkpoints[Lane].file = "written"
<1>1. CASE Checkpoint \/ Stutters
  BY <1>1 DEF Checkpoint, Stutters, vars, runVars
<1>2. CASE FinishLane
  <2>1. Lane \in LaneSet
    BY <1>2, KindsOf, LaneInSet DEF TypeOK, PlaceOK
  <2> QED
    BY <1>2, <2>1, KindsOf DEF FinishLane
<1>3. CASE NextLane
  <2>1. pc = "lane" /\ (at <= Len(Lanes) => Lane \in LaneSet)
    BY <1>3, LaneInSet DEF NextLane, TypeOK, PlaceOK
  <2> QED
    BY <1>3, <2>1 DEF NextLane, Exit, runVars
<1>4. CASE Throw
  BY <1>4 DEF Throw, Exit, LaneFails, runVars
<1>5. CASE Report \/ Crash
  BY <1>5 DEF Report, Crash, Exit
<1>6. CASE StartRound \/ NextChunk \/ Create \/ GiveUp \/ Cancel \/ Read
  BY <1>6 DEF StartRound, NextChunk, Create, GiveUp, Cancel, Read, LaneFails,
     runVars
<1>7. CASE Save \/ ReadAll \/ Judge \/ Latency
  BY <1>7 DEF Save, ReadAll, Judge, Latency, runVars
<1>8. CASE Invoke \/ BatchEnds \/ AbandonedEnds \/ Augment
  BY <1>8 DEF Invoke, BatchEnds, AbandonedEnds, Augment, runVars
<1> QED
  BY <1>1, <1>2, <1>3, <1>4, <1>5, <1>6, <1>7, <1>8 DEF Next, Drive, Stutters

LEMMA PresentStep ==
  ASSUME TypeOK, LaneControl, BatchInv, PresentKept, NonePresent, [Next]_vars
  PROVE  PresentKept' /\ NonePresent'
<1>1. Kept \subseteq Kept'
  BY KeptStays
<1>2. PresentKept'
  <2> USE DEF PresentKept
  <2>1. CASE present' = {}
    BY <2>1
  <2>2. CASE present' = present /\ pc # "checkpoint"
    BY <1>1, <2>2
  <2>3. CASE present' = present /\ Stutters
    BY <1>1, <2>3 DEF Stutters, vars, runVars, Lane
  <2>4. CASE present' = present /\ Checkpoint /\ pc = "checkpoint"
    <3>1. Lane \in LaneSet
      BY <2>4, KindsOf, LaneInSet DEF TypeOK, PlaceOK
    <3>2. Lane \in Kept'
      BY <2>4, <3>1 DEF Checkpoint, Kept, TypeOK, StoreOK
    <3> QED
      BY <1>1, <2>4, <3>2
  <2>5. CASE present' = present \cup {Lane} /\ FinishLane /\ at' = at /\ pc # "checkpoint"
    BY <1>1, <2>5, KindsOf DEF Lane
  <2>6. CASE /\ present' = present \cup {Lane} /\ Lane \in LaneSet
             /\ pc # "checkpoint" /\ checkpoints[Lane].file = "written"
    <3>1. Lane \in Kept
      BY <2>6 DEF Kept
    <3> QED
      BY <1>1, <2>6, <3>1
  <2> QED
    BY <2>1, <2>2, <2>3, <2>4, <2>5, <2>6, PresentEffect
<1>3. NonePresent'
  <2> USE DEF NonePresent
  <2>1. CASE Leaves
    <3>1. LaneFails \/ (NextStage /\ pc # "report") => pc' # "idle"
      BY <2>1, Leaving DEF Leaves, LaneFails
    <3> QED
      BY <2>1, <3>1 DEF Leaves, Exit
  <2>2. CASE Afterwards \/ Stutters
    BY <2>2, KindsOf DEF Afterwards, AbandonedEnds, Augment, Stutters, vars, runVars
  <2>3. CASE ~Leaves /\ ~Afterwards /\ ~Stutters
    BY <2>3, StepKinds, KindsOf DEF EntersLane, Rounds
  <2> QED
    BY <2>1, <2>2, <2>3
<1> QED
  BY <1>2, <1>3

\* The report and the accounting.
LEMMA PublishedEffect ==
  [Next]_vars => /\ matrix' = matrix \/ Report
                 /\ account' = account \/ Augment
<1>1. CASE Invoke \/ NextLane \/ StartRound \/ NextChunk \/ Create \/ GiveUp
  BY <1>1 DEF Invoke, NextLane, StartRound, NextChunk, Create, GiveUp, diskVars
<1>2. CASE Cancel \/ Read \/ ReadAll \/ FinishLane \/ Save \/ Judge \/ Checkpoint
  BY <1>2 DEF Cancel, Read, ReadAll, FinishLane, Save, Judge, Checkpoint, diskVars
<1>3. CASE Latency \/ Report \/ BatchEnds \/ AbandonedEnds \/ Augment \/ UNCHANGED vars
  BY <1>3 DEF Latency, Report, BatchEnds, AbandonedEnds, Augment, diskVars, vars
<1>4. CASE Throw \/ Crash
  BY <1>4 DEF Throw, Crash
<1> QED
  BY <1>1, <1>2, <1>3, <1>4 DEF Next, Drive

LEMMA ReportKeptStep ==
  ASSUME TypeOK, LaneControl, BatchInv, ReportInv, [Next]_vars
  PROVE  ReportKept'
<1>1. Kept \subseteq Kept'
  BY KeptStays
<1>2. Report => matrix' = present /\ present \subseteq Kept
  BY DEF Report, ReportInv, PresentKept
<1>3. Augment => account'.lanes = matrix
  BY DEF Augment
<1> QED
  BY <1>1, <1>2, <1>3, PublishedEffect DEF ReportInv, ReportKept

LEMMA PublishedStep ==
  ASSUME TypeOK, TypeOK', SpendInv, PaidInv, ReportInv, [Next]_vars
  PROVE  PublishedIsMeasured'
<1> SUFFICES ASSUME ~forgotten' PROVE PublishedIsMeasured'
  BY DEF PublishedIsMeasured
<1>1. ~forgotten
  BY ForgottenStays
<1>2. CASE account' = account
  <2>1. \A l \in account.lanes : checkpoints'[l] = checkpoints[l]
    BY KeptStays DEF PaidInv, ReportInv, ReportKept
  <2>2. [l \in account.lanes |-> SumFunction(checkpoints'[l].spent)]
          = [l \in account.lanes |-> SumFunction(checkpoints[l].spent)]
    BY <2>1
  <2>3. account.published =
          SumFunction([l \in account.lanes |-> SumFunction(checkpoints[l].spent)])
    BY <1>1 DEF ReportInv, PublishedIsMeasured
  <2> QED
    BY <1>2, <2>2, <2>3 DEF PublishedIsMeasured
<1>3. CASE Augment
  <2>1. PICK S \in {disk.entries, disk.entries \cup Unrecorded(disk.entries)} :
          /\ disk' = [disk EXCEPT !.entries = S]
          /\ account' = [lanes |-> matrix,
                         published |-> CostOf({e \in S :
                           /\ e.lane \notin {"working", "published", "latency"}
                           /\ Published(S, e)})]
    BY <1>3 DEF Augment
  <2>2. checkpoints' = checkpoints /\ batches' = batches
    BY <1>3 DEF Augment
  <2>3. disk'.entries = S
    BY <2>1 DEF TypeOK, StoreOK
  <2>4. S \in SUBSET Entries /\ IsFiniteSet(S)
    BY <2>3 DEF TypeOK, StoreOK
  <2>5. \A l \in LaneSet : Settled(S, l)
    <3> TAKE l \in LaneSet
    <3>1. Settled(disk.entries, l)'
      BY <1>1, <2>2, DiskSettled DEF PaidInv
    <3> QED
      BY <2>2, <2>3, <3>1 DEF Settled, Saved
  <2>6. SavedOnce
    BY DEF PaidInv, BatchInv
  <2>7. account'.published
          = SumFunction([l \in matrix |-> SumFunction(checkpoints[l].spent)])
    BY <2>1, <2>4, <2>5, <2>6, PublishedCosts
  <2>8. account'.lanes = matrix
    BY <2>1
  <2> QED
    BY <2>2, <2>7, <2>8 DEF PublishedIsMeasured
<1> QED
  BY <1>2, <1>3, PublishedEffect

LEMMA ReportInit == Init => ReportInv
<1> SUFFICES ASSUME Init PROVE ReportInv
  OBVIOUS
<1>1. SumFunction([l \in {} |-> SumFunction(checkpoints[l].spent)]) = 0
  BY SumEmpty DEF SumFunction
<1> QED
  BY <1>1 DEF Init, ReportInv, PresentKept, NonePresent, ReportKept,
     PublishedIsMeasured

LEMMA ReportStep ==
  TypeOK /\ SpendInv /\ PaidInv /\ ReportInv /\ [Next]_vars => ReportInv'
BY TypeStep, PresentStep, ReportKeptStep, PublishedStep DEF PaidInv, ReportInv

\* What the accounting attributes to the published matrix is the sum of what the
\* records of its lanes cost: no entry of a first attempt, of a sweep or of the
\* judge is taken in, and none is left out or taken twice.
THEOREM PublishedStaysMeasured == Spec => []PublishedIsMeasured
<1>1. Init => TypeOK /\ SpendInv /\ PaidInv /\ ReportInv
  BY TypeInit, SpendInit, PaidInit, ReportInit
<1>2. TypeOK /\ SpendInv /\ PaidInv /\ ReportInv /\ [Next]_vars
        => (TypeOK /\ SpendInv /\ PaidInv /\ ReportInv)'
  BY TypeStep, SpendStep, PaidStep, ReportStep
<1>3. ReportInv => PublishedIsMeasured
  BY DEF ReportInv
<1> QED
  BY <1>1, <1>2, <1>3, PTL DEF Spec
=============================================================================
