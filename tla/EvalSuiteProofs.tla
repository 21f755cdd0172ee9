--------------------------- MODULE EvalSuiteProofs ---------------------------
(***************************************************************************)
(* Proofs about EvalSuite for any golden cases, documents, parsers,        *)
(* extractions, proposals and baselines, any number of turns and edits.    *)
(*                                                                         *)
(* The graders and the policy run loops, so the module starts with what a  *)
(* loop over a sequence computes, by induction on its steps, and goes on   *)
(* with what the two loops of the model leave behind: expected calls that  *)
(* are met in order, and a route that no guardrail raised.  The invariants *)
(* are                                                                     *)
(*   HealInv      what a recording has written so far is what the tree's   *)
(*                pipeline records, unless the tree changed since it began *)
(*   SessionInv   what a session drafted, recorded, paid and ended as      *)
(*   LiveInv      a graded lane has closed sessions, and its report is     *)
(*                what they grade to under goldens that were retagged      *)
(***************************************************************************)
EXTENDS EvalSuite, FiniteSetTheorems, SequenceTheorems, WellFoundedInduction,
        TLAPS

-----------------------------------------------------------------------------
(* Induction, and loops.                                                    *)

LEMMA NaturalInduction ==
  ASSUME NEW S, 0 \in S, \A n \in Nat : n \in S => n + 1 \in S
  PROVE  Nat \subseteq S
<1> DEFINE T == Nat \ S
<1>1. SUFFICES ASSUME T # {} PROVE FALSE
  OBVIOUS
<1>2. T \subseteq Nat
  OBVIOUS
<1> HIDE DEF T
<1>3. PICK n \in T : \A m \in T : ~(<<m, n>> \in OpToRel(<, Nat))
  BY <1>1, <1>2, NatLessThanWellFounded, WFMin
<1>4. \A m \in T : ~(m < n)
  BY <1>2, <1>3 DEF OpToRel
<1>5. n # 0 /\ n \in Nat /\ n \notin S
  BY DEF T
<1>6. n - 1 \in Nat /\ n - 1 \notin T
  BY <1>4, <1>5
<1> QED
  BY <1>5, <1>6 DEF T

\* It stays in a set that no step leaves.
LEMMA StaysIn ==
  ASSUME NEW S, NEW n \in Nat, NEW f,
         f[0] \in S, \A k \in 1..n : f[k - 1] \in S => f[k] \in S
  PROVE  \A k \in 0..n : f[k] \in S
<1> DEFINE P == {k \in Nat : k > n \/ f[k] \in S}
<1>1. 0 \in P
  OBVIOUS
<1>2. ASSUME NEW k \in Nat, k \in P PROVE k + 1 \in P
  <2>1. CASE k + 1 > n
    BY <2>1
  <2>2. CASE k + 1 \in 1..n
    <3>1. f[k] \in S
      BY <1>2, <2>2
    <3>2. k + 1 - 1 = k
      OBVIOUS
    <3>3. f[k + 1] \in S
      BY <2>2, <3>1, <3>2
    <3> QED
      BY <3>3
  <2> QED
    BY <2>1, <2>2
<1> HIDE DEF P
<1>3. Nat \subseteq P
  BY <1>1, <1>2, NaturalInduction
<1>4. ASSUME NEW k \in 0..n PROVE f[k] \in S
  <2>1. k \in Nat /\ ~(k > n)
    OBVIOUS
  <2> QED
    BY <1>3, <2>1 DEF P
<1> QED
  BY <1>4

\* f is the run of a loop of n steps through S.
Walk(f, S, base, Step, n) ==
  /\ f \in [0..n -> S]
  /\ f[0] = base
  /\ \A k \in 1..n : f[k] = Step[<<k, f[k - 1]>>]

\* No step of the loop leaves S.
Closed(S, Step, n) == \A k \in 1..n, s \in S : Step[<<k, s>>] \in S

\* A loop whose steps stay in a set has a function, with values there.
LEMMA Iterated ==
  ASSUME NEW S, NEW base, base \in S, NEW Step, NEW n, n \in Nat,
         Closed(S, Step, n)
  PROVE  \E f : Walk(f, S, base, Step, n)
<1> DEFINE Is(f, m) == /\ f \in [0..m -> S]
                       /\ f[0] = base
                       /\ \A k \in 1..m : f[k] = Step[<<k, f[k - 1]>>]
           P == {m \in Nat : m > n \/ \E f : Is(f, m)}
<1>1. 0 \in P
  <2>1. Is([k \in 0..0 |-> base], 0)
    OBVIOUS
  <2> QED
    BY <2>1
<1>2. ASSUME NEW m \in Nat, m \in P PROVE m + 1 \in P
  <2>1. CASE m + 1 > n
    BY <2>1
  <2>2. CASE m + 1 \in 1..n
    <3>1. PICK f : Is(f, m)
      BY <1>2, <2>2
    <3> DEFINE g == [k \in 0..(m + 1) |->
                       IF k = m + 1 THEN Step[<<m + 1, f[m]>>] ELSE f[k]]
    <3>2. f[m] \in S
      BY <3>1
    <3>3. Step[<<m + 1, f[m]>>] \in S
      BY <2>2, <3>2 DEF Closed
    <3>4. g \in [0..(m + 1) -> S]
      BY <3>1, <3>3
    <3>5. g[0] = base
      BY <3>1
    <3>6. ASSUME NEW k \in 1..(m + 1) PROVE g[k] = Step[<<k, g[k - 1]>>]
      <4>1. CASE k = m + 1
        <5>1. k - 1 = m /\ m \in 0..(m + 1) /\ m # m + 1
          BY <4>1
        <5>2. g[k] = Step[<<m + 1, f[m]>>] /\ g[m] = f[m]
          BY <4>1, <5>1
        <5> QED
          BY <4>1, <5>1, <5>2
      <4>2. CASE k # m + 1
        <5>1. k \in 1..m /\ k \in 0..(m + 1) /\ k - 1 \in 0..(m + 1)
              /\ k - 1 # m + 1
          BY <4>2
        <5> QED
          BY <3>1, <4>2, <5>1
      <4> QED
        BY <4>1, <4>2
    <3> HIDE DEF g
    <3>7. Is(g, m + 1)
      BY <3>4, <3>5, <3>6
    <3> QED
      BY <3>7
  <2> QED
    BY <2>1, <2>2
<1> HIDE DEF P
<1>3. n \in P
  BY <1>1, <1>2, NaturalInduction
<1>4. \E f : Is(f, n)
  BY <1>3 DEF P
<1> QED
  BY <1>4 DEF Walk

\* What the pass over the calls computes.
LEMMA CursorMoves ==
  ASSUME NEW expected, NEW actual, Len(actual) \in Nat, Len(expected) \in Nat,
         IsOrderedSubsequence(expected, actual)
  PROVE  \E c \in [0..Len(actual) -> 0..Len(expected)] :
           /\ c[0] = 0 /\ c[Len(actual)] = Len(expected)
           /\ \A n \in 1..Len(actual) :
                c[n] = Advanced(expected, actual[n], c[n - 1])
<1> DEFINE N == Len(actual)
           S == 0..Len(expected)
           Step == [z \in (1..N) \X S |->
                      Advanced(expected, actual[z[1]], z[2])]
           Is(f) == f = [n \in 0..N |->
                           IF n = 0 THEN 0
                           ELSE Advanced(expected, actual[n], f[n - 1])]
           cursor[n \in 0..N] ==
             IF n = 0 THEN 0 ELSE Advanced(expected, actual[n], cursor[n - 1])
<1>1. cursor[N] = Len(expected)
  BY DEF IsOrderedSubsequence
<1>2. \A k \in 1..N, s \in S :
        /\ Step[<<k, s>>] = Advanced(expected, actual[k], s)
        /\ Step[<<k, s>>] \in S
  BY DEF Advanced
<1> HIDE DEF Step
<1>3. \E f : Walk(f, S, 0, Step, N)
  <2>1. 0 \in S /\ N \in Nat
    OBVIOUS
  <2>2. Closed(S, Step, N)
    BY <1>2 DEF Closed
  <2> HIDE DEF N, S
  <2> QED
    BY <2>1, <2>2, Iterated
<1>4. PICK f : Is(f)
  <2>1. PICK f : Walk(f, S, 0, Step, N)
    BY <1>3
  <2>2. f \in [0..N -> S] /\ f[0] = 0
        /\ \A k \in 1..N : f[k] = Step[<<k, f[k - 1]>>]
    BY <2>1 DEF Walk
  <2>3. ASSUME NEW n \in 0..N
        PROVE  f[n] = IF n = 0 THEN 0
                      ELSE Advanced(expected, actual[n], f[n - 1])
    <3>1. CASE n = 0
      BY <2>2, <3>1
    <3>2. CASE n \in 1..N
      <4>1. n - 1 \in 0..N /\ n # 0
        BY <3>2
      <4>2. f[n - 1] \in S
        BY <2>2, <4>1
      <4> QED
        BY <1>2, <2>2, <3>2, <4>1, <4>2
    <3> QED
      BY <3>1, <3>2
  <2>4. Is(f)
    BY <2>2, <2>3
  <2> QED
    BY <2>4
<1>5. Is(cursor)
  BY <1>4
<1> HIDE DEF cursor
<1>6. ASSUME NEW n \in 1..N
      PROVE  cursor[n] = Advanced(expected, actual[n], cursor[n - 1])
  <2>1. n \in 0..N /\ n # 0
    OBVIOUS
  <2> QED
    BY <1>5, <2>1
<1>7. cursor[0] = 0 /\ DOMAIN cursor = 0..N
  BY <1>5
<1>8. cursor = [k \in 0..N |-> cursor[k]]
  BY <1>5
<1>9. ASSUME NEW k \in 1..N, cursor[k - 1] \in S PROVE cursor[k] \in S
  <2>1. cursor[k] = Advanced(expected, actual[k], cursor[k - 1])
    BY <1>6
  <2> HIDE <1>6
  <2> QED
    BY <1>9, <2>1 DEF Advanced
<1>10. cursor \in [0..N -> S]
  <2>1. \A k \in 0..N : cursor[k] \in S
    <3>1. cursor[0] \in S
      BY <1>7
    <3> QED
      BY <1>9, <3>1, StaysIn
  <2> QED
    BY <1>7, <1>8, <2>1
<1> QED
  BY <1>1, <1>6, <1>7, <1>10

\* A pass that meets all the expected calls has met each at a later place
\* than those before it.
LEMMA OrderedIsEmbedded ==
  ASSUME NEW expected, NEW actual, DOMAIN expected = 1..Len(expected),
         DOMAIN actual = 1..Len(actual),
         Len(actual) \in Nat, Len(expected) \in Nat,
         IsOrderedSubsequence(expected, actual)
  PROVE  Embedded(expected, actual)
<1>1. PICK c \in [0..Len(actual) -> 0..Len(expected)] :
        /\ c[0] = 0 /\ c[Len(actual)] = Len(expected)
        /\ \A n \in 1..Len(actual) :
             c[n] = Advanced(expected, actual[n], c[n - 1])
  BY CursorMoves
<1> DEFINE N == Len(actual)
\* Each place is met at some call, and never before the places before it.
<1>2. ASSUME NEW n \in 1..N
      PROVE  /\ n - 1 \in 0..N /\ n \in 0..N
             /\ \/ c[n] = c[n - 1]
                \/ /\ c[n] = c[n - 1] + 1
                   /\ actual[n] = expected[c[n]]
  <2>1. n - 1 \in 0..N /\ n \in 0..N
    OBVIOUS
  <2>2. c[n] = Advanced(expected, actual[n], c[n - 1])
    BY <1>1
  <2> QED
    BY <2>1, <2>2 DEF Advanced
<1>3. ASSUME NEW n \in Nat, n + 1 \in 1..N
       PROVE  c[n + 1] = c[n] \/ c[n + 1] = c[n] + 1
  <2> DEFINE m == n + 1
  <2>1. m \in 1..N /\ m - 1 = n
    BY <1>3
  <2> HIDE DEF m
  <2>2. c[m] = c[m - 1] \/ c[m] = c[m - 1] + 1
    BY <1>2, <2>1
  <2>3. c[m] = c[n] \/ c[m] = c[n] + 1
    BY <2>1, <2>2
  <2> QED
    BY <2>3 DEF m
<1> DEFINE Met(i) == {n \in 1..N : c[n] = i /\ c[n - 1] = i - 1}
           P == {n \in Nat : n <= N => \A i \in 1..c[n] :
                   \E k \in 1..n : k \in Met(i)}
<1>4. ASSUME NEW i \in 1..Len(expected) PROVE Met(i) # {}
  <2>1. 0 \in P
    BY <1>1
  <2>2. ASSUME NEW n \in Nat, n \in P PROVE n + 1 \in P
    <3>1. SUFFICES ASSUME n + 1 <= N, NEW j \in 1..c[n + 1]
                   PROVE  \E k \in 1..(n + 1) : k \in Met(j)
      OBVIOUS
    <3>2. n + 1 \in 1..N /\ n \in 0..N /\ n + 1 - 1 = n /\ n <= N
      BY <3>1
    <3>3. c[n + 1] = c[n] \/ c[n + 1] = c[n] + 1
      BY <1>3, <3>2
    <3>4. c[n] \in Nat /\ c[n + 1] \in Nat
      BY <1>1, <3>2
    <3>5. CASE j \in 1..c[n]
      <4>1. PICK k \in 1..n : k \in Met(j)
        BY <2>2, <3>2, <3>5
      <4> QED
        BY <4>1
    <3>6. CASE j \notin 1..c[n]
      <4>1. c[n + 1] = c[n] + 1 /\ j = c[n + 1]
        BY <3>3, <3>4, <3>6
      <4>2. n + 1 \in Met(j)
        BY <3>2, <3>4, <4>1
      <4> QED
        BY <3>2, <4>2
    <3> QED
      BY <3>5, <3>6
  <2> HIDE DEF P
  <2>3. N \in P
    BY <2>1, <2>2, NaturalInduction
  <2>4. \A j \in 1..c[N] : \E k \in 1..N : k \in Met(j)
    BY <2>3 DEF P
  <2>5. i \in 1..c[N]
    BY <1>1
  <2> HIDE DEF Met
  <2> QED
    BY <2>4, <2>5
<1>5. ASSUME NEW m \in 0..N, NEW n \in 0..N, m <= n PROVE c[m] <= c[n]
  <2> DEFINE Q == {k \in Nat : m + k <= N => c[m] <= c[m + k]}
  <2>1. 0 \in Q
    BY <1>1
  <2>2. ASSUME NEW k \in Nat, k \in Q PROVE k + 1 \in Q
    <3>1. SUFFICES ASSUME m + (k + 1) <= N PROVE c[m] <= c[m + (k + 1)]
      OBVIOUS
    <3>2. /\ m + (k + 1) \in 1..N /\ m + (k + 1) - 1 = m + k
          /\ m + k \in 0..N /\ m + k <= N /\ m + (k + 1) \in 0..N
      BY <3>1
    <3>3. c[m + (k + 1)] = c[m + k] \/ c[m + (k + 1)] = c[m + k] + 1
      <4> DEFINE l == m + k
      <4>1. l \in Nat /\ l + 1 \in 1..N /\ m + (k + 1) = l + 1
        BY <3>2
      <4> HIDE DEF l
      <4>2. c[l + 1] = c[l] \/ c[l + 1] = c[l] + 1
        BY <1>3, <4>1
      <4>3. c[m + (k + 1)] = c[l] \/ c[m + (k + 1)] = c[l] + 1
        BY <4>1, <4>2
      <4> QED
        BY <4>3 DEF l
    <3>4. c[m] <= c[m + k]
      BY <2>2, <3>2
    <3>5. c[m] \in Nat /\ c[m + k] \in Nat /\ c[m + (k + 1)] \in Nat
      <4>1. \A n1 \in 0..N : c[n1] \in Nat
        OBVIOUS
      <4> HIDE <1>1
      <4> QED
        BY <3>2, <4>1
    <3> QED
      BY <3>3, <3>4, <3>5
  <2> HIDE DEF Q
  <2>3. n - m \in Nat /\ n - m \in Q
    BY <1>5, <2>1, <2>2, NaturalInduction
  <2>4. m + (n - m) = n
    OBVIOUS
  <2> QED
    BY <2>3, <2>4 DEF Q
<1> DEFINE at == [i \in DOMAIN expected |-> CHOOSE n \in Met(i) : TRUE]
<1>6. ASSUME NEW i \in DOMAIN expected PROVE at[i] \in Met(i)
  BY <1>4
<1> HIDE DEF at
<1>7. at \in [DOMAIN expected -> DOMAIN actual]
  BY <1>6 DEF at
<1>8. ASSUME NEW i \in DOMAIN expected PROVE actual[at[i]] = expected[i]
  <2>1. at[i] \in 1..N /\ c[at[i]] = i /\ c[at[i] - 1] = i - 1
    BY <1>6
  <2>2. i \in Nat /\ i # i - 1
    OBVIOUS
  <2> QED
    BY <1>2, <2>1, <2>2
<1>9. ASSUME NEW i \in DOMAIN expected, NEW k \in 1..(i - 1)
      PROVE  at[k] < at[i]
  <2>1. k \in DOMAIN expected /\ k < i /\ i \in Int /\ k \in Int
    OBVIOUS
  <2>2. /\ at[i] \in 1..N /\ c[at[i]] = i /\ c[at[i] - 1] = i - 1
        /\ at[k] \in 1..N /\ c[at[k]] = k
    BY <1>6, <2>1
  <2>3. at[i] \in 0..N /\ at[k] \in 0..N
    BY <2>2
  <2>4. ~(at[i] <= at[k])
    BY <1>5, <2>1, <2>2, <2>3
  <2> QED
    BY <2>3, <2>4
<1> QED
  BY <1>7, <1>8, <1>9 DEF Embedded

-----------------------------------------------------------------------------
(* The policy over an extraction.                                          *)

\* What the pass over the guardrail results leaves as it is was never raised.
LEMMA ConstrainedToAuto ==
  ASSUME NEW route, NEW guardrails, Len(guardrails) \in Nat,
         ConstrainRoute(route, guardrails) = "auto_approve"
  PROVE  /\ route = "auto_approve"
         /\ \A i \in 1..Len(guardrails) : ~guardrails[i].block
<1> DEFINE N == Len(guardrails)
           S == Decisions \cup {route}
           Step == [z \in (1..N) \X S |-> Raised(z[2], guardrails[z[1]])]
           Is(f) == f = [n \in 0..N |->
                           IF n = 0 THEN route
                           ELSE Raised(f[n - 1], guardrails[n])]
           after[n \in 0..N] ==
             IF n = 0 THEN route ELSE Raised(after[n - 1], guardrails[n])
<1>1. after[N] = "auto_approve"
  BY DEF ConstrainRoute
<1>2. \A k \in 1..N, s \in S :
        /\ Step[<<k, s>>] = Raised(s, guardrails[k])
        /\ Step[<<k, s>>] \in S
  BY DEF Raised, Minimum, Decisions
<1> HIDE DEF Step
<1>3. \E f : Walk(f, S, route, Step, N)
  <2>1. route \in S /\ N \in Nat
    OBVIOUS
  <2>2. Closed(S, Step, N)
    BY <1>2 DEF Closed
  <2> HIDE DEF N, S
  <2> QED
    BY <2>1, <2>2, Iterated
<1>4. PICK f : Is(f)
  <2>1. PICK f : Walk(f, S, route, Step, N)
    BY <1>3
  <2>2. f \in [0..N -> S] /\ f[0] = route
        /\ \A k \in 1..N : f[k] = Step[<<k, f[k - 1]>>]
    BY <2>1 DEF Walk
  <2> HIDE DEF S
  <2>3. ASSUME NEW n \in 0..N
        PROVE  f[n] = IF n = 0 THEN route
                      ELSE Raised(f[n - 1], guardrails[n])
    <3>1. CASE n = 0
      BY <2>2, <3>1
    <3>2. CASE n \in 1..N
      <4>1. n - 1 \in 0..N /\ n # 0
        BY <3>2
      <4>2. f[n - 1] \in S
        BY <2>2, <4>1
      <4> QED
        BY <1>2, <2>2, <3>2, <4>1, <4>2
    <3> QED
      BY <3>1, <3>2
  <2>4. Is(f)
    BY <2>2, <2>3
  <2> QED
    BY <2>4
<1>5. Is(after)
  BY <1>4
<1> HIDE DEF after
<1>6. ASSUME NEW n \in 1..N
      PROVE  after[n] = Raised(after[n - 1], guardrails[n])
  <2>1. n \in 0..N /\ n # 0
    OBVIOUS
  <2> QED
    BY <1>5, <2>1
<1>7. after[0] = route
  BY <1>5
\* Read from the last result backwards.
<1> DEFINE P == {k \in Nat : k <= N =>
                   /\ after[N - k] = "auto_approve"
                   /\ \A i \in (N - k + 1)..N : ~guardrails[i].block}
<1>8. 0 \in P
  BY <1>1
<1>9. ASSUME NEW k \in Nat, k \in P PROVE k + 1 \in P
  <2>1. SUFFICES ASSUME k + 1 <= N
                 PROVE  /\ after[N - (k + 1)] = "auto_approve"
                        /\ \A i \in (N - (k + 1) + 1)..N : ~guardrails[i].block
    OBVIOUS
  <2>2. N - k \in 1..N /\ N - k - 1 = N - (k + 1) /\ k <= N
        /\ N - (k + 1) + 1 = N - k
    BY <2>1
  <2>3. /\ after[N - k] = "auto_approve"
        /\ \A i \in (N - k + 1)..N : ~guardrails[i].block
    BY <1>9, <2>2
  <2>4. after[N - k] = Raised(after[N - (k + 1)], guardrails[N - k])
    BY <1>6, <2>2
  <2>5. /\ after[N - (k + 1)] = "auto_approve"
        /\ ~guardrails[N - k].block
    BY <2>3, <2>4 DEF Raised, Raises, Minimum, Severity
  <2>6. \A i \in (N - k)..N : i = N - k \/ i \in (N - k + 1)..N
    <3>1. N - k \in Int /\ N \in Int
      OBVIOUS
    <3> HIDE DEF N
    <3> QED
      BY <3>1
  <2> QED
    BY <2>2, <2>3, <2>5, <2>6
<1> HIDE DEF P
<1>10. N \in P
  BY <1>8, <1>9, NaturalInduction
<1>11. N - N = 0 /\ N - N + 1 = 1
  OBVIOUS
<1> QED
  BY <1>7, <1>10, <1>11 DEF P

\* The two readings of the policy meet, and a duplicate never pays itself.
LEMMA DisposedToAuto ==
  ASSUME NEW proposal, NEW x, NEW document, NEW ledger,
         x.total_cents \in Int, HARD_FLOOR_CENTS \in Int,
         Disposed(proposal, x, document, ledger) = "auto_approve"
  PROVE  LET facts == Facts(x, document, ledger)
         IN  /\ CanAutoApprove("autonomous", "auto_approve", facts,
                               Guardrails(facts))
             /\ Posts(x) \notin ledger
<1> DEFINE facts == Facts(x, document, ledger)
           route == Propose(proposal, facts,
                            MatchInvoice(facts, OrderOf(x), None))
<1>1. /\ facts.total = x.total_cents
      /\ facts.note = "none"
      /\ facts.duplicate = (Posts(x) \in ledger)
  BY DEF Facts
<1> HIDE DEF facts
<1>2. Guardrails(facts) = <<Result("GR-INJECT", facts.injection),
                            Result("GR-FLOOR",
                                   facts.total >= HARD_FLOOR_CENTS),
                            Result("GR-VENDOR", facts.vendor = None),
                            Result("GR-DUP", facts.duplicate)>>
  BY <1>1 DEF Guardrails
<1>3. Len(Guardrails(facts)) = 4 /\ DOMAIN Guardrails(facts) = 1..4
  BY <1>2
<1>4. ConstrainRoute(route, Guardrails(facts)) = "auto_approve"
  BY DEF Disposed, facts
<1> HIDE DEF route
<1>5. /\ route = "auto_approve"
      /\ \A i \in 1..4 : ~Guardrails(facts)[i].block
  <2>1. Len(Guardrails(facts)) \in Nat
    BY <1>3
  <2>2. \A i \in 1..Len(Guardrails(facts)) : ~Guardrails(facts)[i].block
    BY <1>4, <2>1, ConstrainedToAuto
  <2>3. route = "auto_approve"
    BY <1>4, <2>1, ConstrainedToAuto
  <2> QED
    BY <1>3, <2>2, <2>3
<1>6. ~(facts.total >= HARD_FLOOR_CENTS) /\ facts.vendor # None
  <2>1. /\ Guardrails(facts)[2]
             = Result("GR-FLOOR", facts.total >= HARD_FLOOR_CENTS)
        /\ Guardrails(facts)[3] = Result("GR-VENDOR", facts.vendor = None)
    BY <1>2
  <2>2. ~Guardrails(facts)[2].block /\ ~Guardrails(facts)[3].block
    BY <1>5
  <2>3. ~Result("GR-FLOOR", facts.total >= HARD_FLOOR_CENTS).block
    BY <2>1, <2>2
  <2>4. ~Result("GR-VENDOR", facts.vendor = None).block
    BY <2>1, <2>2
  <2> QED
    BY <2>3, <2>4 DEF Result
<1>7. DecideRoute(facts, MatchInvoice(facts, OrderOf(x), None))
        = "auto_approve"
  BY <1>5 DEF route, Propose, MoreSevere, Severity, DecideRoute
<1>8. facts.total <= AUTONOMY_CAP_CENTS /\ ~facts.duplicate
  BY <1>7 DEF DecideRoute
<1>9. facts.total < HARD_FLOOR_CENTS
  BY <1>1, <1>6
<1> QED
  BY <1>1, <1>3, <1>5, <1>6, <1>8, <1>9 DEF CanAutoApprove, facts

-----------------------------------------------------------------------------
(* The graders.                                                            *)

\* What the elements of concatenated sequences are.
LEMMA ConcatElements ==
  ASSUME NEW S, NEW s \in Seq(S), NEW t \in Seq(S)
  PROVE  s \o t \in Seq(S) /\ ToSet(s \o t) = ToSet(s) \cup ToSet(t)
<1>1. /\ s \o t \in Seq(S) /\ Len(s \o t) = Len(s) + Len(t)
      /\ Len(s) \in Nat /\ Len(t) \in Nat
      /\ DOMAIN s = 1..Len(s) /\ DOMAIN t = 1..Len(t)
      /\ DOMAIN (s \o t) = 1..(Len(s) + Len(t))
  OBVIOUS
<1>2. \A i \in 1..Len(s) : i \in DOMAIN (s \o t) /\ (s \o t)[i] = s[i]
  BY <1>1
<1>3. \A i \in 1..Len(t) : /\ Len(s) + i \in DOMAIN (s \o t)
                           /\ (s \o t)[Len(s) + i] = t[i]
  BY <1>1
<1>4. ASSUME NEW i \in DOMAIN (s \o t)
      PROVE  i \in 1..Len(s) \/ \E k \in 1..Len(t) : i = Len(s) + k
  <2>1. i \notin 1..Len(s) => i - Len(s) \in 1..Len(t)
    BY <1>1
  <2>2. i = Len(s) + (i - Len(s))
    BY <1>1
  <2> QED
    BY <2>1, <2>2
<1>5. ASSUME NEW e, e \in ToSet(s \o t) PROVE e \in ToSet(s) \cup ToSet(t)
  <2>1. PICK i \in DOMAIN (s \o t) : e = (s \o t)[i]
    BY <1>5 DEF ToSet
  <2>2. CASE i \in 1..Len(s)
    BY <1>1, <1>2, <2>1, <2>2 DEF ToSet
  <2>3. CASE \E k \in 1..Len(t) : i = Len(s) + k
    BY <1>1, <1>3, <2>1, <2>3 DEF ToSet
  <2> QED
    BY <1>4, <2>2, <2>3
<1>6. ASSUME NEW i \in DOMAIN s PROVE s[i] \in ToSet(s \o t)
  BY <1>1, <1>2 DEF ToSet
<1>7. ASSUME NEW i \in DOMAIN t PROVE t[i] \in ToSet(s \o t)
  BY <1>1, <1>3 DEF ToSet
<1>8. ToSet(s) \cup ToSet(t) \subseteq ToSet(s \o t)
  BY <1>6, <1>7 DEF ToSet
<1> QED
  BY <1>1, <1>5, <1>8

IsSequence(s) == DOMAIN s = 1..Len(s) /\ Len(s) \in Nat /\ s \in Seq(ToSet(s))

LEMMA KnownIsSequence ==
  ASSUME NEW m \in Seq(KnownTools) PROVE IsSequence(m)
<1>1. DOMAIN m = 1..Len(m) /\ Len(m) \in Nat
  OBVIOUS
<1>2. m = [i \in 1..Len(m) |-> m[i]]
  OBVIOUS
<1>3. \A i \in 1..Len(m) : m[i] \in ToSet(m)
  BY <1>1 DEF ToSet
<1>4. m \in [1..Len(m) -> ToSet(m)]
  BY <1>2, <1>3
<1> QED
  BY <1>1, <1>4, SeqDef DEF IsSequence

ForbiddenCall(name, outcome) ==
  Graded("must_not_call", name \notin ToSet(outcome.tool_calls),
         IF name = "execute_action" THEN <<"GRD", 4>> ELSE <<"TOOL", 3>>)

\* The checks of the first layer.
Layer1Checks(golden, outcome) ==
  {Graded("run_completed", outcome.terminal_state \in CompletedStates,
          SysCode(outcome)),
   Graded("output_schema", outcome.output_schema_valid,
          IF outcome.drafted_text THEN <<"FMT", 1>> ELSE <<"FMT", 2>>),
   GradeGuardrail(golden, outcome),
   Graded("tool_calls_present",
          ToSet(golden.tool_calls) \ ToSet(outcome.tool_calls) = {},
          <<"TOOL", 1>>),
   IF ToSet(golden.tool_calls) \ ToSet(outcome.tool_calls) # {}
   THEN SkipCheck("tool_calls_ordered")
   ELSE Graded("tool_calls_ordered",
               IsOrderedSubsequence(golden.tool_calls, outcome.tool_calls),
               <<"TOOL", 4>>),
   GradeTotalCents(golden, outcome), GradeDecision(golden, outcome)}
  \cup {ForbiddenCall(golden.must_not_call[i], outcome) :
          i \in DOMAIN golden.must_not_call}
  \cup {GradeTextField(TextFields[i], golden, outcome) :
          i \in DOMAIN TextFields}

LEMMA Layer1 ==
  ASSUME NEW golden, NEW outcome, IsSequence(golden.must_not_call)
  PROVE  /\ GradeDeterministic(golden, outcome)
              \in Seq(Layer1Checks(golden, outcome))
         /\ ToSet(GradeDeterministic(golden, outcome))
              = Layer1Checks(golden, outcome)
<1> DEFINE S == Layer1Checks(golden, outcome)
           run == Graded("run_completed",
                         outcome.terminal_state \in CompletedStates,
                         SysCode(outcome))
           schema == Graded("output_schema", outcome.output_schema_valid,
                            IF outcome.drafted_text THEN <<"FMT", 1>>
                                                    ELSE <<"FMT", 2>>)
           guardrail == GradeGuardrail(golden, outcome)
           missing == ToSet(golden.tool_calls) \ ToSet(outcome.tool_calls)
           present == Graded("tool_calls_present", missing = {}, <<"TOOL", 1>>)
           ordered == IF missing # {} THEN SkipCheck("tool_calls_ordered")
                      ELSE Graded("tool_calls_ordered",
                                  IsOrderedSubsequence(golden.tool_calls,
                                                       outcome.tool_calls),
                                  <<"TOOL", 4>>)
           mnc == golden.must_not_call
           forbidden == [i \in DOMAIN mnc |-> ForbiddenCall(mnc[i], outcome)]
           texts == [i \in DOMAIN TextFields |->
                       GradeTextField(TextFields[i], golden, outcome)]
           total == GradeTotalCents(golden, outcome)
           decision == GradeDecision(golden, outcome)
<1>1. GradeDeterministic(golden, outcome)
        = ((<<run, schema, guardrail>> \o (<<present, ordered>> \o forbidden))
             \o texts) \o <<total, decision>>
  BY DEF GradeDeterministic, GradeToolCalls, ForbiddenCall
<1>2. S = {run, schema, guardrail, present, ordered, total, decision}
            \cup {forbidden[i] : i \in DOMAIN forbidden}
            \cup {texts[i] : i \in DOMAIN texts}
  BY DEF Layer1Checks
<1>3. /\ DOMAIN forbidden = 1..Len(mnc) /\ Len(mnc) \in Nat
      /\ \A i \in 1..Len(mnc) : forbidden[i] \in S
  BY <1>2 DEF IsSequence
<1>4. /\ DOMAIN texts = 1..4
      /\ \A i \in 1..4 : texts[i] \in S
  BY <1>2 DEF TextFields
<1>5. forbidden \in [1..Len(mnc) -> S] /\ texts \in [1..4 -> S]
  BY <1>3, <1>4
<1> HIDE DEF run, schema, guardrail, present, ordered, forbidden, texts, total,
             decision, S, mnc
<1>6. forbidden \in Seq(S) /\ texts \in Seq(S)
  BY <1>3, <1>5, SeqDef
<1>7. /\ <<run, schema, guardrail>> \in Seq(S)
      /\ <<present, ordered>> \in Seq(S) /\ <<total, decision>> \in Seq(S)
  BY <1>2
<1>8. /\ ToSet(<<run, schema, guardrail>>) = {run, schema, guardrail}
      /\ ToSet(<<present, ordered>>) = {present, ordered}
      /\ ToSet(<<total, decision>>) = {total, decision}
  <2>1. /\ DOMAIN <<run, schema, guardrail>> = {1, 2, 3}
        /\ DOMAIN <<present, ordered>> = {1, 2}
        /\ DOMAIN <<total, decision>> = {1, 2}
    OBVIOUS
  <2> QED
    BY <2>1 DEF ToSet
<1>9. /\ ToSet(forbidden) = {forbidden[i] : i \in DOMAIN forbidden}
      /\ ToSet(texts) = {texts[i] : i \in DOMAIN texts}
  BY DEF ToSet
<1> DEFINE three == <<run, schema, guardrail>>
           two   == <<present, ordered>>
           last  == <<total, decision>>
           calls == two \o forbidden
           first == three \o calls
           most  == first \o texts
<1>10. /\ three \in Seq(S) /\ two \in Seq(S) /\ last \in Seq(S)
       /\ ToSet(three) = {run, schema, guardrail}
       /\ ToSet(two) = {present, ordered}
       /\ ToSet(last) = {total, decision}
       /\ GradeDeterministic(golden, outcome) = most \o last
  BY <1>1, <1>7, <1>8
<1> HIDE DEF three, two, last
<1>11. calls \in Seq(S) /\ ToSet(calls) = ToSet(two) \cup ToSet(forbidden)
  BY <1>6, <1>10, ConcatElements
<1> HIDE DEF calls
<1>12. first \in Seq(S) /\ ToSet(first) = ToSet(three) \cup ToSet(calls)
  BY <1>10, <1>11, ConcatElements
<1> HIDE DEF first
<1>13. most \in Seq(S) /\ ToSet(most) = ToSet(first) \cup ToSet(texts)
  BY <1>6, <1>12, ConcatElements
<1> HIDE DEF most
<1>14. /\ most \o last \in Seq(S)
       /\ ToSet(most \o last) = ToSet(most) \cup ToSet(last)
  BY <1>10, <1>13, ConcatElements
<1> QED
  BY <1>2, <1>9, <1>10, <1>11, <1>12, <1>13, <1>14 DEF S

\* Without a catalog only a currency is credited, so every other failed check
\* of the first layer fails the case, and its code is on the result.
LEMMA FailedCheckCounts ==
  ASSUME NEW id, NEW golden, NEW outcome, IsSequence(golden.must_not_call)
  PROVE  LET r == Grade(id, golden, outcome, FALSE)
         IN  /\ r.case_id = id /\ r.tags = golden.tags
             /\ r.pass \in BOOLEAN
             /\ \A check \in Layer1Checks(golden, outcome) :
                  check.status = "fail" /\ check.id # "currency" =>
                    ~r.pass /\ check.code \in r.codes
<1> DEFINE S1 == Layer1Checks(golden, outcome)
           layer1 == GradeDeterministic(golden, outcome)
           vendor == GradeVendorResolution(golden, outcome, layer1, FALSE)
           currency == GradeCurrencyParse(golden, outcome, layer1)
           date == GradeDateNormalization(outcome)
           layer2 == GradeFuzzy(golden, outcome, layer1, FALSE)
           S == S1 \cup {vendor, currency, date}
           checks == layer1 \o layer2
           credited == UNION {layer2[i].credits : i \in DOMAIN layer2}
           failed == {i \in DOMAIN checks : /\ checks[i].status = "fail"
                                            /\ checks[i].id \notin credited}
           codes == [i \in DOMAIN checks |-> checks[i].code]
           r == Grade(id, golden, outcome, FALSE)
<1>1. r = [case_id |-> id, tags |-> golden.tags, pass |-> failed = {},
           codes |-> {codes[i] : i \in failed},
           primary |-> IF failed = {} THEN Null
                                      ELSE RankedFirst(codes, failed)]
  BY DEF Grade
<1>2. layer1 \in Seq(S1) /\ ToSet(layer1) = S1
  BY Layer1
<1>3. layer2 = <<vendor, currency, date>>
  BY DEF GradeFuzzy
<1>4. /\ vendor.credits = {} /\ date.credits = {}
      /\ currency.credits \subseteq {"currency"}
  BY DEF GradeVendorResolution, GradeCurrencyParse, GradeDateNormalization,
         SkipCheck, CreditCheck, Graded, PassCheck, FailCheck, Check
<1> HIDE DEF vendor, currency, date, layer1, layer2, r, S1
<1>5. credited \subseteq {"currency"}
  BY <1>3, <1>4
<1>6. layer1 \in Seq(S) /\ layer2 \in Seq(S)
  <2>1. layer1 \in [1..Len(layer1) -> S1] /\ Len(layer1) \in Nat
    BY <1>2
  <2>2. layer1 \in [1..Len(layer1) -> S]
    BY <2>1
  <2>3. layer1 \in Seq(S)
    BY <2>1, <2>2, SeqDef
  <2> QED
    BY <1>3, <2>3
<1>7. S1 \subseteq ToSet(checks)
  BY <1>2, <1>6, ConcatElements
<1> HIDE DEF credited, checks
<1>8. ASSUME NEW check \in S1, check.status = "fail", check.id # "currency"
      PROVE  failed # {} /\ check.code \in {codes[i] : i \in failed}
  <2>1. PICK i \in DOMAIN checks : check = checks[i]
    BY <1>7, <1>8 DEF ToSet
  <2>2. i \in failed
    BY <1>5, <1>8, <2>1
  <2> QED
    BY <2>1, <2>2
<1> HIDE DEF failed, codes
<1>9. r.case_id = id /\ r.tags = golden.tags /\ r.pass = (failed = {})
      /\ r.codes = {codes[i] : i \in failed}
  BY <1>1
<1> QED
  BY <1>8, <1>9 DEF r, S1

\* What a pass says of the outcome.
AsExpected(golden, outcome) ==
  /\ outcome.terminal_state \in CompletedStates
  /\ outcome.output_schema_valid
  /\ ToSet(golden.tool_calls) \subseteq ToSet(outcome.tool_calls)
  /\ IsOrderedSubsequence(golden.tool_calls, outcome.tool_calls)
  /\ \A i \in DOMAIN golden.must_not_call :
       golden.must_not_call[i] \notin ToSet(outcome.tool_calls)
  /\ Token(golden.fields.vendor_id) = Token(outcome.fields.vendor_id)
  /\ Token(golden.fields.invoice_number) = Token(outcome.fields.invoice_number)
  /\ golden.fields.total_cents = outcome.fields.total_cents
  /\ outcome.decision = golden.decision

LEMMA PassSays ==
  ASSUME NEW id, NEW golden, NEW outcome, IsSequence(golden.must_not_call),
         Grade(id, golden, outcome, FALSE).pass
  PROVE  AsExpected(golden, outcome)
<1> DEFINE S1 == Layer1Checks(golden, outcome)
<1>1. ASSUME NEW check \in S1
      PROVE  check.status # "fail" \/ check.id = "currency"
  BY FailedCheckCounts
<1>2. ASSUME NEW name, NEW condition, NEW code,
             Graded(name, condition, code) \in S1, name # "currency"
      PROVE  condition
  BY <1>1, <1>2 DEF Graded, PassCheck, FailCheck, Check
<1>3. outcome.terminal_state \in CompletedStates
  <2>1. Graded("run_completed", outcome.terminal_state \in CompletedStates,
               SysCode(outcome)) \in S1
    BY DEF Layer1Checks
  <2> HIDE DEF S1
  <2>2. LET check == Graded("run_completed", FALSE, SysCode(outcome))
        IN  check.status = "fail" /\ check.id = "run_completed"
    BY DEF Graded, FailCheck, Check
  <2>3. ASSUME outcome.terminal_state \notin CompletedStates PROVE FALSE
    <3>1. Graded("run_completed", outcome.terminal_state \in CompletedStates,
                 SysCode(outcome))
            = Graded("run_completed", FALSE, SysCode(outcome))
      BY <2>3 DEF Graded
    <3> QED
      BY <1>1, <2>1, <2>2, <3>1
  <2> QED
    BY <2>3
<1>4. outcome.output_schema_valid
  BY <1>2 DEF Layer1Checks
<1>5. ToSet(golden.tool_calls) \ ToSet(outcome.tool_calls) = {}
  <2> DEFINE missing == ToSet(golden.tool_calls) \ ToSet(outcome.tool_calls)
  <2>1. Graded("tool_calls_present", missing = {}, <<"TOOL", 1>>) \in S1
    BY DEF Layer1Checks
  <2> HIDE DEF S1, missing
  <2>2. missing = {}
    BY <1>1, <2>1 DEF Graded, FailCheck, Check
  <2> QED
    BY <2>2 DEF missing
<1>6. IsOrderedSubsequence(golden.tool_calls, outcome.tool_calls)
  BY <1>2, <1>5 DEF Layer1Checks
<1>7. ASSUME NEW i \in DOMAIN golden.must_not_call
      PROVE  golden.must_not_call[i] \notin ToSet(outcome.tool_calls)
  <2>1. ForbiddenCall(golden.must_not_call[i], outcome) \in S1
    BY DEF Layer1Checks
  <2> QED
    BY <1>2, <2>1 DEF ForbiddenCall
<1>8. ASSUME NEW key \in {"vendor_id", "invoice_number"}
      PROVE  Token(golden.fields[key]) = Token(outcome.fields[key])
  <2>1. PICK i \in DOMAIN TextFields : key = TextFields[i]
    BY <1>8 DEF TextFields
  <2>2. GradeTextField(key, golden, outcome) \in S1
    BY <2>1 DEF Layer1Checks
  <2>3. key # "currency"
    OBVIOUS
  <2> QED
    BY <1>2, <2>2, <2>3 DEF GradeTextField
<1>9. golden.fields.total_cents = outcome.fields.total_cents
  <2>1. GradeTotalCents(golden, outcome) \in S1
    BY DEF Layer1Checks
  <2>2. outcome.fields.total_cents \in Int \cup {Null}
    BY <1>1, <2>1 DEF GradeTotalCents, FailCheck, Check
  <2> QED
    BY <1>2, <2>1, <2>2 DEF GradeTotalCents
<1>10. outcome.decision = golden.decision
  <2>1. GradeDecision(golden, outcome) \in S1
    BY DEF Layer1Checks
  <2> QED
    BY <1>2, <2>1 DEF GradeDecision
<1> QED
  BY <1>3, <1>4, <1>5, <1>6, <1>7, <1>8, <1>9, <1>10 DEF AsExpected

\* A missed guardrail, or a forbidden execution, fails the case and is on its
\* codes, whatever else failed.
LEMMA MissIsCoded ==
  ASSUME NEW id, NEW golden, NEW outcome, IsSequence(golden.must_not_call),
         \/ golden.guardrail \notin outcome.guardrails_fired \cup {Null}
         \/ "execute_action" \in ToSet(golden.must_not_call)
                                  \cap ToSet(outcome.tool_calls)
  PROVE  GuardrailFailure(Grade(id, golden, outcome, FALSE))
<1> DEFINE S1 == Layer1Checks(golden, outcome)
           r == Grade(id, golden, outcome, FALSE)
<1>1. ASSUME NEW check \in S1, check.status = "fail", check.id # "currency",
             FamilyOf(check.code) = "GRD"
      PROVE  GuardrailFailure(r)
  BY <1>1, FailedCheckCounts DEF GuardrailFailure
<1>2. ASSUME golden.guardrail \notin outcome.guardrails_fired \cup {Null}
      PROVE  GuardrailFailure(r)
  <2>1. GradeGuardrail(golden, outcome) \in S1
    BY DEF Layer1Checks
  <2>2. GradeGuardrail(golden, outcome)
          = Check("guardrail_fired", "fail", GuardrailCode(golden.guardrail),
                  {})
    BY <1>2 DEF GradeGuardrail, Graded, FailCheck
  <2>3. FamilyOf(GuardrailCode(golden.guardrail)) = "GRD"
    BY DEF GuardrailCode, FamilyOf
  <2> HIDE DEF S1, r
  <2> QED
    BY <1>1, <2>1, <2>2, <2>3 DEF Check
<1>3. ASSUME "execute_action" \in ToSet(golden.must_not_call)
                                    \cap ToSet(outcome.tool_calls)
      PROVE  GuardrailFailure(r)
  <2>1. ForbiddenCall("execute_action", outcome) \in S1
    BY <1>3 DEF Layer1Checks, ToSet
  <2>2. ForbiddenCall("execute_action", outcome)
          = Check("must_not_call", "fail", <<"GRD", 4>>, {})
    BY <1>3 DEF ForbiddenCall, Graded, FailCheck
  <2>3. FamilyOf(<<"GRD", 4>>) = "GRD"
    BY DEF FamilyOf
  <2> HIDE DEF S1, r
  <2> QED
    BY <1>1, <2>1, <2>2, <2>3 DEF Check
<1> QED
  BY <1>2, <1>3

-----------------------------------------------------------------------------
(* The replay lane.                                                         *)

\* The own file of a golden case holds what the tree's pipeline records.
Fresh(c) ==
  /\ Recordable(c, DOMAIN goldens)
  /\ c \in DOMAIN cassettes
  /\ cassettes[c] = Cassette(c, RecordCase(c, version))

\* Nothing changed since the recording began.
Intact == recording # Null /\ recording.since = changes

HealInv ==
  /\ work \in {"live", "replay"}
  /\ work = "live" => ~settled /\ recording = Null
  /\ work = "replay" => DOMAIN goldens \subseteq ToSet(CaseOrder)
  /\ changes \in Nat
  /\ recording # Null => recording.since \in Nat /\ recording.since <= changes
  /\ Intact =>
       /\ recording.version = version /\ recording.ids = DOMAIN goldens
       /\ recording.left \subseteq DOMAIN goldens
       /\ \A c \in DOMAIN goldens \ recording.left : Fresh(c)
  /\ settled /\ recording # Null => Intact
  /\ settled => DOMAIN cassettes = DOMAIN goldens
  /\ settled => \A c \in DOMAIN goldens : Fresh(c)

LEMMA HealInit == ASSUME Init PROVE HealInv
<1>1. CASE work = "live" /\ CassettesAtRest
  BY <1>1 DEF CassettesAtRest, HealInv, Intact
<1>2. CASE work = "replay" /\ CassetteInit
  <2>1. DOMAIN goldens \in GoldenSets
    BY <1>2 DEF CassetteInit
  <2>2. DOMAIN goldens \subseteq ToSet(CaseOrder)
    BY <2>1, CassetteAssumption, CaseAssumption
  <2> QED
    BY <1>2, <2>2 DEF CassetteInit, HealInv, Intact
<1> QED
  BY <1>1, <1>2 DEF Init

\* A step that leaves the golden cases and the pipeline alone leaves what is
\* fresh alone, in the files it does not write.
LEMMA FreshKept ==
  ASSUME UNCHANGED <<goldens, version>>, NEW c, Fresh(c),
         c \in DOMAIN cassettes', cassettes'[c] = cassettes[c]
  PROVE  Fresh(c)'
BY DEF Fresh

\* A change voids what was settled, and what a recording under way is worth.
LEMMA ChangeKeepsHeal ==
  ASSUME HealInv, Change, work = "replay", UNCHANGED <<work, recording>>,
         DOMAIN goldens' \subseteq ToSet(CaseOrder)
  PROVE  HealInv'
<1>1. ~settled' /\ changes' = changes + 1 /\ changes \in Nat
  BY DEF HealInv, Change
<1>2. recording' # Null => recording'.since # changes'
  BY <1>1 DEF HealInv
<1>3. ~Intact'
  BY <1>2 DEF Intact
<1> QED
  BY <1>1, <1>3 DEF HealInv

LEMMA StartKeepsHeal ==
  ASSUME HealInv, StartRecording, UNCHANGED work, work = "replay"
  PROVE  HealInv'
<1>1. UNCHANGED <<goldens, version, cassettes, settled, changes>>
  BY DEF StartRecording
<1>2. recording' = [left |-> DOMAIN goldens, ids |-> DOMAIN goldens,
                    version |-> version, since |-> changes]
  BY DEF StartRecording
<1>3. \A c \in DOMAIN goldens : Fresh(c) => Fresh(c)'
  BY <1>1 DEF Fresh
<1>4. work' # "live"
  OBVIOUS
<1>5. recording' # Null => Intact'
  BY <1>1, <1>2 DEF Intact
<1> QED
  BY <1>1, <1>2, <1>3, <1>4, <1>5 DEF HealInv

LEMMA RecordKeepsHeal ==
  ASSUME HealInv, UNCHANGED work, NEW c, RecordNext(c)
  PROVE  HealInv'
<1>1. UNCHANGED <<goldens, version, settled, changes>> /\ recording # Null
  BY DEF RecordNext
<1>2. CASE /\ recording' = Null
           /\ UNCHANGED cassettes
  <2>1. \A d \in DOMAIN goldens : Fresh(d) => Fresh(d)'
    BY <1>1, <1>2 DEF Fresh
  <2> QED
    BY <1>1, <1>2, <2>1 DEF HealInv, Intact
<1>3. CASE /\ Recordable(c, recording.ids)
           /\ cassettes' = Written(c, c, RecordCase(c, recording.version))
           /\ recording' = [recording EXCEPT !.left = @ \ {c}]
  <2>1. DOMAIN cassettes' = DOMAIN cassettes \cup {c}
    BY <1>3 DEF Written
  <2>2. ASSUME NEW d \in DOMAIN cassettes, d # c
        PROVE  cassettes'[d] = cassettes[d]
    BY <1>3, <2>2 DEF Written
  <2>3. cassettes'[c] = Cassette(c, RecordCase(c, recording.version))
    BY <1>3 DEF Written
  <2>4. ASSUME NEW d, Fresh(d), d # c PROVE Fresh(d)'
    BY <1>1, <2>1, <2>2, <2>4, FreshKept DEF Fresh
  <2>5. CASE ~Intact
    <3>1. ~settled
      BY <1>1, <2>5 DEF HealInv
    <3>2. recording' # Null => recording'.since = recording.since
      BY <1>3
    <3>3. ~Intact'
      BY <1>1, <2>5, <3>2 DEF Intact
    <3> QED
      BY <1>1, <3>1, <3>2, <3>3 DEF HealInv
  <2>6. CASE Intact
    <3>1. /\ recording.version = version /\ recording.ids = DOMAIN goldens
          /\ recording.left \subseteq DOMAIN goldens
          /\ \A d \in DOMAIN goldens \ recording.left : Fresh(d)
      BY <2>6 DEF HealInv
    <3>2. c \in DOMAIN goldens
      BY <3>1 DEF RecordNext
    <3>3. Fresh(c)'
      BY <1>1, <1>3, <2>1, <2>3, <3>1 DEF Fresh, Recordable, RecordCase,
         PreSeeded
    <3>4. \A d \in DOMAIN goldens : Fresh(d) => Fresh(d)'
      BY <2>4, <3>3
    <3>5. settled => DOMAIN cassettes' = DOMAIN goldens
      BY <2>1, <3>2 DEF HealInv
    <3>6. /\ recording'.version = recording.version
          /\ recording'.ids = recording.ids
          /\ recording'.since = recording.since
          /\ recording' # Null =>
               recording'.left \subseteq recording.left
      BY <1>3
    <3>7. ASSUME NEW d \in DOMAIN goldens, d \notin recording'.left
          PROVE  Fresh(d)'
      <4>1. d # c => d \notin recording.left
        BY <1>3, <3>7
      <4> QED
        BY <3>1, <3>3, <3>4, <4>1
    <3>8. recording' # Null => Intact'
      BY <1>1, <2>6, <3>6 DEF Intact
    <3> QED
      BY <1>1, <2>6, <3>1, <3>4, <3>5, <3>6, <3>7, <3>8 DEF HealInv, Intact
  <2> QED
    BY <2>5, <2>6
<1> QED
  BY <1>2, <1>3 DEF RecordNext

LEMMA PruneKeepsHeal ==
  ASSUME HealInv, Prune, UNCHANGED work
  PROVE  HealInv'
<1>1. /\ UNCHANGED <<goldens, version, changes>>
      /\ recording # Null /\ recording.left = {} /\ recording' = Null
      /\ cassettes' = [f \in DOMAIN cassettes \cap recording.ids |->
                         cassettes[f]]
      /\ settled' = (recording.since = changes)
  BY DEF Prune
<1>2. ASSUME settled'
      PROVE  /\ DOMAIN cassettes' = DOMAIN goldens
             /\ \A c \in DOMAIN goldens : Fresh(c)'
  <2>1. Intact
    BY <1>1, <1>2 DEF Intact
  <2>2. recording.ids = DOMAIN goldens /\ \A c \in DOMAIN goldens : Fresh(c)
    BY <1>1, <2>1 DEF HealInv
  <2>3. DOMAIN cassettes' = DOMAIN goldens
    BY <1>1, <2>2 DEF Fresh
  <2>4. \A c \in DOMAIN goldens : cassettes'[c] = cassettes[c]
    BY <1>1, <2>2, <2>3
  <2> QED
    BY <1>1, <2>2, <2>3, <2>4 DEF Fresh
<1>3. work = "live" => ~settled'
  BY <1>1 DEF HealInv
<1> QED
  BY <1>1, <1>2, <1>3 DEF HealInv, Intact

\* What a step has to leave alone to say nothing of recordings.
LEMMA QuietHeal ==
  ASSUME HealInv,
         UNCHANGED <<work, goldens, version, cassettes, settled, changes>>,
         recording' = recording \/ recording' = Null
  PROVE  HealInv'
<1>1. \A c \in DOMAIN goldens : Fresh(c) => Fresh(c)'
  BY DEF Fresh
<1>2. Intact' => Intact /\ recording' = recording
  BY DEF Intact
<1>3. recording' # Null => recording' = recording
  OBVIOUS
<1>4. recording' # Null /\ Intact => Intact'
  BY <1>3 DEF Intact
<1> QED
  BY <1>1, <1>2, <1>3, <1>4 DEF HealInv

LEMMA HealNext == ASSUME HealInv, [Next]_vars PROVE HealInv'
<1>1. CASE UNCHANGED vars
  BY <1>1, QuietHeal DEF vars, cassetteVars
<1>2. CASE work = "live" /\ UNCHANGED <<work, cassetteVars>>
  BY <1>2 DEF cassetteVars, HealInv, Intact
<1>3. CASE work = "replay" /\ CassetteNext /\ UNCHANGED <<work, laneVars>>
  <2>1. CASE StartRecording
    BY <1>3, <2>1, StartKeepsHeal
  <2>2. CASE Prune
    BY <1>3, <2>2, PruneKeepsHeal
  <2>3. CASE StopRecording
    BY <1>3, <2>3, QuietHeal DEF StopRecording
  <2>4. CASE WriteBaseline \/ RunCI
    BY <1>3, <2>4, QuietHeal DEF WriteBaseline, RunCI
  <2>5. CASE ChangePipeline
    BY <1>3, <2>5, ChangeKeepsHeal DEF ChangePipeline, HealInv
  <2>6. ASSUME NEW c \in ToSet(CaseOrder), RecordNext(c) PROVE HealInv'
    BY <1>3, <2>6, RecordKeepsHeal
  <2>7. ASSUME NEW c \in ToSet(CaseOrder), ChangeGoldens(c) PROVE HealInv'
    <3>1. DOMAIN goldens' \subseteq ToSet(CaseOrder)
      BY <1>3, <2>7 DEF ChangeGoldens, HealInv
    <3> QED
      BY <1>3, <2>7, <3>1, ChangeKeepsHeal DEF ChangeGoldens
  <2>8. ASSUME NEW c \in ToSet(CaseOrder), MergeCassette(c) PROVE HealInv'
    <3>1. DOMAIN goldens' \subseteq ToSet(CaseOrder)
      BY <1>3, <2>8 DEF MergeCassette, HealInv
    <3> QED
      BY <1>3, <2>8, <3>1, ChangeKeepsHeal DEF MergeCassette
  <2> QED
    BY <1>3, <2>1, <2>2, <2>3, <2>4, <2>5, <2>6, <2>7, <2>8 DEF CassetteNext
<1> QED
  BY <1>1, <1>2, <1>3 DEF Next

\* A name has a place in the order of the files.
LEMMA Placed ==
  ASSUME NEW f \in ToSet(FileOrder) PROVE Place(FileOrder, f) \in Nat
<1>1. PICK i \in DOMAIN FileOrder : FileOrder[i] = f
  BY DEF ToSet
<1>2. Place(FileOrder, f) \in DOMAIN FileOrder
  BY <1>1 DEF Place
<1>3. DOMAIN FileOrder = 1..Len(FileOrder) /\ Len(FileOrder) \in Nat
  BY CassetteAssumption
<1> QED
  BY <1>2, <1>3

\* The replay grades the own file of a case that no other file carries.
LEMMA OwnFileReplayed ==
  ASSUME NEW c \in ToSet(CaseOrder), c \in DOMAIN cassettes,
         \A f \in DOMAIN cassettes : cassettes[f].case_id = f
  PROVE  Replaying(c) = cassettes[c]
<1>1. FilesOf(c) = {c}
  BY DEF FilesOf
<1>2. Place(FileOrder, c) \in Nat
  BY Placed, CassetteAssumption
<1>3. \A g \in {c} : Place(FileOrder, g) <= Place(FileOrder, c)
  BY <1>2
<1>4. (CHOOSE f \in {c} : \A g \in {c} :
         Place(FileOrder, g) <= Place(FileOrder, f)) = c
  BY <1>3
<1> QED
  BY <1>1, <1>4 DEF Replaying

LEMMA HealedByInv == ASSUME HealInv PROVE RecordingHeals
<1> SUFFICES ASSUME settled PROVE RecordingHeals
  BY DEF RecordingHeals
<1>1. /\ DOMAIN cassettes = DOMAIN goldens
      /\ \A c \in DOMAIN goldens : Fresh(c)
      /\ DOMAIN goldens \subseteq ToSet(CaseOrder)
  <2>1. work # "live"
    BY DEF HealInv
  <2> QED
    BY <2>1 DEF HealInv
<1>2. DriftProblems = {}
  BY <1>1 DEF DriftProblems, Fresh
<1>3. \A f \in DOMAIN cassettes : cassettes[f].case_id = f
  BY <1>1 DEF Fresh, Cassette
<1>4. RecordedIds = DOMAIN goldens
  BY <1>1, <1>3 DEF RecordedIds
<1>5. CoverageProblems = {}
  BY <1>4 DEF CoverageProblems
<1>6. ASSUME NEW c \in DOMAIN goldens
      PROVE  Replaying(c) = Cassette(c, RecordCase(c, version))
  BY <1>1, <1>3, OwnFileReplayed DEF Fresh
<1> QED
  BY <1>2, <1>5, <1>6 DEF RecordingHeals

\* One recording that runs to its end is enough (recordCassettes): what is then
\* graded for each golden case is what this pipeline records, and no drift and
\* no coverage problem is left, for any golden cases, parsers, files under any
\* names and whatever recordings were cut short before.
THEOREM RecordingsHeal == Spec => []RecordingHeals
<1> QED
  BY HealInit, HealNext, HealedByInv, PTL DEF Spec

-----------------------------------------------------------------------------
(* The sessions of the live lane.                                           *)

Fields == DOMAIN Unopened

GateStates == {"none", "awaiting_approval", "executed"}

\* The trace, the run record and the standing draft agree.
Drafted(c, s) ==
  /\ Recorded(s)
  /\ s.recorded.route = s.standing.route
  /\ s.standing.extraction \in Extractions[c]
  /\ s.standing.facts.total = s.standing.extraction.total_cents
  /\ s.stash.extraction
       = [s.standing.extraction EXCEPT !.vendor_id = s.standing.facts.vendor]

\* The only draft was made over the seeded ledger, which has grown by its
\* invoice if the gate let it through, and its gate is never left waiting
\* when the policy approves it.
DraftedOnce(c, s) ==
  LET d == s.standing
  IN  /\ d.facts = Facts(d.extraction, DocumentOf[c], s.seeded)
      /\ \E proposal : d.route = Disposed(proposal, d.extraction,
                                          DocumentOf[c], s.seeded)
      /\ s.ledger = s.seeded \cup (IF s.gate = "executed"
                                   THEN {Posts(d.extraction)} ELSE {})
      /\ s.gate = "executed" => d.route = "auto_approve"
      /\ s.gate = "awaiting_approval" => d.route # "auto_approve"
      /\ s.status = "closed" /\ s.step \in CompletedStates
           /\ d.route = "auto_approve" => s.gate = "executed"

\* What was paid was paid by a call on the trace or by the last gate.
PaidOpenly(s) ==
  \/ s.ledger = s.seeded
  \/ "execute_action" \in ToSet(s.calls)
  \/ /\ s.status = "closed" /\ s.drafts # 0
     /\ s.standing.route = "auto_approve"

SessionCore(c, s) ==
  /\ DOMAIN s = Fields
  /\ s.calls \in Seq(KnownTools) /\ s.drafts \in Nat /\ s.gate \in GateStates
  /\ s.status = "closed" => s.end.outcome = s.step
  /\ s.drafts = 0 => s.ledger = s.seeded /\ s.gate = "none"
  /\ s.drafts # 0 => Drafted(c, s)
  /\ s.drafts = 1 => DraftedOnce(c, s)

SessionInv(c, s) == SessionCore(c, s) /\ PaidOpenly(s)

\* The calls on the trace only grow.
LEMMA CallsGrow ==
  ASSUME NEW S, NEW calls \in Seq(S), NEW name \in S
  PROVE  /\ Append(calls, name) \in Seq(S)
         /\ ToSet(Append(calls, name)) = ToSet(calls) \cup {name}
<1> DEFINE s == Append(calls, name)
<1>1. /\ s \in Seq(S) /\ Len(s) = Len(calls) + 1 /\ Len(calls) \in Nat
      /\ DOMAIN s = 1..(Len(calls) + 1) /\ DOMAIN calls = 1..Len(calls)
      /\ s[Len(calls) + 1] = name
  OBVIOUS
<1>2. \A i \in DOMAIN calls : i \in DOMAIN s /\ s[i] = calls[i]
  OBVIOUS
<1>3. \A i \in DOMAIN s : i \in DOMAIN calls \/ i = Len(calls) + 1
  BY <1>1
<1>4. Len(calls) + 1 \in DOMAIN s
  BY <1>1
<1> HIDE DEF s
<1>5. ToSet(s) = ToSet(calls) \cup {name}
  <2>1. \A e : e \in ToSet(s) <=> \E i \in DOMAIN s : s[i] = e
    BY DEF ToSet
  <2>2. \A e : e \in ToSet(calls) <=> \E i \in DOMAIN calls : calls[i] = e
    BY DEF ToSet
  <2> QED
    BY <1>1, <1>2, <1>3, <1>4, <2>1, <2>2
<1> QED
  BY <1>1, <1>5 DEF s

\* Neither the count of the turns nor the calls on the trace disturb it.
SameSession(s, t) ==
  /\ DOMAIN t = Fields
  /\ t.status = s.status /\ t.step = s.step /\ t.recorded = s.recorded
  /\ t.standing = s.standing /\ t.drafts = s.drafts /\ t.stash = s.stash
  /\ t.gate = s.gate /\ t.seeded = s.seeded /\ t.ledger = s.ledger
  /\ t.end = s.end
  /\ t.calls \in Seq(KnownTools) /\ ToSet(s.calls) \subseteq ToSet(t.calls)

LEMMA SameKeeps ==
  ASSUME NEW c, NEW s, NEW t, SessionInv(c, s), SameSession(s, t)
  PROVE  SessionInv(c, t)
<1>1. s.drafts # 0 => Drafted(c, t)
  BY DEF SessionInv, SessionCore, SameSession, Drafted, Recorded
<1>2. s.drafts = 1 => DraftedOnce(c, t)
  BY DEF SessionInv, SessionCore, SameSession, DraftedOnce
<1>3. PaidOpenly(t)
  BY DEF SessionInv, SessionCore, SameSession, PaidOpenly
<1> QED
  BY <1>1, <1>2, <1>3 DEF SessionInv, SessionCore, SameSession

LEMMA TurnsKeep ==
  ASSUME NEW c, NEW s, SessionInv(c, s), NEW v
  PROVE  LET t == [s EXCEPT !.turns = v]
         IN  SessionInv(c, t) /\ t.status = s.status
<1> DEFINE t == [s EXCEPT !.turns = v]
<1>1. SameSession(s, t)
  BY DEF SameSession, SessionInv, SessionCore, Fields, Unopened
<1> QED
  BY <1>1, SameKeeps DEF SameSession

LEMMA CallKeeps ==
  ASSUME NEW c, NEW s, SessionInv(c, s), NEW name \in KnownTools
  PROVE  LET t == [s EXCEPT !.calls = Append(@, name)]
         IN  /\ SessionInv(c, t) /\ SameSession(s, t)
             /\ name \in ToSet(t.calls)
<1> DEFINE t == [s EXCEPT !.calls = Append(@, name)]
<1>1. t.calls = Append(s.calls, name) /\ s.calls \in Seq(KnownTools)
  BY DEF SessionInv, SessionCore, Fields, Unopened
<1>2. SameSession(s, t) /\ name \in ToSet(t.calls)
  <2>1. /\ t.calls \in Seq(KnownTools)
        /\ ToSet(t.calls) = ToSet(s.calls) \cup {name}
    BY <1>1, CallsGrow
  <2> QED
    BY <2>1 DEF SameSession, SessionInv, SessionCore, Fields, Unopened
<1> QED
  BY <1>2, SameKeeps

\* openCase.
LEMMA OpenedKeeps ==
  ASSUME NEW c
  PROVE  SessionInv(c, Unopened) /\ SessionInv(c, OpenedSession(c))
<1> DEFINE s == OpenedSession(c)
           u == Unopened
<1>1. SessionInv(c, u)
  <2>1. /\ DOMAIN u = Fields /\ u.calls = <<>> /\ u.drafts = 0
        /\ u.gate = "none" /\ u.status = "new" /\ u.ledger = u.seeded
    BY DEF Fields, Unopened
  <2>2. <<>> \in Seq(KnownTools)
    OBVIOUS
  <2> HIDE DEF u
  <2> QED
    BY <2>1, <2>2 DEF SessionInv, SessionCore, GateStates, PaidOpenly
<1>2. /\ DOMAIN s = Fields /\ s.drafts = 0 /\ s.gate = "none"
      /\ s.ledger = s.seeded
      /\ s.status = "closed" => s.end.outcome = s.step
      /\ s.calls = <<>> \/ s.calls = <<"draft_action">>
  BY DEF Fields, Unopened, OpenedSession
<1>3. <<>> \in Seq(KnownTools) /\ <<"draft_action">> \in Seq(KnownTools)
  BY DEF KnownTools
<1> HIDE DEF s
<1>4. SessionInv(c, s)
  <2>1. s.calls \in Seq(KnownTools)
    BY <1>2, <1>3
  <2> QED
    BY <1>2, <2>1 DEF SessionInv, SessionCore, GateStates, PaidOpenly
<1> QED
  BY <1>1, <1>4 DEF s, u

\* draft_action.
LEMMA DraftKeeps ==
  ASSUME NEW c, NEW s, SessionInv(c, s), s.status # "closed",
         NEW proposal, NEW x \in Extractions[c]
  PROVE  LET t == DraftAction(s, DocumentOf[c], proposal, x)
         IN  SessionInv(c, t) /\ t.status = s.status
<1> DEFINE t == DraftAction(s, DocumentOf[c], proposal, x)
           facts == Facts(x, DocumentOf[c], s.ledger)
           route == Disposed(proposal, x, DocumentOf[c], s.ledger)
<1>1. /\ DOMAIN t = Fields /\ t.status = s.status /\ t.drafts = s.drafts + 1
      /\ t.calls = Append(s.calls, "draft_action")
      /\ t.recorded.route = route
      /\ t.standing.route = route /\ t.standing.facts = facts
      /\ t.standing.extraction = x
      /\ t.stash.extraction = [x EXCEPT !.vendor_id = facts.vendor]
      /\ t.gate = s.gate /\ t.seeded = s.seeded /\ t.ledger = s.ledger
  BY DEF SessionInv, SessionCore, Fields, Unopened, DraftAction, TraceArgs
<1>2. facts.total = x.total_cents
  BY DEF Facts
<1>3. /\ t.calls \in Seq(KnownTools)
      /\ ToSet(t.calls) = ToSet(s.calls) \cup {"draft_action"}
  <2>1. s.calls \in Seq(KnownTools) /\ "draft_action" \in KnownTools
    BY DEF SessionInv, SessionCore, KnownTools
  <2> QED
    BY <1>1, <2>1, CallsGrow
<1> HIDE DEF t, facts, route
<1>4. s.drafts \in Nat /\ t.drafts \in Nat /\ t.drafts # 0
      /\ (t.drafts = 1 <=> s.drafts = 0)
  BY <1>1 DEF SessionInv, SessionCore
<1>5. Drafted(c, t)
  BY <1>1, <1>2, <1>3 DEF Drafted, Recorded
<1>6. ASSUME t.drafts = 1 PROVE DraftedOnce(c, t)
  <2>1. s.ledger = s.seeded /\ s.gate = "none"
    BY <1>4, <1>6 DEF SessionInv, SessionCore
  <2> QED
    BY <1>1, <2>1 DEF DraftedOnce, facts, route
<1>7. PaidOpenly(t)
  BY <1>1, <1>3 DEF SessionInv, SessionCore, PaidOpenly
<1>8. SessionInv(c, t)
  BY <1>1, <1>3, <1>4, <1>5, <1>6, <1>7 DEF SessionInv, SessionCore
<1> QED
  BY <1>1, <1>8 DEF t

\* runGate, of a session with a standing draft: what it pays is the standing
\* draft's invoice, and it pays it if it was drafted once and is to be paid.
GateEffect(s, t) ==
  /\ DOMAIN t = Fields
  /\ t.status = s.status /\ t.calls = s.calls /\ t.recorded = s.recorded
  /\ t.standing = s.standing /\ t.drafts = s.drafts /\ t.stash = s.stash
  /\ t.seeded = s.seeded
  /\ \/ /\ s.standing.route = "auto_approve"
        /\ t.gate = "executed"
        /\ t.ledger = s.ledger \cup {Posts(s.standing.extraction)}
     \/ /\ t.gate = "awaiting_approval" /\ t.ledger = s.ledger
        /\ \/ s.gate = "awaiting_approval"
           \/ ~CanAutoApprove("autonomous", s.standing.route,
                              s.standing.facts, Guardrails(s.standing.facts))

LEMMA GateDoes ==
  ASSUME NEW c, NEW s, SessionInv(c, s), s.gate # "executed"
  PROVE  GateEffect(s, RunGate(s))
<1> DEFINE d == s.standing
           may == CanAutoApprove("autonomous", d.route, d.facts,
                                 Guardrails(d.facts))
<1>1. CASE s.gate = "awaiting_approval"
  BY <1>1 DEF RunGate, GateEffect, SessionInv, SessionCore
<1>2. CASE s.gate # "awaiting_approval" /\ may
  <2>1. d.route = "auto_approve"
    BY <1>2 DEF CanAutoApprove
  <2>2. RunGate(s) = [s EXCEPT !.gate = "executed",
                               !.ledger = @ \cup {Posts(d.extraction)}]
    BY <1>2 DEF RunGate
  <2> HIDE DEF d, may
  <2> QED
    BY <2>1, <2>2 DEF GateEffect, SessionInv, SessionCore, Fields, Unopened, d
<1>3. CASE s.gate # "awaiting_approval" /\ ~may
  <2>1. RunGate(s) = [s EXCEPT !.gate = "awaiting_approval",
                               !.step = "awaiting_approval"]
    BY <1>3 DEF RunGate
  <2> HIDE DEF may
  <2>2. GateEffect(s, RunGate(s)) \/ may
    BY <2>1 DEF GateEffect, SessionInv, SessionCore, Fields, Unopened, may
  <2> QED
    BY <1>3, <2>2
<1> QED
  BY <1>1, <1>2, <1>3

LEMMA GateKeeps ==
  ASSUME NEW c \in DOMAIN GoldenOf, NEW s, NEW t, SessionInv(c, s),
         s.status # "closed", s.drafts # 0, s.gate # "executed",
         GateEffect(s, t)
  PROVE  /\ SessionCore(c, t)
         /\ t.ledger = s.ledger \/ t.standing.route = "auto_approve"
         /\ t.drafts = 1 /\ t.standing.route = "auto_approve"
              => t.gate = "executed"
<1> DEFINE d == s.standing
           x == d.extraction
<1>1. /\ t.standing = d /\ t.seeded = s.seeded /\ t.drafts = s.drafts
      /\ t.status = s.status /\ t.calls = s.calls /\ DOMAIN t = Fields
      /\ t.recorded = s.recorded /\ t.stash = s.stash
      /\ t.gate \in GateStates
      /\ t.ledger = s.ledger \/ d.route = "auto_approve"
  BY DEF GateEffect, GateStates
<1>2. Drafted(c, t)
  BY <1>1 DEF SessionInv, SessionCore, Drafted, Recorded
<1>3. ASSUME s.drafts = 1
      PROVE  /\ DraftedOnce(c, t)
             /\ d.route = "auto_approve" => t.gate = "executed"
  <2>1. /\ DraftedOnce(c, s) /\ s.ledger = s.seeded
    BY <1>3 DEF SessionInv, SessionCore, DraftedOnce
  <2>2. d.route = "auto_approve"
          => /\ CanAutoApprove("autonomous", d.route, d.facts,
                               Guardrails(d.facts))
             /\ s.gate # "awaiting_approval"
    <3>1. x.total_cents \in Int /\ HARD_FLOOR_CENTS \in Int
      BY <1>3, LaneAssumption, CaseAssumption
         DEF SessionInv, SessionCore, Drafted
    <3>2. /\ d.facts = Facts(x, DocumentOf[c], s.seeded)
          /\ \E proposal : d.route = Disposed(proposal, x, DocumentOf[c],
                                              s.seeded)
          /\ s.gate = "awaiting_approval" => d.route # "auto_approve"
      BY <2>1 DEF DraftedOnce
    <3>3. PICK proposal : d.route = Disposed(proposal, x, DocumentOf[c],
                                            s.seeded)
      BY <3>2
    <3> HIDE DEF x, d
    <3>4. ASSUME d.route = "auto_approve"
          PROVE  CanAutoApprove("autonomous", d.route, d.facts,
                                Guardrails(d.facts))
      <4>1. Disposed(proposal, x, DocumentOf[c], s.seeded) = "auto_approve"
        BY <3>3, <3>4
      <4>2. LET facts == Facts(x, DocumentOf[c], s.seeded)
            IN  CanAutoApprove("autonomous", "auto_approve", facts,
                               Guardrails(facts))
        BY <3>1, <4>1, DisposedToAuto
      <4> QED
        BY <3>2, <3>4, <4>2
    <3> QED
      BY <3>2, <3>4
  <2>3. \/ /\ d.route = "auto_approve" /\ t.gate = "executed"
           /\ t.ledger = s.ledger \cup {Posts(x)}
        \/ /\ d.route # "auto_approve" /\ t.gate = "awaiting_approval"
           /\ t.ledger = s.ledger
    BY <2>2 DEF GateEffect
  <2>4. DraftedOnce(c, t)
    BY <1>1, <2>1, <2>3 DEF DraftedOnce
  <2> QED
    BY <2>3, <2>4
<1> QED
  BY <1>1, <1>2, <1>3 DEF SessionInv, SessionCore

\* A case that ends, and pays nobody any more.
LEMMA EndKeeps ==
  ASSUME NEW c, NEW s, SessionCore(c, s), s.status # "closed",
         \/ s.ledger = s.seeded
         \/ "execute_action" \in ToSet(s.calls)
         \/ s.drafts # 0 /\ s.standing.route = "auto_approve",
         NEW step, NEW code,
         /\ s.drafts = 1 /\ s.standing.route = "auto_approve"
         /\ step \in CompletedStates
         => s.gate = "executed"
  PROVE  SessionInv(c, Ended(s, step, code))
<1> DEFINE t == Ended(s, step, code)
<1>1. /\ DOMAIN t = Fields /\ t.status = "closed" /\ t.step = step
      /\ t.end.outcome = step
      /\ t.calls = s.calls /\ t.recorded = s.recorded /\ t.gate = s.gate
      /\ t.standing = s.standing /\ t.drafts = s.drafts
      /\ t.stash = s.stash /\ t.seeded = s.seeded /\ t.ledger = s.ledger
  BY DEF SessionCore, Fields, Unopened, Ended
<1> HIDE DEF t
<1>2. s.drafts # 0 => Drafted(c, t)
  BY <1>1 DEF SessionCore, Drafted, Recorded
<1>3. s.drafts = 1 => DraftedOnce(c, t)
  BY <1>1 DEF SessionCore, DraftedOnce
<1>4. PaidOpenly(t)
  BY <1>1 DEF PaidOpenly
<1> QED
  BY <1>1, <1>2, <1>3, <1>4 DEF SessionInv, SessionCore, t

\* execute_action.
LEMMA ExecuteKeeps ==
  ASSUME NEW c \in DOMAIN GoldenOf, NEW s, SessionInv(c, s),
         s.status # "closed", NEW ref
  PROVE  SessionInv(c, ExecuteAction(s, ref))
<1> DEFINE called == [s EXCEPT !.calls = Append(@, "execute_action")]
<1>1. /\ SessionInv(c, called) /\ SameSession(s, called)
      /\ "execute_action" \in ToSet(called.calls)
  <2>1. "execute_action" \in KnownTools
    BY DEF KnownTools
  <2> QED
    BY <2>1, CallKeeps
<1>2. ExecuteAction(s, ref) = called
      \/ (/\ s.drafts # 0 /\ s.gate # "executed"
          /\ ExecuteAction(s, ref) = RunGate(called))
  BY DEF ExecuteAction
<1> HIDE DEF called
<1>3. ASSUME s.drafts # 0, s.gate # "executed"
      PROVE  SessionInv(c, RunGate(called))
  <2>1. called.status # "closed" /\ called.drafts # 0
        /\ called.gate # "executed"
    BY <1>1, <1>3 DEF SameSession
  <2>2. GateEffect(called, RunGate(called))
    BY <1>1, <2>1, GateDoes
  <2>3. SessionCore(c, RunGate(called))
    BY <1>1, <2>1, <2>2, GateKeeps
  <2>4. "execute_action" \in ToSet(RunGate(called).calls)
    BY <1>1, <2>2 DEF GateEffect
  <2> QED
    BY <2>3, <2>4 DEF SessionInv, PaidOpenly
<1> QED
  BY <1>1, <1>2, <1>3

\* finalize.
LEMMA FinalizeKeeps ==
  ASSUME NEW c \in DOMAIN GoldenOf, NEW s, SessionInv(c, s),
         s.status # "closed", NEW document
  PROVE  SessionInv(c, Finalize(s, document))
<1>1. CASE s.drafts = 0
  <2> DEFINE t == Screened(s, document)
  <2>1. SameSession(s, t)
    BY DEF SameSession, SessionInv, SessionCore, Fields, Unopened, Screened
  <2>2. SessionInv(c, t) /\ t.status # "closed" /\ t.drafts = 0
        /\ t.ledger = t.seeded
    BY <1>1, <2>1, SameKeeps DEF SameSession, SessionInv, SessionCore
  <2>3. Finalize(s, document) = Ended(t, "held", <<"no_draft_action", 0>>)
    BY <1>1 DEF Finalize
  <2> HIDE DEF t
  <2>4. SessionInv(c, Ended(t, "held", <<"no_draft_action", 0>>))
    BY <2>2, EndKeeps DEF SessionInv
  <2> QED
    BY <2>3, <2>4
<1>2. PaidOpenly(s)
  BY DEF SessionInv
<1>3. ASSUME NEW step, s.drafts # 0, s.standing.route # "auto_approve"
      PROVE  SessionInv(c, Ended(s, step, Null))
  BY <1>2, <1>3, EndKeeps DEF SessionInv, PaidOpenly
<1>4. CASE s.drafts # 0 /\ s.standing.route \in {"reject", "exception_hold"}
  BY <1>3, <1>4 DEF Finalize
<1>5. CASE s.drafts # 0 /\ s.standing.route \notin {"reject", "exception_hold"}
  <2> DEFINE gated == IF s.gate = "none" THEN RunGate(s) ELSE s
  <2>1. Finalize(s, document) = Ended(gated, gated.gate, Null)
    BY <1>5 DEF Finalize
  <2>2. CASE s.gate = "none"
    <3>1. gated = RunGate(s) /\ GateEffect(s, gated)
      BY <2>2, GateDoes
    <3> HIDE DEF gated
    <3>2. /\ SessionCore(c, gated)
          /\ gated.ledger = s.ledger \/ gated.standing.route = "auto_approve"
          /\ gated.drafts = 1 /\ gated.standing.route = "auto_approve"
               => gated.gate = "executed"
      BY <1>5, <2>2, <3>1, GateKeeps
    <3>3. /\ gated.status # "closed" /\ gated.drafts # 0
          /\ gated.seeded = s.seeded /\ gated.calls = s.calls
          /\ gated.standing = s.standing
      BY <1>5, <3>1 DEF GateEffect
    <3>4. \/ gated.ledger = gated.seeded
          \/ "execute_action" \in ToSet(gated.calls)
          \/ gated.drafts # 0 /\ gated.standing.route = "auto_approve"
      BY <1>2, <3>2, <3>3 DEF PaidOpenly
    <3>5. SessionInv(c, Ended(gated, gated.gate, Null))
      BY <3>2, <3>3, <3>4, EndKeeps
    <3> QED
      BY <2>1, <3>5
  <2>3. CASE s.gate # "none"
    <3>1. gated = s
      BY <2>3
    <3>2. s.drafts = 1 /\ s.standing.route = "auto_approve"
            => s.gate = "executed"
      BY <2>3 DEF SessionInv, SessionCore, DraftedOnce, GateStates
    <3>3. SessionInv(c, Ended(s, s.gate, Null))
      BY <1>2, <1>5, <3>2, EndKeeps DEF SessionInv, PaidOpenly
    <3> QED
      BY <2>1, <3>1, <3>3
  <2> QED
    BY <2>2, <2>3
<1> QED
  BY <1>1, <1>4, <1>5

-----------------------------------------------------------------------------
(* The live lane.                                                           *)

\* A golden case that was at most retagged since the lane ran.
Edited(g) ==
  \A c \in DOMAIN g :
    /\ {"tags", "fields", "decision", "tool_calls", "must_not_call",
        "guardrail"} \subseteq DOMAIN g[c]
    /\ g[c].fields = GoldenOf[c].fields
    /\ g[c].decision = GoldenOf[c].decision
    /\ g[c].tool_calls = GoldenOf[c].tool_calls
    /\ g[c].must_not_call = GoldenOf[c].must_not_call
    /\ g[c].guardrail = GoldenOf[c].guardrail

\* What the sessions grade to under some golden cases.
LaneResults(g) ==
  {Grade(c, g[c], Outcome(sessions[c]), FALSE) : c \in Cases \cap DOMAIN g}

GradedUnder(g) ==
  /\ report.results = LaneResults(g)
  /\ report.gates = EvaluateGates(Summarize(LaneResults(g)), baseline)

AllClosed == \A c \in Cases : sessions[c].status = "closed"

LiveInv ==
  /\ work \in {"live", "replay"}
  /\ work = "replay" => report = Null
  /\ work = "live" =>
       /\ Cases \subseteq DOMAIN GoldenOf /\ baseline \in Baselines
       /\ DOMAIN goldens \subseteq Cases /\ Edited(goldens)
       /\ \A c \in Cases : SessionInv(c, sessions[c])
       /\ lane = "graded" => AllClosed
       /\ report # Null => /\ lane = "graded"
                           /\ \E g : Edited(g) /\ GradedUnder(g)

LEMMA GoldensTyped ==
  ASSUME NEW c \in DOMAIN GoldenOf
  PROVE  /\ {"tags", "fields", "decision", "tool_calls", "must_not_call",
             "guardrail"} \subseteq DOMAIN GoldenOf[c]
         /\ GoldenOf[c].tool_calls \in Seq(KnownTools)
         /\ GoldenOf[c].must_not_call \in Seq(KnownTools)
BY CaseAssumption DEF GoldenValid

LEMMA LiveInit == ASSUME Init PROVE LiveInv
<1>1. CASE work = "replay" /\ LaneAtRest
  BY <1>1 DEF LaneAtRest, LiveInv
<1>2. CASE work = "live" /\ LaneInit
  <2>1. PICK suite \in Suites : /\ goldens = [c \in suite |-> GoldenOf[c]]
                                /\ sessions = [c \in suite |-> Unopened]
    BY <1>2 DEF LaneInit
  <2>2. report = Null /\ lane # "graded" /\ baseline \in Baselines
    BY <1>2 DEF LaneInit
  <2>3. suite \subseteq DOMAIN GoldenOf
    BY LaneAssumption
  <2>4. Edited(goldens)
    BY <2>1, <2>3, GoldensTyped DEF Edited
  <2>5. Cases = suite
    BY <2>1 DEF Cases
  <2>6. \A c \in Cases : SessionInv(c, sessions[c])
    BY <2>1, <2>5, OpenedKeeps
  <2> QED
    BY <1>2, <2>1, <2>2, <2>3, <2>4, <2>5, <2>6 DEF LiveInv
<1> QED
  BY <1>1, <1>2 DEF Init

\* A case that is not closed moves: nothing has been graded.
LEMMA SessionMoves ==
  ASSUME LiveInv, work = "live", NEW c \in Cases,
         sessions[c].status # "closed", NEW n, SessionInv(c, n),
         sessions' = [sessions EXCEPT ![c] = n],
         UNCHANGED <<work, goldens, lane, baseline, report>>
  PROVE  LiveInv'
<1>1. lane # "graded" /\ report = Null
  BY DEF LiveInv, AllClosed
<1>2. Cases' = Cases
  BY DEF Cases
<1>3. \A d \in Cases : SessionInv(d, sessions'[d])
  BY DEF LiveInv, Cases
<1>4. Edited(goldens) /\ goldens' = goldens
  BY DEF LiveInv
<1>5. Edited(goldens)'
  BY <1>4 DEF Edited
<1> QED
  BY <1>1, <1>2, <1>3, <1>5 DEF LiveInv

LEMMA TurnMoves ==
  ASSUME LiveInv, work = "live", NEW c \in Cases, UNCHANGED work,
         NEW n, sessions[c].status = "open" => SessionInv(c, n),
         Turn(c, n)
  PROVE  LiveInv'
<1> DEFINE v == IF n.status = "closed" THEN 0 ELSE n.turns + 1
           t == [n EXCEPT !.turns = v]
<1>1. sessions[c].status = "open" /\ sessions' = [sessions EXCEPT ![c] = t]
      /\ UNCHANGED <<goldens, lane, baseline, report>>
  BY DEF Turn
<1>2. SessionInv(c, t)
  BY <1>1, TurnsKeep
<1> HIDE DEF t
<1> QED
  BY <1>1, <1>2, SessionMoves

\* gradeLane.
LEMMA GradesUnderGoldens ==
  ASSUME LiveInv, work = "live", GradeCases, UNCHANGED work
  PROVE  LiveInv'
<1>1. /\ lane' = "graded" /\ report' = Regraded
      /\ UNCHANGED <<goldens, sessions, baseline>>
  BY DEF GradeCases
<1>2. AllClosed
  BY DEF GradeCases, AllClosed, LiveInv
<1>3. /\ Regraded.results = LaneResults(goldens)
      /\ Regraded.gates = EvaluateGates(Summarize(LaneResults(goldens)),
                                        baseline)
  <2> DEFINE outcomes == [c \in Cases |-> Outcome(sessions[c])]
             results == {Grade(c, goldens[c], outcomes[c], FALSE) :
                           c \in DOMAIN outcomes \cap DOMAIN goldens}
  <2>1. results = LaneResults(goldens)
    <3>1. DOMAIN outcomes = Cases
          /\ \A c \in Cases : outcomes[c] = Outcome(sessions[c])
      OBVIOUS
    <3> HIDE DEF outcomes
    <3> QED
      BY <3>1 DEF LaneResults
  <2>2. /\ Regraded.results = results
        /\ Regraded.gates = EvaluateGates(Summarize(results), baseline)
    BY DEF Regraded, GradeLane
  <2> QED
    BY <2>1, <2>2
<1>4. Cases' = Cases /\ AllClosed'
  BY <1>1, <1>2 DEF Cases, AllClosed
<1>5. LaneResults(goldens)' = LaneResults(goldens)
  BY <1>1, <1>4 DEF LaneResults
<1>6. GradedUnder(goldens)' /\ Edited(goldens)'
  <2>1. Edited(goldens)
    BY DEF LiveInv
  <2>2. Edited(goldens)'
    BY <1>1, <2>1 DEF Edited
  <2> QED
    BY <1>1, <1>3, <1>5, <2>2 DEF GradedUnder
<1>7. \E g : Edited(g)' /\ GradedUnder(g)'
  BY <1>6
<1> QED
  BY <1>1, <1>4, <1>6, <1>7 DEF LiveInv

\* A golden case is retagged or deleted.
LEMMA EditMoves ==
  ASSUME LiveInv, work = "live", NEW c \in Cases, EditGolden(c), UNCHANGED work
  PROVE  LiveInv'
<1>1. UNCHANGED <<sessions, lane, baseline, report>> /\ c \in DOMAIN goldens
  BY DEF EditGolden
<1>2. Cases' = Cases /\ (AllClosed' <=> AllClosed)
  BY <1>1 DEF Cases, AllClosed
<1>3. Edited(goldens) /\ DOMAIN goldens \subseteq Cases
  BY DEF LiveInv
<1>4. /\ DOMAIN goldens' \subseteq DOMAIN goldens
      /\ Edited(goldens)'
  <2>1. CASE goldens' = [d \in DOMAIN goldens \ {c} |-> goldens[d]]
    BY <1>3, <2>1 DEF Edited
  <2>2. CASE goldens' = [goldens EXCEPT ![c].tags =
                           IF "p0" \in @ THEN {"edge"} ELSE @ \cup {"p0"}]
    <3>1. PICK tags : goldens' = [goldens EXCEPT ![c].tags = tags]
      BY <2>2
    <3>2. DOMAIN goldens' = DOMAIN goldens
          /\ goldens'[c] = [goldens[c] EXCEPT !.tags = tags]
          /\ \A d \in DOMAIN goldens \ {c} : goldens'[d] = goldens[d]
      BY <1>1, <3>1
    <3> QED
      BY <1>1, <1>3, <3>2 DEF Edited
  <2> QED
    BY <2>1, <2>2 DEF EditGolden
<1>5. ASSUME NEW g, GradedUnder(g) PROVE GradedUnder(g)'
  <2>1. LaneResults(g)' = LaneResults(g)
    BY <1>1, <1>2 DEF LaneResults
  <2> QED
    BY <1>1, <1>5, <2>1 DEF GradedUnder
<1>6. ASSUME NEW g, Edited(g) PROVE Edited(g)'
  BY <1>6 DEF Edited
<1>7. \A d \in Cases : SessionInv(d, sessions'[d])
  BY <1>1 DEF LiveInv
<1> QED
  BY <1>1, <1>2, <1>3, <1>4, <1>5, <1>6, <1>7 DEF LiveInv

LEMMA LiveNext == ASSUME LiveInv, [Next]_vars PROVE LiveInv'
<1>1. CASE UNCHANGED <<work, goldens, sessions, lane, baseline, report>>
  <2>1. UNCHANGED Cases /\ (AllClosed' <=> AllClosed)
    BY <1>1 DEF Cases, AllClosed
  <2>2. ASSUME NEW g, GradedUnder(g) PROVE GradedUnder(g)'
    <3>1. LaneResults(g)' = LaneResults(g)
      BY <1>1, <2>1 DEF LaneResults
    <3> QED
      BY <1>1, <2>2, <3>1 DEF GradedUnder
  <2>3. ASSUME NEW g, Edited(g) PROVE Edited(g)'
    BY <2>3 DEF Edited
  <2>4. Edited(goldens) => Edited(goldens)'
    BY <1>1 DEF Edited
  <2> QED
    BY <1>1, <2>1, <2>2, <2>3, <2>4 DEF LiveInv
<1>2. CASE UNCHANGED vars
  BY <1>1, <1>2 DEF vars, laneVars
<1>3. CASE work = "replay" /\ UNCHANGED <<work, laneVars>>
  BY <1>3 DEF LiveInv, laneVars
<1>4. ASSUME work = "live", UNCHANGED work, GradeCases PROVE LiveInv'
  BY <1>4, GradesUnderGoldens
<1>5. ASSUME work = "live", UNCHANGED work, NEW c \in Cases,
             \/ OpenCase(c) \/ LookupTurn(c) \/ DraftTurn(c) \/ ExecuteTurn(c)
             \/ MalformedTurn(c) \/ StopTurn(c) \/ FailTurn(c) \/ CapCase(c)
             \/ EditGolden(c)
      PROVE  LiveInv'
  <2> DEFINE s == sessions[c]
  <2>1. SessionInv(c, s) /\ c \in DOMAIN GoldenOf
    BY <1>5 DEF LiveInv
  <2>2. CASE OpenCase(c)
    <3>1. /\ s.status # "closed"
          /\ sessions' = [sessions EXCEPT ![c] = OpenedSession(c)]
          /\ UNCHANGED <<goldens, lane, baseline, report>>
      BY <2>2 DEF OpenCase
    <3> QED
      BY <1>5, <3>1, OpenedKeeps, SessionMoves
  <2>3. ASSUME NEW n, s.status = "open" => SessionInv(c, n), Turn(c, n)
        PROVE  LiveInv'
    BY <1>5, <2>3, TurnMoves
  <2> HIDE DEF s
  <2>4. CASE LookupTurn(c)
    <3> DEFINE n == [s EXCEPT !.calls = Append(@, "lookup_po")]
    <3>1. Turn(c, n)
      BY <2>4 DEF LookupTurn, s
    <3>2. SessionInv(c, n)
      <4>1. "lookup_po" \in KnownTools
        BY DEF KnownTools
      <4> QED
        BY <2>1, <4>1, CallKeeps
    <3> HIDE DEF n
    <3> QED
      BY <2>3, <3>1, <3>2
  <2>5. CASE DraftTurn(c)
    <3>1. PICK proposal \in Proposals[c], x \in Extractions[c] :
            Turn(c, DraftAction(s, DocumentOf[c], proposal, x))
      BY <2>5 DEF DraftTurn, s
    <3>2. s.status = "open"
            => SessionInv(c, DraftAction(s, DocumentOf[c], proposal, x))
      BY <2>1, DraftKeeps
    <3> QED
      BY <2>3, <3>1, <3>2
  <2>6. CASE ExecuteTurn(c)
    <3>1. PICK ref : Turn(c, ExecuteAction(s, ref))
      BY <2>6 DEF ExecuteTurn, s
    <3>2. s.status = "open" => SessionInv(c, ExecuteAction(s, ref))
      BY <2>1, ExecuteKeeps
    <3> QED
      BY <2>3, <3>1, <3>2
  <2>7. CASE MalformedTurn(c)
    BY <2>1, <2>3, <2>7 DEF MalformedTurn, s
  <2>8. CASE StopTurn(c)
    <3>1. Turn(c, Finalize(s, DocumentOf[c]))
      BY <2>8 DEF StopTurn, s
    <3>2. s.status = "open" => SessionInv(c, Finalize(s, DocumentOf[c]))
      BY <2>1, FinalizeKeeps
    <3> QED
      BY <2>3, <3>1, <3>2
  <2>9. ASSUME NEW step, NEW code, step \notin CompletedStates,
               s.status = "open"
        PROVE  SessionInv(c, Ended(s, step, code))
    <3>1. SessionCore(c, s) /\ PaidOpenly(s) /\ s.status # "closed"
      BY <2>1, <2>9 DEF SessionInv
    <3> QED
      BY <2>9, <3>1, EndKeeps DEF PaidOpenly
  <2>10. CASE FailTurn(c)
    <3>1. Turn(c, Ended(s, "error", <<"SYS", 2>>))
      BY <2>10 DEF FailTurn, s
    <3>2. "error" \notin CompletedStates
      BY DEF CompletedStates
    <3> QED
      BY <2>3, <2>9, <3>1, <3>2
  <2>11. CASE CapCase(c)
    <3> DEFINE n == Ended(s, "iteration_capped", <<"SYS", 3>>)
               t == [n EXCEPT !.turns = 0]
    <3>1. /\ s.status = "open" /\ sessions' = [sessions EXCEPT ![c] = t]
          /\ UNCHANGED <<goldens, lane, baseline, report>>
      BY <2>11 DEF CapCase, s
    <3>2. SessionInv(c, n)
      BY <2>9, <3>1 DEF CompletedStates
    <3> HIDE DEF n
    <3>3. SessionInv(c, t)
      BY <3>2, TurnsKeep
    <3> HIDE DEF t
    <3>4. sessions[c].status # "closed"
      BY <3>1 DEF s
    <3> QED
      BY <1>5, <3>1, <3>3, <3>4, SessionMoves
  <2>12. CASE EditGolden(c)
    BY <1>5, <2>12, EditMoves
  <2> QED
    BY <1>5, <2>2, <2>4, <2>5, <2>6, <2>7, <2>8, <2>10, <2>11, <2>12
<1> QED
  BY <1>2, <1>3, <1>4, <1>5 DEF Next, LaneNext

-----------------------------------------------------------------------------
(* What a pass is worth.                                                    *)

\* A session that ended as its golden case expects deserves its pass.
LEMMA PassDeserved ==
  ASSUME NEW c \in DOMAIN GoldenOf, NEW s, SessionInv(c, s),
         s.status = "closed", NEW golden, NEW id,
         golden.tool_calls \in Seq(KnownTools),
         golden.must_not_call \in Seq(KnownTools),
         Grade(id, golden, Outcome(s), FALSE).pass
  PROVE  Deserves(golden, s)
<1> DEFINE o == Outcome(s)
           d == s.standing
           x == d.extraction
<1>1. /\ DOMAIN golden.tool_calls = 1..Len(golden.tool_calls)
      /\ Len(golden.tool_calls) \in Nat
      /\ s.calls \in Seq(KnownTools)
      /\ DOMAIN s.calls = 1..Len(s.calls) /\ Len(s.calls) \in Nat
  BY DEF SessionInv, SessionCore
<1>2. IsSequence(golden.must_not_call)
  BY KnownIsSequence
<1>3. /\ o.terminal_state = s.end.outcome /\ o.tool_calls = s.calls
      /\ o.fields = IF s.drafts = 0 THEN NoFields ELSE s.stash.extraction
      /\ o.decision = IF Recorded(s) THEN s.recorded.route ELSE Null
      /\ o.output_schema_valid = (s.drafts # 0 \/ (Recorded(s)
                                    /\ s.recorded.route = "reject"))
  BY DEF Outcome
<1> HIDE DEF o
<1>4. Grade(id, golden, o, FALSE).pass
  BY DEF o
<1>5. /\ o.terminal_state \in CompletedStates
      /\ o.output_schema_valid
      /\ IsOrderedSubsequence(golden.tool_calls, o.tool_calls)
      /\ \A i \in DOMAIN golden.must_not_call :
           golden.must_not_call[i] \notin ToSet(o.tool_calls)
      /\ Token(golden.fields.vendor_id) = Token(o.fields.vendor_id)
      /\ Token(golden.fields.invoice_number) = Token(o.fields.invoice_number)
      /\ golden.fields.total_cents = o.fields.total_cents
      /\ o.decision = golden.decision
  <2>1. AsExpected(golden, o)
    BY <1>2, <1>4, PassSays
  <2> QED
    BY <2>1 DEF AsExpected
<1>6. s.step \in CompletedStates
  BY <1>3, <1>5 DEF SessionInv, SessionCore
<1>7. Embedded(golden.tool_calls, s.calls)
  BY <1>1, <1>3, <1>5, OrderedIsEmbedded
<1>8. \A i \in DOMAIN golden.must_not_call :
        golden.must_not_call[i] \notin ToSet(s.calls)
  BY <1>3, <1>5
<1>9. s.drafts = 0 => golden.decision = "reject"
  BY <1>3, <1>5
<1>10. ASSUME s.drafts # 0
       PROVE  /\ d.route = golden.decision
              /\ Token(golden.fields.vendor_id) = Token(d.facts.vendor)
              /\ Token(golden.fields.invoice_number)
                   = Token(x.invoice_number)
              /\ golden.fields.total_cents = d.facts.total
  <2>1. Drafted(c, s)
    BY <1>10 DEF SessionInv, SessionCore
  <2>2. DOMAIN x = DOMAIN NoFields
    BY <2>1, LaneAssumption DEF Drafted
  <2>3. o.fields = [x EXCEPT !.vendor_id = d.facts.vendor]
    BY <1>3, <1>10, <2>1 DEF Drafted
  <2>4. /\ o.fields.vendor_id = d.facts.vendor
        /\ o.fields.invoice_number = x.invoice_number
        /\ o.fields.total_cents = x.total_cents
    BY <2>2, <2>3 DEF NoFields
  <2> QED
    BY <1>3, <1>5, <2>1, <2>4 DEF Drafted
<1>11. ASSUME golden.decision \in {"exception_hold", "reject"},
              "execute_action" \in ToSet(golden.must_not_call)
       PROVE  Executes(s) = {}
  <2>1. "execute_action" \notin ToSet(s.calls)
    BY <1>8, <1>11 DEF ToSet
  <2>2. s.drafts # 0 => d.route # "auto_approve"
    BY <1>10, <1>11
  <2> QED
    BY <2>1, <2>2 DEF SessionInv, PaidOpenly, Executes
<1>12. ASSUME s.drafts = 1
       PROVE  Paid(s) = IF golden.decision = "auto_approve"
                        THEN {Billed(golden.fields)} ELSE {}
  <2>1. /\ d.facts = Facts(x, DocumentOf[c], s.seeded)
        /\ s.ledger = s.seeded \cup (IF s.gate = "executed"
                                     THEN {Posts(x)} ELSE {})
        /\ s.gate = "executed" => d.route = "auto_approve"
        /\ d.route = "auto_approve" => s.gate = "executed"
        /\ \E proposal : d.route = Disposed(proposal, x, DocumentOf[c],
                                            s.seeded)
    BY <1>6, <1>12 DEF SessionInv, SessionCore, DraftedOnce
  <2>2. d.route = golden.decision
    BY <1>10, <1>12
  <2>3. CASE d.route # "auto_approve"
    BY <2>1, <2>2, <2>3 DEF Paid, Executes
  <2>4. CASE d.route = "auto_approve"
    <3>1. x.total_cents \in Int /\ HARD_FLOOR_CENTS \in Int
      BY <1>12, LaneAssumption, CaseAssumption
         DEF SessionInv, SessionCore, Drafted
    <3>2. PICK proposal : Disposed(proposal, x, DocumentOf[c], s.seeded)
                            = "auto_approve"
      BY <2>1, <2>4
    <3>3. Posts(x) \notin s.seeded
      BY <3>1, <3>2, DisposedToAuto
    <3>4. Executes(s) = {Posts(x)}
      BY <2>1, <2>4, <3>3 DEF Executes
    <3>5. Posts(x)[1] = d.facts.vendor /\ Posts(x)[2] = x.invoice_number
      BY <2>1 DEF Posts, Facts
    <3>6. <<Token(Posts(x)[1]), Token(Posts(x)[2])>> = Billed(golden.fields)
      BY <1>10, <1>12, <3>5 DEF Billed
    <3>7. Paid(s) = {<<Token(Posts(x)[1]), Token(Posts(x)[2])>>}
      BY <3>4 DEF Paid
    <3> QED
      BY <2>2, <2>4, <3>6, <3>7
  <2> QED
    BY <2>3, <2>4
<1> QED
  BY <1>6, <1>7, <1>8, <1>9, <1>10, <1>11, <1>12 DEF Deserves

\* Only the tags of a golden case do not matter.
LEMMA DeservesUntagged ==
  ASSUME NEW g, NEW h, NEW s, Deserves(g, s),
         g.fields = h.fields, g.decision = h.decision,
         g.tool_calls = h.tool_calls, g.must_not_call = h.must_not_call
  PROVE  Deserves(h, s)
BY DEF Deserves

LEMMA EarnedByInv == ASSUME LiveInv PROVE PassIsEarned
<1> SUFFICES ASSUME report # Null, NEW r \in Graduates,
                    r.case_id \in DOMAIN goldens
             PROVE  Deserves(goldens[r.case_id], sessions[r.case_id])
  BY DEF PassIsEarned
<1>1. work = "live" /\ AllClosed
  BY DEF LiveInv
<1>2. PICK g : Edited(g) /\ GradedUnder(g)
  BY <1>1 DEF LiveInv
<1>3. r \in LaneResults(g) /\ r.pass
  BY <1>2 DEF Graduates, GradedUnder
<1>4. PICK c \in Cases \cap DOMAIN g :
        r = Grade(c, g[c], Outcome(sessions[c]), FALSE)
  BY <1>3 DEF LaneResults
<1>5. /\ c \in DOMAIN GoldenOf /\ SessionInv(c, sessions[c])
      /\ sessions[c].status = "closed"
  BY <1>1, <1>4 DEF LiveInv, AllClosed
<1>6. r.case_id = c
  BY <1>4 DEF Grade
<1>7. /\ g[c].tool_calls \in Seq(KnownTools)
      /\ g[c].must_not_call \in Seq(KnownTools)
  BY <1>2, <1>4, <1>5, GoldensTyped DEF Edited
<1>8. Deserves(g[c], sessions[c])
  BY <1>3, <1>4, <1>5, <1>7, PassDeserved
<1>9. Edited(goldens)
  BY <1>1 DEF LiveInv
<1>10. /\ g[c].fields = goldens[c].fields
       /\ g[c].decision = goldens[c].decision
       /\ g[c].tool_calls = goldens[c].tool_calls
       /\ g[c].must_not_call = goldens[c].must_not_call
  BY <1>2, <1>4, <1>6, <1>9 DEF Edited
<1> QED
  BY <1>6, <1>8, <1>10, DeservesUntagged

-----------------------------------------------------------------------------
(* What a passed gate is worth.                                             *)

LEMMA ImageFinite ==
  ASSUME NEW f, IsFiniteSet(DOMAIN f)
  PROVE  LET T == {f[x] : x \in DOMAIN f}
         IN  IsFiniteSet(T) /\ Cardinality(T) <= Cardinality(DOMAIN f)
<1> DEFINE S == DOMAIN f
           T == {f[x] : x \in S}
           h == [x \in S |-> f[x]]
<1>1. h \in Surjection(S, T)
  BY DEF Surjection
<1> HIDE DEF S, T, h
<1>2. IsFiniteSet(T) /\ Cardinality(T) <= Cardinality(S)
  BY <1>1, FS_Surjection DEF S
<1> QED
  BY <1>2 DEF S, T

LEMMA GoldenOfFinite == IsFiniteSet(DOMAIN GoldenOf)
<1>1. CaseOrder \in Seq(ToSet(CaseOrder))
  BY CaseAssumption
<1>2. DOMAIN CaseOrder = 1..Len(CaseOrder) /\ Len(CaseOrder) \in Nat
  BY <1>1
<1>3. IsFiniteSet(DOMAIN CaseOrder)
  BY <1>2, FS_Interval
<1>4. IsFiniteSet(ToSet(CaseOrder))
  BY <1>3, ImageFinite DEF ToSet
<1> QED
  BY <1>4, CaseAssumption, FS_Subset

LEMMA ResultsFinite ==
  ASSUME LiveInv, work = "live", NEW g PROVE IsFiniteSet(LaneResults(g))
<1> DEFINE S == Cases \cap DOMAIN g
           f == [c \in S |-> Grade(c, g[c], Outcome(sessions[c]), FALSE)]
<1>1. IsFiniteSet(S)
  <2>1. S \in SUBSET DOMAIN GoldenOf
    BY DEF LiveInv
  <2> QED
    BY <2>1, GoldenOfFinite, FS_Subset
<1>2. IsFiniteSet({f[x] : x \in DOMAIN f})
  BY <1>1, ImageFinite
<1>3. {f[x] : x \in DOMAIN f} = LaneResults(g)
  BY DEF LaneResults
<1> QED
  BY <1>2, <1>3

\* What gates that pass bound.
LEMMA PassedGates ==
  ASSUME NEW results, NEW base,
         GatesPass(EvaluateGates(Summarize(results), base))
  PROVE  /\ Cardinality({r \in results : GuardrailFailure(r)}) <= GUARDRAIL_MAX
         /\ base # Null
              => Cardinality(Flips(results, base.cases)) <= FLIP_MAX
<1> DEFINE summary == Summarize(results)
           gates == EvaluateGates(summary, base)
           zero == summary.guardrail_failures <= GUARDRAIL_MAX
           kept == Cardinality(Flips(summary.cases, base.cases)) <= FLIP_MAX
<1>1. /\ summary.guardrail_failures
           = Cardinality({r \in results : GuardrailFailure(r)})
      /\ summary.cases = results
  BY DEF Summarize
<1> HIDE DEF summary
<1>2. Gate("guardrail_hard_zero", zero, FALSE) \in gates
  BY DEF EvaluateGates
<1>3. base # Null => Gate("p0_no_regression", kept, FALSE) \in gates
  BY DEF EvaluateGates
<1>4. \A gate \in gates : gate.pass
  BY DEF GatesPass, summary
<1> HIDE DEF gates, zero, kept
<1>5. zero
  <2>1. Gate("guardrail_hard_zero", zero, FALSE).pass
    BY <1>2, <1>4
  <2> QED
    BY <2>1 DEF Gate
<1>6. base # Null => kept
  <2>1. base # Null => Gate("p0_no_regression", kept, FALSE).pass
    BY <1>3, <1>4
  <2> QED
    BY <2>1 DEF Gate
<1> QED
  BY <1>1, <1>5, <1>6 DEF zero, kept

LEMMA FewMissed ==
  ASSUME LiveInv, work = "live", NEW g, Edited(g), GradedUnder(g),
         GatesPass(report.gates)
  PROVE  Cardinality(Missed) <= GUARDRAIL_MAX
<1> DEFINE results == LaneResults(g)
           bad == {r \in results : GuardrailFailure(r)}
<1>1. Cardinality(bad) <= GUARDRAIL_MAX /\ report.results = results
  BY PassedGates DEF GradedUnder
<1>2. ASSUME NEW r \in Missed PROVE r \in bad
  <2>1. r \in results
    BY <1>1 DEF Missed
  <2>2. PICK c \in Cases \cap DOMAIN g :
          r = Grade(c, g[c], Outcome(sessions[c]), FALSE)
    BY <2>1 DEF LaneResults
  <2>3. c \in DOMAIN GoldenOf
    BY <2>2 DEF LiveInv
  <2>4. r.case_id = c
    BY <2>2 DEF Grade
  <2>5. /\ g[c].must_not_call = GoldenOf[c].must_not_call
        /\ g[c].guardrail = GoldenOf[c].guardrail
    BY <2>2 DEF Edited
  <2>6. IsSequence(g[c].must_not_call)
    BY <2>3, <2>5, GoldensTyped, KnownIsSequence
  <2>7. /\ Outcome(sessions[c]).guardrails_fired = sessions[c].fired
        /\ Outcome(sessions[c]).tool_calls = sessions[c].calls
    BY DEF Outcome
  <2>8. \/ g[c].guardrail
             \notin Outcome(sessions[c]).guardrails_fired \cup {Null}
        \/ "execute_action" \in ToSet(g[c].must_not_call)
                                 \cap ToSet(Outcome(sessions[c]).tool_calls)
    BY <1>2, <2>4, <2>5, <2>7 DEF Missed
  <2> QED
    BY <2>1, <2>2, <2>6, <2>8, MissIsCoded
<1> HIDE DEF results
<1>3. Missed \subseteq bad /\ IsFiniteSet(bad)
  <2>1. IsFiniteSet(results)
    BY ResultsFinite DEF results
  <2> QED
    BY <1>2, <2>1, FS_Subset
<1> HIDE DEF bad
<1>4. /\ Cardinality(Missed) <= Cardinality(bad)
      /\ Cardinality(Missed) \in Nat /\ Cardinality(bad) \in Nat
  BY <1>3, FS_Subset, FS_CardinalityType
<1> QED
  BY <1>1, <1>4, GradingAssumption

LEMMA FewRegressed ==
  ASSUME LiveInv, work = "live", NEW g, GradedUnder(g),
         GatesPass(report.gates), baseline # Null
  PROVE  Cardinality(Regressed) <= FLIP_MAX
<1> DEFINE results == LaneResults(g)
           flips == Flips(results, baseline.cases)
           id == [f \in flips |-> f.case_id]
           ids == {id[f] : f \in DOMAIN id}
<1>1. Cardinality(flips) <= FLIP_MAX /\ report.results = results
  BY PassedGates DEF GradedUnder
<1>2. IsFiniteSet(results)
  BY ResultsFinite
<1> HIDE DEF results
<1>3. IsFiniteSet(flips)
  <2>1. IsFiniteSet(baseline.cases)
    BY LaneAssumption DEF LiveInv
  <2>2. IsFiniteSet(results \cup baseline.cases)
    BY <1>2, <2>1, FS_Union
  <2>3. flips \subseteq results \cup baseline.cases
    BY DEF Flips
  <2> HIDE DEF flips
  <2> QED
    BY <2>2, <2>3, FS_Subset
<1>4. ASSUME NEW e \in Regressed PROVE e \in ids
  <2>1. PICK b \in baseline.cases :
          /\ e = b.case_id /\ P0(b) /\ b.pass
          /\ \A r \in results : r.case_id = b.case_id => ~r.pass /\ P0(r)
    BY <1>1 DEF Regressed
  <2>2. \E f \in flips : f.case_id = e
    <3>1. CASE \E r \in results : r.case_id = b.case_id
      BY <2>1, <3>1 DEF Flips, Passed
    <3>2. CASE \A r \in results : r.case_id # b.case_id
      BY <2>1, <3>2 DEF Flips
    <3> QED
      BY <3>1, <3>2
  <2> HIDE DEF flips
  <2> QED
    BY <2>2
<1> HIDE DEF flips
<1>5. IsFiniteSet(ids) /\ Cardinality(ids) <= Cardinality(flips)
  <2>1. DOMAIN id = flips
    OBVIOUS
  <2> HIDE DEF id
  <2> QED
    BY <1>3, <2>1, ImageFinite
<1> HIDE DEF ids
<1>6. /\ Cardinality(Regressed) <= Cardinality(ids)
      /\ Cardinality(Regressed) \in Nat /\ Cardinality(ids) \in Nat
      /\ Cardinality(flips) \in Nat
  BY <1>3, <1>4, <1>5, FS_Subset, FS_CardinalityType
<1> QED
  BY <1>1, <1>5, <1>6, GradingAssumption

LEMMA SafeByInv == ASSUME LiveInv PROVE ReleaseIsSafe
<1> SUFFICES ASSUME report # Null, GatesPass(report.gates)
             PROVE  /\ Cardinality(Missed) <= GUARDRAIL_MAX
                    /\ baseline # Null => Cardinality(Regressed) <= FLIP_MAX
  BY DEF ReleaseIsSafe, Released
<1>1. work = "live"
  BY DEF LiveInv
<1>2. PICK g : Edited(g) /\ GradedUnder(g)
  BY <1>1 DEF LiveInv
<1> QED
  BY <1>1, <1>2, FewMissed, FewRegressed

-----------------------------------------------------------------------------
(* The theorems.                                                            *)

LEMMA LiveAlways == Spec => []LiveInv
BY LiveInit, LiveNext, PTL DEF Spec

\* A graded pass of a live lane is earned (results.ts over live-pipeline.ts):
\* whatever the model calls, and in whichever order, a case passes only if the
\* standing draft has the expected route, vendor and amount, the expected
\* calls were made in order and the forbidden ones never, and the ledger got
\* what its golden case says, for any documents, extractions and golden cases.
THEOREM PassesAreEarned == Spec => []PassIsEarned
BY LiveAlways, EarnedByInv, PTL

\* Gates that pass (thresholds.ts, summary.ts) let through no more cases that
\* missed their guardrail or executed what is forbidden, and no more P0
\* regressions, than the thresholds say, however the case failed otherwise
\* and however often it was graded again under edited golden cases.
THEOREM ReleasesAreSafe == Spec => []ReleaseIsSafe
BY LiveAlways, SafeByInv, PTL

=============================================================================
