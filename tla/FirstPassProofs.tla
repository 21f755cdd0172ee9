-------------------------- MODULE FirstPassProofs --------------------------
(***************************************************************************)
(* Proofs about FirstPass for any number of runs, documents and visitors,  *)
(* any scenarios, faults and resets.                                       *)
(*                                                                         *)
(* InvoicePostedOnce rests on what an actor that is about to post has in   *)
(* its hands; LatecomerIsHeld on where a run can be that started when its  *)
(* document was known, and on what the others have read of the tables.     *)
(* The second half asks where a step may leave an actor (Moved), and from  *)
(* it: PaidHasConsent, from who is before the gate; SettledIsFrozen, from  *)
(* who still holds the document a save would write; ReopenedIsUntouched,   *)
(* from the rows a run has found; NothingOutlivesReset, from who is still  *)
(* busy with a run that the reset lists.                                   *)
(***************************************************************************)
EXTENDS FirstPass, TLAPS

\* The groups of TypeOK.
StoreOK ==
  /\ runstate \in [Runs -> Records]
  /\ approval \in [Runs -> {"absent", "pending", "approved"}]
  /\ claims \in [Runs -> Nat]
  /\ recent \subseteq Runs
  /\ seen \in [Documents -> Runs \cup {Nobody}]
  /\ profileRuns \in Nat
ErpOK ==
  /\ ledger \in Tables /\ payments \in Tables /\ dispositions \in Tables
  /\ inbox \in [Documents -> InboxStates]
  /\ toggle \in {"off", "armed", "fired"}
ControlOK ==
  /\ pc \in [Actors -> Labels]
  /\ attempt \in [Actors -> {1, 2}]
CopyOK ==
  /\ loaded \in [Actors -> BOOLEAN]
  /\ rows \in [Actors -> Tables]
  /\ items \in [Actors -> [Documents -> InboxStates]]
  /\ count \in [Actors -> Nat]
  /\ known \in [Actors -> Runs \cup {Nobody}]
MachineOK == machine \in [Actors -> Records]
RunOK ==
  /\ prior \in [Runs -> BOOLEAN]
  /\ route \in [Runs -> Routes]
  /\ goal \in [Runs -> {"new", "held"}]
ResetOK ==
  /\ resetAt \in Resetting /\ resets \in Nat
  /\ doomed \subseteq Runs /\ doomedApprovals \subseteq Runs
SeenOK ==
  late \subseteq Runs /\ straddled \subseteq Runs /\ wiped \subseteq Runs
BoundOK == scenario \in Scenarios /\ faults \in Nat /\ arms \in Nat

LEMMA TypeGroups ==
  TypeOK <=> /\ StoreOK /\ ErpOK /\ ControlOK /\ CopyOK /\ MachineOK
             /\ RunOK /\ ResetOK /\ SeenOK /\ BoundOK
  BY DEF TypeOK, StoreOK, ErpOK, ControlOK, CopyOK, MachineOK, RunOK, ResetOK,
         SeenOK, BoundOK

LEMMA TypeGroupsNext ==
  ASSUME StoreOK', ErpOK', ControlOK', CopyOK', MachineOK', RunOK', ResetOK',
         SeenOK', BoundOK'
  PROVE  TypeOK'
  BY DEF TypeOK, StoreOK, ErpOK, ControlOK, CopyOK, MachineOK, RunOK, ResetOK,
         SeenOK, BoundOK

\* What is left alone keeps its type.
LEMMA SameGroups ==
  ASSUME TypeOK
  PROVE  /\ UNCHANGED storeVars => StoreOK'
         /\ UNCHANGED erpVars => ErpOK'
         /\ UNCHANGED <<pc, attempt>> => ControlOK'
         /\ UNCHANGED copyVars => CopyOK'
         /\ UNCHANGED machine => MachineOK'
         /\ UNCHANGED runVars => RunOK'
         /\ UNCHANGED resetVars => ResetOK'
         /\ UNCHANGED seenVars => SeenOK'
         /\ UNCHANGED boundVars => BoundOK'
  BY DEF TypeOK, StoreOK, ErpOK, ControlOK, CopyOK, MachineOK, RunOK, ResetOK,
         SeenOK, BoundOK, storeVars, erpVars, copyVars, runVars, resetVars,
         seenVars, boundVars

LEMMA ActorRun ==
  ASSUME NEW a \in Actors
  PROVE  /\ RunOf(a) \in Runs
         /\ IsFirst(a) => a = <<RunOf(a), "first">>
         /\ ~IsFirst(a) => a = <<RunOf(a), "visitor">>
  BY DEF Actors, Firsts, Visitors, RunOf, IsFirst

LEMMA DocType ==
  ASSUME TypeOK, NEW u \in Runs
  PROVE  Doc(u) \in Documents
  BY FirstPassAssumption DEF TypeOK, Scenario, Doc

LEMMA CaughtLabel ==
  ASSUME NEW a \in Actors, pc[a] \in Labels
  PROVE  Caught(a) \in Labels
  BY DEF Caught, Labels, InCatch, Stopped, VisitorCalls, Executor

-----------------------------------------------------------------------------
(* Types.                                                                  *)

LEMMA ThrowsTyped ==
  ASSUME TypeOK, NEW a \in Actors, Throws(a)
  PROVE  ControlOK' /\ CopyOK'
<1>1. ControlOK /\ CopyOK
  BY TypeGroups
<1>2. Caught(a) \in Labels /\ "toggling" \in Labels
  BY <1>1, CaughtLabel DEF ControlOK, Labels, Body, Executor, InPayment
<1>3. ControlOK'
  BY <1>1, <1>2 DEF Throws, Goto, ControlOK
<1>4. CopyOK'
  BY <1>1 DEF Throws, CopyOK
<1> QED
  BY <1>3, <1>4

LEMMA RecordType ==
  ASSUME NEW rec \in Records, NEW to \in RunSteps
  PROVE  Transition(rec, to) \in Records
<1>1. rec.revision \in Nat
  BY DEF Records
<1>2. rec.revision + 1 \in Nat
  BY <1>1
<1> QED
  BY <1>1, <1>2 DEF Transition, Records

LEMMA PersistTyped ==
  ASSUME TypeOK, NEW a \in Actors, NEW to \in RunSteps, NEW next \in Labels,
         Persist(a, to, next)
  PROVE  /\ ControlOK' /\ CopyOK' /\ MachineOK'
         /\ runstate' \in [Runs -> Records]
<1>1. ControlOK /\ CopyOK /\ MachineOK /\ runstate \in [Runs -> Records]
  BY TypeGroups DEF StoreOK
<1>2. CASE CanTransition(machine[a], to)
  <2>1. Transition(machine[a], to) \in Records
    BY <1>1, RecordType DEF MachineOK
  <2>2. machine' = [machine EXCEPT ![a] = Transition(machine[a], to)]
    BY <1>2 DEF Persist
  <2>3. MachineOK'
    BY <1>1, <2>1, <2>2 DEF MachineOK
  <2>4. machine'[a] \in Records
    BY <2>3 DEF MachineOK
  <2>5. runstate' \in [Runs -> Records]
    BY <1>1, <1>2, <2>4, ActorRun DEF Persist
  <2>6. ControlOK' /\ CopyOK'
    BY <1>1, <1>2 DEF Persist, Goto, ControlOK, CopyOK, copyVars
  <2> QED
    BY <2>3, <2>5, <2>6
<1>3. CASE ~CanTransition(machine[a], to)
  BY <1>1, <1>3, ThrowsTyped DEF Persist, MachineOK
<1> QED
  BY <1>2, <1>3

LEMMA NewInboxType == NewInbox \in [Documents -> InboxStates]
  BY DEF NewInbox, InboxStates

LEMMA WroteTyped ==
  ASSUME TypeOK, NEW a \in Actors, Wrote(a)
  PROVE  CopyOK'
<1>1. CopyOK
  BY TypeGroups
<1>2. {} \in Tables
  BY DEF Tables
<1> QED
  BY <1>1, <1>2, NewInboxType DEF CopyOK, Wrote

LEMMA SetInboxTyped ==
  ASSUME TypeOK, NEW a \in Actors, NEW state \in InboxStates,
         NEW next \in Labels, SetInbox(a, state, next)
  PROVE  TypeOK'
<1>1. ErpOK /\ CopyOK /\ ControlOK /\ StoreOK
  BY TypeGroups
<1>2. CopyOK'
  BY WroteTyped DEF SetInbox
<1>3. ControlOK'
  BY <1>1 DEF SetInbox, Goto, Wrote, ControlOK
<1>4. InboxWith(a, state) \in [Documents -> InboxStates]
  BY <1>1 DEF InboxWith, CopyOK, InboxStates
<1>5. ErpOK'
  BY <1>1, <1>4 DEF SetInbox, ErpOK
<1>6. StoreOK' /\ MachineOK' /\ RunOK' /\ ResetOK' /\ SeenOK' /\ BoundOK'
  BY SameGroups DEF SetInbox
<1> QED
  BY <1>2, <1>3, <1>5, <1>6, TypeGroupsNext

LEMMA WipesTyped ==
  ASSUME TypeOK, Wipes, late' = late, straddled' = straddled
  PROVE  SeenOK'
<1>1. \A row \in ledger : RunOf(row) \in Runs
  BY ActorRun DEF TypeOK, Tables
<1> QED
  BY <1>1 DEF Wipes, SeenOK, TypeOK

\* A step that is not the reset's, a fault or the operator's.
LEMMA CallTyped ==
  ASSUME TypeOK, NEW a \in Actors, Call(a)
  PROVE  TypeOK'
<1>0. /\ StoreOK /\ ErpOK /\ ControlOK /\ CopyOK /\ MachineOK /\ RunOK
      /\ ResetOK /\ SeenOK /\ BoundOK /\ RunOf(a) \in Runs
      /\ Doc(RunOf(a)) \in Documents
  BY TypeGroups, ActorRun, DocType
<1>1. ASSUME Begin(a) PROVE TypeOK'
  <2>1. [step |-> "ingested", revision |-> 0] \in Records
    BY DEF Records, RunSteps
  <2>2. MachineOK'
    BY <1>0, <1>1, <2>1 DEF Begin, MachineOK
  <2>3. machine'[a] \in Records
    BY <2>2 DEF MachineOK
  <2>4. StoreOK'
    BY <1>0, <1>1, <2>3 DEF Begin, StoreOK
  <2>5. ControlOK'
    BY <1>0, <1>1 DEF Begin, Goto, ControlOK, Labels
  <2>6. SeenOK'
    BY <1>0, <1>1 DEF Begin, Overlap, SeenOK
  <2>7. ErpOK' /\ CopyOK' /\ RunOK' /\ ResetOK' /\ BoundOK'
    BY <1>1, SameGroups DEF Begin
  <2> QED
    BY <2>2, <2>4, <2>5, <2>6, <2>7, TypeGroupsNext
<1>2. ASSUME Mark(a) PROVE TypeOK'
  <2>1. {"processing", "processed", "held", "rejected"} \subseteq InboxStates
    BY DEF InboxStates
  <2>2. {"starting", "profiling", "done"} \subseteq Labels
    BY DEF Labels, Body, Executor, Stopped
  <2> QED
    BY <1>2, <2>1, <2>2, SetInboxTyped DEF Mark
<1>3. ASSUME Start(a) PROVE TypeOK'
  <2>1. StoreOK'
    BY <1>0, <1>3
       DEF Start, StoreOK
  <2>2. ControlOK'
    BY <1>0, <1>3
       DEF Start, Goto, ControlOK, Labels, Body, Executor, InPayment,
           InCatch, VisitorCalls, Stopped
  <2>3. ErpOK' /\ CopyOK' /\ MachineOK' /\ RunOK' /\ ResetOK' /\ SeenOK'
       /\ BoundOK'
    BY <1>3, SameGroups
       DEF Start
  <2> QED
    BY <2>1, <2>2, <2>3, TypeGroupsNext
<1>4. ASSUME Screen(a) PROVE TypeOK'
  <2>1. /\ "extracted" \in RunSteps /\ "reject" \in Routes
        /\ {"seeing", "drafting"} \subseteq Labels
    BY DEF RunSteps, Routes, Labels, Body
  <2>2. /\ ControlOK' /\ CopyOK' /\ MachineOK'
        /\ runstate' \in [Runs -> Records] /\ RunOK'
    <3>1. CASE Persist(a, "extracted", "seeing") /\ UNCHANGED route
      BY <1>0, <1>4, <2>1, <3>1, PersistTyped DEF Screen, RunOK
    <3>2. CASE /\ Goto(a, "drafting")
               /\ route' = [route EXCEPT ![RunOf(a)] = "reject"]
               /\ UNCHANGED <<runstate, machine, attempt, copyVars>>
      BY <1>0, <1>4, <2>1, <3>2
         DEF Screen, RunOK, ControlOK, CopyOK, MachineOK, StoreOK, Goto,
             copyVars
    <3> QED
      BY <1>4, <3>1, <3>2 DEF Screen
  <2>3. StoreOK'
    BY <1>0, <1>4, <2>2 DEF Screen, StoreOK
  <2>4. ErpOK' /\ ResetOK' /\ SeenOK' /\ BoundOK'
    BY <1>4, SameGroups DEF Screen
  <2> QED
    BY <2>2, <2>3, <2>4, TypeGroupsNext
<1>5. ASSUME See(a) PROVE TypeOK'
  <2>1. RunOK'
    BY <1>0, <1>5
       DEF See, RunOK
  <2>2. ControlOK'
    BY <1>0, <1>5
       DEF See, Goto, ControlOK, Labels, Body, Executor, InPayment,
           InCatch, VisitorCalls, Stopped
  <2>3. StoreOK' /\ ErpOK' /\ CopyOK' /\ MachineOK' /\ ResetOK' /\ SeenOK'
       /\ BoundOK'
    BY <1>5, SameGroups
       DEF See
  <2> QED
    BY <2>1, <2>2, <2>3, TypeGroupsNext
<1>6. ASSUME Compare(a) PROVE TypeOK'
  <2>1. RunOK'
    BY <1>0, <1>6
       DEF Compare, RunOK
  <2>2. ControlOK'
    BY <1>0, <1>6
       DEF Compare, Goto, ControlOK, Labels, Body, Executor, InPayment,
           InCatch, VisitorCalls, Stopped
  <2>3. StoreOK' /\ ErpOK' /\ CopyOK' /\ MachineOK' /\ ResetOK' /\ SeenOK'
       /\ BoundOK'
    BY <1>6, SameGroups
       DEF Compare
  <2> QED
    BY <2>1, <2>2, <2>3, TypeGroupsNext
<1>7. ASSUME Remember(a) PROVE TypeOK'
  <2>1. StoreOK'
    BY <1>0, <1>7
       DEF Remember, StoreOK, CopyOK
  <2>2. ControlOK'
    BY <1>0, <1>7
       DEF Remember, Wrote, Goto, ControlOK, Labels, Body, Executor,
           InPayment, InCatch, VisitorCalls, Stopped
  <2>3. CopyOK'
    BY <1>0, <1>7, WroteTyped
       DEF Remember
  <2>4. ErpOK' /\ MachineOK' /\ RunOK' /\ ResetOK' /\ SeenOK' /\ BoundOK'
    BY <1>7, SameGroups
       DEF Remember
  <2> QED
    BY <2>1, <2>2, <2>3, <2>4, TypeGroupsNext
<1>8. ASSUME Match(a) PROVE TypeOK'
  <2>1. "matched" \in RunSteps /\ "drafting" \in Labels
    BY DEF RunSteps, Labels, Body
  <2>2. /\ ControlOK' /\ CopyOK' /\ MachineOK'
        /\ runstate' \in [Runs -> Records]
    BY <1>8, <2>1, PersistTyped DEF Match
  <2>3. StoreOK'
    BY <1>0, <1>8, <2>2 DEF Match, StoreOK
  <2>4. RunOK'
    BY <1>0, <1>8 DEF Match, RoutesFor, RunOK, Routes
  <2>5. ErpOK' /\ ResetOK' /\ SeenOK' /\ BoundOK'
    BY <1>8, SameGroups DEF Match
  <2> QED
    BY <2>2, <2>3, <2>4, <2>5, TypeGroupsNext
<1>9. ASSUME Draft(a) PROVE TypeOK'
  <2>1. ErpOK'
    BY <1>0, <1>9
       DEF Draft, ErpOK, CopyOK, Tables
  <2>2. ControlOK'
    BY <1>0, <1>9
       DEF Draft, Wrote, Goto, ControlOK, Labels, Body, Executor,
           InPayment, InCatch, VisitorCalls, Stopped
  <2>3. CopyOK'
    BY <1>0, <1>9, WroteTyped
       DEF Draft
  <2>4. StoreOK' /\ MachineOK' /\ RunOK' /\ ResetOK' /\ SeenOK' /\ BoundOK'
    BY <1>9, SameGroups
       DEF Draft
  <2> QED
    BY <2>1, <2>2, <2>3, <2>4, TypeGroupsNext
<1>10. ASSUME Decide(a) PROVE TypeOK'
  <2>1. {"rejected", "decided", "held"} \subseteq RunSteps
    BY DEF RunSteps, TerminalSteps
  <2>2. {"rejecting", "profiling", "holding", "gating", "shelving"}
          \subseteq Labels
    BY DEF Labels, Body, Executor, InPayment, InCatch, VisitorCalls, Stopped
  <2>3. /\ ControlOK' /\ CopyOK' /\ MachineOK'
        /\ runstate' \in [Runs -> Records]
    BY <1>10, <2>1, <2>2, PersistTyped DEF Decide
  <2>4. StoreOK'
    BY <1>0, <1>10, <2>3 DEF Decide, StoreOK
  <2>5. ErpOK' /\ RunOK' /\ ResetOK' /\ SeenOK' /\ BoundOK'
    BY <1>10, SameGroups DEF Decide
  <2> QED
    BY <2>3, <2>4, <2>5, TypeGroupsNext
<1>11. ASSUME Shelve(a) PROVE TypeOK'
  <2>1. {"processing", "processed", "held", "rejected"} \subseteq InboxStates
    BY DEF InboxStates
  <2>2. {"starting", "profiling", "done"} \subseteq Labels
    BY DEF Labels, Body, Executor, Stopped
  <2> QED
    BY <1>11, <2>1, <2>2, SetInboxTyped DEF Shelve
<1>12. ASSUME Park(a) PROVE TypeOK'
  <2>1. {"awaiting_approval"} \subseteq RunSteps
    BY DEF RunSteps, TerminalSteps
  <2>2. {"announcing"}
          \subseteq Labels
    BY DEF Labels, Body, Executor, InPayment, InCatch, VisitorCalls, Stopped
  <2>3. /\ ControlOK' /\ CopyOK' /\ MachineOK'
        /\ runstate' \in [Runs -> Records]
    BY <1>12, <2>1, <2>2, PersistTyped DEF Park
  <2>4. StoreOK'
    BY <1>0, <1>12, <2>3 DEF Park, StoreOK
  <2>5. ErpOK' /\ RunOK' /\ ResetOK' /\ SeenOK' /\ BoundOK'
    BY <1>12, SameGroups DEF Park
  <2> QED
    BY <2>3, <2>4, <2>5, TypeGroupsNext
<1>13. ASSUME Announce(a) PROVE TypeOK'
  <2>1. ControlOK'
    BY <1>0, <1>13
       DEF Announce, Goto, ControlOK, Labels, Body, Executor,
           InPayment, InCatch, VisitorCalls, Stopped
  <2>2. StoreOK' /\ ErpOK' /\ CopyOK' /\ MachineOK' /\ RunOK' /\ ResetOK'
       /\ SeenOK' /\ BoundOK'
    BY <1>13, SameGroups
       DEF Announce
  <2> QED
    BY <2>1, <2>2, TypeGroupsNext
<1>14. ASSUME Recover(a) PROVE TypeOK'
  <2>1. "error" \in RunSteps /\ "counting" \in Labels
    BY DEF RunSteps, TerminalSteps, Labels, InCatch
  <2>2. /\ ControlOK' /\ CopyOK' /\ MachineOK'
        /\ runstate' \in [Runs -> Records]
    <3>1. CASE Persist(a, "error", "counting")
      BY <2>1, <3>1, PersistTyped
    <3>2. CASE /\ Goto(a, "counting")
               /\ UNCHANGED <<machine, runstate, attempt, copyVars>>
      BY <1>0, <2>1, <3>2
         DEF ControlOK, CopyOK, MachineOK, StoreOK, Goto, copyVars
    <3> QED
      BY <1>14, <3>1, <3>2 DEF Recover
  <2>3. StoreOK'
    BY <1>0, <1>14, <2>2 DEF Recover, StoreOK
  <2>4. ErpOK' /\ RunOK' /\ ResetOK' /\ SeenOK' /\ BoundOK'
    BY <1>14, SameGroups DEF Recover
  <2> QED
    BY <2>2, <2>3, <2>4, TypeGroupsNext
<1>15. ASSUME Count(a) PROVE TypeOK'
  <2>1. RunOK'
    BY <1>0, <1>15
       DEF Count, RunOK
  <2>2. ControlOK'
    BY <1>0, <1>15
       DEF Count, Goto, ControlOK, Labels, Body, Executor, InPayment,
           InCatch, VisitorCalls, Stopped
  <2>3. StoreOK' /\ ErpOK' /\ CopyOK' /\ MachineOK' /\ ResetOK' /\ SeenOK'
       /\ BoundOK'
    BY <1>15, SameGroups
       DEF Count
  <2> QED
    BY <2>1, <2>2, <2>3, TypeGroupsNext
<1>16. ASSUME Reopen(a) PROVE TypeOK'
  <2>1. goal[RunOf(a)] \in InboxStates /\ "done" \in Labels
    BY <1>0 DEF RunOK, InboxStates, Labels, Stopped
  <2> QED
    BY <1>16, <2>1, SetInboxTyped DEF Reopen
<1>17. ASSUME Load(a) PROVE TypeOK'
  <2>1. MachineOK'
    BY <1>0, <1>17
       DEF Load, MachineOK, StoreOK
  <2>2. ControlOK'
    BY <1>0, <1>17
       DEF Load, Goto, ControlOK, Labels, Body, Executor, InPayment,
           InCatch, VisitorCalls, Stopped
  <2>3. SeenOK'
    BY <1>0, <1>17
       DEF Load, Overlap, SeenOK
  <2>4. StoreOK' /\ ErpOK' /\ CopyOK' /\ RunOK' /\ ResetOK' /\ BoundOK'
    BY <1>17, SameGroups
       DEF Load
  <2> QED
    BY <2>1, <2>2, <2>3, <2>4, TypeGroupsNext
<1>18. ASSUME Claim(a) PROVE TypeOK'
  <2>1. StoreOK'
    BY <1>0, <1>18
       DEF Claim, StoreOK
  <2>2. ControlOK'
    BY <1>0, <1>18
       DEF Claim, Goto, ControlOK, Labels, Body, Executor, InPayment,
           InCatch, VisitorCalls, Stopped
  <2>3. ErpOK' /\ CopyOK' /\ MachineOK' /\ RunOK' /\ ResetOK' /\ SeenOK'
       /\ BoundOK'
    BY <1>18, SameGroups
       DEF Claim
  <2> QED
    BY <2>1, <2>2, <2>3, TypeGroupsNext
<1>19. ASSUME Fail(a) PROVE TypeOK'
  <2>1. {"error"} \subseteq RunSteps
    BY DEF RunSteps, TerminalSteps
  <2>2. {"done"}
          \subseteq Labels
    BY DEF Labels, Body, Executor, InPayment, InCatch, VisitorCalls, Stopped
  <2>3. /\ ControlOK' /\ CopyOK' /\ MachineOK'
        /\ runstate' \in [Runs -> Records]
    BY <1>19, <2>1, <2>2, PersistTyped DEF Fail
  <2>4. StoreOK'
    BY <1>0, <1>19, <2>3 DEF Fail, StoreOK
  <2>5. ErpOK' /\ RunOK' /\ ResetOK' /\ SeenOK' /\ BoundOK'
    BY <1>19, SameGroups DEF Fail
  <2> QED
    BY <2>3, <2>4, <2>5, TypeGroupsNext
<1>20. ASSUME Release(a) PROVE TypeOK'
  <2>1. StoreOK'
    BY <1>0, <1>20
       DEF Release, StoreOK
  <2>2. ControlOK'
    BY <1>0, <1>20
       DEF Release, Goto, ControlOK, Labels, Body, Executor, InPayment,
           InCatch, VisitorCalls, Stopped
  <2>3. ErpOK' /\ CopyOK' /\ MachineOK' /\ RunOK' /\ ResetOK' /\ SeenOK'
       /\ BoundOK'
    BY <1>20, SameGroups
       DEF Release
  <2> QED
    BY <2>1, <2>2, <2>3, TypeGroupsNext
<1>21. ASSUME Read(a) PROVE TypeOK'
  <2>1. CASE Throws(a)
    BY <1>21, <2>1, ThrowsTyped, SameGroups, TypeGroupsNext DEF Read
  <2>2. CASE ~Throws(a)
    <3>1. pc[a] \in TableCalls => TableAt(pc[a]) \in Tables
      BY <1>0 DEF TableCalls, TableAt, ErpOK
    <3>2. rows' \in [Actors -> Tables]
      BY <1>0, <1>21, <2>2, <3>1 DEF Read, CopyOK
    <3>3. CopyOK'
      <4>1. items' \in [Actors -> [Documents -> InboxStates]]
        BY <1>0, <1>21, <2>2 DEF Read, CopyOK, ErpOK
      <4>2. count' \in [Actors -> Nat]
        BY <1>0, <1>21, <2>2 DEF Read, CopyOK, StoreOK
      <4>3. known' \in [Actors -> Runs \cup {Nobody}]
        BY <1>0, <1>21, <2>2 DEF Read, CopyOK, StoreOK
      <4>4. loaded' \in [Actors -> BOOLEAN]
        BY <1>0, <1>21, <2>2 DEF Read, CopyOK
      <4> QED
        BY <3>2, <4>1, <4>2, <4>3, <4>4 DEF CopyOK
    <3>4. ControlOK'
      BY <1>21, <2>2, SameGroups DEF Read
    <3> QED
      BY <1>21, <3>3, <3>4, SameGroups, TypeGroupsNext DEF Read
  <2> QED
    BY <2>1, <2>2
<1>22. ASSUME Gate(a) PROVE TypeOK'
  <2>1. StoreOK'
    BY <1>0, <1>22
       DEF Gate, StoreOK
  <2>2. ControlOK'
    BY <1>0, <1>22
       DEF Gate, Goto, ControlOK, Labels, Body, Executor, InPayment,
           InCatch, VisitorCalls, Stopped
  <2>3. ErpOK' /\ CopyOK' /\ MachineOK' /\ RunOK' /\ ResetOK' /\ SeenOK'
       /\ BoundOK'
    BY <1>22, SameGroups
       DEF Gate
  <2> QED
    BY <2>1, <2>2, <2>3, TypeGroupsNext
<1>23. ASSUME Approve(a) PROVE TypeOK'
  <2>1. StoreOK'
    BY <1>0, <1>23
       DEF Approve, StoreOK
  <2>2. ControlOK'
    BY <1>0, <1>23
       DEF Approve, Wrote, Goto, ControlOK, Labels, Body, Executor,
           InPayment, InCatch, VisitorCalls, Stopped
  <2>3. CopyOK'
    BY <1>0, <1>23, WroteTyped
       DEF Approve
  <2>4. ErpOK' /\ MachineOK' /\ RunOK' /\ ResetOK' /\ SeenOK' /\ BoundOK'
    BY <1>23, SameGroups
       DEF Approve
  <2> QED
    BY <2>1, <2>2, <2>3, <2>4, TypeGroupsNext
<1>24. ASSUME Post(a) PROVE TypeOK'
  <2>1. CASE Throws(a) /\ UNCHANGED ledger
    <3>1. ErpOK' /\ SeenOK'
      BY <1>0, <1>24, <2>1, WipesTyped DEF Post, ErpOK
    <3> QED
      BY <1>24, <2>1, <3>1, ThrowsTyped, SameGroups, TypeGroupsNext DEF Post
  <2>2. CASE Wrote(a) /\ ledger' = rows[a] \cup {a} /\ Goto(a, "toggling")
    <3>1. ErpOK' /\ SeenOK'
      BY <1>0, <1>24, <2>2, WipesTyped DEF Post, ErpOK, CopyOK, Tables
    <3>2. ControlOK'
      BY <1>0, <2>2
         DEF Wrote, Goto, ControlOK, Labels, Body, Executor, InPayment
    <3> QED
      BY <1>24, <2>2, <3>1, <3>2, WroteTyped, SameGroups, TypeGroupsNext
         DEF Post
  <2> QED
    BY <1>24, <2>1, <2>2 DEF Post
<1>25. ASSUME Toggle(a) PROVE TypeOK'
  <2>1. ErpOK'
    BY <1>0, <1>25 DEF Toggle, ErpOK
  <2>2. ControlOK' /\ CopyOK'
    <3>1. CASE Throws(a)
      BY <3>1, ThrowsTyped
    <3>2. CASE /\ \E to \in {"firing", "paying"} : Goto(a, to)
               /\ UNCHANGED <<attempt, copyVars>>
      BY <1>0, <3>2, SameGroups
         DEF Goto, ControlOK, Labels, Body, Executor, InPayment
    <3> QED
      BY <1>25, <3>1, <3>2 DEF Toggle
  <2> QED
    BY <1>25, <2>1, <2>2, SameGroups, TypeGroupsNext DEF Toggle
<1>26. ASSUME Pay(a) PROVE TypeOK'
  <2>1. ErpOK'
    BY <1>0, <1>26
       DEF Pay, ErpOK, CopyOK, Tables
  <2>2. ControlOK'
    BY <1>0, <1>26
       DEF Pay, Wrote, Goto, ControlOK, Labels, Body, Executor,
           InPayment, InCatch, VisitorCalls, Stopped
  <2>3. CopyOK'
    BY <1>0, <1>26, WroteTyped
       DEF Pay
  <2>4. StoreOK' /\ MachineOK' /\ RunOK' /\ ResetOK' /\ SeenOK' /\ BoundOK'
    BY <1>26, SameGroups
       DEF Pay
  <2> QED
    BY <2>1, <2>2, <2>3, <2>4, TypeGroupsNext
<1>27. ASSUME Process(a) PROVE TypeOK'
  <2>1. {"processing", "processed", "held", "rejected"} \subseteq InboxStates
    BY DEF InboxStates
  <2>2. {"starting", "profiling", "done"} \subseteq Labels
    BY DEF Labels, Body, Executor, Stopped
  <2> QED
    BY <1>27, <2>1, <2>2, SetInboxTyped DEF Process
<1>28. ASSUME UpdateProfile(a) PROVE TypeOK'
  <2>1. StoreOK'
    BY <1>0, <1>28
       DEF UpdateProfile, StoreOK, CopyOK
  <2>2. ControlOK'
    BY <1>0, <1>28
       DEF UpdateProfile, Wrote, Goto, ControlOK, Labels, Body,
           Executor, InPayment, InCatch, VisitorCalls, Stopped
  <2>3. CopyOK'
    BY <1>0, <1>28, WroteTyped
       DEF UpdateProfile
  <2>4. ErpOK' /\ MachineOK' /\ RunOK' /\ ResetOK' /\ SeenOK' /\ BoundOK'
    BY <1>28, SameGroups
       DEF UpdateProfile
  <2> QED
    BY <2>1, <2>2, <2>3, <2>4, TypeGroupsNext
<1>29. ASSUME Settle(a) PROVE TypeOK'
  <2>1. {"executed"} \subseteq RunSteps
    BY DEF RunSteps, TerminalSteps
  <2>2. {"done"}
          \subseteq Labels
    BY DEF Labels, Body, Executor, InPayment, InCatch, VisitorCalls, Stopped
  <2>3. /\ ControlOK' /\ CopyOK' /\ MachineOK'
        /\ runstate' \in [Runs -> Records]
    BY <1>29, <2>1, <2>2, PersistTyped DEF Settle
  <2>4. StoreOK'
    BY <1>0, <1>29, <2>3 DEF Settle, StoreOK
  <2>5. ErpOK' /\ RunOK' /\ ResetOK' /\ SeenOK' /\ BoundOK'
    BY <1>29, SameGroups DEF Settle
  <2> QED
    BY <2>3, <2>4, <2>5, TypeGroupsNext
<1> QED
  BY <1>1, <1>2, <1>3, <1>4, <1>5, <1>6, <1>7, <1>8, <1>9, <1>10, <1>11,
     <1>12, <1>13, <1>14, <1>15, <1>16, <1>17, <1>18, <1>19, <1>20, <1>21,
     <1>22, <1>23, <1>24, <1>25, <1>26, <1>27, <1>28, <1>29
     DEF Call, FirstCall, VisitorCall, SharedCall

LEMMA TypeStep == TypeOK /\ [Next]_vars => TypeOK'
<1> SUFFICES ASSUME TypeOK, [Next]_vars PROVE TypeOK'
  OBVIOUS
<1>0. /\ StoreOK /\ ErpOK /\ ControlOK /\ CopyOK /\ MachineOK /\ RunOK
      /\ ResetOK /\ SeenOK /\ BoundOK
  BY TypeGroups
<1>1. ASSUME NEW a \in Actors, Call(a) PROVE TypeOK'
  BY <1>1, CallTyped
<1>2. ASSUME NEW a \in Actors, Throw(a) PROVE TypeOK'
  <2>1. BoundOK'
    BY <1>0, <1>2 DEF Throw, BoundOK
  <2>2. ControlOK' /\ CopyOK'
    BY <1>2, ThrowsTyped DEF Throw
  <2> QED
    BY <1>2, <2>1, <2>2, SameGroups, TypeGroupsNext DEF Throw
<1>3. ASSUME NEW a \in Actors, Crash(a) PROVE TypeOK'
  <2>1. BoundOK'
    BY <1>0, <1>3 DEF Crash, BoundOK
  <2>2. ControlOK'
    BY <1>0, <1>3 DEF Crash, Goto, ControlOK, Labels, Stopped
  <2> QED
    BY <1>3, <2>1, <2>2, SameGroups, TypeGroupsNext DEF Crash
<1>4. ASSUME ResetDemo PROVE TypeOK'
  <2>1. ASSUME ResetList PROVE TypeOK'
    <3>1. ResetOK' /\ SeenOK'
      BY <1>0, <2>1 DEF ResetList, ResetOK, SeenOK, Resetting, StoreOK
    <3> QED
      BY <2>1, <3>1, SameGroups, TypeGroupsNext DEF ResetList, actorVars
  <2>2. ASSUME ResetPoint PROVE TypeOK'
    <3>1. ResetOK'
      BY <1>0, <2>2 DEF ResetPoint, ResetOK, Resetting
    <3> QED
      BY <2>2, <3>1, SameGroups, TypeGroupsNext DEF ResetPoint, actorVars
  <2>3. ASSUME ResetSeed PROVE TypeOK'
    <3>1. ResetOK'
      BY <1>0, <2>3 DEF ResetSeed, ResetOK, Resetting
    <3>2. ErpOK' /\ SeenOK'
      BY <1>0, <2>3, NewInboxType, WipesTyped DEF ResetSeed, ErpOK, Tables
    <3> QED
      BY <2>3, <3>1, <3>2, SameGroups, TypeGroupsNext DEF ResetSeed, actorVars
  <2>4. ASSUME ResetDelete PROVE TypeOK'
    <3>1. ResetOK' /\ SeenOK'
      BY <1>0, <2>4 DEF ResetDelete, ResetOK, SeenOK, Resetting
    <3>2. Absent \in Records
      BY DEF Absent, Records
    <3>3. StoreOK'
      BY <1>0, <2>4, <3>2 DEF ResetDelete, StoreOK
    <3> QED
      BY <2>4, <3>1, <3>3, SameGroups, TypeGroupsNext
         DEF ResetDelete, actorVars
  <2> QED
    BY <1>4, <2>1, <2>2, <2>3, <2>4 DEF ResetDemo
<1>5. ASSUME SetToggle PROVE TypeOK'
  <2>1. BoundOK' /\ ErpOK'
    BY <1>0, <1>5 DEF SetToggle, BoundOK, ErpOK
  <2> QED
    BY <1>5, <2>1, SameGroups, TypeGroupsNext DEF SetToggle, actorVars
<1>6. CASE UNCHANGED vars
  BY <1>6, SameGroups, TypeGroupsNext DEF vars
<1> QED
  BY <1>1, <1>2, <1>3, <1>4, <1>5, <1>6 DEF Next

LEMMA TypeInit == Init => TypeOK
<1> SUFFICES ASSUME Init PROVE TypeOK
  OBVIOUS
<1>1. Absent \in Records
  BY DEF Absent, Records
<1>2. StoreOK /\ MachineOK
  BY <1>1 DEF Init, StoreOK, MachineOK
<1>3. ErpOK /\ CopyOK
  BY NewInboxType DEF Init, ErpOK, CopyOK, Tables
<1>4. ControlOK
  BY DEF Init, ControlOK, Labels, Stopped
<1>5. RunOK /\ ResetOK /\ SeenOK /\ BoundOK
  BY DEF Init, RunOK, ResetOK, SeenOK, BoundOK, Routes, Resetting
<1> QED
  BY <1>2, <1>3, <1>4, <1>5, TypeGroups

\* The store, the ERP tables and every actor's variables keep their types.
THEOREM TypeCorrect == Spec => []TypeOK
<1>1. Init => TypeOK
  BY TypeInit
<1>2. TypeOK /\ [Next]_vars => TypeOK'
  BY TypeStep
<1> QED
  BY <1>1, <1>2, PTL DEF Spec

-----------------------------------------------------------------------------
(* What a step of one actor leaves to the others.                          *)

\* A copy is held only by an actor that owes a write, or that crashed.
LoadedFits ==
  \A a \in Actors : loaded[a] => pc[a] \in ReadThenWrite \cup {"crashed"}

\* What a step of an actor does to its copies: it has none afterwards, or it
\* has just read, or it is gone.
ReadNow(a) ==
  /\ pc'[a] = pc[a] /\ pc[a] \in ReadThenWrite
  /\ rows'[a] = IF pc[a] \in TableCalls THEN TableAt(pc[a]) ELSE rows[a]
  /\ UNCHANGED <<storeVars, erpVars, runVars, seenVars>>

LEMMA CopyEffects ==
  ASSUME TypeOK, LoadedFits, NEW a \in Actors,
         Call(a) \/ Throw(a) \/ Crash(a)
  PROVE  /\ \A b \in Actors \ {a} : /\ pc'[b] = pc[b] /\ loaded'[b] = loaded[b]
                                   /\ rows'[b] = rows[b]
         /\ ~loaded'[a] \/ pc'[a] = "crashed" \/ ReadNow(a)
<1> DEFINE Others == \A b \in Actors \ {a} : /\ pc'[b] = pc[b]
                                            /\ loaded'[b] = loaded[b]
                                            /\ rows'[b] = rows[b]
           Idle == ~loaded'[a]
<1>0. /\ pc \in [Actors -> Labels] /\ loaded \in [Actors -> BOOLEAN]
      /\ rows \in [Actors -> Tables]
  BY DEF TypeOK
<1>1. \A to : Goto(a, to) => \A b \in Actors \ {a} : pc'[b] = pc[b]
  BY <1>0 DEF Goto
<1>2. /\ UNCHANGED copyVars => \A b \in Actors : /\ loaded'[b] = loaded[b]
                                               /\ rows'[b] = rows[b]
      /\ pc[a] \notin ReadThenWrite \cup {"crashed"} => ~loaded[a]
  BY DEF copyVars, LoadedFits
<1>3. Throws(a) => Others /\ Idle
  BY <1>0, <1>1 DEF Throws
<1>4. Wrote(a) => /\ Idle
                  /\ \A b \in Actors \ {a} : /\ loaded'[b] = loaded[b]
                                            /\ rows'[b] = rows[b]
  BY <1>0 DEF Wrote
<1>5. ASSUME NEW to, NEW next, Persist(a, to, next),
             pc[a] \notin ReadThenWrite \cup {"crashed"}
      PROVE  Others /\ Idle
  BY <1>0, <1>1, <1>2, <1>3, <1>5 DEF Persist
<1>6. \A state, next : SetInbox(a, state, next) => Others /\ Idle
  BY <1>1, <1>4 DEF SetInbox
<1>7. ASSUME NEW to, Goto(a, to), UNCHANGED copyVars,
             pc[a] \notin ReadThenWrite \cup {"crashed"}
      PROVE  Others /\ Idle
  BY <1>1, <1>2, <1>7
<1>8. ASSUME NEW to, Goto(a, to), Wrote(a)
      PROVE  Others /\ Idle
  BY <1>1, <1>4, <1>8
<1> HIDE DEF Others, Idle
<1>10. ASSUME \/ Mark(a) \/ Shelve(a) \/ Reopen(a) \/ Process(a)
       PROVE  Others /\ Idle
  BY <1>6, <1>10 DEF Mark, Shelve, Reopen, Process
<1>11. ASSUME \/ Remember(a) \/ Draft(a) \/ Approve(a) \/ Pay(a)
              \/ UpdateProfile(a)
       PROVE  Others /\ Idle
  BY <1>8, <1>11 DEF Remember, Draft, Approve, Pay, UpdateProfile
<1>12. ASSUME \/ Begin(a) \/ Start(a) \/ See(a) \/ Compare(a) \/ Announce(a)
              \/ Count(a) \/ Load(a) \/ Claim(a) \/ Release(a) \/ Gate(a)
       PROVE  Others /\ Idle
  <2>1. /\ \E to : Goto(a, to)
        /\ UNCHANGED copyVars
    BY <1>12
       DEF Begin, Start, See, Compare, Announce, Count, Load, Claim, Release,
           Gate
  <2>2. pc[a] \notin ReadThenWrite \cup {"crashed"}
    BY <1>12
       DEF Begin, Start, See, Compare, Announce, Count, Load, Claim, Release,
           Gate, At, ReadThenWrite, TableCalls, InboxCalls
  <2> QED
    BY <1>7, <2>1, <2>2
<1>13. ASSUME \/ Match(a) \/ Decide(a) \/ Park(a) \/ Fail(a) \/ Settle(a)
       PROVE  Others /\ Idle
  <2>1. \E to, next : Persist(a, to, next)
    BY <1>13 DEF Match, Decide, Park, Fail, Settle
  <2>2. pc[a] \notin ReadThenWrite \cup {"crashed"}
    BY <1>13 DEF Match, Decide, Park, Fail, Settle, At, ReadThenWrite,
                 TableCalls, InboxCalls
  <2> QED
    BY <1>5, <2>1, <2>2
<1>14. ASSUME Screen(a) \/ Recover(a) PROVE Others /\ Idle
  <2>1. pc[a] \notin ReadThenWrite \cup {"crashed"}
    BY <1>14 DEF Screen, Recover, At, ReadThenWrite, TableCalls, InboxCalls
  <2>2. \/ \E to, next : Persist(a, to, next)
        \/ \E to : Goto(a, to) /\ UNCHANGED copyVars
    BY <1>14 DEF Screen, Recover
  <2> QED
    BY <1>5, <1>7, <2>1, <2>2
<1>15. ASSUME Post(a) PROVE Others /\ Idle
  BY <1>3, <1>8, <1>15 DEF Post
<1>16. ASSUME Toggle(a) PROVE Others /\ Idle
  <2>1. pc[a] \notin ReadThenWrite \cup {"crashed"}
    BY <1>16 DEF Toggle, At, ReadThenWrite, TableCalls, InboxCalls
  <2>2. Throws(a) \/ \E to : Goto(a, to) /\ UNCHANGED copyVars
    BY <1>16 DEF Toggle
  <2> QED
    BY <1>3, <1>7, <2>1, <2>2
<1>17. ASSUME Read(a) PROVE Others /\ (Idle \/ ReadNow(a))
  <2>1. CASE Throws(a)
    BY <1>3, <2>1
  <2>2. CASE ~Throws(a)
    <3>1. Others
      BY <1>0, <1>17, <2>2 DEF Read, Others
    <3>2. ReadNow(a)
      BY <1>0, <1>17, <2>2 DEF Read, ReadNow
    <3> QED
      BY <3>1, <3>2
  <2> QED
    BY <2>1, <2>2
<1>18. ASSUME Throw(a) PROVE Others /\ Idle
  BY <1>3, <1>18 DEF Throw
<1>19. ASSUME Crash(a) PROVE Others /\ pc'[a] = "crashed"
  BY <1>0, <1>1, <1>2, <1>19 DEF Crash, Others, Goto
<1> QED
  BY <1>10, <1>11, <1>12, <1>13, <1>14, <1>15, <1>16, <1>17, <1>18, <1>19
     DEF Call, FirstCall, VisitorCall, SharedCall, Others, Idle

-----------------------------------------------------------------------------
(* One invoice, one row.                                                   *)

\* No two rows of a table are of one invoice.
Unique(table) ==
  \A a, b \in table : Invoice(RunOf(a)) = Invoice(RunOf(b)) => a = b

\* Whoever is about to post has read a table in which that holds.
OnceInv ==
  /\ LoadedFits
  /\ Unique(ledger)
  /\ \A a \in Actors : loaded[a] /\ pc[a] = "posting" => Unique(rows[a])

LEMMA LedgerWrites ==
  ASSUME NEW a \in Actors, Call(a) \/ Throw(a) \/ Crash(a)
  PROVE  /\ \/ ledger' = ledger
            \/ /\ pc[a] = "posting" /\ loaded[a]
               /\ ~InvoiceIn(rows[a], RunOf(a)) /\ ledger' = rows[a] \cup {a}
         /\ \/ payments' = payments
            \/ /\ pc[a] = "paying" /\ loaded[a]
               /\ payments' = rows[a] \cup {a}
         /\ scenario' = scenario
<1>1. Post(a) \/ ledger' = ledger
  BY DEF Call, FirstCall, VisitorCall, SharedCall, Throw, Crash, erpVars,
         SetInbox, Begin, Mark, Start, Screen, See, Compare, Remember, Match,
         Draft, Decide, Shelve, Park, Announce, Recover, Count, Reopen, Load,
         Claim, Fail, Release, Read, Gate, Approve, Toggle, Pay, Process,
         UpdateProfile, Settle
<1>2. Pay(a) \/ payments' = payments
  BY DEF Call, FirstCall, VisitorCall, SharedCall, Throw, Crash, erpVars,
         SetInbox, Begin, Mark, Start, Screen, See, Compare, Remember, Match,
         Draft, Decide, Shelve, Park, Announce, Recover, Count, Reopen, Load,
         Claim, Fail, Release, Read, Gate, Approve, Toggle, Post, Process,
         UpdateProfile, Settle
<1>3. scenario' = scenario
  BY DEF Call, FirstCall, VisitorCall, SharedCall, Throw, Crash, boundVars,
         SetInbox, Begin, Mark, Start, Screen, See, Compare, Remember, Match,
         Draft, Decide, Shelve, Park, Announce, Recover, Count, Reopen, Load,
         Claim, Fail, Release, Read, Gate, Approve, Toggle, Pay, Post, Process,
         UpdateProfile, Settle
<1> QED
  BY <1>1, <1>2, <1>3 DEF Post, Pay, At, Wrote

LEMMA OnceStep == TypeOK /\ OnceInv /\ [Next]_vars => OnceInv'
<1> SUFFICES ASSUME TypeOK, OnceInv, [Next]_vars PROVE OnceInv'
  OBVIOUS
<1>1. ASSUME NEW a \in Actors, Call(a) \/ Throw(a) \/ Crash(a) PROVE OnceInv'
  <2>0. LoadedFits
    BY DEF OnceInv
  <2>1. /\ \A b \in Actors \ {a} : /\ pc'[b] = pc[b] /\ loaded'[b] = loaded[b]
                                  /\ rows'[b] = rows[b]
        /\ ~loaded'[a] \/ pc'[a] = "crashed" \/ ReadNow(a)
    BY <1>1, <2>0, CopyEffects
  <2>2. \A T : Unique(T)' = Unique(T)
    BY <1>1, LedgerWrites DEF Unique, Invoice, Doc
  <2>3. Unique(ledger')
    <3>1. CASE ledger' = ledger
      BY <3>1 DEF OnceInv
    <3>2. CASE /\ pc[a] = "posting" /\ loaded[a]
               /\ ~InvoiceIn(rows[a], RunOf(a)) /\ ledger' = rows[a] \cup {a}
      <4>1. Unique(rows[a])
        BY <3>2 DEF OnceInv
      <4> QED
        BY <3>2, <4>1 DEF Unique, InvoiceIn
    <3> QED
      BY <1>1, <3>1, <3>2, LedgerWrites
  <2>4. LoadedFits'
    BY <2>0, <2>1 DEF LoadedFits, ReadNow
  <2>5. ASSUME NEW b \in Actors, loaded'[b], pc'[b] = "posting"
        PROVE  Unique(rows'[b])
    <3>1. CASE b # a
      BY <2>1, <2>5, <3>1 DEF OnceInv
    <3>2. CASE b = a
      <4>1. rows'[a] = ledger
        BY <2>1, <2>5, <3>2 DEF ReadNow, TableCalls, TableAt
      <4> QED
        BY <3>2, <4>1 DEF OnceInv
    <3> QED
      BY <3>1, <3>2
  <2> QED
    BY <1>1, <2>3, <2>4, <2>5, LedgerWrites DEF OnceInv, Unique, Invoice, Doc
<1>2. ASSUME UNCHANGED <<pc, copyVars, scenario>>,
             ledger' = ledger \/ ledger' = {}
      PROVE  OnceInv'
  BY <1>2 DEF OnceInv, LoadedFits, Unique, Invoice, Doc, copyVars
<1>3. CASE ResetDemo \/ SetToggle
  BY <1>2, <1>3
     DEF ResetDemo, ResetList, ResetPoint, ResetSeed, ResetDelete, SetToggle,
         actorVars, erpVars, boundVars
<1>4. CASE UNCHANGED vars
  BY <1>2, <1>4 DEF vars, erpVars, boundVars
<1> QED
  BY <1>1, <1>3, <1>4 DEF Next

\* However many runs and visitors read and write the ledger at once, it never
\* holds one invoice twice.
THEOREM PostedOnce == Spec => []InvoicePostedOnce
<1>1. Init => OnceInv
  BY DEF Init, OnceInv, LoadedFits, Unique
<1>2. TypeOK /\ OnceInv /\ [Next]_vars => OnceInv'
  BY OnceStep
<1>3. OnceInv => InvoicePostedOnce
  BY DEF OnceInv, Unique, InvoicePostedOnce
<1> QED
  BY <1>1, <1>2, <1>3, TypeCorrect, PTL DEF Spec

-----------------------------------------------------------------------------
(* A run that starts when its document is known moves no money.            *)

First(u)   == <<u, "first">>
Visitor(u) == <<u, "visitor">>

\* Nothing of run u is in the tables or about to be written into them, and
\* nobody can act on it but its own first pass.
Clean(u) ==
  /\ approval[u] = "absent" /\ pc[Visitor(u)] = "waiting"
  /\ \A row \in ledger \cup payments : RunOf(row) # u
  /\ \A b \in Actors :
       loaded[b] /\ pc[b] \in {"posting", "paying"} =>
         \A row \in rows[b] : RunOf(row) # u

\* Where a run that is held can be: before it has looked into the dedupe
\* ledger, past it with the answer yes, or on a path that leads to no money.
HeldLabels ==
  {"marking", "starting", "screening", "seeing", "comparing", "remembering",
   "matching", "drafting", "recording", "refusing", "rejecting", "profiling",
   "holding", "shelving", "recovering", "counting", "reopening", "done",
   "failed", "crashed"}

OnHoldPath(u) ==
  /\ pc[First(u)] \in HeldLabels
  /\ route[u] \in {"none", "reject", "exception_hold"}
  /\ pc[First(u)] \in {"comparing", "remembering", "matching"} => prior[u]
  /\ pc[First(u)] = "drafting" => route[u] # "none"
  /\ pc[First(u)] \in {"recording", "profiling"} =>
       route[u] = "exception_hold"

LateInv ==
  /\ LoadedFits
  /\ \A u \in Runs : pc[First(u)] = "idle" => Clean(u) /\ route[u] = "none"
  /\ \A u \in late : Clean(u) /\ OnHoldPath(u) /\ seen[Doc(u)] # Nobody

LEMMA RunActors ==
  ASSUME NEW u \in Runs
  PROVE  /\ First(u) \in Actors /\ Visitor(u) \in Actors
         /\ RunOf(First(u)) = u /\ RunOf(Visitor(u)) = u
         /\ First(u) # Visitor(u)
         /\ IsFirst(First(u)) /\ ~IsFirst(Visitor(u))
         /\ \A a \in Actors : RunOf(a) = u => a \in {First(u), Visitor(u)}
  BY DEF First, Visitor, Actors, Firsts, Visitors, RunOf, IsFirst

\* What a step may write of the runs and of the dedupe ledger.
LEMMA RunEffects ==
  ASSUME TypeOK, NEW a \in Actors, Call(a) \/ Throw(a) \/ Crash(a)
  PROVE  /\ \/ UNCHANGED approval
            \/ /\ pc[a] \in {"gating", "deciding"}
               /\ \A u \in Runs : u # RunOf(a) => approval'[u] = approval[u]
         /\ \A u \in Runs : u # RunOf(a) => /\ route'[u] = route[u]
                                            /\ prior'[u] = prior[u]
         /\ \A d \in Documents : seen[d] # Nobody => seen'[d] # Nobody
         /\ late' = late \/ (IsFirst(a) /\ Begin(a))
<1>0. /\ approval \in [Runs -> {"absent", "pending", "approved"}]
      /\ route \in [Runs -> Routes] /\ prior \in [Runs -> BOOLEAN]
      /\ seen \in [Documents -> Runs \cup {Nobody}]
      /\ known \in [Actors -> Runs \cup {Nobody}]
      /\ RunOf(a) \in Runs /\ Doc(RunOf(a)) \in Documents
  BY ActorRun, DocType DEF TypeOK
<1>1. Gate(a) \/ Approve(a) \/ approval' = approval
  BY DEF Call, FirstCall, VisitorCall, SharedCall, Throw, Crash, storeVars,
         SetInbox, Begin, Mark, Start, Screen, See, Compare, Remember, Match,
         Draft, Decide, Shelve, Park, Announce, Recover, Count, Reopen, Load,
         Claim, Fail, Release, Read, Post, Toggle, Pay, Process,
         UpdateProfile, Settle
<1>2. Gate(a) \/ Approve(a) =>
        /\ pc[a] \in {"gating", "deciding"}
        /\ \A u \in Runs : u # RunOf(a) => approval'[u] = approval[u]
  BY <1>0 DEF Gate, Approve, At
<1>3. Screen(a) \/ Match(a) \/ route' = route
  BY DEF Call, FirstCall, VisitorCall, SharedCall, Throw, Crash, runVars,
         SetInbox, Begin, Mark, Start, See, Compare, Remember,
         Draft, Decide, Shelve, Park, Announce, Recover, Count, Reopen, Load,
         Claim, Fail, Release, Read, Gate, Approve, Post, Toggle, Pay,
         Process, UpdateProfile, Settle
<1>4. Screen(a) \/ Match(a) =>
        \A u \in Runs : u # RunOf(a) => route'[u] = route[u]
  BY <1>0 DEF Screen, Match
<1>5. See(a) \/ Compare(a) \/ prior' = prior
  BY DEF Call, FirstCall, VisitorCall, SharedCall, Throw, Crash, runVars,
         SetInbox, Begin, Mark, Start, Screen, Match, Remember,
         Draft, Decide, Shelve, Park, Announce, Recover, Count, Reopen, Load,
         Claim, Fail, Release, Read, Gate, Approve, Post, Toggle, Pay,
         Process, UpdateProfile, Settle
<1>6. See(a) \/ Compare(a) =>
        \A u \in Runs : u # RunOf(a) => prior'[u] = prior[u]
  BY <1>0 DEF See, Compare
<1>7. Remember(a) \/ seen' = seen
  BY DEF Call, FirstCall, VisitorCall, SharedCall, Throw, Crash, storeVars,
         SetInbox, Begin, Mark, Start, Screen, Match, See, Compare,
         Draft, Decide, Shelve, Park, Announce, Recover, Count, Reopen, Load,
         Claim, Fail, Release, Read, Gate, Approve, Post, Toggle, Pay,
         Process, UpdateProfile, Settle
<1>8. Remember(a) => \A d \in Documents : seen[d] # Nobody => seen'[d] # Nobody
  BY <1>0, FirstPassAssumption DEF Remember
<1>9. (IsFirst(a) /\ Begin(a)) \/ late' = late
  BY DEF Call, FirstCall, VisitorCall, SharedCall, Throw, Crash, seenVars,
         SetInbox, Mark, Start, Screen, See, Compare, Remember, Match,
         Draft, Decide, Shelve, Park, Announce, Recover, Count, Reopen, Load,
         Claim, Fail, Release, Read, Gate, Approve, Post, Toggle, Pay,
         Process, UpdateProfile, Settle
<1> QED
  BY <1>1, <1>2, <1>3, <1>4, <1>5, <1>6, <1>7, <1>8, <1>9

\* A visitor waits as long as there is no approval to act on.
LEMMA WaiterStands ==
  ASSUME NEW a \in Actors, Call(a) \/ Throw(a) \/ Crash(a),
         NEW u \in Runs, Clean(u)
  PROVE  a # Visitor(u)
<1> SUFFICES ASSUME a = Visitor(u) PROVE FALSE
  OBVIOUS
<1>1. pc[a] = "waiting" /\ approval[u] = "absent" /\ ~IsFirst(a)
      /\ RunOf(a) = u
  BY RunActors DEF Clean
<1>2. ~Throw(a) /\ ~Crash(a)
  BY <1>1 DEF Throw, Crash, Stopped
<1> QED
  BY <1>1, <1>2
     DEF Call, VisitorCall, SharedCall, At, Load, Claim, Fail, Release,
         Read, Gate, Approve, Post, Toggle, Pay, Process, UpdateProfile,
         Settle, ReadThenWrite, TableCalls, InboxCalls

\* No step of an actor that is not the held run's own first pass, and none of
\* that first pass itself, writes anything of the run into the tables.
LEMMA CleanStep ==
  ASSUME TypeOK, LoadedFits, NEW a \in Actors,
         Call(a) \/ Throw(a) \/ Crash(a), NEW u \in Runs, Clean(u),
         pc[First(u)] \in HeldLabels \cup {"idle"}
  PROVE  Clean(u)'
<1>0. /\ pc \in [Actors -> Labels] /\ rows \in [Actors -> Tables]
      /\ First(u) \in Actors /\ Visitor(u) \in Actors
  BY RunActors DEF TypeOK
<1>1. a # Visitor(u)
  BY WaiterStands
<1>2. RunOf(a) = u => a = First(u)
  BY <1>1, RunActors
<1>3. RunOf(a) = u => pc[a] \notin {"gating", "deciding", "posting", "paying"}
  BY <1>2 DEF HeldLabels
<1>4. approval'[u] = "absent"
  BY <1>3, RunEffects DEF Clean
<1>5. /\ \A b \in Actors \ {a} : /\ pc'[b] = pc[b] /\ loaded'[b] = loaded[b]
                                /\ rows'[b] = rows[b]
      /\ ~loaded'[a] \/ pc'[a] = "crashed" \/ ReadNow(a)
  BY CopyEffects
<1>6. pc'[Visitor(u)] = "waiting"
  BY <1>0, <1>1, <1>5 DEF Clean
<1>7. \A row \in ledger' \cup payments' : RunOf(row) # u
  <2>1. \A row \in ledger' : RunOf(row) # u
    BY <1>3, LedgerWrites DEF Clean
  <2>2. \A row \in payments' : RunOf(row) # u
    BY <1>3, LedgerWrites DEF Clean
  <2> QED
    BY <2>1, <2>2
<1>8. ASSUME NEW b \in Actors, loaded'[b], pc'[b] \in {"posting", "paying"},
             NEW row \in rows'[b]
      PROVE  RunOf(row) # u
  <2>1. CASE b # a
    BY <1>5, <1>8, <2>1 DEF Clean
  <2>2. CASE b = a
    <3>1. ReadNow(a)
      BY <1>5, <1>8, <2>2
    <3>2. rows'[a] \in {ledger, payments}
      BY <1>8, <2>2, <3>1 DEF ReadNow, TableCalls, TableAt
    <3> QED
      BY <1>8, <2>2, <3>2 DEF Clean
  <2> QED
    BY <2>1, <2>2
<1> QED
  BY <1>4, <1>6, <1>7, <1>8 DEF Clean

\* The first pass of a held run stays on the path that moves no money.
LEMMA HoldStep ==
  ASSUME TypeOK, NEW u \in Runs, OnHoldPath(u), seen[Doc(u)] # Nobody,
         Call(First(u)) \/ Throw(First(u)) \/ Crash(First(u))
  PROVE  OnHoldPath(u)'
<1> DEFINE a == First(u)
<1>0. /\ pc \in [Actors -> Labels] /\ a \in Actors /\ IsFirst(a)
      /\ RunOf(a) = u /\ pc[a] \in HeldLabels
      /\ route \in [Runs -> Routes] /\ prior \in [Runs -> BOOLEAN]
  BY RunActors DEF TypeOK, OnHoldPath
<1>1. \A to : Goto(a, to) => pc'[a] = to
  BY <1>0 DEF Goto
<1>2. Throws(a) => pc'[a] \in {"recovering", "failed"}
  BY <1>0, <1>1 DEF Throws, Caught, InPayment, HeldLabels
<1>3. ASSUME NEW to, NEW next, Persist(a, to, next)
      PROVE  pc'[a] \in {next, "recovering", "failed"}
  BY <1>1, <1>2, <1>3 DEF Persist
<1> DEFINE Safe == {"marking", "starting", "screening", "seeing", "refusing",
                    "rejecting", "holding", "shelving", "recovering",
                    "counting", "reopening", "done", "failed", "crashed"}
<1>4. ASSUME pc'[a] \in Safe, UNCHANGED route PROVE OnHoldPath(u)'
  BY <1>4 DEF OnHoldPath, HeldLabels
<1>5. CASE Throw(a) \/ Crash(a)
  BY <1>1, <1>2, <1>4, <1>5 DEF Throw, Crash, runVars
<1>6. CASE Mark(a) \/ Shelve(a) \/ Reopen(a)
  BY <1>1, <1>4, <1>6 DEF Mark, Shelve, Reopen, SetInbox, runVars
<1>7. CASE Start(a) \/ Recover(a) \/ Count(a)
  BY <1>1, <1>3, <1>4, <1>7 DEF Start, Recover, Count, runVars
<1>8. CASE Screen(a)
  <2>1. CASE Persist(a, "extracted", "seeing") /\ UNCHANGED route
    BY <1>3, <1>4, <2>1
  <2>2. CASE Goto(a, "drafting") /\ route'[u] = "reject"
    BY <1>1, <2>2 DEF OnHoldPath, HeldLabels
  <2> QED
    BY <1>0, <1>8, <2>1, <2>2 DEF Screen
<1>9. CASE See(a)
  <2>1. pc'[a] = "comparing" /\ prior'[u] /\ route' = route
    BY <1>0, <1>1, <1>9 DEF See
  <2> QED
    BY <2>1 DEF OnHoldPath, HeldLabels
<1>10. CASE Compare(a)
  <2>1. pc'[a] = "remembering" /\ (prior[u] => prior'[u]) /\ route' = route
        /\ pc[a] = "comparing"
    BY <1>0, <1>1, <1>10 DEF Compare, At
  <2> QED
    BY <2>1 DEF OnHoldPath, HeldLabels
<1>11. CASE Remember(a)
  <2>1. pc'[a] = "matching" /\ prior' = prior /\ route' = route
        /\ pc[a] = "remembering"
    BY <1>1, <1>11 DEF Remember, At, runVars
  <2> QED
    BY <2>1 DEF OnHoldPath, HeldLabels
<1>12. CASE Match(a)
  <2>1. prior[u] /\ pc'[a] \in {"drafting", "recovering", "failed"}
    BY <1>3, <1>12 DEF Match, At, OnHoldPath
  <2>2. route'[u] = "exception_hold"
    BY <1>0, <1>12, <2>1 DEF Match, RoutesFor
  <2> QED
    BY <2>1, <2>2 DEF OnHoldPath, HeldLabels
<1>13. CASE Draft(a)
  <2>1. /\ pc'[a] = IF route[u] = "reject" THEN "refusing" ELSE "recording"
        /\ route' = route /\ pc[a] = "drafting"
    BY <1>0, <1>1, <1>13 DEF Draft, At, runVars
  <2> QED
    BY <2>1 DEF OnHoldPath, HeldLabels
<1>14. CASE Decide(a)
  <2>1. /\ pc'[a] \in {"rejecting", "shelving", "profiling", "holding",
                       "recovering", "failed"}
        /\ pc'[a] = "profiling" => route[u] = "exception_hold"
        /\ route' = route
    <3>1. route' = route
      BY <1>14 DEF Decide, runVars
    <3>2. CASE Persist(a, "rejected", "rejecting")
      BY <1>3, <3>1, <3>2
    <3>3. CASE Persist(a, "held", "shelving")
      BY <1>3, <3>1, <3>3
    <3>4. CASE At(a, "recording")
      <4>1. route[u] = "exception_hold"
        BY <3>4 DEF At, OnHoldPath
      <4>2. \E next \in {"profiling", "holding"} : Persist(a, "decided", next)
        BY <1>0, <1>14, <3>4, <4>1 DEF Decide, At
      <4> QED
        BY <1>3, <3>1, <4>1, <4>2
    <3> QED
      BY <1>14, <3>2, <3>3, <3>4 DEF Decide
  <2> QED
    BY <2>1 DEF OnHoldPath, HeldLabels
<1>15. CASE UpdateProfile(a)
  <2>1. pc'[a] = "holding" /\ route' = route
    BY <1>0, <1>1, <1>15 DEF UpdateProfile, At, OnHoldPath, runVars
  <2> QED
    BY <1>4, <2>1
<1>16. CASE Read(a)
  <2>1. CASE Throws(a)
    BY <1>2, <1>4, <1>16, <2>1 DEF Read, runVars
  <2>2. CASE ~Throws(a)
    BY <1>16, <2>2 DEF Read, OnHoldPath, runVars
  <2> QED
    BY <2>1, <2>2
<1>17. /\ ~Begin(a) /\ ~Park(a) /\ ~Announce(a) /\ ~Gate(a) /\ ~Approve(a)
       /\ ~Post(a) /\ ~Toggle(a) /\ ~Pay(a) /\ ~Process(a) /\ ~Settle(a)
  BY <1>0
     DEF Begin, Park, Announce, Gate, Approve, Post, Toggle, Pay, Process,
         Settle, At, HeldLabels
<1> QED
  BY <1>0, <1>5, <1>6, <1>7, <1>8, <1>9, <1>10, <1>11, <1>12, <1>13, <1>14,
     <1>15, <1>16, <1>17
     DEF Call, FirstCall, SharedCall

\* Nobody goes back to where a first pass begins.
LEMMA NeverIdle ==
  ASSUME TypeOK, NEW a \in Actors, Call(a) \/ Throw(a) \/ Crash(a)
  PROVE  pc'[a] # "idle"
<1>0. pc \in [Actors -> Labels] /\ goal \in [Runs -> {"new", "held"}]
  BY DEF TypeOK
<1>1. \A to : Goto(a, to) => pc'[a] = to
  BY <1>0 DEF Goto
<1>2. Throws(a) => pc'[a] # "idle"
  BY <1>1 DEF Throws, Caught
<1>3. ASSUME NEW to, NEW next, Persist(a, to, next), next # "idle"
      PROVE  pc'[a] # "idle"
  BY <1>1, <1>2, <1>3 DEF Persist
<1>4. ASSUME NEW state, NEW next, SetInbox(a, state, next), next # "idle"
      PROVE  pc'[a] # "idle"
  BY <1>1, <1>4 DEF SetInbox
<1>5. \/ Mark(a) \/ Shelve(a) \/ Reopen(a) \/ Process(a) => pc'[a] # "idle"
  BY <1>4 DEF Mark, Shelve, Reopen, Process
<1>6. \/ Remember(a) \/ Draft(a) \/ Approve(a) \/ Pay(a) \/ UpdateProfile(a)
      \/ Begin(a) \/ Start(a) \/ See(a) \/ Compare(a) \/ Announce(a)
      \/ Count(a) \/ Load(a) \/ Claim(a) \/ Release(a) \/ Gate(a)
      => pc'[a] # "idle"
  BY <1>1
     DEF Remember, Draft, Approve, Pay, UpdateProfile, Begin, Start, See,
         Compare, Announce, Count, Load, Claim, Release, Gate
<1>7. \/ Match(a) \/ Park(a) \/ Fail(a) \/ Settle(a) \/ Screen(a)
      \/ Recover(a) \/ Post(a) \/ Toggle(a)
      => pc'[a] # "idle"
  BY <1>1, <1>2, <1>3
     DEF Match, Park, Fail, Settle, Screen, Recover, Post, Toggle
<1>8. Decide(a) => pc'[a] # "idle"
  <2>1. Decide(a) => \E to, next : Persist(a, to, next) /\ next # "idle"
    BY DEF Decide
  <2> QED
    BY <1>3, <2>1
<1>9. Read(a) => pc'[a] # "idle"
  BY <1>2 DEF Read, ReadThenWrite, TableCalls, InboxCalls
<1>10. Throw(a) \/ Crash(a) => pc'[a] # "idle"
  BY <1>1, <1>2 DEF Throw, Crash
<1> QED
  BY <1>5, <1>6, <1>7, <1>8, <1>9, <1>10
     DEF Call, FirstCall, VisitorCall, SharedCall

LEMMA LateStep == TypeOK /\ LateInv /\ [Next]_vars => LateInv'
<1> SUFFICES ASSUME TypeOK, LateInv, [Next]_vars PROVE LateInv'
  OBVIOUS
<1>0. /\ pc \in [Actors -> Labels] /\ LoadedFits /\ late \subseteq Runs
      /\ route \in [Runs -> Routes]
  BY DEF TypeOK, LateInv
<1>1. ASSUME NEW a \in Actors, Call(a) \/ Throw(a) \/ Crash(a)
      PROVE  LateInv'
  <2>1. /\ \A b \in Actors \ {a} : /\ pc'[b] = pc[b] /\ loaded'[b] = loaded[b]
                                  /\ rows'[b] = rows[b]
        /\ ~loaded'[a] \/ pc'[a] = "crashed" \/ ReadNow(a)
    BY <1>0, <1>1, CopyEffects
  <2>2. LoadedFits'
    BY <1>0, <2>1 DEF LoadedFits, ReadNow
  <2>3. ASSUME NEW u \in Runs, Clean(u), a # First(u)
        PROVE  /\ RunOf(a) # u /\ pc'[First(u)] = pc[First(u)]
               /\ route'[u] = route[u] /\ prior'[u] = prior[u]
    <3>1. RunOf(a) # u
      BY <1>1, <2>3, WaiterStands, RunActors
    <3> QED
      BY <1>1, <2>1, <2>3, <3>1, RunActors, RunEffects
  <2>4. ASSUME NEW u \in Runs, pc'[First(u)] = "idle"
        PROVE  Clean(u)' /\ route'[u] = "none"
    <3>1. a # First(u)
      BY <1>1, <2>4, NeverIdle
    <3>2. pc[First(u)] = "idle"
      BY <2>1, <2>4, <3>1, RunActors
    <3>3. Clean(u) /\ route[u] = "none"
      BY <3>2 DEF LateInv
    <3>4. Clean(u)'
      BY <1>0, <1>1, <3>2, <3>3, CleanStep
    <3> QED
      BY <2>3, <3>1, <3>3, <3>4
  <2>5. ASSUME NEW u \in late
        PROVE  Clean(u)' /\ OnHoldPath(u)' /\ (seen[Doc(u)] # Nobody)'
    <3>1. /\ u \in Runs /\ Clean(u) /\ OnHoldPath(u) /\ seen[Doc(u)] # Nobody
      BY <1>0, <2>5 DEF LateInv
    <3>2. Clean(u)'
      BY <1>0, <1>1, <3>1, CleanStep DEF OnHoldPath
    <3>3. (seen[Doc(u)] # Nobody)'
      BY <1>1, <3>1, DocType, RunEffects, LedgerWrites DEF Doc
    <3>4. OnHoldPath(u)'
      <4>1. CASE a = First(u)
        BY <1>1, <3>1, <4>1, HoldStep
      <4>2. CASE a # First(u)
        BY <2>3, <3>1, <4>2 DEF OnHoldPath
      <4> QED
        BY <4>1, <4>2
    <3> QED
      BY <3>2, <3>3, <3>4
  <2>6. ASSUME IsFirst(a), Begin(a), NEW u \in late', u \notin late
        PROVE  Clean(u)' /\ OnHoldPath(u)' /\ (seen[Doc(u)] # Nobody)'
    <3>1. /\ u = RunOf(a) /\ u \in Runs /\ a = First(u)
          /\ pc[a] = "idle" /\ seen[Doc(u)] # Nobody
      BY <2>6, ActorRun DEF Begin, At, First
    <3>2. Clean(u) /\ route[u] = "none"
      BY <3>1 DEF LateInv
    <3>3. Clean(u)'
      BY <1>0, <1>1, <3>1, <3>2, CleanStep
    <3>4. /\ pc'[a] = "marking" /\ route' = route /\ seen' = seen
          /\ scenario' = scenario
      BY <1>0, <2>6 DEF Begin, Goto, runVars, boundVars
    <3> QED
      BY <3>1, <3>2, <3>3, <3>4 DEF OnHoldPath, HeldLabels, Doc
  <2>7. late' = late \/ (IsFirst(a) /\ Begin(a))
    BY <1>1, RunEffects
  <2> QED
    BY <2>2, <2>4, <2>5, <2>6, <2>7 DEF LateInv
<1>2. ASSUME UNCHANGED <<pc, copyVars, runVars, scenario>>,
             ledger' \subseteq ledger, payments' \subseteq payments,
             \A u \in Runs : approval'[u] \in {approval[u], "absent"},
             \/ UNCHANGED <<late, seen>>
             \/ late' = {}
      PROVE  LateInv'
  <2>1. \A u \in Runs : Clean(u) => Clean(u)'
    BY <1>2 DEF Clean, copyVars
  <2>2. \A u \in Runs : OnHoldPath(u) => OnHoldPath(u)'
    BY <1>2 DEF OnHoldPath, runVars
  <2>3. LoadedFits'
    BY <1>0, <1>2 DEF LoadedFits, copyVars
  <2>4. \A u \in Runs :
          pc'[First(u)] = "idle" => Clean(u)' /\ route'[u] = "none"
    BY <1>2, <2>1 DEF LateInv, runVars
  <2>5. \A u \in late' : /\ Clean(u)' /\ OnHoldPath(u)'
                        /\ (seen[Doc(u)] # Nobody)'
    BY <1>0, <1>2, <2>1, <2>2 DEF LateInv, Doc
  <2> QED
    BY <2>3, <2>4, <2>5 DEF LateInv
<1>3. CASE ResetDemo
  <2>1. UNCHANGED <<pc, copyVars, runVars, scenario>>
    BY <1>3 DEF ResetDemo, ResetList, ResetPoint, ResetSeed, ResetDelete,
                actorVars, boundVars
  <2>2. ledger' \subseteq ledger /\ payments' \subseteq payments
    BY <1>3 DEF ResetDemo, ResetList, ResetPoint, ResetSeed, ResetDelete,
                erpVars
  <2>3. \A u \in Runs : approval'[u] \in {approval[u], "absent"}
    <3>1. CASE ResetDelete
      BY <3>1 DEF ResetDelete
    <3>2. CASE approval' = approval
      BY <3>2
    <3> QED
      BY <1>3, <3>1, <3>2
         DEF ResetDemo, ResetList, ResetPoint, ResetSeed, storeVars
  <2>4. UNCHANGED <<late, seen>> \/ late' = {}
    BY <1>3 DEF ResetDemo, ResetList, ResetPoint, ResetSeed, ResetDelete,
                storeVars, seenVars
  <2> QED
    BY <1>2, <2>1, <2>2, <2>3, <2>4
<1>4. CASE SetToggle
  BY <1>2, <1>4 DEF SetToggle, actorVars, storeVars, boundVars, seenVars
<1>5. CASE UNCHANGED vars
  BY <1>2, <1>5 DEF vars, storeVars, erpVars, boundVars, seenVars
<1> QED
  BY <1>1, <1>3, <1>4, <1>5 DEF Next

\* A run that starts after its document was recorded never posts or pays,
\* whatever overlaps it: other runs, visitors, the approver, faults, resets.
THEOREM LatecomersAreHeld == Spec => []LatecomerIsHeld
<1>1. Init => LateInv
  BY RunActors
     DEF Init, LateInv, LoadedFits, Clean, First, Visitor, IsFirst
<1>2. TypeOK /\ LateInv /\ [Next]_vars => LateInv'
  BY LateStep
<1>3. TypeOK /\ LateInv => LatecomerIsHeld
  BY DEF LateInv, LatecomerIsHeld, Clean
<1> QED
  BY <1>1, <1>2, <1>3, TypeCorrect, PTL DEF Spec

-----------------------------------------------------------------------------
(* Money has consent.                                                      *)

\* The first pass up to where its route is known.
Early == {"idle", "marking", "starting", "screening", "seeing", "comparing",
          "remembering", "matching"}

\* Past the gate, with money to move.
Spending == {"posting", "toggling", "firing", "paying"}

Consented(u) == approval[u] = "approved" \/ Earned(u)

\* A payment of the run is made, about to be made, or in a table about to be
\* written back.
HasMoney(u) ==
  \/ \E a \in Actors : RunOf(a) = u /\ pc[a] \in Spending
  \/ \E row \in payments : RunOf(row) = u
  \/ \E b \in Actors : /\ loaded[b] /\ pc[b] = "paying"
                       /\ \E row \in rows[b] : RunOf(row) = u

ConsentInv ==
  /\ LoadedFits
  /\ \A u \in Runs : pc[First(u)] \in Early => Clean(u)
  /\ \A u \in recent : HasMoney(u) => Consented(u)

-----------------------------------------------------------------------------
(* Settled runs.                                                           *)

\* Where a first pass can be once it has parked its run, if nobody scripted
\* its approver.
AfterPark == {"announcing", "recovering", "counting", "reopening", "done",
              "failed", "crashed"}

\* While no visitor has loaded the run, the store has its first pass's copy.
Own == \A u \in Runs :
         pc[Visitor(u)] = "waiting" => runstate[u] \in {machine[First(u)], Absent}

Fresh == \A u \in Runs :
           pc[First(u)] = "idle" =>
             runstate[u] = Absent /\ pc[Visitor(u)] = "waiting"

Parked == \A u \in Runs \ scenario.scripted :
            machine[First(u)].step = "awaiting_approval" =>
              pc[First(u)] \in AfterPark

\* Then the store has the visitor's copy, unless the first pass failed.
Visited == \A u \in Runs \ (scenario.scripted \cap scenario.visited) :
             pc[Visitor(u)] # "waiting" =>
               /\ u \notin scenario.scripted /\ pc[First(u)] \in AfterPark
               /\ \/ runstate[u] \in {machine[Visitor(u)], Absent}
                  \/ machine[First(u)].step = "error"

FrozenInv == Own /\ Fresh /\ Parked /\ Visited

-----------------------------------------------------------------------------
(* Documents that are given back.                                          *)

\* Whoever holds a copy with a row of a first pass finds it in the ledger,
\* unless it was lost.
ReopenInv ==
  /\ LoadedFits
  /\ \A u \in Runs \ wiped : \A b \in Actors :
       loaded[b] /\ pc[b] = "posting" /\ First(u) \in rows[b] =>
         First(u) \in ledger
  /\ ReopenedIsUntouched

-----------------------------------------------------------------------------
(* Resets.                                                                 *)

Unlisted == {"idle", "marking", "starting"}

Still(u) == pc[First(u)] \in Stopped /\ pc[Visitor(u)] \in Stopped

\* A run under way is on the list; a reset stands still only over the others,
\* and they are among those it found; what it deleted stays deleted.
Listed  == \A u \in Runs \ straddled :
             pc[First(u)] \notin Unlisted \cup Stopped => u \in recent
Calm    == resetAt # "off" => \A u \in Runs \ straddled : Still(u)
Found   == resetAt # "off" => recent \ straddled \subseteq doomed
Backed  == \A u \in Runs \ straddled :
             claims[u] # 0 \/ pc[Visitor(u)] \notin Stopped =>
               approval[u] # "absent"
Pointed == resetAt \notin {"off", "pointing"} =>
             \A u \in doomed \ straddled :
               approval[u] # "absent" => u \in doomedApprovals
Gone    == \A u \in Runs \ (recent \cup straddled) :
             pc[First(u)] = "done" =>
               /\ pc[Visitor(u)] \in Stopped
               /\ runstate[u] = Absent /\ approval[u] = "absent"
               /\ claims[u] = 0

ResetInv == Listed /\ Calm /\ Found /\ Backed /\ Pointed /\ Gone

-----------------------------------------------------------------------------
(* Where the calls of an actor lead.                                       *)

FirstEdges ==
  {<<"marking", "starting">>, <<"starting", "screening">>,
   <<"screening", "seeing">>, <<"screening", "drafting">>,
   <<"seeing", "comparing">>, <<"comparing", "remembering">>,
   <<"remembering", "matching">>, <<"matching", "drafting">>,
   <<"drafting", "refusing">>, <<"drafting", "recording">>,
   <<"refusing", "rejecting">>, <<"recording", "profiling">>,
   <<"recording", "holding">>, <<"recording", "gating">>,
   <<"holding", "shelving">>, <<"rejecting", "done">>,
   <<"shelving", "done">>, <<"parking", "announcing">>,
   <<"announcing", "done">>, <<"recovering", "counting">>,
   <<"counting", "reopening">>, <<"reopening", "done">>}

VisitorEdges ==
  {<<"claiming", "deciding">>, <<"claiming", "refused">>,
   <<"failing", "done">>, <<"rechecking", "releasing">>,
   <<"rechecking", "failed">>, <<"releasing", "failed">>}

SharedEdges ==
  {<<"gating", "profiling">>, <<"gating", "parking">>,
   <<"gating", "failing">>, <<"deciding", "gating">>,
   <<"posting", "toggling">>, <<"toggling", "firing">>,
   <<"toggling", "paying">>, <<"paying", "processing">>,
   <<"processing", "profiling">>, <<"profiling", "holding">>,
   <<"profiling", "settling">>, <<"settling", "done">>}

Thrown(a) ==
  pc'[a] = Caught(a) \/ (pc[a] \in InPayment /\ pc'[a] = "toggling")

\* What a step of actor a does to its own place.
Moved(a) ==
  \/ pc[a] \in ReadThenWrite /\ pc'[a] = pc[a]
  \/ pc[a] \notin Stopped /\ (pc'[a] = "crashed" \/ Thrown(a))
  \/ IsFirst(a) /\ Begin(a) /\ pc'[a] = "marking"
  \/ ~IsFirst(a) /\ Load(a) /\ pc'[a] = "claiming"
  \/ IsFirst(a) /\ <<pc[a], pc'[a]>> \in FirstEdges
  \/ ~IsFirst(a) /\ <<pc[a], pc'[a]>> \in VisitorEdges
  \/ <<pc[a], pc'[a]>> \in SharedEdges
  \/ /\ pc[a] = "announcing" /\ pc'[a] = "deciding"
     /\ RunOf(a) \in scenario.scripted
  \/ pc[a] = "gating" /\ pc'[a] = "posting" /\ MayExecute(RunOf(a))

LEMMA Moves ==
  ASSUME TypeOK, NEW a \in Actors, Call(a) \/ Throw(a) \/ Crash(a)
  PROVE  Moved(a)
<1>0. pc \in [Actors -> Labels]
  BY DEF TypeOK
<1>1. \A to : Goto(a, to) => pc'[a] = to
  BY <1>0 DEF Goto
<1>2. Throws(a) => Thrown(a)
  BY <1>1 DEF Throws, Thrown
<1>3. \A to, next : Persist(a, to, next) => Thrown(a) \/ pc'[a] = next
  BY <1>1, <1>2 DEF Persist
<1>4. \A state, next : SetInbox(a, state, next) => pc'[a] = next
  BY <1>1 DEF SetInbox
<1>5. ASSUME Throws(a), pc[a] \notin Stopped PROVE Moved(a)
  BY <1>2, <1>5 DEF Moved
<1>6. ASSUME NEW to, NEW next, Persist(a, to, next), pc[a] \notin Stopped,
             \/ IsFirst(a) /\ <<pc[a], next>> \in FirstEdges
             \/ ~IsFirst(a) /\ <<pc[a], next>> \in VisitorEdges
             \/ <<pc[a], next>> \in SharedEdges
      PROVE  Moved(a)
  BY <1>3, <1>6 DEF Moved
<1>10. ASSUME IsFirst(a), FirstCall(a) PROVE Moved(a)
  <2>1. Begin(a) => Moved(a)
    BY <1>1, <1>10 DEF Begin, Moved
  <2>2. Mark(a) \/ Shelve(a) \/ Reopen(a) => Moved(a)
    BY <1>4, <1>10 DEF Mark, Shelve, Reopen, At, Moved, FirstEdges
  <2>3. Start(a) \/ See(a) \/ Compare(a) \/ Remember(a) => Moved(a)
    BY <1>1, <1>10 DEF Start, See, Compare, Remember, At, Moved, FirstEdges
  <2>4. Draft(a) \/ Count(a) => Moved(a)
    BY <1>1, <1>10 DEF Draft, Count, At, Moved, FirstEdges
  <2>5. Screen(a) => Moved(a)
    <3>1. ASSUME Screen(a), Persist(a, "extracted", "seeing") PROVE Moved(a)
      <4>1. pc[a] = "screening"
        BY <3>1 DEF Screen, At
      <4> QED
        BY <1>6, <1>10, <3>1, <4>1 DEF FirstEdges, Stopped
    <3>2. ASSUME Screen(a), Goto(a, "drafting") PROVE Moved(a)
      BY <1>1, <1>10, <3>2 DEF Screen, At, Moved, FirstEdges
    <3> QED
      BY <3>1, <3>2 DEF Screen
  <2>6. Match(a) => Moved(a)
    <3> SUFFICES ASSUME Match(a) PROVE Moved(a)
      OBVIOUS
    <3>1. pc[a] = "matching" /\ Persist(a, "matched", "drafting")
      BY DEF Match, At
    <3> QED
      BY <1>6, <1>10, <3>1 DEF FirstEdges, Stopped
  <2>7. Decide(a) => Moved(a)
    <3> SUFFICES ASSUME Decide(a) PROVE Moved(a)
      OBVIOUS
    <3>1. \/ pc[a] = "refusing" /\ Persist(a, "rejected", "rejecting")
          \/ /\ pc[a] = "recording"
             /\ \E next \in {"profiling", "holding", "gating"} :
                  Persist(a, "decided", next)
          \/ pc[a] = "holding" /\ Persist(a, "held", "shelving")
      BY DEF Decide, At
    <3> QED
      BY <1>6, <1>10, <3>1 DEF FirstEdges, Stopped
  <2>8. Park(a) => Moved(a)
    <3> SUFFICES ASSUME Park(a) PROVE Moved(a)
      OBVIOUS
    <3>1. pc[a] = "parking" /\ Persist(a, "awaiting_approval", "announcing")
      BY DEF Park, At
    <3> QED
      BY <1>6, <1>10, <3>1 DEF FirstEdges, Stopped
  <2>9. Announce(a) => Moved(a)
    BY <1>1, <1>10 DEF Announce, At, Moved, FirstEdges
  <2>10. Recover(a) => Moved(a)
    <3> SUFFICES ASSUME Recover(a) PROVE Moved(a)
      OBVIOUS
    <3>1. pc[a] = "recovering"
          /\ (Persist(a, "error", "counting") \/ Goto(a, "counting"))
      BY DEF Recover, At
    <3>2. Goto(a, "counting") => Moved(a)
      BY <1>1, <1>10, <3>1 DEF Moved, FirstEdges
    <3> QED
      BY <1>6, <1>10, <3>1, <3>2 DEF FirstEdges, Stopped
  <2> QED
    BY <1>10, <2>1, <2>2, <2>3, <2>4, <2>5, <2>6, <2>7, <2>8, <2>9, <2>10
       DEF FirstCall
<1>11. ASSUME ~IsFirst(a), VisitorCall(a) PROVE Moved(a)
  <2>1. Load(a) => Moved(a)
    BY <1>1, <1>11 DEF Load, Moved
  <2>2. Claim(a) \/ Release(a) => Moved(a)
    BY <1>1, <1>11 DEF Claim, Release, At, Moved, VisitorEdges
  <2>3. Fail(a) => Moved(a)
    <3> SUFFICES ASSUME Fail(a) PROVE Moved(a)
      OBVIOUS
    <3>1. pc[a] = "failing" /\ Persist(a, "error", "done")
      BY DEF Fail, At
    <3> QED
      BY <1>6, <1>11, <3>1 DEF VisitorEdges, Stopped
  <2> QED
    BY <1>11, <2>1, <2>2, <2>3 DEF VisitorCall
<1>12. ASSUME SharedCall(a) PROVE Moved(a)
  <2>1. Read(a) => Moved(a)
    <3> SUFFICES ASSUME Read(a) PROVE Moved(a)
      OBVIOUS
    <3>1. pc[a] \in ReadThenWrite /\ (Throws(a) \/ pc' = pc)
      BY DEF Read
    <3>2. pc[a] \notin Stopped
      BY <3>1 DEF ReadThenWrite, TableCalls, InboxCalls, Stopped
    <3> QED
      BY <1>5, <3>1, <3>2 DEF Moved
  <2>2. Gate(a) => Moved(a)
    BY <1>1 DEF Gate, At, Moved, SharedEdges
  <2>3. Approve(a) \/ Pay(a) \/ UpdateProfile(a) => Moved(a)
    BY <1>1 DEF Approve, Pay, UpdateProfile, At, Moved, SharedEdges
  <2>4. Post(a) \/ Toggle(a) => Moved(a)
    <3> SUFFICES ASSUME Post(a) \/ Toggle(a) PROVE Moved(a)
      OBVIOUS
    <3>1. \/ pc[a] = "posting" /\ (Throws(a) \/ Goto(a, "toggling"))
          \/ /\ pc[a] = "toggling"
             /\ Goto(a, "firing") \/ Goto(a, "paying")
          \/ pc[a] = "firing" /\ Throws(a)
      BY DEF Post, Toggle, At
    <3>2. pc[a] \notin Stopped
      BY <3>1 DEF Stopped
    <3> QED
      BY <1>1, <1>5, <3>1, <3>2 DEF Moved, SharedEdges
  <2>5. Process(a) => Moved(a)
    BY <1>4 DEF Process, At, Moved, SharedEdges
  <2>6. Settle(a) => Moved(a)
    <3> SUFFICES ASSUME Settle(a) PROVE Moved(a)
      OBVIOUS
    <3>1. pc[a] = "settling" /\ Persist(a, "executed", "done")
      BY DEF Settle, At
    <3> QED
      BY <1>6, <3>1 DEF SharedEdges, Stopped
  <2> QED
    BY <1>12, <2>1, <2>2, <2>3, <2>4, <2>5, <2>6 DEF SharedCall
<1>13. Throw(a) => Moved(a)
  BY <1>5 DEF Throw
<1>14. Crash(a) => Moved(a)
  BY <1>1 DEF Crash, Moved
<1> QED
  BY <1>10, <1>11, <1>12, <1>13, <1>14 DEF Call

\* Only a first pass that begins and a visitor that loads leave a place where
\* an actor stands still.
LEMMA Standing ==
  ASSUME NEW a \in Actors, pc[a] \in Stopped, Moved(a)
  PROVE  (IsFirst(a) /\ Begin(a)) \/ (~IsFirst(a) /\ Load(a))
BY DEF Moved, Stopped, ReadThenWrite, TableCalls, InboxCalls, FirstEdges,
       VisitorEdges, SharedEdges

\* Nobody goes back to where an actor starts.
LEMMA NeverBack ==
  ASSUME NEW a \in Actors, Moved(a)
  PROVE  pc'[a] \notin {"idle", "waiting"}
BY DEF Moved, Thrown, Caught, ReadThenWrite, TableCalls, InboxCalls,
       FirstEdges, VisitorEdges, SharedEdges

\* A first pass is early on only until its route is known.
LEMMA EarlyOnce ==
  ASSUME NEW a \in Actors, IsFirst(a), Moved(a), pc'[a] \in Early
  PROVE  pc[a] \in Early
BY DEF Moved, Thrown, Caught, Early, ReadThenWrite, TableCalls, InboxCalls,
       FirstEdges, VisitorEdges, SharedEdges, Begin, At

\* It is past its parking for good, if nobody scripted its approver.
LEMMA AfterParkStays ==
  ASSUME NEW a \in Actors, IsFirst(a), Moved(a), pc[a] \in AfterPark,
         RunOf(a) \notin scenario.scripted
  PROVE  pc'[a] \in AfterPark
BY DEF Moved, Thrown, Caught, AfterPark, Body, Executor, InPayment, Begin, At,
       FirstEdges, VisitorEdges, SharedEdges

\* Money is moved past the gate, and nowhere else.
LEMMA SpendingEarned ==
  ASSUME NEW a \in Actors, Moved(a), pc'[a] \in Spending
  PROVE  pc[a] \in Spending \/ MayExecute(RunOf(a))
BY DEF Moved, Thrown, Caught, Spending, ReadThenWrite, TableCalls, InboxCalls,
       FirstEdges, VisitorEdges, SharedEdges, InPayment

-----------------------------------------------------------------------------
(* What the calls of an actor write.                                       *)

LEMMA StoreEffects ==
  ASSUME TypeOK, NEW a \in Actors, Call(a) \/ Throw(a) \/ Crash(a)
  PROVE  /\ \/ recent' = recent
            \/ /\ IsFirst(a) /\ pc[a] = "starting"
               /\ recent' = recent \cup {RunOf(a)}
         /\ \/ claims' = claims
            \/ /\ ~IsFirst(a) /\ pc[a] = "claiming"
               /\ claims' = [claims EXCEPT ![RunOf(a)] = @ + 1]
            \/ /\ ~IsFirst(a) /\ pc[a] = "releasing"
               /\ claims' = [claims EXCEPT ![RunOf(a)] = 0]
         /\ goal' = goal \/ (IsFirst(a) /\ Count(a))
         /\ resetVars' = resetVars
<1>1. (IsFirst(a) /\ Start(a)) \/ recent' = recent
  BY DEF Call, FirstCall, VisitorCall, SharedCall, Throw, Crash, storeVars,
         SetInbox, Begin, Mark, Screen, See, Compare, Remember, Match,
         Draft, Decide, Shelve, Park, Announce, Recover, Count, Reopen, Load,
         Claim, Fail, Release, Read, Gate, Approve, Post, Toggle, Pay,
         Process, UpdateProfile, Settle
<1>2. (~IsFirst(a) /\ (Claim(a) \/ Release(a))) \/ claims' = claims
  BY DEF Call, FirstCall, VisitorCall, SharedCall, Throw, Crash, storeVars,
         SetInbox, Begin, Mark, Start, Screen, See, Compare, Remember, Match,
         Draft, Decide, Shelve, Park, Announce, Recover, Count, Reopen, Load,
         Fail, Read, Gate, Approve, Post, Toggle, Pay, Process,
         UpdateProfile, Settle
<1>3. (IsFirst(a) /\ Count(a)) \/ goal' = goal
  BY DEF Call, FirstCall, VisitorCall, SharedCall, Throw, Crash, runVars,
         SetInbox, Begin, Mark, Start, Screen, See, Compare, Remember, Match,
         Draft, Decide, Shelve, Park, Announce, Recover, Reopen, Load,
         Claim, Fail, Release, Read, Gate, Approve, Post, Toggle, Pay,
         Process, UpdateProfile, Settle
<1>4. resetVars' = resetVars
  BY DEF Call, FirstCall, VisitorCall, SharedCall, Throw, Crash, resetVars,
         SetInbox, Begin, Mark, Start, Screen, See, Compare, Remember, Match,
         Draft, Decide, Shelve, Park, Announce, Recover, Count, Reopen, Load,
         Claim, Fail, Release, Read, Gate, Approve, Post, Toggle, Pay,
         Process, UpdateProfile, Settle
<1>5. Start(a) => pc[a] = "starting" /\ recent' = recent \cup {RunOf(a)}
  BY DEF Start, At
<1>6. Claim(a) => /\ pc[a] = "claiming"
                  /\ claims' = [claims EXCEPT ![RunOf(a)] = @ + 1]
  BY DEF Claim, At
<1>7. Release(a) => \/ claims' = claims
                    \/ /\ pc[a] = "releasing"
                       /\ claims' = [claims EXCEPT ![RunOf(a)] = 0]
  BY DEF Release, At
<1> QED
  BY <1>1, <1>2, <1>3, <1>4, <1>5, <1>6, <1>7

\* A run that is begun or loaded during a reset is noted, and a row that is
\* overwritten is.
LEMMA SeenEffects ==
  ASSUME TypeOK, NEW a \in Actors, Call(a) \/ Throw(a) \/ Crash(a)
  PROVE  /\ straddled \subseteq straddled'
         /\ straddled' \subseteq straddled \cup {RunOf(a)}
         /\ /\ (IsFirst(a) /\ Begin(a)) \/ (~IsFirst(a) /\ Load(a))
            /\ resetAt # "off"
            => RunOf(a) \in straddled'
         /\ wiped' = wiped \cup {RunOf(row) : row \in ledger \ ledger'}
<1>1. \/ straddled' = straddled
      \/ IsFirst(a) /\ Begin(a)
      \/ ~IsFirst(a) /\ Load(a)
  BY DEF Call, FirstCall, VisitorCall, SharedCall, Throw, Crash, seenVars,
         SetInbox, Mark, Start, Screen, See, Compare, Remember, Match,
         Draft, Decide, Shelve, Park, Announce, Recover, Count, Reopen,
         Claim, Fail, Release, Read, Gate, Approve, Post, Toggle, Pay,
         Process, UpdateProfile, Settle
<1>2. Begin(a) \/ Load(a) => Overlap(RunOf(a))
  BY DEF Begin, Load
<1>3. Post(a) \/ UNCHANGED <<wiped, ledger>>
  BY DEF Call, FirstCall, VisitorCall, SharedCall, Throw, Crash, seenVars,
         erpVars,
         SetInbox, Begin, Mark, Start, Screen, See, Compare, Remember, Match,
         Draft, Decide, Shelve, Park, Announce, Recover, Count, Reopen, Load,
         Claim, Fail, Release, Read, Gate, Approve, Toggle, Pay, Process,
         UpdateProfile, Settle
<1>4. Post(a) => Wipes
  BY DEF Post
<1>5. UNCHANGED <<wiped, ledger>> => Wipes
  BY DEF Wipes
<1> QED
  BY <1>1, <1>2, <1>3, <1>4, <1>5 DEF Overlap, Wipes

\* transition() went through: the actor's copy and the stored record are equal.
Persisted(a, to) ==
  /\ CanTransition(machine[a], to)
  /\ machine' = [machine EXCEPT ![a] = Transition(machine[a], to)]
  /\ runstate' = [runstate EXCEPT ![RunOf(a)] = machine'[a]]

\* Only a first pass parks a run, and past that it can only turn it into an
\* error.
LEMMA RecordEffects ==
  ASSUME TypeOK, NEW a \in Actors, Call(a) \/ Throw(a) \/ Crash(a)
  PROVE  \/ UNCHANGED <<machine, runstate>>
         \/ IsFirst(a) /\ Begin(a)
         \/ ~IsFirst(a) /\ Load(a)
         \/ \E to \in RunSteps :
              /\ Persisted(a, to)
              /\ to = "awaiting_approval" =>
                   IsFirst(a) /\ pc'[a] = "announcing"
              /\ pc[a] \in AfterPark => to = "error"
<1>0. pc \in [Actors -> Labels]
  BY DEF TypeOK
<1> DEFINE Goal == \E to \in RunSteps :
                     /\ Persisted(a, to)
                     /\ to = "awaiting_approval" =>
                          IsFirst(a) /\ pc'[a] = "announcing"
                     /\ pc[a] \in AfterPark => to = "error"
           Same == UNCHANGED <<machine, runstate>>
<1>1. \A to, next : Persist(a, to, next) =>
        Same \/ (Persisted(a, to) /\ pc'[a] = next)
  BY <1>0 DEF Persist, Persisted, Goto
<1>2. ASSUME NEW to \in RunSteps \ {"awaiting_approval"}, NEW next,
             Persist(a, to, next), pc[a] \notin AfterPark \/ to = "error"
      PROVE  Same \/ Goal
  BY <1>1, <1>2
<1> HIDE DEF Goal
<1>3. Screen(a) => Same \/ Goal
  <2>1. ASSUME Screen(a), Persist(a, "extracted", "seeing") PROVE Same \/ Goal
    <3>1. pc[a] \notin AfterPark
      BY <2>1 DEF Screen, At, AfterPark
    <3> QED
      BY <1>2, <2>1, <3>1 DEF RunSteps
  <2> QED
    BY <2>1 DEF Screen
<1>4. Match(a) => Same \/ Goal
  <2>1. Match(a) => /\ Persist(a, "matched", "drafting")
                    /\ pc[a] \notin AfterPark
    BY DEF Match, At, AfterPark
  <2> QED
    BY <1>2, <2>1 DEF RunSteps
<1>5. Decide(a) => Same \/ Goal
  <2>1. Decide(a) => /\ \E to \in {"rejected", "decided", "held"} :
                          \E next : Persist(a, to, next)
                     /\ pc[a] \notin AfterPark
    BY DEF Decide, At, AfterPark
  <2> QED
    BY <1>2, <2>1 DEF RunSteps, TerminalSteps
<1>6. IsFirst(a) /\ Park(a) => Same \/ Goal
  <2>1. Park(a) => /\ Persist(a, "awaiting_approval", "announcing")
                   /\ pc[a] \notin AfterPark
    BY DEF Park, At, AfterPark
  <2> QED
    BY <1>1, <2>1 DEF RunSteps, Goal
<1>7. Recover(a) \/ Fail(a) => Same \/ Goal
  <2>1. Recover(a) \/ Fail(a) =>
          Same \/ \E next : Persist(a, "error", next)
    BY DEF Recover, Fail
  <2> QED
    BY <1>2, <2>1 DEF RunSteps, TerminalSteps
<1>8. Settle(a) => Same \/ Goal
  <2>1. Settle(a) => Persist(a, "executed", "done") /\ pc[a] \notin AfterPark
    BY DEF Settle, At, AfterPark
  <2> QED
    BY <1>2, <2>1 DEF RunSteps, TerminalSteps
<1>9. \/ IsFirst(a) /\ (Begin(a) \/ Park(a))
      \/ ~IsFirst(a) /\ Load(a)
      \/ Screen(a) \/ Match(a) \/ Decide(a) \/ Recover(a) \/ Fail(a)
      \/ Settle(a) \/ Same
  BY DEF Call, FirstCall, VisitorCall, SharedCall, Throw, Crash, storeVars,
         SetInbox, Mark, Start, See, Compare, Remember,
         Draft, Shelve, Announce, Count, Reopen,
         Claim, Release, Read, Gate, Approve, Post, Toggle, Pay, Process,
         UpdateProfile
<1> QED
  BY <1>3, <1>4, <1>5, <1>6, <1>7, <1>8, <1>9 DEF Goal

\* Nobody else moves in a step of an actor.
LEMMA OthersStand ==
  ASSUME TypeOK, NEW a \in Actors, Call(a) \/ Throw(a) \/ Crash(a)
  PROVE  \A b \in Actors : b # a => pc'[b] = pc[b]
<1>0. pc \in [Actors -> Labels]
  BY DEF TypeOK
<1>1. pc' = pc \/ \E to : Goto(a, to)
  <2>1. Throws(a) => \E to : Goto(a, to)
    BY DEF Throws
  <2>2. \A to, next : Persist(a, to, next) => \E l : Goto(a, l)
    BY <2>1 DEF Persist
  <2>3. \A state, next : SetInbox(a, state, next) => \E l : Goto(a, l)
    BY DEF SetInbox
  <2>4. \/ Mark(a) \/ Shelve(a) \/ Reopen(a) \/ Process(a)
        => \E l : Goto(a, l)
    BY <2>3 DEF Mark, Shelve, Reopen, Process
  <2>5. \/ Remember(a) \/ Draft(a) \/ Approve(a) \/ Pay(a)
        \/ UpdateProfile(a) \/ Begin(a) \/ Start(a) \/ See(a) \/ Compare(a)
        \/ Announce(a) \/ Count(a) \/ Load(a) \/ Claim(a) \/ Release(a)
        \/ Gate(a) \/ Crash(a)
        => \E l : Goto(a, l)
    BY DEF Remember, Draft, Approve, Pay, UpdateProfile, Begin, Start, See,
           Compare, Announce, Count, Load, Claim, Release, Gate, Crash
  <2>6. \/ Match(a) \/ Park(a) \/ Fail(a) \/ Settle(a) \/ Screen(a)
        \/ Recover(a) \/ Post(a) \/ Toggle(a) \/ Throw(a) \/ Decide(a)
        => \E l : Goto(a, l)
    BY <2>1, <2>2
       DEF Match, Park, Fail, Settle, Screen, Recover, Post, Toggle, Throw,
           Decide
  <2>7. Read(a) => pc' = pc \/ \E l : Goto(a, l)
    BY <2>1 DEF Read
  <2> QED
    BY <2>4, <2>5, <2>6, <2>7 DEF Call, FirstCall, VisitorCall, SharedCall
<1> QED
  BY <1>0, <1>1 DEF Goto

\* A reset, the operator and a stutter leave the actors where they are, and
\* at most delete.
LEMMA OutsideStep ==
  ASSUME ResetDemo \/ SetToggle \/ UNCHANGED vars
  PROVE  /\ UNCHANGED <<pc, copyVars, runVars, machine, scenario>>
         /\ ledger' \subseteq ledger /\ payments' \subseteq payments
         /\ \A u \in Runs : approval'[u] \in {approval[u], "absent"}
         /\ \A u \in Runs : runstate'[u] \in {runstate[u], Absent}
         /\ recent' = {} \/ UNCHANGED <<recent, approval, runstate, claims>>
<1>1. UNCHANGED <<pc, copyVars, runVars, machine, scenario>>
  BY DEF ResetDemo, ResetList, ResetPoint, ResetSeed, ResetDelete, SetToggle,
         actorVars, boundVars, vars
<1>2. ledger' \subseteq ledger /\ payments' \subseteq payments
  BY DEF ResetDemo, ResetList, ResetPoint, ResetSeed, ResetDelete, SetToggle,
         erpVars, vars
<1>3. \/ ResetDelete
      \/ UNCHANGED <<recent, approval, runstate, claims>>
  BY DEF ResetDemo, ResetList, ResetPoint, ResetSeed, SetToggle, storeVars,
         vars
<1>4. ResetDelete => recent' = {}
  BY DEF ResetDelete
<1>5. ResetDelete =>
        /\ \A u \in Runs : approval'[u] \in {approval[u], "absent"}
        /\ \A u \in Runs : runstate'[u] \in {runstate[u], Absent}
  BY DEF ResetDelete
<1> QED
  BY <1>1, <1>2, <1>3, <1>4, <1>5

-----------------------------------------------------------------------------
(* Every payment of a listed run has consent.                              *)

\* A run whose route is known keeps the consent it has.
LEMMA ConsentStays ==
  ASSUME TypeOK, NEW a \in Actors, Call(a) \/ Throw(a) \/ Crash(a),
         NEW u \in Runs, Consented(u), pc[First(u)] \notin Early
  PROVE  Consented(u)'
<1>0. /\ approval \in [Runs -> {"absent", "pending", "approved"}]
      /\ RunOf(a) \in Runs
  BY ActorRun DEF TypeOK
<1>1. Mode(u)' = Mode(u)
  BY LedgerWrites DEF Mode
<1>2. route'[u] = route[u]
  <2>1. ASSUME Screen(a) \/ Match(a), IsFirst(a), RunOf(a) = u PROVE FALSE
    <3>1. pc[a] \in Early /\ a = First(u)
      BY <2>1, ActorRun DEF Screen, Match, At, Early, First
    <3> QED
      BY <3>1
  <2>2. CASE RunOf(a) # u
    BY <2>2, RunEffects
  <2>3. (IsFirst(a) /\ (Screen(a) \/ Match(a))) \/ route' = route
    BY DEF Call, FirstCall, VisitorCall, SharedCall, Throw, Crash, runVars,
           SetInbox, Begin, Mark, Start, See, Compare, Remember,
           Draft, Decide, Shelve, Park, Announce, Recover, Count, Reopen,
           Load, Claim, Fail, Release, Read, Gate, Approve, Post, Toggle, Pay,
           Process, UpdateProfile, Settle
  <2> QED
    BY <2>1, <2>2, <2>3
<1>3. Earned(u) => Earned(u)'
  BY <1>1, <1>2 DEF Earned, Mode
<1>4. ASSUME approval[u] = "approved" PROVE approval'[u] = "approved"
  <2>1. CASE RunOf(a) # u
    BY <1>4, <2>1, RunEffects
  <2>2. CASE RunOf(a) = u
    <3>1. Gate(a) => approval' = approval
      BY <1>4, <2>2 DEF Gate, MayExecute
    <3>2. Approve(a) => approval'[u] = "approved"
      BY <1>0, <2>2 DEF Approve
    <3>3. Gate(a) \/ Approve(a) \/ approval' = approval
      BY DEF Call, FirstCall, VisitorCall, SharedCall, Throw, Crash,
             storeVars, SetInbox, Begin, Mark, Start, Screen, See, Compare,
             Remember, Match, Draft, Decide, Shelve, Park, Announce, Recover,
             Count, Reopen, Load, Claim, Fail, Release, Read, Post, Toggle,
             Pay, Process, UpdateProfile, Settle
    <3> QED
      BY <1>4, <3>1, <3>2, <3>3
  <2> QED
    BY <2>1, <2>2
<1> QED
  BY <1>3, <1>4 DEF Consented

\* A run gets its money past the gate or keeps what it had.
LEMMA MoneyEarned ==
  ASSUME TypeOK, LoadedFits, NEW a \in Actors,
         Call(a) \/ Throw(a) \/ Crash(a), NEW u \in Runs, HasMoney(u)'
  PROVE  HasMoney(u) \/ MayExecute(u)
<1>1. /\ \A b \in Actors \ {a} : /\ pc'[b] = pc[b] /\ loaded'[b] = loaded[b]
                                /\ rows'[b] = rows[b]
      /\ ~loaded'[a] \/ pc'[a] = "crashed" \/ ReadNow(a)
  BY CopyEffects
<1>2. ASSUME NEW b \in Actors, RunOf(b) = u, pc'[b] \in Spending
      PROVE  HasMoney(u) \/ MayExecute(u)
  <2>1. pc[b] \in Spending \/ MayExecute(u)
    BY <1>1, <1>2, Moves, SpendingEarned
  <2> QED
    BY <1>2, <2>1 DEF HasMoney
<1>3. ASSUME NEW row \in payments', RunOf(row) = u PROVE HasMoney(u)
  <2>1. CASE row \in payments
    BY <1>3, <2>1 DEF HasMoney
  <2>2. CASE row \notin payments
    <3>1. pc[a] = "paying" /\ loaded[a] /\ payments' = rows[a] \cup {a}
      BY <1>3, <2>2, LedgerWrites
    <3> QED
      BY <1>3, <3>1 DEF HasMoney, Spending
  <2> QED
    BY <2>1, <2>2
<1>4. ASSUME NEW b \in Actors, loaded'[b], pc'[b] = "paying",
             NEW row \in rows'[b], RunOf(row) = u
      PROVE  HasMoney(u)
  <2>1. CASE b # a
    BY <1>1, <1>4, <2>1 DEF HasMoney
  <2>2. CASE b = a
    <3>1. rows'[a] = payments
      BY <1>1, <1>4, <2>2 DEF ReadNow, TableCalls, TableAt
    <3> QED
      BY <1>4, <2>2, <3>1 DEF HasMoney
  <2> QED
    BY <2>1, <2>2
<1> QED
  BY <1>2, <1>3, <1>4 DEF HasMoney

LEMMA EarlyMoney ==
  ASSUME NEW u \in Runs, Clean(u), pc[First(u)] \in Early
  PROVE  ~HasMoney(u)
<1>1. \A a \in Actors : RunOf(a) = u => pc[a] \notin Spending
  BY RunActors DEF Clean, Early, Spending
<1> QED
  BY <1>1 DEF HasMoney, Clean

LEMMA ConsentStep == TypeOK /\ ConsentInv /\ [Next]_vars => ConsentInv'
<1> SUFFICES ASSUME TypeOK, ConsentInv, [Next]_vars PROVE ConsentInv'
  OBVIOUS
<1>0. /\ LoadedFits /\ recent \subseteq Runs
      /\ \A u \in Runs : pc[First(u)] \in Early => Clean(u)
  BY DEF ConsentInv, TypeOK
<1>1. ASSUME NEW a \in Actors, Call(a) \/ Throw(a) \/ Crash(a)
      PROVE  ConsentInv'
  <2>1. /\ \A b \in Actors \ {a} : /\ pc'[b] = pc[b] /\ loaded'[b] = loaded[b]
                                  /\ rows'[b] = rows[b]
        /\ ~loaded'[a] \/ pc'[a] = "crashed" \/ ReadNow(a)
    BY <1>0, <1>1, CopyEffects
  <2>2. LoadedFits'
    BY <1>0, <2>1 DEF LoadedFits, ReadNow
  <2>3. Moved(a)
    BY <1>1, Moves
  <2>4. ASSUME NEW u \in Runs, pc'[First(u)] \in Early PROVE Clean(u)'
    <3>1. pc[First(u)] \in Early
      BY <2>1, <2>3, <2>4, EarlyOnce, RunActors
    <3>2. Clean(u) /\ pc[First(u)] \in HeldLabels \cup {"idle"}
      BY <1>0, <3>1 DEF Early, HeldLabels
    <3> QED
      BY <1>0, <1>1, <3>2, CleanStep
  <2>5. ASSUME NEW u \in recent', HasMoney(u)' PROVE Consented(u)'
    <3>0. recent' = recent \/ /\ IsFirst(a) /\ pc[a] = "starting"
                              /\ recent' = recent \cup {RunOf(a)}
      BY <1>1, StoreEffects
    <3>1. u \in Runs
      BY <1>0, <2>5, <3>0, ActorRun
    <3>2. HasMoney(u) \/ MayExecute(u)
      BY <1>0, <1>1, <2>5, <3>1, MoneyEarned
    <3>3. pc[First(u)] \notin Early
      <4> SUFFICES ASSUME pc[First(u)] \in Early PROVE FALSE
        OBVIOUS
      <4>1. Clean(u) /\ pc[First(u)] \in HeldLabels \cup {"idle"}
        BY <1>0, <3>1 DEF Early, HeldLabels
      <4>2. Clean(u)'
        BY <1>0, <1>1, <3>1, <4>1, CleanStep
      <4>3. \A b \in Actors : RunOf(b) = u => pc'[b] \notin Spending
        <5>1. pc'[Visitor(u)] \notin Spending
          BY <4>2 DEF Clean, Spending
        <5>2. pc'[First(u)] \notin Spending
          <6>1. CASE a # First(u)
            BY <2>1, <3>1, <6>1, RunActors DEF Early, Spending
          <6>2. CASE a = First(u)
            BY <2>3, <6>2
               DEF Moved, Thrown, Caught, Early, Spending, FirstEdges,
                   VisitorEdges, SharedEdges, InPayment
          <6> QED
            BY <6>1, <6>2
        <5> QED
          BY <3>1, <5>1, <5>2, RunActors
      <4> QED
        BY <2>5, <4>2, <4>3 DEF HasMoney, Clean
    <3>4. u \in recent
      BY <3>0, <3>1, <3>3, ActorRun DEF First, Early
    <3>5. Consented(u)
      BY <1>0, <3>2, <3>4 DEF ConsentInv, MayExecute, Consented
    <3> QED
      BY <1>1, <3>1, <3>3, <3>5, ConsentStays
  <2> QED
    BY <2>2, <2>4, <2>5 DEF ConsentInv
<1>2. ASSUME UNCHANGED <<pc, copyVars, runVars, scenario>>,
             ledger' \subseteq ledger, payments' \subseteq payments,
             \A u \in Runs : approval'[u] \in {approval[u], "absent"},
             recent' = {} \/ UNCHANGED <<recent, approval>>
      PROVE  ConsentInv'
  <2>1. LoadedFits'
    BY <1>0, <1>2 DEF LoadedFits, copyVars
  <2>2. \A u \in Runs : Clean(u) => Clean(u)'
    BY <1>2 DEF Clean, copyVars
  <2>3. \A u \in recent' : HasMoney(u)' => Consented(u)'
    BY <1>2 DEF ConsentInv, HasMoney, Consented, Earned, Mode, copyVars,
                runVars
  <2> QED
    BY <1>0, <1>2, <2>1, <2>2, <2>3 DEF ConsentInv
<1>3. CASE ResetDemo \/ SetToggle \/ UNCHANGED vars
  <2>1. recent' = {} \/ UNCHANGED <<recent, approval>>
    BY <1>3, OutsideStep
  <2> QED
    BY <1>2, <1>3, <2>1, OutsideStep
<1> QED
  BY <1>1, <1>3 DEF Next

\* Whoever pays, a first pass or a visitor, and whoever writes the payments back
\* from an older copy: a paid run that is still listed shows an approval that was
\* given, or is one whose autonomy the gate found earned.
THEOREM PaymentsHaveConsent == Spec => []PaidHasConsent
<1>1. Init => ConsentInv
  <2> SUFFICES ASSUME Init PROVE ConsentInv
    OBVIOUS
  <2>1. LoadedFits /\ recent = {}
    BY DEF Init, LoadedFits
  <2>2. \A u \in Runs : Clean(u)
    BY RunActors DEF Init, Clean, Visitor, IsFirst
  <2> QED
    BY <2>1, <2>2 DEF ConsentInv
<1>2. TypeOK /\ ConsentInv /\ [Next]_vars => ConsentInv'
  BY ConsentStep
<1>3. TypeOK /\ ConsentInv => PaidHasConsent
  BY DEF ConsentInv, HasMoney, Consented, Earned, PaidHasConsent, TypeOK,
         Tables
<1> QED
  BY <1>1, <1>2, <1>3, TypeCorrect, PTL DEF Spec

-----------------------------------------------------------------------------
(* Settled runs stay.                                                      *)

\* The records of the actors that make no step.
LEMMA RecordOthers ==
  ASSUME TypeOK, NEW a \in Actors, Call(a) \/ Throw(a) \/ Crash(a)
  PROVE  /\ \A b \in Actors : b # a => machine'[b] = machine[b]
         /\ \A u \in Runs : u # RunOf(a) => runstate'[u] = runstate[u]
         /\ \/ IsFirst(a) /\ Begin(a)
            \/ runstate'[RunOf(a)] = machine'[a]
            \/ runstate' = runstate
<1>0. machine \in [Actors -> Records] /\ runstate \in [Runs -> Records]
      /\ RunOf(a) \in Runs
  BY ActorRun DEF TypeOK
<1>1. CASE IsFirst(a) /\ Begin(a)
  BY <1>0, <1>1 DEF Begin
<1>2. CASE ~IsFirst(a) /\ Load(a)
  BY <1>0, <1>2 DEF Load, storeVars
<1>3. CASE \E to \in RunSteps : Persisted(a, to)
  BY <1>0, <1>3 DEF Persisted
<1> QED
  BY <1>1, <1>2, <1>3, RecordEffects

\* A step of an actor of the run itself: a first pass that begins, a visitor
\* that loads, a transition, or nothing.
LEMMA RunRecord ==
  ASSUME TypeOK, Fresh, NEW a \in Actors, Call(a) \/ Throw(a) \/ Crash(a),
         NEW u \in Runs, RunOf(a) = u
  PROVE  \/ UNCHANGED <<machine, runstate>>
         \/ /\ a = First(u) /\ pc[a] = "idle" /\ pc'[a] = "marking"
            /\ machine'[a].step = "ingested"
            /\ runstate'[u] = machine'[a]
         \/ /\ a = Visitor(u) /\ pc[a] = "waiting"
            /\ u \in scenario.visited
            /\ runstate[u].step = "awaiting_approval"
            /\ machine'[a] = runstate[u] /\ runstate' = runstate
         \/ /\ machine[a].step \notin TerminalSteps
            /\ runstate'[u] = machine'[a]
            /\ machine'[a].step = "awaiting_approval" =>
                 a = First(u) /\ pc'[a] = "announcing"
            /\ pc[a] \in AfterPark => machine'[a].step = "error"
<1>0. machine \in [Actors -> Records] /\ runstate \in [Runs -> Records]
      /\ pc \in [Actors -> Labels]
      /\ (IsFirst(a) => a = First(u)) /\ (~IsFirst(a) => a = Visitor(u))
  BY ActorRun DEF TypeOK, First, Visitor
<1>1. CASE IsFirst(a) /\ Begin(a)
  BY <1>0, <1>1 DEF Begin, At, Goto
<1>2. CASE ~IsFirst(a) /\ Load(a)
  BY <1>0, <1>2 DEF Load, At, storeVars
<1>3. ASSUME NEW to \in RunSteps, Persisted(a, to),
             to = "awaiting_approval" => IsFirst(a) /\ pc'[a] = "announcing",
             pc[a] \in AfterPark => to = "error"
      PROVE  /\ machine[a].step \notin TerminalSteps
             /\ runstate'[u] = machine'[a]
             /\ machine'[a].step = to
  BY <1>0, <1>3 DEF Persisted, CanTransition, Transition
<1> QED
  BY <1>0, <1>1, <1>2, <1>3, RecordEffects

LEMMA FrozenCall ==
  ASSUME TypeOK, FrozenInv, NEW a \in Actors, Call(a) \/ Throw(a) \/ Crash(a)
  PROVE  FrozenInv'
<1>0. /\ pc \in [Actors -> Labels] /\ Own /\ Fresh /\ Parked /\ Visited
      /\ \A b \in Actors : b # a => pc'[b] = pc[b]
      /\ \A b \in Actors : b # a => machine'[b] = machine[b]
      /\ scenario' = scenario /\ Moved(a)
      /\ pc'[a] \notin {"idle", "waiting"}
  <2>1. \A b \in Actors : b # a => pc'[b] = pc[b]
    BY OthersStand
  <2> QED
    BY <2>1, RecordOthers, LedgerWrites, Moves, NeverBack DEF FrozenInv, TypeOK
<1>1. ASSUME NEW u \in Runs, u # RunOf(a)
      PROVE  /\ a \notin {First(u), Visitor(u)}
             /\ UNCHANGED <<pc[First(u)], pc[Visitor(u)], machine[First(u)],
                            machine[Visitor(u)], runstate[u]>>
  BY <1>0, <1>1, RunActors, RecordOthers
<1>2. ASSUME NEW u \in Runs, pc'[Visitor(u)] = "waiting"
      PROVE  runstate'[u] \in {machine'[First(u)], Absent}
  <2>1. CASE u # RunOf(a)
    BY <1>0, <1>1, <1>2, <2>1 DEF Own
  <2>2. CASE u = RunOf(a)
    <3>1. a # Visitor(u) /\ a = First(u)
      BY <1>0, <1>2, <2>2, RunActors
    <3>2. runstate[u] \in {machine[First(u)], Absent}
      BY <1>0, <1>2, <3>1, RunActors DEF Own
    <3>3. \/ UNCHANGED <<machine, runstate>>
          \/ runstate'[u] = machine'[First(u)]
      BY <1>0, <2>2, <3>1, RunRecord, RunActors
    <3> QED
      BY <3>2, <3>3
  <2> QED
    BY <2>1, <2>2
<1>3. ASSUME NEW u \in Runs, pc'[First(u)] = "idle"
      PROVE  runstate'[u] = Absent /\ pc'[Visitor(u)] = "waiting"
  <2>1. a # First(u) /\ pc[First(u)] = "idle"
    BY <1>0, <1>3, RunActors
  <2>2. runstate[u] = Absent /\ pc[Visitor(u)] = "waiting"
    BY <1>0, <2>1 DEF Fresh
  <2>3. a # Visitor(u)
    <3> SUFFICES ASSUME a = Visitor(u) PROVE FALSE
      OBVIOUS
    <3>1. pc[a] \in Stopped /\ ~IsFirst(a) /\ RunOf(a) = u
      BY <2>2, RunActors DEF Stopped
    <3>2. Load(a)
      BY <1>0, <3>1, Standing
    <3> QED
      BY <2>2, <3>1, <3>2 DEF Load, Absent
  <2> QED
    BY <1>0, <1>1, <2>1, <2>2, <2>3, RunActors
<1>4. ASSUME NEW u \in Runs, u \notin scenario.scripted,
             machine'[First(u)].step = "awaiting_approval"
      PROVE  pc'[First(u)] \in AfterPark
  <2>1. CASE a # First(u)
    BY <1>0, <1>4, <2>1, RunActors DEF Parked
  <2>2. CASE a = First(u)
    <3>0. RunOf(a) = u /\ IsFirst(a) /\ a # Visitor(u)
      BY <2>2, RunActors
    <3>1. CASE UNCHANGED <<machine, runstate>>
      <4>1. pc[First(u)] \in AfterPark
        BY <1>0, <1>4, <3>1 DEF Parked
      <4> QED
        BY <1>0, <1>4, <2>2, <3>0, <4>1, AfterParkStays
    <3>2. CASE machine'[a].step = "ingested"
      BY <1>4, <2>2, <3>2
    <3>3. CASE machine'[a].step = "awaiting_approval" =>
                 a = First(u) /\ pc'[a] = "announcing"
      BY <1>4, <2>2, <3>3 DEF AfterPark
    <3> QED
      BY <1>0, <2>2, <3>0, <3>1, <3>2, <3>3, RunRecord
  <2> QED
    BY <2>1, <2>2
<1>5. ASSUME NEW u \in Runs, u \notin scenario.scripted \cap scenario.visited,
             pc'[Visitor(u)] # "waiting"
      PROVE  /\ u \notin scenario.scripted /\ pc'[First(u)] \in AfterPark
             /\ \/ runstate'[u] \in {machine'[Visitor(u)], Absent}
                \/ machine'[First(u)].step = "error"
  <2>1. CASE u # RunOf(a)
    BY <1>0, <1>1, <1>5, <2>1 DEF Visited
  <2>2. CASE a = Visitor(u)
    <3>0. RunOf(a) = u /\ a # First(u)
          /\ UNCHANGED <<pc[First(u)], machine[First(u)]>>
      BY <1>0, <2>2, RunActors
    <3>1. CASE pc[a] # "waiting"
      <4>1. /\ u \notin scenario.scripted /\ pc[First(u)] \in AfterPark
            /\ \/ runstate[u] \in {machine[a], Absent}
               \/ machine[First(u)].step = "error"
        BY <1>0, <1>5, <2>2, <3>1 DEF Visited
      <4>2. UNCHANGED <<machine, runstate>> \/ runstate'[u] = machine'[a]
        BY <1>0, <3>0, <3>1, RunRecord
      <4> QED
        BY <2>2, <3>0, <4>1, <4>2
    <3>2. CASE pc[a] = "waiting"
      <4>1. Load(a)
        BY <1>0, <2>2, <3>2, Standing, RunActors DEF Stopped
      <4>2. /\ u \in scenario.visited
            /\ runstate[u].step = "awaiting_approval"
            /\ machine'[a] = runstate[u] /\ runstate' = runstate
        BY <3>0, <4>1 DEF Load, storeVars, TypeOK
      <4>3. machine[First(u)] = runstate[u]
        BY <1>0, <2>2, <3>2, <4>2 DEF Own, Absent
      <4>4. pc[First(u)] \in AfterPark
        BY <1>0, <1>5, <4>2, <4>3 DEF Parked
      <4> QED
        BY <1>5, <2>2, <3>0, <4>2, <4>4
    <3> QED
      BY <3>1, <3>2
  <2>3. CASE a = First(u)
    <3>0. RunOf(a) = u /\ a # Visitor(u) /\ IsFirst(a)
          /\ UNCHANGED <<pc[Visitor(u)], machine[Visitor(u)]>>
      BY <1>0, <2>3, RunActors
    <3>1. /\ u \notin scenario.scripted /\ pc[a] \in AfterPark
          /\ \/ runstate[u] \in {machine[Visitor(u)], Absent}
             \/ machine[a].step = "error"
      BY <1>0, <1>5, <2>3, <3>0 DEF Visited
    <3>2. pc'[a] \in AfterPark
      BY <1>0, <3>0, <3>1, AfterParkStays
    <3>3. UNCHANGED <<machine, runstate>> \/ machine'[a].step = "error"
      BY <1>0, <2>3, <3>0, <3>1, RunRecord DEF AfterPark
    <3> QED
      BY <2>3, <3>0, <3>1, <3>2, <3>3
  <2> QED
    BY <2>1, <2>2, <2>3, RunActors
<1>6. Own' /\ Fresh'
  BY <1>2, <1>3 DEF Own, Fresh
<1>7. Parked' /\ Visited'
  BY <1>0, <1>4, <1>5 DEF Parked, Visited
<1> QED
  BY <1>6, <1>7 DEF FrozenInv

LEMMA FrozenStep == TypeOK /\ FrozenInv /\ [Next]_vars => FrozenInv'
<1> SUFFICES ASSUME TypeOK, FrozenInv, [Next]_vars PROVE FrozenInv'
  OBVIOUS
<1>1. ASSUME NEW a \in Actors, Call(a) \/ Throw(a) \/ Crash(a)
      PROVE  FrozenInv'
  BY <1>1, FrozenCall
<1>2. ASSUME UNCHANGED <<pc, machine, scenario>>,
             \A u \in Runs : runstate'[u] \in {runstate[u], Absent}
      PROVE  FrozenInv'
  <2>1. Own' /\ Fresh'
    BY <1>2 DEF FrozenInv, Own, Fresh
  <2>2. Parked' /\ Visited'
    BY <1>2 DEF FrozenInv, Parked, Visited
  <2> QED
    BY <2>1, <2>2 DEF FrozenInv
<1>3. ResetDemo \/ SetToggle \/ UNCHANGED vars =>
        /\ UNCHANGED <<pc, machine, scenario>>
        /\ \A u \in Runs : runstate'[u] \in {runstate[u], Absent}
  BY OutsideStep
<1> QED
  BY <1>1, <1>2, <1>3 DEF Next

\* A terminal record is overwritten only by somebody who read the run before it
\* settled: the catch block of a first pass that parked its run, or the visitor
\* whose run that catch block has made an error.
THEOREM SettledStays == Spec => SettledIsFrozen
<1>1. Init => FrozenInv
  <2> SUFFICES ASSUME Init PROVE FrozenInv
    OBVIOUS
  <2>1. \A u \in Runs : /\ runstate[u] = Absent /\ machine[First(u)] = Absent
                       /\ pc[Visitor(u)] = "waiting"
    BY RunActors DEF Init
  <2> QED
    BY <2>1 DEF FrozenInv, Own, Fresh, Parked, Visited, Absent
<1>2. TypeOK /\ FrozenInv /\ [Next]_vars => FrozenInv'
  BY FrozenStep
<1>3. TypeOK /\ FrozenInv /\ [Next]_vars =>
        [\A u \in Runs \ (scenario.scripted \cap scenario.visited) :
           /\ runstate[u].step \in TerminalSteps
           /\ runstate'[u] \notin {runstate[u], Absent}
           => machine'[<<u, "first">>].step = "error"]_vars
  <2> SUFFICES ASSUME TypeOK, FrozenInv, Next,
                      NEW u \in Runs \ (scenario.scripted \cap scenario.visited),
                      runstate[u].step \in TerminalSteps,
                      runstate'[u] \notin {runstate[u], Absent}
               PROVE  machine'[First(u)].step = "error"
    BY DEF First
  <2>1. PICK a \in Actors : Call(a) \/ Throw(a) \/ Crash(a)
    BY OutsideStep DEF Next
  <2>2. RunOf(a) = u /\ Fresh
    BY <2>1, RecordOthers DEF FrozenInv
  <2>3. a \in {First(u), Visitor(u)} /\ First(u) # Visitor(u)
        /\ First(u) \in Actors
    BY <2>2, RunActors
  <2>4. runstate[u].step \notin {"absent", "awaiting_approval"}
    BY DEF TerminalSteps
  <2>5. pc[a] # "idle" \/ a # First(u)
    BY <2>2, <2>4 DEF Fresh, Absent
  <2>6. /\ machine[a].step \notin TerminalSteps
        /\ pc[a] \in AfterPark => machine'[a].step = "error"
    BY <2>1, <2>2, <2>4, <2>5, RunRecord
  <2>7. runstate[u] # Absent /\ runstate[u] # machine[a]
    BY <2>4, <2>6 DEF Absent
  <2>8. CASE a = First(u)
    <3>1. pc[Visitor(u)] # "waiting"
      BY <2>7, <2>8 DEF FrozenInv, Own
    <3>2. pc[a] \in AfterPark
      BY <2>8, <3>1 DEF FrozenInv, Visited
    <3> QED
      BY <2>6, <2>8, <3>2
  <2>9. CASE a = Visitor(u)
    <3>1. machine'[First(u)] = machine[First(u)]
      BY <2>1, <2>3, <2>9, RecordOthers
    <3>2. pc[a] # "waiting"
      <4> SUFFICES ASSUME pc[a] = "waiting" PROVE FALSE
        OBVIOUS
      <4>1. Moved(a) /\ pc[a] \in Stopped /\ ~IsFirst(a)
        BY <2>1, <2>9, Moves, RunActors DEF Stopped
      <4>2. Load(a)
        BY <4>1, Standing
      <4> QED
        BY <2>4, <2>2, <4>2 DEF Load
    <3>3. machine[First(u)].step = "error"
      BY <2>7, <2>9, <3>2 DEF FrozenInv, Visited
    <3> QED
      BY <3>1, <3>3
  <2> QED
    BY <2>3, <2>8, <2>9
<1> QED
  BY <1>1, <1>2, <1>3, TypeCorrect, PTL DEF Spec, SettledIsFrozen

-----------------------------------------------------------------------------
(* A document that is given back has no row.                               *)

LEMMA ReopenCall ==
  ASSUME TypeOK, ReopenInv, NEW a \in Actors, Call(a) \/ Throw(a) \/ Crash(a)
  PROVE  ReopenInv'
<1>0. /\ pc \in [Actors -> Labels] /\ goal \in [Runs -> {"new", "held"}]
      /\ LoadedFits /\ Moved(a)
  BY Moves DEF TypeOK, ReopenInv
<1>1. /\ \A b \in Actors \ {a} : /\ pc'[b] = pc[b] /\ loaded'[b] = loaded[b]
                                /\ rows'[b] = rows[b]
      /\ ~loaded'[a] \/ pc'[a] = "crashed" \/ ReadNow(a)
  BY <1>0, CopyEffects
<1>2. LoadedFits'
  BY <1>0, <1>1 DEF LoadedFits, ReadNow
<1>3. ASSUME NEW u \in Runs, u \notin wiped'
      PROVE  u \notin wiped /\ (First(u) \in ledger => First(u) \in ledger')
  BY <1>3, SeenEffects, RunActors
<1>4. ASSUME NEW u \in Runs \ wiped', NEW b \in Actors, loaded'[b],
             pc'[b] = "posting", First(u) \in rows'[b]
      PROVE  First(u) \in ledger'
  <2>1. CASE b # a
    BY <1>1, <1>3, <1>4, <2>1 DEF ReopenInv
  <2>2. CASE b = a
    <3>1. rows'[a] = ledger /\ ledger' = ledger
      BY <1>1, <1>4, <2>2 DEF ReadNow, TableCalls, TableAt, erpVars
    <3> QED
      BY <1>4, <2>2, <3>1
  <2> QED
    BY <2>1, <2>2
<1>5. ASSUME NEW u \in Runs \ wiped', pc'[First(u)] = "reopening",
             goal'[u] = "new"
      PROVE  First(u) \notin ledger'
  <2>1. CASE a # First(u)
    <3>1. pc[First(u)] = "reopening"
      BY <1>1, <1>5, <2>1, RunActors
    <3>2. goal[u] = "new"
      <4>1. ASSUME IsFirst(a), Count(a), RunOf(a) = u PROVE FALSE
        BY <2>1, <4>1, ActorRun DEF First
      <4>2. Count(a) => \A v \in Runs : v # RunOf(a) => goal'[v] = goal[v]
        BY <1>0 DEF Count
      <4> QED
        BY <1>5, <4>1, <4>2, StoreEffects
    <3>3. First(u) \notin ledger /\ u \notin wiped
      BY <1>3, <1>5, <3>1, <3>2 DEF ReopenInv, ReopenedIsUntouched, At, First
    <3>4. CASE ledger' = ledger
      BY <3>3, <3>4
    <3>5. CASE pc[a] = "posting" /\ loaded[a] /\ ledger' = rows[a] \cup {a}
      BY <1>5, <2>1, <3>3, <3>5 DEF ReopenInv
    <3> QED
      BY <3>4, <3>5, LedgerWrites
  <2>2. CASE a = First(u)
    <3>1. pc[a] \in {"reopening", "counting"}
      BY <1>0, <1>5, <2>2
         DEF Moved, Thrown, Caught, FirstEdges, VisitorEdges, SharedEdges
    <3>2. ledger' = ledger
      BY <3>1, LedgerWrites
    <3>3. CASE IsFirst(a) /\ Count(a)
      <4>1. goal'[u] = IF \E row \in ledger : RunOf(row) = u
                       THEN "held" ELSE "new"
        BY <1>0, <2>2, <3>3, RunActors DEF Count
      <4> QED
        BY <1>5, <3>2, <4>1, RunActors
    <3>4. CASE goal' = goal /\ ~Count(a)
      <4>1. pc[a] = "reopening"
        <5> SUFFICES ASSUME pc[a] = "counting" PROVE FALSE
          BY <3>1
        <5>1. Call(a) => Count(a)
          BY <2>2, RunActors
             DEF Call, FirstCall, SharedCall, Begin, Mark, Start, Screen, See,
                 Compare, Remember, Match, Draft, Decide, Shelve, Park,
                 Announce, Recover, Reopen, Read, Gate, Approve, Post, Toggle,
                 Pay, Process, UpdateProfile, Settle, At, ReadThenWrite,
                 TableCalls, InboxCalls
        <5>2. Throw(a) \/ Crash(a) => pc'[a] # "reopening"
          BY <1>0, <2>2, RunActors
             DEF Throw, Crash, Throws, Goto, Caught, Body, Executor, InPayment
        <5> QED
          BY <1>5, <2>2, <3>4, <5>1, <5>2
      <4> QED
        BY <1>3, <1>5, <2>2, <3>2, <3>4, <4>1
           DEF ReopenInv, ReopenedIsUntouched, At, First
    <3> QED
      BY <2>2, <3>3, <3>4, StoreEffects, RunActors
  <2> QED
    BY <2>1, <2>2
<1> QED
  BY <1>2, <1>4, <1>5 DEF ReopenInv, ReopenedIsUntouched, At, First

LEMMA ReopenStep == TypeOK /\ ReopenInv /\ [Next]_vars => ReopenInv'
<1> SUFFICES ASSUME TypeOK, ReopenInv, [Next]_vars PROVE ReopenInv'
  OBVIOUS
<1>1. ASSUME NEW a \in Actors, Call(a) \/ Throw(a) \/ Crash(a)
      PROVE  ReopenInv'
  BY <1>1, ReopenCall
<1>2. CASE ResetDemo \/ SetToggle \/ UNCHANGED vars
  <2>1. /\ UNCHANGED <<pc, copyVars, runVars>> /\ ledger' \subseteq ledger
    BY <1>2, OutsideStep
  <2>2. UNCHANGED <<wiped, ledger>> \/ Wipes
    BY <1>2 DEF ResetDemo, ResetList, ResetPoint, ResetSeed, ResetDelete,
                SetToggle, seenVars, erpVars, vars
  <2>3. \A u \in Runs \ wiped' :
          u \notin wiped /\ (First(u) \in ledger => First(u) \in ledger')
    BY <2>2, RunActors DEF Wipes
  <2>4. LoadedFits'
    BY <2>1 DEF ReopenInv, LoadedFits, copyVars
  <2>5. \A u \in Runs \ wiped' : \A b \in Actors :
          loaded'[b] /\ pc'[b] = "posting" /\ First(u) \in rows'[b] =>
            First(u) \in ledger'
    BY <2>1, <2>3 DEF ReopenInv, copyVars
  <2>6. ReopenedIsUntouched'
    BY <2>1, <2>3
       DEF ReopenInv, ReopenedIsUntouched, runVars, At
  <2> QED
    BY <2>4, <2>5, <2>6 DEF ReopenInv
<1> QED
  BY <1>1, <1>2 DEF Next

\* When the catch block found no ledger row of its run and gives the document
\* back, no row of that first pass turns up while it does, although other runs
\* write the ledger back from copies of their own.
THEOREM ReopenedStaysUntouched == Spec => []ReopenedIsUntouched
<1>1. Init => ReopenInv
  <2> SUFFICES ASSUME Init PROVE ReopenInv
    OBVIOUS
  <2>1. LoadedFits
    BY DEF Init, LoadedFits
  <2>2. \A b \in Actors : ~loaded[b]
    BY DEF Init
  <2>3. ReopenedIsUntouched
    BY DEF Init, ReopenedIsUntouched
  <2> QED
    BY <2>1, <2>2, <2>3 DEF ReopenInv
<1>2. TypeOK /\ ReopenInv /\ [Next]_vars => ReopenInv'
  BY ReopenStep
<1>3. ReopenInv => ReopenedIsUntouched
  BY DEF ReopenInv
<1> QED
  BY <1>1, <1>2, <1>3, TypeCorrect, PTL DEF Spec

-----------------------------------------------------------------------------
(* A reset deletes what it lists.                                          *)

\* A run that is off the resets' way and stays so: what a step of one of its
\* actors can be while a reset is under way.
LEMMA CalmStep ==
  ASSUME TypeOK, Calm, resetAt # "off", NEW a \in Actors,
         Call(a) \/ Throw(a) \/ Crash(a), NEW u \in Runs \ straddled'
  PROVE  RunOf(a) # u
<1> SUFFICES ASSUME RunOf(a) = u PROVE FALSE
  OBVIOUS
<1>1. pc[a] \in Stopped
  BY SeenEffects, RunActors DEF Calm, Still
<1>2. (IsFirst(a) /\ Begin(a)) \/ (~IsFirst(a) /\ Load(a))
  BY <1>1, Moves, Standing
<1> QED
  BY <1>2, SeenEffects

\* Only a reset deletes an approval.
LEMMA ApprovalKept ==
  ASSUME TypeOK, NEW a \in Actors, Call(a) \/ Throw(a) \/ Crash(a),
         approval[RunOf(a)] # "absent"
  PROVE  approval'[RunOf(a)] # "absent"
<1>1. Gate(a) \/ Approve(a) \/ approval' = approval
  BY DEF Call, FirstCall, VisitorCall, SharedCall, Throw, Crash, storeVars,
         SetInbox, Begin, Mark, Start, Screen, See, Compare, Remember, Match,
         Draft, Decide, Shelve, Park, Announce, Recover, Count, Reopen, Load,
         Claim, Fail, Release, Read, Post, Toggle, Pay, Process,
         UpdateProfile, Settle
<1>2. /\ RunOf(a) \in Runs
      /\ approval \in [Runs -> {"absent", "pending", "approved"}]
  BY ActorRun DEF TypeOK
<1> QED
  BY <1>1, <1>2 DEF Gate, Approve

LEMMA ResetCall ==
  ASSUME TypeOK, ResetInv, NEW a \in Actors, Call(a) \/ Throw(a) \/ Crash(a)
  PROVE  ResetInv'
<1>0. /\ pc \in [Actors -> Labels] /\ claims \in [Runs -> Nat]
      /\ approval \in [Runs -> {"absent", "pending", "approved"}]
      /\ recent \subseteq Runs /\ doomed \subseteq Runs
      /\ RunOf(a) \in Runs
      /\ Moved(a) /\ straddled \subseteq straddled'
      /\ recent \subseteq recent'
      /\ UNCHANGED <<resetAt, doomed, doomedApprovals>>
      /\ Listed /\ Calm /\ Found /\ Backed /\ Pointed /\ Gone
  BY Moves, SeenEffects, StoreEffects, ActorRun
     DEF ResetInv, resetVars, TypeOK
<1>1. ASSUME NEW u \in Runs, u # RunOf(a)
      PROVE  /\ UNCHANGED <<pc[First(u)], pc[Visitor(u)], runstate[u],
                            approval[u], claims[u]>>
             /\ u \in recent' <=> u \in recent
  <2>1. UNCHANGED <<pc[First(u)], pc[Visitor(u)]>>
    BY <1>1, OthersStand, RunActors
  <2>2. UNCHANGED <<runstate[u], approval[u]>>
    BY <1>1, RecordOthers, RunEffects
  <2>3. UNCHANGED <<claims[u]>> /\ (u \in recent' <=> u \in recent)
    BY <1>0, <1>1, StoreEffects
  <2> QED
    BY <2>1, <2>2, <2>3
<1>2. ASSUME NEW u \in Runs \ straddled',
             pc'[First(u)] \notin Unlisted \cup Stopped
      PROVE  u \in recent'
  <2>1. CASE a # First(u)
    BY <1>0, <1>2, <2>1, OthersStand, RunActors DEF Listed
  <2>2. CASE a = First(u)
    <3>1. IsFirst(a) /\ RunOf(a) = u
      BY <2>2, RunActors
    <3>2. CASE pc[a] \notin Unlisted \cup Stopped
      BY <1>0, <1>2, <2>2, <3>2 DEF Listed
    <3>3. CASE pc[a] \in Unlisted \cup Stopped
      <4>1. pc[a] = "starting" /\ pc'[a] = "screening"
        BY <1>0, <1>2, <2>2, <3>1, <3>3
           DEF Unlisted, Stopped, Moved, Thrown, Caught, ReadThenWrite,
               TableCalls, InboxCalls, FirstEdges, VisitorEdges, SharedEdges,
               Body, Executor, InPayment, Begin, At
      <4>2. Start(a)
        <5>1. Call(a) => Start(a)
          BY <3>1, <4>1
             DEF Call, FirstCall, SharedCall, Begin, Mark, Screen, See,
                 Compare, Remember, Match, Draft, Decide, Shelve, Park,
                 Announce, Recover, Count, Reopen, Read, Gate, Approve, Post,
                 Toggle, Pay, Process, UpdateProfile, Settle, At,
                 ReadThenWrite, TableCalls, InboxCalls
        <5>2. Throw(a) \/ Crash(a) => pc'[a] # "screening"
          BY <1>0, <4>1
             DEF Throw, Crash, Throws, Goto, Caught, Body, Executor, InPayment
        <5> QED
          BY <4>1, <5>1, <5>2
      <4> QED
        BY <3>1, <4>2 DEF Start
    <3> QED
      BY <3>2, <3>3
  <2> QED
    BY <2>1, <2>2
<1>3. ASSUME resetAt # "off", NEW u \in Runs \ straddled'
      PROVE  Still(u)' /\ (u \in recent' => u \in doomed)
  <2>1. RunOf(a) # u
    BY <1>0, <1>3, CalmStep
  <2>2. Still(u) /\ (u \in recent => u \in doomed)
    BY <1>0, <1>3 DEF Calm, Found
  <2> QED
    BY <1>1, <2>1, <2>2 DEF Still
<1>4. ASSUME NEW u \in Runs \ straddled',
             claims'[u] # 0 \/ pc'[Visitor(u)] \notin Stopped
      PROVE  approval'[u] # "absent"
  <2>1. CASE u # RunOf(a)
    BY <1>0, <1>1, <1>4, <2>1 DEF Backed
  <2>2. CASE u = RunOf(a)
    <3>1. approval[u] # "absent" => approval'[u] # "absent"
      BY <1>0, <2>2, ApprovalKept
    <3>2. claims[u] # 0 => approval[u] # "absent"
      BY <1>0, <1>4 DEF Backed
    <3>3. CASE a # Visitor(u)
      <4>1. pc'[Visitor(u)] = pc[Visitor(u)] /\ IsFirst(a)
        BY <2>2, <3>3, OthersStand, RunActors
      <4>2. claims' = claims
        BY <4>1, StoreEffects
      <4> QED
        BY <1>0, <1>4, <3>1, <4>1, <4>2 DEF Backed
    <3>4. CASE a = Visitor(u)
      <4>1. CASE pc[a] \notin Stopped
        BY <1>0, <1>4, <3>1, <3>4, <4>1 DEF Backed
      <4>2. CASE pc[a] \in Stopped
        <5>1. Load(a)
          BY <1>0, <3>4, <4>2, Standing, RunActors
        <5> QED
          BY <2>2, <3>1, <5>1 DEF Load
      <4> QED
        BY <4>1, <4>2
    <3> QED
      BY <3>3, <3>4
  <2> QED
    BY <2>1, <2>2
<1>5. ASSUME resetAt \notin {"off", "pointing"}, NEW u \in doomed \ straddled',
             approval'[u] # "absent"
      PROVE  u \in doomedApprovals
  <2>1. RunOf(a) # u
    BY <1>0, <1>5, CalmStep
  <2> QED
    BY <1>0, <1>1, <1>5, <2>1 DEF Pointed
<1>6. ASSUME NEW u \in Runs \ (recent' \cup straddled'),
             pc'[First(u)] = "done"
      PROVE  /\ pc'[Visitor(u)] \in Stopped
             /\ runstate'[u] = Absent /\ approval'[u] = "absent"
             /\ claims'[u] = 0
  <2>1. CASE u # RunOf(a)
    BY <1>0, <1>1, <1>6, <2>1 DEF Gone
  <2>2. CASE a = First(u)
    <3>1. pc[a] \notin Unlisted \cup Stopped
      BY <1>0, <1>6, <2>2, RunActors
         DEF Unlisted, Stopped, Moved, Thrown, Caught, ReadThenWrite,
             TableCalls, InboxCalls, FirstEdges, VisitorEdges, SharedEdges,
             Begin, Load
    <3> QED
      BY <1>0, <1>6, <2>2, <3>1 DEF Listed
  <2>3. CASE a = Visitor(u)
    <3>1. /\ pc[First(u)] = "done" /\ ~IsFirst(a) /\ RunOf(a) = u
          /\ u \notin recent /\ u \notin straddled
      BY <1>0, <1>6, <2>3, OthersStand, RunActors
    <3>2. pc[a] \in Stopped /\ approval[u] = "absent"
      BY <1>0, <2>3, <3>1 DEF Gone
    <3>3. Load(a)
      BY <1>0, <3>1, <3>2, Standing
    <3> QED
      BY <3>1, <3>2, <3>3 DEF Load
  <2> QED
    BY <2>1, <2>2, <2>3, RunActors
<1>7. Listed'
  BY <1>2 DEF Listed
<1>8. Calm' /\ Found'
  BY <1>0, <1>3, TypeStep DEF Calm, Found, Next, TypeOK
<1>9. Backed' /\ Gone'
  BY <1>4, <1>6 DEF Backed, Gone
<1>10. Pointed'
  BY <1>0, <1>5 DEF Pointed
<1> QED
  BY <1>7, <1>8, <1>9, <1>10 DEF ResetInv

LEMMA ResetDemoStep == TypeOK /\ ResetInv /\ ResetDemo => ResetInv'
<1> SUFFICES ASSUME TypeOK, ResetInv, ResetDemo PROVE ResetInv'
  OBVIOUS
<1>0. /\ Listed /\ Calm /\ Found /\ Backed /\ Pointed /\ Gone
      /\ claims \in [Runs -> Nat] /\ doomed \subseteq Runs
      /\ recent \subseteq Runs
      /\ approval \in [Runs -> {"absent", "pending", "approved"}]
  BY DEF ResetInv, TypeOK
<1>1. CASE ResetList
  <2>1. /\ UNCHANGED <<pc, runstate, approval, claims, recent>>
        /\ doomed' = recent /\ resetAt' = "pointing"
        /\ straddled \subseteq straddled'
        /\ \A u \in Runs : \A a \in Actors :
             RunOf(a) = u /\ pc[a] \notin Stopped => u \in straddled'
    BY <1>1 DEF ResetList, storeVars, actorVars
  <2>2. \A u \in Runs \ straddled' : Still(u)
    BY <2>1, RunActors DEF Still
  <2>3. Listed' /\ Gone'
    BY <1>0, <2>1 DEF Listed, Gone
  <2>4. Calm' /\ Found' /\ Backed' /\ Pointed'
    BY <1>0, <2>1, <2>2 DEF Calm, Found, Backed, Pointed, Still
  <2> QED
    BY <2>3, <2>4 DEF ResetInv
<1>2. CASE ResetPoint
  <2>1. /\ UNCHANGED <<pc, runstate, approval, claims, recent, straddled,
                       doomed>>
        /\ resetAt = "pointing" /\ resetAt' = "ledger"
        /\ doomedApprovals' = {u \in doomed : approval[u] # "absent"}
    BY <1>2 DEF ResetPoint, storeVars, actorVars, seenVars
  <2> QED
    BY <1>0, <2>1
       DEF ResetInv, Listed, Calm, Found, Backed, Pointed, Gone, Still
<1>3. CASE ResetSeed
  <2>1. /\ UNCHANGED <<pc, runstate, approval, claims, recent, straddled,
                       doomed, doomedApprovals>>
        /\ resetAt \notin {"off", "pointing"} /\ resetAt' # "off"
    BY <1>3 DEF ResetSeed, storeVars, actorVars
  <2> QED
    BY <1>0, <2>1
       DEF ResetInv, Listed, Calm, Found, Backed, Pointed, Gone, Still
<1>4. CASE ResetDelete
  <2>1. /\ UNCHANGED <<pc, straddled>>
        /\ resetAt = "deleting" /\ resetAt' = "off" /\ recent' = {}
    BY <1>4 DEF ResetDelete, actorVars
  <2>2. \A u \in Runs : /\ u \in doomed => /\ runstate'[u] = Absent
                                           /\ approval'[u] = "absent"
                        /\ u \notin doomed => /\ runstate'[u] = runstate[u]
                                              /\ approval'[u] = approval[u]
                        /\ claims'[u] = IF u \in doomedApprovals THEN 0
                                        ELSE claims[u]
    BY <1>4 DEF ResetDelete
  <2>3. \A u \in Runs \ straddled : Still(u)
    BY <1>0, <2>1 DEF Calm
  <2>4. \A u \in doomed \ straddled : claims'[u] = 0
    <3> TAKE u \in doomed \ straddled
    <3>1. claims[u] # 0 => u \in doomedApprovals
      BY <1>0, <2>1 DEF Backed, Pointed
    <3> QED
      BY <1>0, <2>2, <3>1
  <2>5. Listed' /\ Calm' /\ Found' /\ Pointed'
    BY <2>1, <2>3 DEF Listed, Calm, Found, Pointed, Still
  <2>6. Backed'
    <3> SUFFICES ASSUME NEW u \in Runs \ straddled,
                        claims'[u] # 0 \/ pc[Visitor(u)] \notin Stopped
                 PROVE  approval'[u] # "absent"
      BY <2>1 DEF Backed
    <3>1. claims'[u] # 0 /\ u \notin doomed
      BY <2>3, <2>4 DEF Still
    <3> QED
      BY <1>0, <2>2, <3>1 DEF Backed
  <2>7. Gone'
    <3> SUFFICES ASSUME NEW u \in Runs \ straddled, pc[First(u)] = "done"
                 PROVE  /\ pc[Visitor(u)] \in Stopped
                        /\ runstate'[u] = Absent /\ approval'[u] = "absent"
                        /\ claims'[u] = 0
      BY <2>1 DEF Gone
    <3>1. CASE u \in doomed
      BY <2>2, <2>3, <2>4, <3>1 DEF Still
    <3>2. CASE u \notin doomed
      <4>1. u \notin recent
        BY <1>0, <2>1, <3>2 DEF Found
      <4> QED
        BY <1>0, <2>2, <3>2, <4>1 DEF Gone
    <3> QED
      BY <3>1, <3>2
  <2> QED
    BY <2>5, <2>6, <2>7 DEF ResetInv
<1> QED
  BY <1>1, <1>2, <1>3, <1>4 DEF ResetDemo

LEMMA ResetStep == TypeOK /\ ResetInv /\ [Next]_vars => ResetInv'
<1> SUFFICES ASSUME TypeOK, ResetInv, [Next]_vars PROVE ResetInv'
  OBVIOUS
<1>1. ASSUME NEW a \in Actors, Call(a) \/ Throw(a) \/ Crash(a)
      PROVE  ResetInv'
  BY <1>1, ResetCall
<1>2. CASE SetToggle \/ UNCHANGED vars
  <2>1. UNCHANGED <<storeVars, pc, resetVars, straddled>>
    BY <1>2 DEF SetToggle, actorVars, seenVars, vars
  <2> QED
    BY <2>1
       DEF storeVars, resetVars, ResetInv, Listed, Calm, Found, Backed,
           Pointed, Gone, Still
<1> QED
  BY <1>1, <1>2, ResetDemoStep DEF Next

\* The list of recent runs leads a reset to every key of a run that it did not
\* overlap: none of its record, approval and claim survives the delete, and no
\* visitor brings one back.
THEOREM ResetIsComplete == Spec => []NothingOutlivesReset
<1>1. Init => ResetInv
  <2> SUFFICES ASSUME Init PROVE ResetInv
    OBVIOUS
  <2>1. /\ \A u \in Runs : /\ pc[First(u)] = "idle"
                           /\ pc[Visitor(u)] = "waiting" /\ claims[u] = 0
        /\ resetAt = "off"
    BY RunActors DEF Init
  <2> QED
    BY <2>1
       DEF ResetInv, Listed, Calm, Found, Backed, Pointed, Gone, Unlisted,
           Stopped
<1>2. TypeOK /\ ResetInv /\ [Next]_vars => ResetInv'
  BY ResetStep
<1>3. ResetInv => NothingOutlivesReset
  BY DEF ResetInv, Gone, NothingOutlivesReset, At, First
<1> QED
  BY <1>1, <1>2, <1>3, TypeCorrect, PTL DEF Spec
=============================================================================
