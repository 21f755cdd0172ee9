------------------------ MODULE ApprovalResumeProofs ------------------------
(***************************************************************************)
(* Proofs about ApprovalResume, for any number of requests, approvals and  *)
(* revisions and under every kind of store fault.                          *)
(*                                                                         *)
(* OneActor is not inductive: whether a second request may win a claim     *)
(* depends on which approval the run points at, on what the request read   *)
(* before, and on how far the acting request has come.  Exclusion (module  *)
(* ApprovalResumeInvariant) says so, in four parts: ClaimInv about the     *)
(* claim keys, PointerInv about the by-run pointer and what was read from  *)
(* it, OwnerInv about the request that acts, and OneActor itself.          *)
(*                                                                         *)
(* Most calls change none of the variables Exclusion reads but pc; they    *)
(* are handled together by QuietStep.  The calls that do change them --    *)
(* Receive, LoadRun, Claim, DecideWrite, the transitions, CreateApproval,  *)
(* PointRun, Release -- have a lemma each.                                 *)
(***************************************************************************)
EXTENDS ApprovalResumeInvariant, TLAPS

-----------------------------------------------------------------------------
(* Calls that write nothing Exclusion reads.                               *)

\* A request moves to m and changes no shared state Exclusion reads: it is
\* enough that m demands nothing new of it.
LEMMA QuietStep ==
  ASSUME TypeOK, Exclusion,
         NEW r \in Requests, NEW m \in Working \cup Stopped,
         Goto(r, m), pc[r] # "idle",
         UNCHANGED <<runVars, requestVars, machine, revised>>,
         \A s \in Requests \ {r} : fetched'[s] = fetched[s],
         m \in Holding => pc[r] \in Holding,
         m \in Loaded => pc[r] \in Loaded,
         m = "releasing" => Pending(target[r]),
         m = "reading" => fetched'[r] = byRun,
         m = "claiming" => /\ byRun = target[r]
                           /\ decision[r] # "edit_malformed",
         m \in Acting => pc[r] \in Acting /\ Owns(r)'
  PROVE  Exclusion'
<1> USE DEF Goto, runVars, requestVars, Exclusion
<1>0. /\ r \in Procs
      /\ \A s \in Requests : s \in Procs
      /\ pc \in [Procs -> Working \cup Stopped]
      /\ pc'[r] = m
      /\ \A s \in Requests : s # r => pc'[s] = pc[s]
  BY DEF TypeOK, Procs
<1>1. ClaimInv'
  <2>1. DecidedIsClaimed'
    BY DEF ClaimInv, DecidedIsClaimed
  <2>2. HolderIsClaimed'
    BY <1>0 DEF ClaimInv, HolderIsClaimed
  <2>3. OneHolder'
    BY <1>0 DEF ClaimInv, OneHolder
  <2>4. ReleaserIsPending'
    BY <1>0 DEF ClaimInv, ReleaserIsPending, Pending
  <2> QED BY <2>1, <2>2, <2>3, <2>4 DEF ClaimInv
<1>2. PointerInv'
  <2>1. Exists(byRun)' /\ OnlyCurrentApproved' /\ PendingIsCurrent'
    BY DEF PointerInv, Exists, OnlyCurrentApproved, PendingIsCurrent, Pending
  <2>2. TargetExists'
    BY <1>0 DEF PointerInv, TargetExists, Exists
  <2>3. ReaderSawCurrent'
    BY <1>0 DEF PointerInv, ReaderSawCurrent, Exists, Pending
  <2>4. ClaimerSawCurrent'
    BY <1>0 DEF PointerInv, ClaimerSawCurrent, Pending
  <2>5. LoadedIsFresh'
    BY <1>0 DEF PointerInv, LoadedIsFresh, Pending
  <2> QED BY <2>1, <2>2, <2>3, <2>4, <2>5 DEF PointerInv
<1>3. OwnerInv'
  <2> SUFFICES ASSUME NEW s \in Requests, pc'[s] \in Acting
               PROVE  Owns(s)'
    BY DEF OwnerInv
  <2>1. CASE s = r
    BY <1>0, <2>1
  <2>2. CASE s # r
    <3>1. pc'[s] = pc[s] /\ Owns(s)
      BY <1>0, <2>2 DEF OwnerInv
    <3> QED BY <3>1 DEF Owns, Pending
  <2> QED BY <2>1, <2>2
<1>4. OneActor'
  BY <1>0 DEF OneActor
<1> QED BY <1>1, <1>2, <1>3, <1>4

-----------------------------------------------------------------------------
(* Where faults lead.                                                      *)

\* Where a throw leads from each try block of resumeRun and of the executor.
LEMMA Landing ==
  ASSUME TypeOK, NEW r \in Requests, pc[r] \in Working
  PROVE  /\ OnThrow(r) \in Working \cup Stopped
         /\ pc[r] \in InPayment => OnThrow(r) \in {"retrying", "giving_up"}
         /\ pc[r] \in InGate => OnThrow(r) = "failing"
         /\ pc[r] \notin InGate \cup InPayment =>
              OnThrow(r) \in {"refused", "failed", "recovering"}
         /\ pc[r] \in BeforeClaim => OnThrow(r) = "refused"
BY DEF OnThrow, Working, Stopped, BeforeClaim, InGate, InPayment, InCatch,
       InBody

\* A refused call, or a lost reply, keeps Exclusion: no try block leads back
\* to a place that believes it owns more than it did.
LEMMA ThrowStep ==
  ASSUME TypeOK, Exclusion, NEW r \in Requests, pc[r] \in Working,
         Goto(r, OnThrow(r)),
         UNCHANGED <<runVars, requestVars, machine, revised>>,
         \A s \in Requests \ {r} : fetched'[s] = fetched[s]
  PROVE  Exclusion'
<1> DEFINE m == OnThrow(r)
<1>0. /\ m \in Working \cup Stopped
      /\ pc[r] \in InPayment => m \in {"retrying", "giving_up"}
      /\ pc[r] \in InGate => m = "failing"
      /\ pc[r] \notin InGate \cup InPayment =>
           m \in {"refused", "failed", "recovering"}
      /\ pc[r] \in BeforeClaim => m = "refused"
      /\ Goto(r, m)
  BY Landing
<1> HIDE DEF m
<1>1. pc[r] # "idle" /\ m \notin Loaded \cup {"releasing"}
  BY <1>0 DEF Working, Loaded, BeforeClaim, InGate, InPayment, InCatch, InBody
<1>2. m \in Holding => pc[r] \in Holding
  BY <1>0
     DEF Working, Holding, Acting, BeforeClaim, InGate, InPayment, InCatch,
         InBody
<1>3. m \in Acting => /\ pc[r] \in InGate \cup InPayment
                      /\ m \in {"retrying", "giving_up", "failing"}
  BY <1>0 DEF Acting, InGate, InPayment, InBody
<1>4. m \in Acting => pc[r] \in Acting /\ Owns(r)'
  <2> SUFFICES ASSUME m \in Acting
               PROVE  pc[r] \in Acting /\ Owns(r)'
    OBVIOUS
  <2>1. pc[r] \in Acting /\ Owns(r)
    <3>1. pc[r] \in Acting
      BY <1>3 DEF Acting, InGate, InPayment
    <3> QED BY <3>1 DEF Exclusion, OwnerInv
  <2>2. pc'[r] = m
    BY <1>0 DEF Goto, TypeOK, Procs
  <2> QED
    BY <1>3, <2>1, <2>2
       DEF Owns, Undecided, Recorded, Redrafted, Minted, Repointed, Rejecting,
           Executing, InGate, InPayment, Pending, runVars, requestVars
<1> QED BY <1>0, <1>1, <1>2, <1>3, <1>4, QuietStep DEF Loaded

\* The gate and the executor stay inside one approved decision.
LEMMA ExecutingStep ==
  ASSUME TypeOK, Exclusion, NEW r \in Requests, pc[r] \in Executing,
         NEW l \in Executing, Goto(r, l) \/ Goto(r, OnThrow(r)),
         UNCHANGED <<runVars, requestVars, machine, revised>>,
         \A s \in Requests \ {r} : fetched'[s] = fetched[s]
  PROVE  Exclusion'
<1>1. CASE Goto(r, OnThrow(r))
  BY <1>1, ThrowStep DEF Executing, Working, InBody
<1>2. CASE Goto(r, l)
  <2>1. /\ l \in Working \cup Stopped
        /\ pc[r] # "idle"
        /\ l \in Holding /\ pc[r] \in Holding
        /\ l \notin Loaded /\ l # "releasing"
        /\ l \in Acting /\ pc[r] \in Acting
    BY DEF Executing, Working, Holding, Acting, Loaded, InGate, InPayment,
           InCatch, InBody
  <2>2. pc'[r] = l /\ Owns(r)
    BY <1>2, <2>1 DEF Goto, TypeOK, Procs, Exclusion, OwnerInv
  <2>3. Owns(r)'
    BY <2>2
       DEF Owns, Undecided, Recorded, Redrafted, Minted, Repointed, Rejecting,
           Executing, InGate, InPayment, Pending, runVars, requestVars
  <2> QED BY <1>2, <2>1, <2>3, QuietStep DEF Loaded
<1> QED BY <1>1, <1>2

-----------------------------------------------------------------------------
(* One lemma per group of calls that leave the shared state alone.         *)

\* All store calls of the gate, the executor and the profile write.
LEMMA ExecutionQuiet ==
  ASSUME TypeOK, Exclusion, NEW r \in Requests,
         \/ GateCheck(r) \/ PostRead(r) \/ PostWrite(r) \/ TracePost(r)
         \/ PayToggle(r) \/ FireToggle(r) \/ PayRead(r) \/ PayWrite(r)
         \/ Retry(r) \/ GiveUp(r) \/ MarkProcessed(r) \/ TracePayment(r)
         \/ WriteProfile(r) \/ TraceProfile(r) \/ TraceFailure(r)
  PROVE  Exclusion'
<1>1. /\ pc[r] \in Executing
      /\ \E l \in Executing : Goto(r, l) \/ Goto(r, OnThrow(r))
  BY DEF GateCheck, PostRead, PostWrite, TracePost, PayToggle, FireToggle,
         PayRead, PayWrite, Retry, GiveUp, MarkProcessed, TracePayment,
         WriteProfile, TraceProfile, TraceFailure, Returns, At, Executing,
         InGate, InPayment
<1>2. /\ UNCHANGED <<runVars, requestVars, machine, revised>>
      /\ \A s \in Requests \ {r} : fetched'[s] = fetched[s]
  BY DEF GateCheck, PostRead, PostWrite, TracePost, PayToggle, FireToggle,
         PayRead, PayWrite, Retry, GiveUp, MarkProcessed, TracePayment,
         WriteProfile, TraceProfile, TraceFailure, localVars
<1> QED BY <1>1, <1>2, ExecutingStep

\* The reads before a claim and before the decision.
LEMMA PreludeQuiet ==
  ASSUME TypeOK, Exclusion, NEW r \in Requests,
         ReadPointer(r) \/ CheckApproval(r) \/ DecideRead(r)
  PROVE  Exclusion'
<1>1. /\ UNCHANGED <<runVars, requestVars, machine, revised>>
      /\ \A s \in Requests \ {r} : fetched'[s] = fetched[s]
      /\ pc[r] \in Working /\ r \in Procs
  BY DEF ReadPointer, CheckApproval, DecideRead, localVars, TypeOK, Procs, At,
         Working, BeforeClaim, InGate, InCatch, InBody
<1>2. CASE Goto(r, OnThrow(r))
  BY <1>1, <1>2, ThrowStep
<1>3. CASE ReadPointer(r) /\ ~Goto(r, OnThrow(r))
  <2>1. fetched'[r] = byRun
    BY <1>1, <1>3 DEF ReadPointer, TypeOK
  <2>2. CASE At(r, "pointing") /\ Goto(r, "reading")
    BY <1>1, <2>1, <2>2, QuietStep
       DEF At, Working, BeforeClaim, Holding, Acting, Loaded, InGate,
           InPayment, InCatch, InBody
  <2>3. CASE At(r, "gating") /\ Goto(r, "gate_reading")
    BY <1>1, <2>3, ExecutingStep DEF At, Executing, InGate
  <2>4. CASE At(r, "recovering") /\ Goto(r, "rechecking")
    BY <1>1, <2>4, QuietStep
       DEF At, Working, InCatch, Holding, Acting, Loaded, InGate, InPayment,
           InBody
  <2> QED BY <1>3, <2>2, <2>3, <2>4 DEF ReadPointer, Returns
<1>4. CASE CheckApproval(r) /\ ~Goto(r, OnThrow(r))
  <2>1. At(r, "reading")
    BY <1>4 DEF CheckApproval
  <2>2. CASE Goto(r, "refused")
    BY <1>1, <2>1, <2>2, QuietStep
       DEF At, Stopped, Holding, Acting, Loaded, InGate, InPayment, InCatch,
           InBody
  <2>3. CASE /\ Goto(r, "claiming")
             /\ approvals[fetched[r]] = "pending" /\ fetched[r] = target[r]
             /\ decision[r] # "edit_malformed"
    <3>1. byRun = target[r]
      BY <2>1, <2>3 DEF Exclusion, PointerInv, ReaderSawCurrent, Pending, At
    <3> QED
      BY <1>1, <2>1, <2>3, <3>1, QuietStep
         DEF At, Working, BeforeClaim, Holding, Acting, Loaded, InGate,
             InPayment, InCatch, InBody
  <2> QED BY <1>4, <2>2, <2>3 DEF CheckApproval, Returns
<1>5. CASE DecideRead(r) /\ ~Goto(r, OnThrow(r))
  <2>1. pc[r] = "claimed" /\ Owns(r) /\ approvals[target[r]] = "pending"
    BY <1>5
       DEF DecideRead, At, Exclusion, OwnerInv, Acting, InBody, Owns,
           Undecided, Pending
  <2>2. Goto(r, "deciding")
    BY <1>5, <2>1 DEF DecideRead, Returns
  <2>3. pc'[r] = "deciding"
    BY <1>1, <2>2 DEF Goto, TypeOK
  <2>4. Owns(r)'
    BY <1>1, <2>1, <2>3
       DEF Owns, Exists, runVars, requestVars, Undecided, Recorded, Redrafted,
           Minted, Repointed, Rejecting, Executing, InGate, InPayment, Pending
  <2> QED
    BY <1>1, <2>1, <2>2, <2>4, QuietStep
       DEF Working, Holding, Acting, Loaded, InBody
<1> QED BY <1>2, <1>3, <1>4, <1>5

\* The trace events, the saved draft and the last calls of a request.
LEMMA StageQuiet ==
  ASSUME TypeOK, Exclusion, NEW r \in Requests,
         \/ ResumeTrace(r) \/ RecordDecision(r) \/ NoteRedraft(r)
         \/ SaveDisposition(r) \/ Announce(r) \/ Shelve(r)
         \/ EndTrace(r) \/ Summarise(r) \/ Recheck(r)
  PROVE  Exclusion'
<1>1. /\ UNCHANGED <<runVars, requestVars, machine, revised>>
      /\ \A s \in Requests \ {r} : fetched'[s] = fetched[s]
      /\ pc[r] \in Working /\ r \in Procs /\ r # FirstPass
  BY ResumeAssumption
     DEF ResumeTrace, RecordDecision, NoteRedraft, SaveDisposition, Announce,
         Shelve, EndTrace, Summarise, Recheck, localVars, Procs, At, Working,
         InCatch, InBody
<1>2. CASE Goto(r, OnThrow(r))
  BY <1>1, <1>2, ThrowStep
<1>3. CASE (EndTrace(r) \/ Summarise(r) \/ Recheck(r))
           /\ ~Goto(r, OnThrow(r))
  <2>1. CASE EndTrace(r) \/ Summarise(r)
    <3>1. PICK m \in {"summarising", "done"} : Goto(r, m)
      BY <1>3, <2>1 DEF EndTrace, Summarise, Returns
    <3> QED
      BY <1>1, <2>1, <3>1, QuietStep
         DEF EndTrace, Summarise, At, Working, Stopped, Holding, Acting,
             Loaded, InGate, InPayment, InCatch, InBody
  <2>2. CASE Recheck(r)
    <3>1. PICK m \in {"releasing", "failed"} :
             Goto(r, m) /\ (m = "releasing" => Pending(target[r]))
      BY <1>3, <2>2 DEF Recheck, Returns, Pending
    <3> QED
      BY <1>1, <2>2, <3>1, QuietStep
         DEF Recheck, At, Working, Stopped, Holding, Acting, Loaded, InGate,
             InPayment, InCatch, InBody
  <2> QED BY <1>3, <2>1, <2>2
<1>4. CASE Shelve(r) /\ ~Goto(r, OnThrow(r))
  BY <1>1, <1>4, QuietStep
     DEF Shelve, Returns, At, Working, Stopped, Holding, Acting, Loaded,
         InGate, InPayment, InCatch, InBody
<1>5. CASE (ResumeTrace(r) \/ RecordDecision(r) \/ NoteRedraft(r)
            \/ SaveDisposition(r) \/ Announce(r)) /\ ~Goto(r, OnThrow(r))
  <2>1. PICK m \in {"recording", "gating", "redrafting", "holding", "saving",
                    "requesting", "parking"} : Goto(r, m)
    BY <1>1, <1>5
       DEF ResumeTrace, RecordDecision, NoteRedraft, SaveDisposition, Announce,
           Returns
  <2>2. pc'[r] = m
    BY <1>1, <2>1 DEF Goto, TypeOK
  <2>3. pc[r] \in Acting /\ Owns(r)
    BY <1>5
       DEF ResumeTrace, RecordDecision, NoteRedraft, SaveDisposition, Announce,
           At, Exclusion, OwnerInv, Acting, InBody
  <2>4. Owns(r)'
    <3>1. CASE ResumeTrace(r) \/ NoteRedraft(r) \/ SaveDisposition(r)
               \/ Announce(r)
      BY <1>1, <1>5, <2>2, <2>3, <3>1
         DEF Owns, ResumeTrace, NoteRedraft, SaveDisposition, Announce,
             Returns, Goto, At, runVars, requestVars, Undecided, Recorded,
             Redrafted, Minted, Repointed, Rejecting, Executing, InGate,
             InPayment, Pending
    <3>2. CASE RecordDecision(r)
      BY <1>1, <1>5, <2>2, <2>3, <3>2, MaxRevisionsAssumption
         DEF Owns, RecordDecision, Returns, Goto, At, runVars, requestVars,
             TypeOK, RunRecords, Undecided, Recorded, Redrafted, Minted,
             Repointed, Rejecting, Executing, InGate, InPayment, Pending
    <3> QED BY <1>5, <3>1, <3>2
  <2>5. m \in Working \cap Acting /\ pc[r] \in Holding /\ m \notin Loaded
    BY <2>3 DEF Working, Acting, Holding, Loaded, InGate, InPayment, InBody
  <2> QED
    BY <1>1, <2>1, <2>3, <2>4, <2>5, QuietStep
       DEF Working, Holding, Acting, Loaded, InGate, InPayment, InCatch, InBody
<1> QED BY <1>2, <1>3, <1>4, <1>5

\* A fault keeps Exclusion.
LEMMA FaultStep ==
  ASSUME TypeOK, Exclusion, NEW r \in Requests, Throw(r) \/ Crash(r)
  PROVE  Exclusion'
<1>1. /\ UNCHANGED <<runVars, requestVars, machine, revised>>
      /\ \A s \in Requests \ {r} : fetched'[s] = fetched[s]
      /\ pc[r] \in Working
  BY DEF Throw, Crash, localVars
<1>2. CASE Throw(r)
  BY <1>1, <1>2, ThrowStep DEF Throw
<1>3. CASE Crash(r)
  BY <1>1, <1>3, QuietStep
     DEF Crash, Working, Stopped, Holding, Acting, Loaded, BeforeClaim, InGate,
         InPayment, InCatch, InBody
<1> QED BY <1>2, <1>3

\* The first pass and the operator touch nothing a request relies on.
LEMMA OutsideStep ==
  ASSUME TypeOK, Exclusion, Report(FirstPass) \/ SetToggle \/ UNCHANGED vars
  PROVE  Exclusion'
<1>1. UNCHANGED <<runVars, requestVars, localVars>>
  BY DEF Report, Announce, EndTrace, Summarise, SetToggle, vars
<1>2. \A r \in Requests : pc'[r] = pc[r]
  BY ResumeAssumption
     DEF Report, Announce, EndTrace, Summarise, SetToggle, vars, Returns, Goto,
         TypeOK, Procs
<1>3. ClaimInv'
  BY <1>1, <1>2
     DEF Exclusion, ClaimInv, DecidedIsClaimed, HolderIsClaimed, OneHolder,
         ReleaserIsPending, Pending, runVars, requestVars, localVars
<1>4. PointerInv'
  BY <1>1, <1>2
     DEF Exclusion, PointerInv, OnlyCurrentApproved, PendingIsCurrent,
         TargetExists, ReaderSawCurrent, ClaimerSawCurrent, LoadedIsFresh,
         Exists, Pending, runVars, requestVars, localVars
<1>5. OwnerInv'
  BY <1>1, <1>2
     DEF Exclusion, OwnerInv, Owns, Pending, runVars, requestVars, localVars
<1>6. OneActor'
  BY <1>2 DEF Exclusion, OneActor
<1> QED BY <1>3, <1>4, <1>5, <1>6 DEF Exclusion

-----------------------------------------------------------------------------
(* Receiving, loading and claiming.                                        *)

\* A new request starts without a claim and without having read anything.
LEMMA ReceiveStep ==
  ASSUME TypeOK, Exclusion, NEW r \in Requests, Receive(r)
  PROVE  Exclusion'
<1>1. /\ pc[r] = "idle" /\ pc'[r] = "loading"
      /\ Exists(target'[r])
      /\ \A s \in Requests \ {r} :
           /\ pc'[s] = pc[s]
           /\ target'[s] = target[s] /\ decision'[s] = decision[s]
      /\ UNCHANGED <<runVars, localVars>>
  BY DEF Receive, At, Goto, TypeOK, Procs, Exists
<1>2. "loading" \notin Holding \cup Loaded \cup Acting
  BY DEF Holding, Acting, Loaded, InGate, InPayment, InCatch, InBody
<1>3. ClaimInv'
  BY <1>1, <1>2
     DEF Exclusion, ClaimInv, DecidedIsClaimed, HolderIsClaimed, OneHolder,
         ReleaserIsPending, Pending, runVars
<1>4. PointerInv'
  BY <1>1, <1>2
     DEF Exclusion, PointerInv, OnlyCurrentApproved, PendingIsCurrent,
         TargetExists, ReaderSawCurrent, ClaimerSawCurrent, LoadedIsFresh,
         Exists, Pending, runVars, localVars
<1>5. OwnerInv'
  BY <1>1, <1>2 DEF Exclusion, OwnerInv, Owns, Pending, runVars, localVars
<1>6. OneActor'
  BY <1>1, <1>2 DEF Exclusion, OneActor
<1> QED BY <1>3, <1>4, <1>5, <1>6 DEF Exclusion

\* resumeRun loads the record as it is now.
LEMMA LoadStep ==
  ASSUME TypeOK, Exclusion, NEW r \in Requests, LoadRun(r)
  PROVE  Exclusion'
<1>1. /\ pc[r] = "loading"
      /\ \/ pc'[r] = "pointing" /\ runstate.step = "awaiting_approval"
         \/ pc'[r] = "refused"
      /\ machine'[r] = runstate
      /\ \A s \in Requests \ {r} : pc'[s] = pc[s] /\ machine'[s] = machine[s]
      /\ UNCHANGED <<runVars, requestVars, fetched, revised>>
  BY Landing
     DEF LoadRun, At, Returns, Goto, TypeOK, Procs, Working, BeforeClaim
<1>2. {"pointing", "refused"} \cap (Holding \cup Acting) = {}
  BY DEF Holding, Acting, InGate, InPayment, InCatch, InBody
<1>3. ClaimInv'
  BY <1>1, <1>2
     DEF Exclusion, ClaimInv, DecidedIsClaimed, HolderIsClaimed, OneHolder,
         ReleaserIsPending, Pending, runVars, requestVars
<1>4. PointerInv'
  BY <1>1
     DEF Exclusion, PointerInv, OnlyCurrentApproved, PendingIsCurrent,
         TargetExists, ReaderSawCurrent, ClaimerSawCurrent, LoadedIsFresh,
         Loaded, Exists, Pending, runVars, requestVars
<1>5. OwnerInv'
  BY <1>1, <1>2 DEF Exclusion, OwnerInv, Owns, Pending, runVars, requestVars
<1>6. OneActor'
  BY <1>1, <1>2 DEF Exclusion, OneActor
<1> QED BY <1>3, <1>4, <1>5, <1>6 DEF Exclusion

\* The heart of the argument: a request that takes a free claim finds a
\* pending, current approval of a parked run, so nobody else is acting.
LEMMA ClaimStep ==
  ASSUME TypeOK, Exclusion, NEW r \in Requests, Claim(r)
  PROVE  Exclusion'
<1> DEFINE won == claims[target[r]] = 0 /\ pc'[r] = "claimed"
<1>1. /\ pc[r] = "claiming"
      /\ won \/ pc'[r] = "refused"
      /\ target[r] \in ApprovalIds
      /\ claims'[target[r]] = claims[target[r]] + 1
      /\ claims[target[r]] \in Nat
      /\ \A a \in ApprovalIds \ {target[r]} : claims'[a] = claims[a]
      /\ \A s \in Requests \ {r} : pc'[s] = pc[s]
      /\ UNCHANGED <<runstate, approvals, byRun, requestVars, localVars>>
  <2>1. r \in Procs /\ target[r] \in ApprovalIds /\ claims[target[r]] \in Nat
    BY DEF TypeOK, Procs
  <2>2. pc[r] = "claiming" /\ OnThrow(r) = "refused"
    BY DEF Claim, At, OnThrow, BeforeClaim
  <2>3. claims' = [claims EXCEPT ![target[r]] = @ + 1]
    BY DEF Claim
  <2>4. claims'[target[r]] = claims[target[r]] + 1
    BY <2>1, <2>3 DEF TypeOK
  <2>5. Goto(r, "refused") \/ (Goto(r, "claimed") /\ ~(claims'[target[r]] > 1))
    BY <2>2 DEF Claim, Returns
  <2>6. won \/ pc'[r] = "refused"
    BY <2>1, <2>4, <2>5 DEF Goto, TypeOK
  <2>7. \A s \in Requests \ {r} : pc'[s] = pc[s]
    BY <2>5 DEF Goto, TypeOK, Procs
  <2> QED BY <2>1, <2>2, <2>3, <2>4, <2>6, <2>7 DEF Claim, TypeOK
<1>2. \A a \in ApprovalIds : claims[a] > 0 => claims'[a] > 0
  <2> SUFFICES ASSUME NEW a \in ApprovalIds, claims[a] > 0
               PROVE  claims'[a] > 0
    OBVIOUS
  <2>1. CASE a = target[r]
    BY <1>1, <2>1
  <2>2. CASE a # target[r]
    BY <1>1, <2>2
  <2> QED BY <2>1, <2>2
<1>3. /\ "refused" \notin Holding \cup Loaded \cup Acting
      /\ "claimed" \in Holding \cap Acting /\ "claimed" \notin Loaded
      /\ Acting \subseteq Holding
  BY DEF Holding, Acting, Loaded, InGate, InPayment, InCatch, InBody
<1>4. ASSUME won
      PROVE  /\ Pending(target[r]) /\ byRun = target[r]
             /\ decision[r] # "edit_malformed"
             /\ runstate = machine[r]
             /\ runstate.step = "awaiting_approval"
             /\ \A s \in Requests : pc[s] \in Holding => target[s] # target[r]
             /\ \A s \in Requests : pc[s] \notin Acting
  <2>1. Pending(target[r])
    <3>1. approvals[target[r]] \in Statuses
      BY <1>1 DEF TypeOK
    <3>2. approvals[target[r]] \notin Decided
      BY <1>1, <1>4 DEF Exclusion, ClaimInv, DecidedIsClaimed
    <3>3. approvals[target[r]] # "absent"
      BY <1>1 DEF Exclusion, PointerInv, TargetExists, Exists
    <3> QED BY <3>1, <3>2, <3>3 DEF Statuses, Pending
  <2>2. byRun = target[r] /\ decision[r] # "edit_malformed"
    BY <1>1, <2>1 DEF Exclusion, PointerInv, ClaimerSawCurrent
  <2>3. runstate = machine[r] /\ runstate.step = "awaiting_approval"
    BY <1>1, <2>1 DEF Exclusion, PointerInv, LoadedIsFresh, Loaded
  <2>4. \A s \in Requests : pc[s] \in Holding => target[s] # target[r]
    BY <1>4 DEF Exclusion, ClaimInv, HolderIsClaimed
  <2>5. ASSUME NEW s \in Requests, pc[s] \in Acting
        PROVE  FALSE
    <3>1. Owns(s) /\ target[s] # byRun
      BY <2>2, <2>4, <2>5, <1>3 DEF Exclusion, OwnerInv
    <3>2. runstate.step = "decided"
      BY <3>1 DEF Owns
    <3> QED BY <2>3, <3>2
  <2> QED BY <2>1, <2>2, <2>3, <2>4, <2>5
<1>5. ClaimInv'
  <2>1. DecidedIsClaimed'
    BY <1>1, <1>2 DEF Exclusion, ClaimInv, DecidedIsClaimed
  <2>2. HolderIsClaimed'
    <3> SUFFICES ASSUME NEW s \in Requests, pc'[s] \in Holding
                 PROVE  claims'[target'[s]] > 0
      BY DEF HolderIsClaimed
    <3>1. target'[s] = target[s] /\ target[s] \in ApprovalIds
      BY <1>1 DEF requestVars, TypeOK, Procs
    <3>2. CASE s = r
      BY <1>1, <1>3, <3>1, <3>2
    <3>3. CASE s # r
      <4>1. claims[target[s]] > 0
        BY <1>1, <3>3 DEF Exclusion, ClaimInv, HolderIsClaimed
      <4> QED BY <1>2, <3>1, <4>1
    <3> QED BY <3>2, <3>3
  <2>3. OneHolder'
    BY <1>1, <1>3, <1>4 DEF Exclusion, ClaimInv, OneHolder, requestVars
  <2>4. ReleaserIsPending'
    BY <1>1 DEF Exclusion, ClaimInv, ReleaserIsPending, Pending, requestVars
  <2> QED BY <2>1, <2>2, <2>3, <2>4 DEF ClaimInv
<1>6. PointerInv'
  BY <1>1, <1>3
     DEF Exclusion, PointerInv, OnlyCurrentApproved, PendingIsCurrent,
         TargetExists, ReaderSawCurrent, ClaimerSawCurrent, LoadedIsFresh,
         Exists, Pending, requestVars, localVars
<1>7. OwnerInv'
  <2> SUFFICES ASSUME NEW s \in Requests, pc'[s] \in Acting
               PROVE  Owns(s)'
    BY DEF OwnerInv
  <2>1. CASE s = r
    <3>1. won /\ pc'[r] = "claimed"
      BY <1>1, <1>3, <2>1
    <3> QED
      BY <1>1, <1>4, <2>1, <3>1
         DEF Owns, Undecided, Recorded, Redrafted, Minted, Repointed,
             Rejecting, Executing, InGate, InPayment, Pending, requestVars,
             localVars
  <2>2. CASE s # r
    <3>1. pc'[s] = pc[s] /\ Owns(s)
      BY <1>1, <2>2 DEF Exclusion, OwnerInv
    <3> QED BY <1>1, <3>1 DEF Owns, Pending, requestVars, localVars
  <2> QED BY <2>1, <2>2
<1>8. OneActor'
  BY <1>1, <1>3, <1>4 DEF Exclusion, OneActor
<1> QED BY <1>5, <1>6, <1>7, <1>8 DEF Exclusion

-----------------------------------------------------------------------------
(* The acting request changes the run or its approvals.                    *)

\* A step of the acting request that changes the run or its approvals: what
\* remains to be shown once the facts about everybody else are taken care of.
LEMMA ActorStep ==
  ASSUME TypeOK, Exclusion, NEW r \in Requests, pc[r] \in Acting,
         NEW m \in Working \cup Stopped, Goto(r, m),
         m \notin Loaded \cup {"releasing"}, m \in Acting => Owns(r)',
         UNCHANGED <<claims, requestVars, fetched>>,
         \A s \in Requests \ {r} : machine'[s] = machine[s],
         \A a \in ApprovalIds : /\ approvals'[a] \in Decided =>
                                     approvals[a] \in Decided \/ a = target[r]
                                /\ Exists(a) => Exists(a)'
                                /\ Exists(a) /\ Pending(a)' => Pending(a)
                                /\ Pending(a) => Pending(a)' \/ a = target[r],
         Exists(byRun)', OnlyCurrentApproved', PendingIsCurrent',
         byRun' # byRun => \A a \in ApprovalIds : Pending(a)' => a = byRun',
         runstate' # runstate =>
           \A s \in Requests : pc[s] \in Loaded => ~Pending(target[s])'
  PROVE  Exclusion'
<1>0. /\ r \in Procs
      /\ pc'[r] = m
      /\ \A s \in Requests : s # r => pc'[s] = pc[s]
      /\ \A s \in Requests :
           target[s] \in ApprovalIds /\ fetched[s] \in ApprovalIds
      /\ pc[r] \in Holding
      /\ target' = target /\ decision' = decision
  BY DEF TypeOK, Procs, Goto, Holding, requestVars
<1>1. ClaimInv'
  <2>1. DecidedIsClaimed'
    BY <1>0 DEF Exclusion, ClaimInv, DecidedIsClaimed, HolderIsClaimed
  <2>2. HolderIsClaimed'
    BY <1>0 DEF Exclusion, ClaimInv, HolderIsClaimed
  <2>3. OneHolder'
    BY <1>0 DEF Exclusion, ClaimInv, OneHolder
  <2>4. ReleaserIsPending'
    <3> SUFFICES ASSUME NEW s \in Requests, pc'[s] = "releasing"
                 PROVE  Pending(target[s])'
      BY <1>0 DEF ReleaserIsPending, Pending
    <3>1. s # r /\ pc[s] \in Holding /\ Pending(target[s])
      BY <1>0 DEF Exclusion, ClaimInv, ReleaserIsPending, Holding, InCatch
    <3>2. target[s] # target[r]
      BY <1>0, <3>1 DEF Exclusion, ClaimInv, OneHolder
    <3> QED BY <1>0, <3>1, <3>2 DEF Pending
  <2> QED BY <2>1, <2>2, <2>3, <2>4 DEF ClaimInv
<1>2. PointerInv'
  <2>1. TargetExists'
    BY <1>0
       DEF Exclusion, PointerInv, TargetExists, Exists, Acting, InGate,
           InPayment, InBody
  <2>2. ReaderSawCurrent'
    BY <1>0
       DEF Exclusion, PointerInv, ReaderSawCurrent, Exists, Pending, Loaded
  <2>3. ClaimerSawCurrent'
    BY <1>0
       DEF Exclusion, PointerInv, ClaimerSawCurrent, TargetExists, Exists,
           Pending, Loaded
  <2>4. LoadedIsFresh'
    BY <1>0
       DEF Exclusion, PointerInv, LoadedIsFresh, TargetExists, Exists, Pending,
           Loaded
  <2> QED BY <2>1, <2>2, <2>3, <2>4 DEF PointerInv
<1>3. \A s \in Requests : pc'[s] \in Acting => s = r
  BY <1>0 DEF Exclusion, OneActor
<1>4. OwnerInv'
  BY <1>0, <1>3 DEF OwnerInv
<1>5. OneActor'
  BY <1>3 DEF OneActor
<1> QED BY <1>1, <1>2, <1>4, <1>5 DEF Exclusion

\* The decision is written by the holder of the claim of a pending approval.
LEMMA DecideStep ==
  ASSUME TypeOK, Exclusion, NEW r \in Requests, DecideWrite(r)
  PROVE  Exclusion'
<1>1. /\ pc[r] = "deciding" /\ pc[r] \in Acting /\ Owns(r)
      /\ target[r] \in ApprovalIds /\ decision[r] \in Decisions
      /\ UNCHANGED <<runstate, byRun, claims, requestVars, localVars>>
  BY DEF DecideWrite, At, Acting, InBody, Exclusion, OwnerInv, TypeOK, Procs
<1>2. /\ approvals'[target[r]] = StatusOf(decision[r])
      /\ \A a \in ApprovalIds \ {target[r]} : approvals'[a] = approvals[a]
  BY <1>1 DEF DecideWrite, TypeOK
<1>3. /\ StatusOf(decision[r]) \in Decided
      /\ StatusOf(decision[r]) \notin {"pending", "absent"}
  BY <1>1 DEF StatusOf, Decided, Approved
<1>4. Pending(target[r]) /\ byRun = target[r]
  BY <1>1 DEF Owns, Undecided, Repointed
<1>5. PICK m \in {"resuming", "recovering"} : Goto(r, m)
  BY <1>1
     DEF DecideWrite, Returns, OnThrow, BeforeClaim, InGate, InPayment, InCatch
<1>6. m \in Working /\ m \notin Loaded \cup {"releasing"} /\ pc'[r] = m
  BY <1>5 DEF Working, InBody, InCatch, Loaded, Goto, TypeOK, Procs
<1>7. m \in Acting => Owns(r)'
  BY <1>1, <1>2, <1>4, <1>6
     DEF Owns, Acting, InGate, InPayment, InBody, requestVars, localVars,
         Undecided, Recorded, Redrafted, Minted, Repointed, Rejecting,
         Executing, InGate, InPayment, Pending
<1>8. Exists(byRun)' /\ OnlyCurrentApproved' /\ PendingIsCurrent'
  BY <1>1, <1>2, <1>3, <1>4
     DEF Exclusion, PointerInv, OnlyCurrentApproved, PendingIsCurrent, Exists,
         Pending
<1>9. \A a \in ApprovalIds : /\ approvals'[a] \in Decided =>
                                  approvals[a] \in Decided \/ a = target[r]
                             /\ Exists(a) => Exists(a)'
                             /\ Exists(a) /\ Pending(a)' => Pending(a)
                             /\ Pending(a) => Pending(a)' \/ a = target[r]
  BY <1>2, <1>3 DEF Exists, Pending
<1> QED BY <1>1, <1>5, <1>6, <1>7, <1>8, <1>9, ActorStep DEF localVars

\* Every transition of the run record is made by the acting request, from a
\* copy no one else has changed.
LEMMA TransitionStep ==
  ASSUME TypeOK, Exclusion, NEW r \in Requests,
         Redraft(r) \/ Park(r) \/ Hold(r) \/ Settle(r) \/ Err(r)
  PROVE  Exclusion'
<1>1. /\ r \in Procs /\ machine[r] \in RunRecords
      /\ pc[r] \in Acting /\ Owns(r)
      /\ target[r] \in ApprovalIds /\ decision[r] \in Decisions
      /\ UNCHANGED <<approvals, byRun, claims, requestVars, fetched, revised>>
  BY DEF Redraft, Park, Hold, Settle, Err, Persist, At, Acting, InBody,
         Exclusion, OwnerInv, TypeOK, Procs
<1>2. PICK to \in RunSteps, next \in Working :
        /\ Persist(r, to, next)
        /\ <<pc[r], to, next>> \in
             {<<"redrafting", "decided", "noting">>,
              <<"parking", "awaiting_approval", "ending">>,
              <<"holding", "held", "shelving">>,
              <<"settling", "executed", "ending">>,
              <<"erring", "error", "ending">>}
  BY DEF Redraft, Park, Hold, Settle, Err, At, RunSteps, TerminalSteps,
         Working, InBody
<1>3. CanTransition(machine[r], to)
  <2>1. /\ machine[r].step = IF pc[r] = "parking" THEN "decided"
                                                 ELSE "awaiting_approval"
        /\ pc[r] = "redrafting" => machine[r].revision < MAX_REVISIONS
    BY <1>1, <1>2 DEF Owns, Executing, Repointed
  <2> QED
    BY <1>2, <2>1
       DEF CanTransition, Forward, AbortSteps, TerminalSteps, Revises
<1>4. /\ runstate' = Transition(machine[r], to)
      /\ machine'[r] = runstate'
      /\ \A s \in Requests \ {r} : machine'[s] = machine[s]
      /\ runstate'.step = to
  <2>1. /\ runstate' = Transition(machine[r], to)
        /\ machine' = [machine EXCEPT ![r] = Transition(machine[r], to)]
    BY <1>2, <1>3 DEF Persist
  <2> QED BY <1>1, <2>1 DEF TypeOK, Procs, Transition
<1>5. PICK m \in {next, "recovering"} : Goto(r, m)
  BY <1>2, <1>3
     DEF Persist, Returns, OnThrow, BeforeClaim, InGate, InPayment, InCatch
<1>6. m \in Working /\ m \notin Loaded \cup {"releasing"} /\ pc'[r] = m
  BY <1>1, <1>2, <1>5 DEF Working, InBody, InCatch, Loaded, Goto, TypeOK
<1>7. m \in Acting => Owns(r)'
  <2> SUFFICES ASSUME m \in Acting
               PROVE  Owns(r)'
    OBVIOUS
  <2>1. m = next /\ next \in {"noting", "shelving"}
    BY <1>2, <1>5 DEF Acting, InGate, InPayment, InBody
  <2>2. \/ pc[r] = "redrafting" /\ to = "decided" /\ m = "noting"
        \/ pc[r] = "holding" /\ to = "held" /\ m = "shelving"
    BY <1>2, <2>1
  <2>3. \A a \in ApprovalIds : ~Pending(a)
    BY <1>1, <2>2
       DEF Owns, Exclusion, PointerInv, PendingIsCurrent, Pending, StatusOf,
           Undecided, Repointed, Rejecting
  <2> QED
    BY <1>1, <1>4, <1>6, <2>2, <2>3
       DEF Owns, requestVars, Undecided, Recorded, Redrafted, Minted,
           Repointed, Rejecting, Executing, InGate, InPayment, Pending
<1>8. \A s \in Requests : pc[s] \in Loaded => ~Pending(target[s])
  <2>1. CASE pc[r] = "parking"
    BY <1>1, <2>1
       DEF Exclusion, PointerInv, LoadedIsFresh, Owns, Minted, Repointed
  <2>2. CASE pc[r] # "parking"
    <3>1. \A a \in ApprovalIds : Pending(a) => a = target[r]
      BY <1>1, <1>2, <2>2
         DEF Exclusion, PointerInv, PendingIsCurrent, Owns, Executing,
             Repointed
    <3>2. ~Pending(target[r])
      BY <1>1, <1>2, <2>2 DEF Owns, Undecided, StatusOf, Pending
    <3> QED BY <3>1, <3>2 DEF TypeOK, Procs
  <2> QED BY <2>1, <2>2
<1>9. PendingIsCurrent'
  <2>1. CASE pc[r] = "parking"
    BY <1>1, <2>1 DEF Owns, Repointed, PendingIsCurrent, Pending
  <2>2. CASE pc[r] # "parking"
    BY <1>1, <1>2, <2>2
       DEF Exclusion, PointerInv, PendingIsCurrent, Pending, Owns, Executing
  <2> QED BY <2>1, <2>2
<1>10. Exists(byRun)' /\ OnlyCurrentApproved'
  BY <1>1 DEF Exclusion, PointerInv, Exists, OnlyCurrentApproved
<1>11. \A a \in ApprovalIds :
         /\ approvals'[a] \in Decided =>
              approvals[a] \in Decided \/ a = target[r]
         /\ Exists(a) => Exists(a)'
         /\ Exists(a) /\ Pending(a)' => Pending(a)
         /\ Pending(a) => Pending(a)' \/ a = target[r]
  BY <1>1 DEF Exists, Pending
<1>12. \A s \in Requests : pc[s] \in Loaded => ~Pending(target[s])'
  BY <1>1, <1>8 DEF Pending, requestVars
<1> QED BY <1>1, <1>4, <1>5, <1>6, <1>7, <1>9, <1>10, <1>11, <1>12, ActorStep

\* The approval of a revision is new, so nobody has read or claimed it.
LEMMA CreateStep ==
  ASSUME TypeOK, Exclusion, NEW r \in Requests, CreateApproval(r)
  PROVE  Exclusion'
<1>1. /\ r \in Procs /\ pc[r] = "requesting" /\ pc[r] \in Acting /\ Owns(r)
      /\ target[r] \in ApprovalIds
      /\ UNCHANGED <<runstate, byRun, claims, requestVars, machine, fetched>>
  BY DEF CreateApproval, At, Acting, InBody, Exclusion, OwnerInv, TypeOK, Procs
<1>2. PICK n \in ApprovalIds :
          /\ ~Exists(n)
          /\ approvals' = [approvals EXCEPT ![n] = "pending"]
          /\ revised' = [revised EXCEPT ![r] = n]
  BY DEF CreateApproval
<1>3. /\ approvals'[n] = "pending"
      /\ \A a \in ApprovalIds \ {n} : approvals'[a] = approvals[a]
      /\ revised'[r] = n
  BY <1>1, <1>2 DEF TypeOK
<1>4. /\ runstate.step = "decided"
      /\ \A a \in ApprovalIds : ~Pending(a)
      /\ byRun = target[r] /\ Exists(target[r])
  BY <1>1 DEF Owns, Redrafted, Repointed, Exclusion, PointerInv
<1>5. PICK m \in {"repointing", "recovering"} : Goto(r, m)
  BY <1>1
     DEF CreateApproval, Returns, OnThrow, BeforeClaim, InGate, InPayment,
         InCatch
<1>6. m \in Working /\ m \notin Loaded \cup {"releasing"} /\ pc'[r] = m
  BY <1>1, <1>5 DEF Working, InBody, InCatch, Loaded, Goto, TypeOK
<1>7. m \in Acting => Owns(r)'
  BY <1>1, <1>2, <1>3, <1>4, <1>6
     DEF Owns, Acting, InGate, InPayment, InBody, requestVars, Exists,
         Undecided, Recorded, Redrafted, Minted, Repointed, Rejecting,
         Executing, InGate, InPayment, Pending
<1>8. Exists(byRun)' /\ OnlyCurrentApproved' /\ PendingIsCurrent'
  BY <1>1, <1>2, <1>3, <1>4
     DEF Exclusion, PointerInv, OnlyCurrentApproved, PendingIsCurrent, Exists,
         Pending, Approved
<1>9. \A a \in ApprovalIds : /\ approvals'[a] \in Decided =>
                                  approvals[a] \in Decided \/ a = target[r]
                             /\ Exists(a) => Exists(a)'
                             /\ Exists(a) /\ Pending(a)' => Pending(a)
                             /\ Pending(a) => Pending(a)' \/ a = target[r]
  BY <1>2, <1>3 DEF Exists, Pending, Decided, Approved
<1> QED BY <1>1, <1>5, <1>6, <1>7, <1>8, <1>9, ActorStep

\* Pointing the run at the new approval makes every earlier read stale.
LEMMA PointStep ==
  ASSUME TypeOK, Exclusion, NEW r \in Requests, PointRun(r)
  PROVE  Exclusion'
<1>1. /\ r \in Procs /\ pc[r] = "repointing" /\ pc[r] \in Acting /\ Owns(r)
      /\ target[r] \in ApprovalIds /\ revised[r] \in ApprovalIds
      /\ byRun' = revised[r]
      /\ UNCHANGED <<runstate, approvals, claims, requestVars, localVars>>
  BY DEF PointRun, At, Acting, InBody, Exclusion, OwnerInv, TypeOK, Procs
<1>2. /\ runstate.step = "decided"
      /\ \A a \in ApprovalIds : Pending(a) <=> a = revised[r]
      /\ byRun = target[r] /\ approvals[target[r]] = "rejected"
  BY <1>1
     DEF Owns, Redrafted, Minted, Repointed, Rejecting, Undecided, StatusOf
<1>3. PICK m \in {"announcing", "recovering"} : Goto(r, m)
  BY <1>1
     DEF PointRun, Returns, OnThrow, BeforeClaim, InGate, InPayment, InCatch
<1>4. m \in Working /\ m \notin Loaded \cup {"releasing"} /\ pc'[r] = m
  BY <1>1, <1>3 DEF Working, InBody, InCatch, Loaded, Goto, TypeOK
<1>5. m \in Acting => Owns(r)'
  BY <1>1, <1>2, <1>4
     DEF Owns, Acting, InGate, InPayment, InBody, requestVars, localVars,
         Undecided, Recorded, Redrafted, Minted, Repointed, Rejecting,
         Executing, InGate, InPayment, Pending
<1>6. Exists(byRun)' /\ OnlyCurrentApproved' /\ PendingIsCurrent'
  BY <1>1, <1>2
     DEF Exclusion, PointerInv, OnlyCurrentApproved, PendingIsCurrent, Exists,
         Pending, Approved
<1>7. \A a \in ApprovalIds : /\ approvals'[a] \in Decided =>
                                  approvals[a] \in Decided \/ a = target[r]
                             /\ Exists(a) => Exists(a)'
                             /\ Exists(a) /\ Pending(a)' => Pending(a)
                             /\ Pending(a) => Pending(a)' \/ a = target[r]
                             /\ Pending(a)' => a = byRun'
  BY <1>1, <1>2 DEF Exists, Pending
<1> QED BY <1>1, <1>3, <1>4, <1>5, <1>6, <1>7, ActorStep DEF localVars

\* Giving the claim back: the approval is pending and nobody else holds it.
LEMMA ReleaseStep ==
  ASSUME TypeOK, Exclusion, NEW r \in Requests, Release(r)
  PROVE  Exclusion'
<1>1. /\ r \in Procs /\ pc[r] = "releasing" /\ pc'[r] = "failed"
      /\ target[r] \in ApprovalIds
      /\ \A a \in ApprovalIds \ {target[r]} : claims'[a] = claims[a]
      /\ \A s \in Requests \ {r} : pc'[s] = pc[s]
      /\ \A s \in Requests : target[s] \in ApprovalIds
      /\ UNCHANGED <<runstate, approvals, byRun, requestVars, localVars>>
  BY DEF Release, At, Returns, Goto, OnThrow, TypeOK, Procs, BeforeClaim,
         InGate, InPayment, InCatch
<1>2. /\ "failed" \notin Holding \cup Loaded \cup Acting
      /\ "releasing" \in Holding \ Acting
  BY DEF Holding, Acting, Loaded, InGate, InPayment, InCatch, InBody
<1>3. Pending(target[r])
  BY <1>1 DEF Exclusion, ClaimInv, ReleaserIsPending
<1>4. ClaimInv'
  <2>1. DecidedIsClaimed'
    BY <1>1, <1>3
       DEF Exclusion, ClaimInv, DecidedIsClaimed, Decided, Approved, Pending
  <2>2. HolderIsClaimed'
    BY <1>1, <1>2
       DEF Exclusion, ClaimInv, HolderIsClaimed, OneHolder, requestVars
  <2>3. OneHolder'
    BY <1>1, <1>2 DEF Exclusion, ClaimInv, OneHolder, requestVars
  <2>4. ReleaserIsPending'
    BY <1>1 DEF Exclusion, ClaimInv, ReleaserIsPending, Pending, requestVars
  <2> QED BY <2>1, <2>2, <2>3, <2>4 DEF ClaimInv
<1>5. PointerInv'
  BY <1>1, <1>2
     DEF Exclusion, PointerInv, OnlyCurrentApproved, PendingIsCurrent,
         TargetExists, ReaderSawCurrent, ClaimerSawCurrent, LoadedIsFresh,
         Exists, Pending, requestVars, localVars
<1>6. OwnerInv'
  <2> SUFFICES ASSUME NEW s \in Requests, pc'[s] \in Acting
               PROVE  Owns(s)'
    BY DEF OwnerInv
  <2>1. s # r /\ pc'[s] = pc[s] /\ Owns(s)
    BY <1>1, <1>2 DEF Exclusion, OwnerInv
  <2> QED BY <1>1, <2>1 DEF Owns, Pending, requestVars, localVars
<1>7. OneActor'
  BY <1>1, <1>2 DEF Exclusion, OneActor
<1> QED BY <1>4, <1>5, <1>6, <1>7 DEF Exclusion

-----------------------------------------------------------------------------
(* The invariant is established and kept.                                  *)

\* A parked run that no request has touched.
LEMMA InitExclusion == ASSUME Init PROVE Exclusion
<1>1. \A r \in Requests : pc[r] = "idle"
  BY ResumeAssumption DEF Init, Procs
<1>2. "idle" \notin Holding \cup Loaded \cup Acting
  BY DEF Holding, Acting, Loaded, InGate, InPayment, InCatch, InBody
<1>3. ClaimInv
  BY <1>1, <1>2
     DEF Init, ClaimInv, DecidedIsClaimed, HolderIsClaimed, OneHolder,
         ReleaserIsPending, Decided, Approved
<1>4. PointerInv
  BY <1>1, <1>2, ResumeAssumption
     DEF Init, PointerInv, OnlyCurrentApproved, PendingIsCurrent, TargetExists,
         ReaderSawCurrent, ClaimerSawCurrent, LoadedIsFresh, Exists, Pending,
         Approved
<1>5. OwnerInv /\ OneActor
  BY <1>1, <1>2 DEF OwnerInv, OneActor
<1> QED BY <1>3, <1>4, <1>5 DEF Exclusion

\* Every step keeps Exclusion.
LEMMA NextExclusion ==
  ASSUME TypeOK, Exclusion, [Next]_vars
  PROVE  Exclusion'
<1>1. CASE SetToggle \/ UNCHANGED vars
  BY <1>1, OutsideStep
<1>2. ASSUME NEW p \in Procs, Report(p) PROVE Exclusion'
  <2>1. CASE p = FirstPass
    BY <1>2, <2>1, OutsideStep
  <2>2. CASE p \in Requests
    BY <1>2, <2>2, StageQuiet DEF Report
  <2> QED BY <2>1, <2>2 DEF Procs
<1>3. ASSUME NEW r \in Requests, Receive(r) \/ Throw(r) \/ Crash(r)
      PROVE  Exclusion'
  BY <1>3, ReceiveStep, FaultStep
<1>4. ASSUME NEW r \in Requests, Call(r) PROVE Exclusion'
  BY <1>4, LoadStep, PreludeQuiet, ClaimStep, DecideStep, StageQuiet,
     TransitionStep, CreateStep, PointStep, ReleaseStep, ExecutionQuiet
     DEF Call
<1> QED BY <1>1, <1>2, <1>3, <1>4 DEF Next

-----------------------------------------------------------------------------
(* Types.                                                                  *)

(* Types.                                                                  *)

\* Wherever a store call returns to, control is somewhere the code has.
LEMMA ReturnsType ==
  ASSUME TypeOK, NEW p \in Procs, pc[p] \in Working,
         NEW l \in Working \cup Stopped, Returns(p, l)
  PROVE  /\ pc' \in [Procs -> Working \cup Stopped]
         /\ faults' \in 0..MaxFaults
<1>1. CASE Goto(p, l) /\ UNCHANGED faults
  BY <1>1 DEF Goto, TypeOK
<1>2. CASE /\ p \in Requests /\ faults < MaxFaults /\ faults' = faults + 1
           /\ Goto(p, OnThrow(p))
  <2>1. OnThrow(p) \in Working \cup Stopped
    BY <1>2, Landing
  <2>2. faults' \in 0..MaxFaults
    BY <1>2, ResumeAssumption DEF TypeOK
  <2> QED BY <1>2, <2>1, <2>2 DEF Goto, TypeOK
<1> QED BY <1>1, <1>2 DEF Returns

\* Appending a well-formed event keeps the trace well formed.
LEMMA AppendType ==
  ASSUME TypeOK, NEW p \in Procs, NEW type \in EventTypes, NEW ref \in Refs,
         Append1(p, type, ref)
  PROVE  /\ trace' \in Seq(Events)
         /\ seq' \in [Procs -> Nat]
         /\ summary' \in {"running"} \cup RunSteps
<1>1. [seq |-> seq[p], type |-> type, ref |-> ref] \in Events
  BY DEF TypeOK, Events
<1> QED BY <1>1 DEF Append1, TypeOK

\* What the lifecycle writes is a run record.
LEMMA PersistType ==
  ASSUME TypeOK, NEW r \in Procs, NEW to \in RunSteps, NEW next,
         Persist(r, to, next)
  PROVE  /\ runstate' \in RunRecords
         /\ machine' \in [Procs -> RunRecords]
<1>1. machine[r] \in RunRecords
  BY DEF TypeOK
<1>2. Transition(machine[r], to) \in RunRecords
  BY <1>1 DEF Transition, RunRecords
<1> QED BY <1>1, <1>2 DEF Persist, TypeOK

\* Types: the reads, the claim and the decision.
LEMMA PlainCallType ==
  ASSUME TypeOK, NEW r \in Procs,
         \/ LoadRun(r) \/ ReadPointer(r) \/ CheckApproval(r) \/ Claim(r)
         \/ DecideRead(r) \/ DecideWrite(r) \/ ResumeTrace(r)
         \/ SaveDisposition(r) \/ CreateApproval(r) \/ PointRun(r)
         \/ Shelve(r) \/ Summarise(r)
  PROVE  TypeOK'
<1> USE DEF auditVars, requestVars, runVars, erpVars, localVars, tableCopies
<1>1. pc[r] \in Working
  BY DEF LoadRun, ReadPointer, CheckApproval, Claim, DecideRead, DecideWrite,
         ResumeTrace, SaveDisposition, CreateApproval, PointRun, Shelve,
         Summarise, At, Working, BeforeClaim, InGate, InCatch, InBody
<1>2. \E l \in Working \cup Stopped : Returns(r, l)
  BY DEF LoadRun, ReadPointer, CheckApproval, Claim, DecideRead, DecideWrite,
         ResumeTrace, SaveDisposition, CreateApproval, PointRun, Shelve,
         Summarise, Working, Stopped, BeforeClaim, InGate, InCatch, InBody
<1>3. pc' \in [Procs -> Working \cup Stopped] /\ faults' \in 0..MaxFaults
  BY <1>1, <1>2, ReturnsType
<1>4. CASE LoadRun(r)
  BY <1>3, <1>4 DEF TypeOK, LoadRun
<1>5. CASE ReadPointer(r)
  BY <1>3, <1>5 DEF TypeOK, ReadPointer
<1>6. CASE CheckApproval(r) \/ DecideRead(r)
  BY <1>3, <1>6 DEF TypeOK, CheckApproval, DecideRead
<1>7. CASE Claim(r)
  <2>1. target[r] \in ApprovalIds /\ claims[target[r]] + 1 \in Nat
    BY DEF TypeOK
  <2>2. claims' \in [ApprovalIds -> Nat]
    BY <1>7, <2>1 DEF TypeOK, Claim
  <2> QED BY <1>3, <1>7, <2>2 DEF TypeOK, Claim
<1>8. CASE DecideWrite(r)
  <2>1. StatusOf(decision[r]) \in Statuses
    BY DEF StatusOf, Statuses, Decided, Approved
  <2> QED BY <1>3, <1>8, <2>1 DEF TypeOK, DecideWrite
<1>9. CASE ResumeTrace(r)
  <2>1. seq' \in [Procs -> Nat]
    <3>1. CASE trace = <<>>
      BY <1>9, <3>1 DEF TypeOK, ResumeTrace
    <3>2. CASE trace # <<>>
      <4>1. trace[Len(trace)] \in Events
        BY <3>2 DEF TypeOK
      <4>2. trace[Len(trace)].seq + 1 \in Nat
        BY <4>1 DEF Events
      <4> QED BY <1>9, <3>2, <4>2 DEF TypeOK, ResumeTrace
    <3> QED BY <3>1, <3>2
  <2> QED BY <1>3, <1>9, <2>1 DEF TypeOK, ResumeTrace
<1>10. CASE SaveDisposition(r)
  <2>1. machine[r].revision \in Nat
    BY DEF TypeOK, RunRecords
  <2> QED BY <1>3, <1>10, <2>1 DEF TypeOK, SaveDisposition
<1>11. CASE CreateApproval(r)
  BY <1>3, <1>11 DEF TypeOK, CreateApproval, Statuses
<1>12. CASE PointRun(r)
  BY <1>3, <1>12 DEF TypeOK, PointRun
<1>13. CASE Shelve(r)
  BY <1>3, <1>13 DEF TypeOK, Shelve, SetInbox
<1>14. CASE Summarise(r)
  <2>1. machine[r].step \in RunSteps
    BY DEF TypeOK, RunRecords
  <2> QED BY <1>3, <1>14, <2>1 DEF TypeOK, Summarise
<1> QED
  BY <1>4, <1>5, <1>6, <1>7, <1>8, <1>9, <1>10, <1>11, <1>12, <1>13, <1>14

\* Types: the trace events of a request.
LEMMA TraceCallType ==
  ASSUME TypeOK, NEW r \in Procs,
         \/ RecordDecision(r) \/ NoteRedraft(r) \/ Announce(r) \/ EndTrace(r)
         \/ TracePost(r) \/ Retry(r) \/ GiveUp(r) \/ TracePayment(r)
         \/ TraceProfile(r) \/ TraceFailure(r)
  PROVE  TypeOK'
<1> USE DEF requestVars, runVars, erpVars, localVars, tableCopies
<1>1. pc[r] \in Working
  BY DEF RecordDecision, NoteRedraft, Announce, EndTrace, TracePost, Retry,
         GiveUp, TracePayment, TraceProfile, TraceFailure, At, Working, InGate,
         InBody
<1>2. \E l \in Working \cup Stopped : Returns(r, l)
  BY DEF RecordDecision, NoteRedraft, Announce, EndTrace, TracePost, Retry,
         GiveUp, TracePayment, TraceProfile, TraceFailure, Working, InGate,
         InPayment, InBody
<1>3. pc' \in [Procs -> Working \cup Stopped] /\ faults' \in 0..MaxFaults
  BY <1>1, <1>2, ReturnsType
<1>4. \E type \in EventTypes, ref \in Refs : Append1(r, type, ref)
  <2>1. /\ target[r] \in Refs /\ revised[r] \in Refs
        /\ machine[r].step \in Refs
    BY DEF TypeOK, Refs, RunRecords
  <2> QED
    BY <2>1
       DEF RecordDecision, NoteRedraft, Announce, EndTrace, TracePost, Retry,
           GiveUp, TracePayment, TraceProfile, TraceFailure, EventTypes, Refs,
           Tables
<1>5. /\ trace' \in Seq(Events) /\ seq' \in [Procs -> Nat]
      /\ summary' \in {"running"} \cup RunSteps
  BY <1>4, AppendType
<1>6. UNCHANGED <<runVars, erpVars, requestVars, machine, fetched, revised,
                  tableCopies, arms>>
  BY DEF RecordDecision, NoteRedraft, Announce, EndTrace, TracePost, Retry,
         GiveUp, TracePayment, TraceProfile, TraceFailure
<1>7. attempt' \in [Procs -> {1, 2}]
  BY DEF TypeOK, RecordDecision, NoteRedraft, Announce, EndTrace, TracePost,
         Retry, GiveUp, TracePayment, TraceProfile, TraceFailure
<1> QED BY <1>3, <1>5, <1>6, <1>7 DEF TypeOK

\* Types: the gate, the executor and the profile write.
LEMMA ExecutionType ==
  ASSUME TypeOK, NEW r \in Procs,
         \/ GateCheck(r) \/ PostRead(r) \/ PostWrite(r) \/ PayToggle(r)
         \/ PayRead(r) \/ PayWrite(r) \/ MarkProcessed(r) \/ WriteProfile(r)
         \/ Recheck(r) \/ Release(r)
  PROVE  TypeOK'
<1> USE DEF auditVars, requestVars, runVars, erpVars, localVars, tableCopies
<1>1. pc[r] \in Working
  BY DEF GateCheck, PostRead, PostWrite, PayToggle, PayRead, PayWrite,
         MarkProcessed, WriteProfile, Recheck, Release, At, Working, InGate,
         InPayment, InCatch, InBody
<1>2. \E l \in Working \cup Stopped : Returns(r, l)
  BY DEF GateCheck, PostRead, PostWrite, PayToggle, PayRead, PayWrite,
         MarkProcessed, WriteProfile, Recheck, Release, Working, Stopped,
         InGate, InPayment, InCatch, InBody
<1>3. pc' \in [Procs -> Working \cup Stopped] /\ faults' \in 0..MaxFaults
  BY <1>1, <1>2, ReturnsType
<1>4. CASE GateCheck(r) \/ PayToggle(r) \/ Recheck(r)
  BY <1>3, <1>4 DEF TypeOK, GateCheck, PayToggle, Recheck
<1>5. CASE PostRead(r)
  BY <1>3, <1>5 DEF TypeOK, PostRead
<1>6. CASE PostWrite(r)
  <2>1. ledgerCopy[r] \cup {"this_run"} \in Ledgers
    BY DEF TypeOK, Ledgers
  <2> QED BY <1>3, <1>6, <2>1 DEF TypeOK, PostWrite
<1>7. CASE PayRead(r)
  BY <1>3, <1>7 DEF TypeOK, PayRead
<1>8. CASE PayWrite(r)
  <2>1. paymentCopy[r] \in Seq([edited : BOOLEAN])
    BY DEF TypeOK, PaymentTables
  <2>2. payments' \in PaymentTables
    BY <1>8, <2>1 DEF PayWrite, PaymentTables
  <2> QED BY <1>3, <1>8, <2>2 DEF TypeOK, PayWrite
<1>9. CASE MarkProcessed(r)
  BY <1>3, <1>9 DEF TypeOK, MarkProcessed, SetInbox
<1>10. CASE WriteProfile(r)
  BY <1>3, <1>10 DEF TypeOK, WriteProfile
<1>11. CASE Release(r)
  BY <1>3, <1>11 DEF TypeOK, Release
<1> QED BY <1>4, <1>5, <1>6, <1>7, <1>8, <1>9, <1>10, <1>11

\* Types: the transitions and the revision's approval.
LEMMA TransitionType ==
  ASSUME TypeOK, NEW r \in Requests,
         Redraft(r) \/ Park(r) \/ Hold(r) \/ Settle(r) \/ Err(r)
  PROVE  TypeOK'
<1> USE DEF auditVars, requestVars, erpVars, tableCopies
<1>0. r \in Procs
  BY DEF Procs
<1>1. PICK to \in RunSteps, next \in Working : Persist(r, to, next)
  BY DEF Redraft, Park, Hold, Settle, Err, RunSteps, TerminalSteps, Working,
         InBody
<1>2. pc[r] \in Working
  BY DEF Redraft, Park, Hold, Settle, Err, At, Working, InBody
<1>3. \E l \in Working \cup Stopped : Returns(r, l)
  BY <1>1, <1>2, Landing DEF Persist
<1>4. pc' \in [Procs -> Working \cup Stopped] /\ faults' \in 0..MaxFaults
  BY <1>0, <1>2, <1>3, ReturnsType
<1>5. runstate' \in RunRecords /\ machine' \in [Procs -> RunRecords]
  BY <1>0, <1>1, PersistType
<1>6. UNCHANGED <<approvals, byRun, claims, auditVars, erpVars, requestVars,
                  fetched, revised, tableCopies, attempt, seq, arms>>
  BY <1>1 DEF Persist, Redraft, Park, Hold, Settle, Err
<1> QED BY <1>4, <1>5, <1>6 DEF TypeOK

\* Types: arrivals, reports, faults and the operator's toggle.
LEMMA OutsideType ==
  ASSUME TypeOK, NEW r \in Requests,
         \/ Receive(r) \/ FireToggle(r) \/ Throw(r) \/ Crash(r)
         \/ SetToggle \/ UNCHANGED vars
  PROVE  TypeOK'
<1> USE DEF auditVars, requestVars, runVars, erpVars, localVars, tableCopies
<1>1. r \in Procs
  BY DEF Procs
<1>2. CASE Receive(r)
  BY <1>1, <1>2, OfferedAssumption
     DEF Receive, Goto, TypeOK, Working, BeforeClaim
<1>3. CASE FireToggle(r)
  <2>1. OnThrow(r) \in Working \cup Stopped
    BY <1>3, Landing DEF FireToggle, At, Working, InPayment
  <2> QED BY <1>3, <2>1 DEF FireToggle, Goto, TypeOK
<1>4. CASE Throw(r) \/ Crash(r)
  <2>1. OnThrow(r) \in Working \cup Stopped
    BY <1>4, Landing DEF Throw, Crash
  <2>2. faults' \in 0..MaxFaults
    BY <1>4, ResumeAssumption DEF Throw, Crash, TypeOK
  <2>3. pc' \in [Procs -> Working \cup Stopped]
    BY <1>4, <2>1 DEF Throw, Crash, Goto, TypeOK, Stopped
  <2>4. seq' \in [Procs -> Nat]
    BY <1>4 DEF Throw, Crash, TypeOK
  <2> QED BY <1>4, <2>2, <2>3, <2>4 DEF Throw, Crash, TypeOK
<1>5. CASE SetToggle
  BY <1>5, ResumeAssumption DEF SetToggle, TypeOK
<1>6. CASE UNCHANGED vars
  BY <1>6 DEF vars, TypeOK
<1> QED BY <1>2, <1>3, <1>4, <1>5, <1>6

\* Every step keeps the types.
LEMMA NextTypeOK ==
  ASSUME TypeOK, [Next]_vars
  PROVE  TypeOK'
<1>1. CASE SetToggle
  BY <1>1, ResumeAssumption
     DEF SetToggle, TypeOK, auditVars, requestVars, runVars, localVars,
         tableCopies
<1>2. CASE UNCHANGED vars
  BY <1>2
     DEF vars, TypeOK, auditVars, requestVars, runVars, erpVars, localVars,
         tableCopies
<1>3. ASSUME NEW p \in Procs, Report(p) PROVE TypeOK'
  BY <1>3, TraceCallType, PlainCallType DEF Report
<1>4. ASSUME NEW r \in Requests, Receive(r) \/ Throw(r) \/ Crash(r)
      PROVE  TypeOK'
  BY <1>4, OutsideType
<1>5. ASSUME NEW r \in Requests, Call(r) PROVE TypeOK'
  <2>1. r \in Procs
    BY DEF Procs
  <2> QED
    BY <1>5, <2>1, PlainCallType, TraceCallType, ExecutionType, TransitionType,
       OutsideType
       DEF Call
<1> QED BY <1>1, <1>2, <1>3, <1>4, <1>5 DEF Next

\* The initial store and locals have their types.
LEMMA InitTypeOK == ASSUME Init PROVE TypeOK
<1>1. /\ runstate \in RunRecords
      /\ machine \in [Procs -> RunRecords]
  BY DEF Init, RunRecords, RunSteps
<1>2. trace \in Seq(Events)
  <2>1. FirstApproval \in Refs
    BY ResumeAssumption DEF Refs
  <2>2. [seq |-> 0, type |-> "run.start", ref |-> "run"] \in Events
    BY DEF Events, EventTypes, Refs
  <2>3. /\ [seq |-> 1, type |-> "approval.requested", ref |-> FirstApproval]
             \in Events
        /\ [seq |-> 2, type |-> "run.end", ref |-> "awaiting_approval"]
             \in Events
    BY <2>1 DEF Events, EventTypes, Refs, RunSteps
  <2> QED BY <2>2, <2>3 DEF Init
<1>3. pc \in [Procs -> Working \cup Stopped]
  BY DEF Init, Working, Stopped, InBody
<1>4. approvals \in [ApprovalIds -> Statuses]
  BY DEF Init, Statuses
<1>5. summary \in {"running"} \cup RunSteps
  BY DEF Init, RunSteps
<1>6. ledger \in Ledgers /\ ledgerCopy \in [Procs -> Ledgers]
  BY DEF Init, Ledgers
<1>7. payments \in PaymentTables /\ paymentCopy \in [Procs -> PaymentTables]
  BY DEF Init, PaymentTables
<1>8. decision \in [Procs -> Decisions]
  BY DEF Init, Decisions
<1> QED
  BY <1>1, <1>2, <1>3, <1>4, <1>5, <1>6, <1>7, <1>8, ResumeAssumption
     DEF Init, TypeOK

-----------------------------------------------------------------------------
(* The theorems.                                                           *)

(* The theorems.                                                           *)

\* However many requests decide one run, with whatever decisions and store
\* faults, the store and the locals keep their types.
THEOREM TypeCorrect == Spec => []TypeOK
<1>1. Init => TypeOK
  BY InitTypeOK
<1>2. TypeOK /\ [Next]_vars => TypeOK'
  BY NextTypeOK
<1> QED BY <1>1, <1>2, PTL DEF Spec

\* The inductive invariant behind the exclusion theorems.
THEOREM ExclusionHolds == Spec => []Exclusion
<1>1. Init => Exclusion
  BY InitExclusion
<1>2. TypeOK /\ Exclusion /\ [Next]_vars => Exclusion'
  BY NextExclusion
<1> QED BY <1>1, <1>2, TypeCorrect, PTL DEF Spec

\* resumeRun's claim lets at most one request act on the run at a time, for
\* any number of requests and revisions and under every kind of fault.
THEOREM SingleActor == Spec => []OneActor
<1>1. Exclusion => OneActor
  BY DEF Exclusion
<1> QED BY <1>1, ExclusionHolds, PTL

\* An approved approval is the one the run points at: a decision on a
\* superseded approval never counts.
THEOREM ApprovedIsCurrent == Spec => []OnlyCurrentApproved
<1>1. Exclusion => OnlyCurrentApproved
  BY DEF Exclusion, PointerInv
<1> QED BY <1>1, ExclusionHolds, PTL

\* decideApproval writes a decided record at most once: the unconditional
\* write after its check is safe because the claim keeps other deciders out.
THEOREM DecisionsAreFinal == Spec => DecisionIsFinal
<1> DEFINE Final == \A a \in ApprovalIds :
                      approvals[a] \in Decided => approvals'[a] = approvals[a]
<1>1. TypeOK /\ Exclusion /\ [Next]_vars => [Final]_vars
  <2> SUFFICES ASSUME TypeOK, Exclusion, Next
               PROVE  Final
    BY DEF vars, runVars
  <2>1. CASE UNCHANGED approvals
    BY <2>1
  <2>2. ASSUME NEW r \in Requests, DecideWrite(r)
        PROVE  Final
    <3>1. Owns(r) /\ pc[r] \in Undecided
      BY <2>2
         DEF DecideWrite, At, Undecided, Exclusion, OwnerInv, Acting, InBody
    <3>2. approvals[target[r]] = "pending"
      BY <3>1 DEF Owns, Pending
    <3> QED BY <2>2, <3>2 DEF DecideWrite, Decided, Approved, TypeOK
  <2>3. ASSUME NEW r \in Requests, CreateApproval(r)
        PROVE  Final
    BY <2>3 DEF CreateApproval, Exists, Decided, Approved, TypeOK
  <2>4. \/ UNCHANGED approvals
        \/ \E r \in Requests : DecideWrite(r) \/ CreateApproval(r)
    <3>1. SetToggle \/ (\E p \in Procs : Report(p)) => UNCHANGED approvals
      BY DEF SetToggle, Report, Announce, EndTrace, Summarise, runVars
    <3>2. ASSUME NEW r \in Requests, Receive(r) \/ Throw(r) \/ Crash(r)
          PROVE  UNCHANGED approvals
      BY <3>2 DEF Receive, Throw, Crash, runVars
    <3>3. ASSUME NEW r \in Requests, Call(r)
          PROVE  UNCHANGED approvals \/ DecideWrite(r) \/ CreateApproval(r)
      BY <3>3
         DEF Call, LoadRun, ReadPointer, CheckApproval, Claim, DecideRead,
             ResumeTrace, RecordDecision, Redraft, NoteRedraft,
             SaveDisposition, PointRun, Park, Hold, Shelve, GateCheck,
             PostRead, PostWrite, TracePost, PayToggle, FireToggle, PayRead,
             PayWrite, Retry, GiveUp, MarkProcessed, TracePayment,
             WriteProfile, TraceProfile, Settle, TraceFailure, Err, Recheck,
             Release, Persist, runVars
    <3> QED BY <3>1, <3>2, <3>3 DEF Next
  <2> QED BY <2>1, <2>2, <2>3, <2>4
<1> QED BY <1>1, TypeCorrect, ExclusionHolds, PTL DEF Spec, DecisionIsFinal

=============================================================================
