------------------------------ MODULE EvalSuite ------------------------------
(***************************************************************************)
(* The evals of a working tree: the golden cases are what its two lanes    *)
(* share.  Someone works on the live lane or on the cassettes; the other   *)
(* lane's files lie as they are meanwhile.                                 *)
(***************************************************************************)
EXTENDS EvalLane, Cassettes

VARIABLE work    \* "live" or "replay"

vars == <<work, goldens, laneVars, cassetteVars>>

LaneAtRest ==
  /\ sessions = <<>> /\ lane = "running" /\ baseline = Null
  /\ report = Null /\ edits = 0

CassettesAtRest ==
  /\ version = FirstVersion /\ cassettes = <<>> /\ replayBaseline = Null
  /\ recording = Null /\ verdict = "none" /\ settled = FALSE /\ changes = 0

Init ==
  \/ work = "live"   /\ LaneInit     /\ CassettesAtRest
  \/ work = "replay" /\ CassetteInit /\ LaneAtRest

Next ==
  \/ work = "live"   /\ LaneNext     /\ UNCHANGED <<work, cassetteVars>>
  \/ work = "replay" /\ CassetteNext /\ UNCHANGED <<work, laneVars>>

Spec == Init /\ [][Next]_vars

=============================================================================
