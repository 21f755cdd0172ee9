--------------------------- MODULE MCContainment ---------------------------
(***************************************************************************)
(* Two handlers and one session: visitors over two clock hours, a session  *)
(* at its cap over its expiry, and live runs over midnight.                *)
(***************************************************************************)
EXTENDS Containment, TLC

CONSTANTS h1, h2, s1

HandlerSymmetry == Permutations(Handlers)

Bounds(lanes, n, f, r) ==
  [lanes |-> lanes, requests |-> n, faults |-> f, resets |-> r]

DayScenarios == {Bounds({"intake"}, 3, 1, 0), Bounds({"live"}, 4, 1, 1),
                 Bounds({"intake", "live"}, 3, 0, 0)}

\* Two visitors of one address, nothing fails.
BurstScenarios == {Bounds({"intake"}, 2, 0, 0)}
=============================================================================
