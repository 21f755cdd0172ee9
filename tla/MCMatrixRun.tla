---------------------------- MODULE MCMatrixRun ----------------------------
(***************************************************************************)
(* A plain lane and a caching lane over two cases, and an envelope that    *)
(* the lanes and a judge pass fill.  A turn of the caching lane keeps      *)
(* within the estimate; one of the plain lane and of the judge may not,    *)
(* and an interactive run, at full price, does not.                        *)
(***************************************************************************)
EXTENDS MatrixRun

CONSTANTS c1, c2, plain, caching

TwoLanes == <<plain, caching>>

Fresh   == [fresh |-> 1, written |-> 0, cached |-> 0]
Long    == [fresh |-> 3, written |-> 0, cached |-> 0]
Written == [fresh |-> 0, written |-> 1, cached |-> 0]
TurnUsages ==
  [ttl \in Ttls |-> IF ttl = "none" THEN {Fresh, Long} ELSE {Written}]

All       == {{}}
LanesOnly == {{"judge", "latency"}}

PaidScenarios ==
  { \* one case is screened; the script is run twice, and a call fails
    [screened |-> {c2}, chunkSize |-> 1, retries |-> 0, skips |-> LanesOnly,
     invocations |-> 2, faults |-> 1],
    \* a stalled batch is cancelled and submitted again
    [screened |-> {c2}, chunkSize |-> 1, retries |-> 1, skips |-> LanesOnly,
     invocations |-> 1, faults |-> 0],
    \* two cases, in two chunks
    [screened |-> {}, chunkSize |-> 1, retries |-> 0, skips |-> LanesOnly,
     invocations |-> 1, faults |-> 0],
    \* the judge and the latency pass follow, and a call fails
    [screened |-> {c2}, chunkSize |-> 1, retries |-> 0, skips |-> All,
     invocations |-> 1, faults |-> 1]}
=============================================================================
