---------------------------- MODULE MCGuidedTour ----------------------------
(* The guided tour as it is: it has no constants but its bounds.           *)
EXTENDS GuidedTour
=============================================================================
