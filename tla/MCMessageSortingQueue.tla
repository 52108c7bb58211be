----------------------- MODULE MCMessageSortingQueue -----------------------
(* Values for the constants of MessageSortingQueue.                        *)
EXTENDS MessageSortingQueue

CONSTANTS r1, r2, r3, r4

(* Four callbacks numbered as docs/service_spec.md asks.                   *)
WellNumbered == r1 :> 1 @@ r2 :> 2 @@ r3 :> 3 @@ r4 :> 4
=============================================================================
