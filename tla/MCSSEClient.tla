----------------------------- MODULE MCSSEClient -----------------------------
(* Values for the constants of SSEClient.                                  *)
EXTENDS SSEClient

CONSTANTS r1, r2, r3, r4

(* Three well-numbered callbacks, and one without a number.                *)
Numbers == r1 :> 1 @@ r2 :> 2 @@ r3 :> 3 @@ r4 :> 4
Kinds == r1 :> "error" @@ r2 :> "event" @@ r3 :> "error" @@ r4 :> "badPath"

(* A body that is not JSON.                                                *)
SomeMalformed == r1 :> "event" @@ r2 :> "malformed"
TwoNumbers == r1 :> 1 @@ r2 :> 2
=============================================================================
