--------------------------- MODULE OrderedDelivery ---------------------------
(***************************************************************************)
(* What framework/harness/message_sorting_queue.go promises to the code    *)
(* that reads its channel, as message_sorting_queue_test.go uses it:       *)
(* messages are submitted in any order and read in the order of their      *)
(* numbers, each once, with no gap, as long as the queue is open.  Locks,  *)
(* channels and the list of deferred messages do not appear here.          *)
(***************************************************************************)
EXTENDS Integers, Sequences

CONSTANTS
  Requests,  (* the messages                                               *)
  Counter    (* their numbers                                              *)

VARIABLES
  submitted, (* the messages given to the queue so far                     *)
  delivered, (* the messages read so far, in order                         *)
  closed     (* whether the queue was closed                               *)

vars == <<submitted, delivered, closed>>

Init ==
  /\ submitted = {}
  /\ delivered = <<>>
  /\ closed = FALSE

Submit(r) ==
  /\ r \notin submitted
  /\ submitted' = submitted \cup {r}
  /\ UNCHANGED <<delivered, closed>>

(* The next message to be read is the submitted one that has the next      *)
(* number.  It may still be read when the queue is closed.                 *)
Deliver(r) ==
  /\ r \in submitted
  /\ Counter[r] = Len(delivered) + 1
  /\ delivered' = Append(delivered, r)
  /\ UNCHANGED <<submitted, closed>>

Close ==
  /\ ~closed
  /\ closed' = TRUE
  /\ UNCHANGED <<submitted, delivered>>

Next ==
  \/ \E r \in Requests : Submit(r) \/ Deliver(r)
  \/ Close

Spec == Init /\ [][Next]_vars

(* A submitted message whose predecessors were read is read, unless the    *)
(* queue is closed first.                                                  *)
DeliverWhileOpen == ~closed /\ \E r \in Requests : Deliver(r)

FairSpec == Spec /\ WF_vars(DeliverWhileOpen)
=============================================================================
