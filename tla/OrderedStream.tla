---------------------------- MODULE OrderedStream ----------------------------
(***************************************************************************)
(* What ssetests/testapi_stream_server.go promises to a test and to the    *)
(* SSE client that it tests: each connection is a stream of its own.  The  *)
(* client reads from it what the test sent on it, in order, and sees it    *)
(* end when the test has broken it and it has read all that was sent       *)
(* before, or when the test was over before the connection was made.       *)
(* Channels, handlers and Contexts do not appear here.                     *)
(***************************************************************************)
EXTENDS Integers, Sequences

CONSTANTS
  Conns,     (* the connections, numbered in the order they are made       *)
  Data,      (* what can be sent                                           *)
  nil        (* a break                                                    *)

VARIABLES
  over,      (* whether the endpoint of the test was closed                *)
  client,    (* the client's side of each connection                       *)
  sent,      (* what the test has sent on it, and its breaks, in order     *)
  received   (* what the client has read from it, in order                 *)

vars == <<over, client, sent, received>>

Init ==
  /\ over = FALSE
  /\ client = [c \in Conns |-> "none"]
  /\ sent = [c \in Conns |-> <<>>]
  /\ received = [c \in Conns |-> <<>>]

(* A client makes a connection when it has none.                           *)
Connect(c) ==
  /\ ~over
  /\ client[c] = "none"
  /\ \A b \in Conns : b < c => client[b] \in {"gone", "eof"}
  /\ client' = [client EXCEPT ![c] = "open"]
  /\ UNCHANGED <<over, sent, received>>

(* The test may send, and break, at any time, also when nobody reads.      *)
Put(c, d) ==
  /\ client[c] # "none"
  /\ sent' = [sent EXCEPT ![c] = Append(@, d)]
  /\ UNCHANGED <<over, client, received>>

NextItem(c) == sent[c][Len(received[c]) + 1]

Receive(c) ==
  /\ client[c] = "open"
  /\ Len(received[c]) < Len(sent[c])
  /\ NextItem(c) # nil
  /\ received' = [received EXCEPT ![c] = Append(@, NextItem(c))]
  /\ UNCHANGED <<over, client, sent>>

(* The client has come to a break.                                         *)
End(c) ==
  /\ client[c] = "open"
  /\ Len(received[c]) < Len(sent[c])
  /\ NextItem(c) = nil
  /\ client' = [client EXCEPT ![c] = "eof"]
  /\ UNCHANGED <<over, sent, received>>

(* The connection came too late for the test.                              *)
Refuse(c) ==
  /\ client[c] = "open"
  /\ over
  /\ sent[c] = <<>>
  /\ client' = [client EXCEPT ![c] = "eof"]
  /\ UNCHANGED <<over, sent, received>>

Disconnect(c) ==
  /\ client[c] = "open"
  /\ client' = [client EXCEPT ![c] = "gone"]
  /\ UNCHANGED <<over, sent, received>>

(* The test ends.  What was sent is still to be read.                      *)
Close ==
  /\ ~over
  /\ over' = TRUE
  /\ UNCHANGED <<client, sent, received>>

Next ==
  \/ \E c \in Conns :
       \/ Connect(c) \/ Receive(c) \/ End(c) \/ Refuse(c) \/ Disconnect(c)
       \/ \E d \in Data \cup {nil} : Put(c, d)
  \/ Close

Spec == Init /\ [][Next]_vars

(* What was sent before the break, and the break, reach a client that      *)
(* stays.                                                                  *)
FairSpec ==
  /\ Spec
  /\ \A c \in Conns : WF_vars(Receive(c)) /\ WF_vars(End(c))
=============================================================================
