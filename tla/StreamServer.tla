---------------------------- MODULE StreamServer ----------------------------
(***************************************************************************)
(* ssetests/testapi_stream_server.go: the streams that a test serves to    *)
(* the SSE client under test.                                              *)
(*                                                                         *)
(* Each request of the client is a connection with a channel dataCh of its *)
(* own.  A handler goroutine per connection writes what comes out of the   *)
(* channel to the client, until it gets a chunk with no data or the        *)
(* request's Context is done.  The test gets the connections in the order  *)
(* in which the endpoint reports them and puts chunks into their channels; *)
(* it may hold several connections, some of which are dead.                *)
(*                                                                         *)
(* The endpoint is reduced to what MockEndpoints shows of it: a request to *)
(* the open endpoint is reported, once, before its handler runs.           *)
(***************************************************************************)
EXTENDS Integers, SequencesExt

CONSTANTS
  MaxConns,     (* bound: connections that the client makes                *)
  MaxData,      (* bound: chunks of data that the test sends               *)
  MaxBreaks,    (* bound: chunks without data, on each connection          *)
  ChannelSize   (* the capacity of dataCh (1000)                           *)

ASSUME BoundsAssumption == MaxConns \in Nat /\ MaxData \in Nat /\ MaxBreaks \in Nat
ASSUME ChannelSizeAssumption == ChannelSize \in Nat \ {0}

Conns == 1 .. MaxConns

VARIABLES
  endpoint,   (* whether the endpoint is registered                        *)
  newConns,   (* the connections that wait for AwaitConnection             *)
  handler,    (* where the handler goroutine of each connection is         *)
  dataCh,     (* what its channel holds                                    *)
  done,       (* whether its Context is done                               *)
  client,     (* the client's side of it                                   *)
  wire,       (* what was written to it and not received                   *)
  received,   (* what the client has received from it, in order            *)
  conns,      (* the StreamConnections that the test has                   *)
  sending,    (* the chunks that the test is about to put into a channel   *)
  sendingTo,  (* the connection whose channel it is                        *)
  sent        (* all that was put into each channel, in order              *)

serverVars == <<endpoint, newConns, handler>>
clientVars == <<client, received>>
testVars == <<conns, sending, sendingTo>>
vars == <<serverVars, dataCh, done, clientVars, wire, testVars, sent>>

(* A streamChunk: its data, one of the numbers from 1, or nil; and whether *)
(* the handler is to wait after it.                                        *)
nil == 0
Chunks == [data : 0 .. MaxData, delayAfter : BOOLEAN]

TypeOK ==
  /\ endpoint \in {"open", "closed"}
  /\ newConns \in Seq(Conns)
  /\ handler \in [Conns -> {"none", "arrived", "looping", "sleeping", "ended", "refused"}]
  /\ dataCh \in [Conns -> Seq(Chunks)]
  /\ \A c \in Conns : Len(dataCh[c]) <= ChannelSize
  /\ done \in [Conns -> BOOLEAN]
  /\ client \in [Conns -> {"none", "open", "gone", "eof"}]
  /\ wire \in [Conns -> Seq(1 .. MaxData)]
  /\ received \in [Conns -> Seq(1 .. MaxData)]
  /\ conns \subseteq Conns
  /\ sending \in Seq(Chunks)
  /\ sendingTo \in 0 .. MaxConns
  /\ sent \in [Conns -> Seq(0 .. MaxData)]

Init ==
  /\ endpoint = "open"
  /\ newConns = <<>>
  /\ handler = [c \in Conns |-> "none"]
  /\ dataCh = [c \in Conns |-> <<>>]
  /\ done = [c \in Conns |-> FALSE]
  /\ client = [c \in Conns |-> "none"]
  /\ wire = [c \in Conns |-> <<>>]
  /\ received = [c \in Conns |-> <<>>]
  /\ conns = {}
  /\ sending = <<>>
  /\ sendingTo = 0
  /\ sent = [c \in Conns |-> <<>>]
-----------------------------------------------------------------------------
(***************************************************************************)
(* The SSE client in the test service, as the harness sees it: it connects *)
(* when it has no connection, at first or again, and may drop one at any   *)
(* time (a restart, a read timeout, the end of the test).                  *)
(***************************************************************************)

Connect(c) ==
  /\ client[c] = "none"
  /\ \A d \in 1 .. c - 1 : client[d] \in {"gone", "eof"}
  /\ endpoint = "open"
  /\ client' = [client EXCEPT ![c] = "open"]
  /\ handler' = [handler EXCEPT ![c] = "arrived"]
  /\ UNCHANGED <<endpoint, newConns, dataCh, done, received, wire, testVars, sent>>

Receive(c) ==
  /\ client[c] = "open"
  /\ wire[c] # <<>>
  /\ received' = [received EXCEPT ![c] = Append(@, Head(wire[c]))]
  /\ wire' = [wire EXCEPT ![c] = Tail(@)]
  /\ UNCHANGED <<serverVars, dataCh, done, client, testVars, sent>>

(* The end of the response.                                                *)
SeeEnd(c) ==
  /\ client[c] = "open"
  /\ wire[c] = <<>>
  /\ handler[c] \in {"ended", "refused"}
  /\ client' = [client EXCEPT ![c] = "eof"]
  /\ UNCHANGED <<serverVars, dataCh, done, received, wire, testVars, sent>>

Disconnect(c) ==
  /\ client[c] = "open"
  /\ client' = [client EXCEPT ![c] = "gone"]
  /\ wire' = [wire EXCEPT ![c] = <<>>]
  /\ UNCHANGED <<serverVars, dataCh, done, received, testVars, sent>>

(* The HTTP server notices it some time later.                             *)
ContextDone(c) ==
  /\ client[c] = "gone"
  /\ ~done[c]
  /\ done' = [done EXCEPT ![c] = TRUE]
  /\ UNCHANGED <<serverVars, dataCh, clientVars, wire, testVars, sent>>
-----------------------------------------------------------------------------
(***************************************************************************)
(* The endpoint and streamHandler.                                         *)
(***************************************************************************)

(* addStreamContext has made the channel; the connection is reported, and  *)
(* the handler starts.  If the endpoint was closed meanwhile, the push     *)
(* panics, and the server breaks the connection.                           *)
Push(c) ==
  /\ handler[c] = "arrived"
  /\ IF endpoint = "open"
       THEN /\ newConns' = Append(newConns, c)
            /\ handler' = [handler EXCEPT ![c] = "looping"]
       ELSE /\ handler' = [handler EXCEPT ![c] = "refused"]
            /\ UNCHANGED newConns
  /\ UNCHANGED <<endpoint, dataCh, done, clientVars, wire, testVars, sent>>

(* A chunk with data is written and flushed; the error that the write      *)
(* returns when the client is gone is ignored.                             *)
HandleChunk(c) ==
  LET chunk == Head(dataCh[c]) IN
  /\ handler[c] = "looping"
  /\ dataCh[c] # <<>>
  /\ chunk.data # nil
  /\ dataCh' = [dataCh EXCEPT ![c] = Tail(@)]
  /\ wire' = IF client[c] = "open" THEN [wire EXCEPT ![c] = Append(@, chunk.data)]
                                   ELSE wire
  /\ handler' = [handler EXCEPT ![c] = IF chunk.delayAfter THEN "sleeping" ELSE "looping"]
  /\ UNCHANGED <<endpoint, newConns, done, clientVars, testVars, sent>>

WakeUp(c) ==
  /\ handler[c] = "sleeping"
  /\ handler' = [handler EXCEPT ![c] = "looping"]
  /\ UNCHANGED <<endpoint, newConns, dataCh, done, clientVars, wire, testVars, sent>>

HandleBreakAnywhere(c) ==
  /\ handler[c] = "looping"
  /\ \E i \in 1 .. Len(dataCh[c]) : dataCh[c][i].data = nil
  /\ handler' = [handler EXCEPT ![c] = "ended"]
  /\ UNCHANGED <<endpoint, newConns, dataCh, done, clientVars, wire, testVars, sent>>
HandleBreakContinues(c) ==
  /\ handler[c] = "looping"
  /\ dataCh[c] # <<>>
  /\ Head(dataCh[c]).data = nil
  /\ dataCh' = [dataCh EXCEPT ![c] = Tail(@)]
  /\ UNCHANGED <<serverVars, done, clientVars, wire, testVars, sent>>

(* A chunk without data ends the loop.                                     *)
HandleBreak(c) ==
  /\ handler[c] = "looping"
  /\ dataCh[c] # <<>>
  /\ Head(dataCh[c]).data = nil
  /\ dataCh' = [dataCh EXCEPT ![c] = Tail(@)]
  /\ handler' = [handler EXCEPT ![c] = "ended"]
  /\ UNCHANGED <<endpoint, newConns, done, clientVars, wire, testVars, sent>>

HandleDoneWhenEmpty(c) ==
  /\ handler[c] = "looping"
  /\ dataCh[c] = <<>>
  /\ handler' = [handler EXCEPT ![c] = "ended"]
  /\ UNCHANGED <<endpoint, newConns, dataCh, done, clientVars, wire, testVars, sent>>

(* So does the Context, and `select' may prefer it to chunks that wait.    *)
HandleDone(c) ==
  /\ handler[c] = "looping"
  /\ done[c]
  /\ handler' = [handler EXCEPT ![c] = "ended"]
  /\ UNCHANGED <<endpoint, newConns, dataCh, done, clientVars, wire, testVars, sent>>
-----------------------------------------------------------------------------
(***************************************************************************)
(* The test.                                                               *)
(***************************************************************************)
Idle == sending = <<>> /\ endpoint = "open"

(* AwaitConnection.  (If it times out, the test ends.)                     *)
AwaitConnection ==
  /\ Idle
  /\ newConns # <<>>
  /\ conns' = conns \cup {Head(newConns)}
  /\ newConns' = Tail(newConns)
  /\ UNCHANGED <<endpoint, handler, dataCh, done, clientVars, wire,
                 sending, sendingTo, sent>>

(* The data sent last, on whatever connection.                             *)
LastData == Max({0} \cup UNION {Range(sent[c]) : c \in Conns})

BeginSend(c, chunks) ==
  /\ Idle
  /\ c \in conns
  /\ sending' = chunks
  /\ sendingTo' = c
  /\ UNCHANGED <<serverVars, dataCh, done, clientVars, wire, conns, sent>>

Send(c) ==
  /\ LastData < MaxData
  /\ BeginSend(c, <<[data |-> LastData + 1, delayAfter |-> FALSE]>>)

(* The handler is to wait after each chunk but the last, if at all.        *)
SendInChunks(c) ==
  \E pieces \in 2 .. MaxData - LastData, delay \in BOOLEAN :
    BeginSend(c, [i \in 1 .. pieces |->
                    [data |-> LastData + i, delayAfter |-> delay /\ i < pieces]])

BreakConnection(c) ==
  /\ Len(SelectSeq(sent[c], LAMBDA d : d = nil)) < MaxBreaks
  /\ BeginSend(c, <<[data |-> nil, delayAfter |-> FALSE]>>)

HasRoomAlways(c) == TRUE
HasRoomUnbuffered(c) == dataCh[c] = <<>> /\ handler[c] = "looping"
HasRoom(c) == Len(dataCh[c]) < ChannelSize

(* A send on the channel, which waits for room.                            *)
PutChunk ==
  /\ sending # <<>>
  /\ HasRoom(sendingTo)
  /\ dataCh' = [dataCh EXCEPT ![sendingTo] = Append(@, Head(sending))]
  /\ sent' = [sent EXCEPT ![sendingTo] = Append(@, Head(sending).data)]
  /\ sending' = Tail(sending)
  /\ UNCHANGED <<serverVars, done, clientVars, wire, conns, sendingTo>>

(* The test ends: the endpoint is closed.  The handlers keep running.      *)
Close ==
  /\ Idle
  /\ endpoint' = "closed"
  /\ UNCHANGED <<newConns, handler, dataCh, done, clientVars, wire, testVars, sent>>
-----------------------------------------------------------------------------
ClientStep(c) == Receive(c) \/ SeeEnd(c)
HandlerStep(c) ==
  Push(c) \/ HandleChunk(c) \/ WakeUp(c) \/ HandleBreak(c) \/ HandleDone(c)

Next ==
  \/ \E c \in Conns :
       \/ Connect(c) \/ ClientStep(c) \/ Disconnect(c) \/ ContextDone(c)
       \/ HandlerStep(c)
       \/ Send(c) \/ SendInChunks(c) \/ BreakConnection(c)
  \/ AwaitConnection \/ PutChunk \/ Close

Spec == Init /\ [][Next]_vars

(* Goroutines run when they can, the HTTP server notices that a client is  *)
(* gone, and a client that keeps a connection reads from it.  Nothing is   *)
(* assumed of what the test decides to do, nor of when clients connect.    *)
Fairness ==
  /\ \A c \in Conns :
       WF_vars(HandlerStep(c)) /\ WF_vars(ContextDone(c)) /\ WF_vars(ClientStep(c))
  /\ WF_vars(PutChunk)

FairSpec == Spec /\ Fairness
-----------------------------------------------------------------------------
(***************************************************************************)
(* Properties.                                                             *)
(***************************************************************************)

(* What the test has sent on a connection before it broke it.              *)
BeforeBreak(c) ==
  LET s == sent[c]
      breaks == {i \in 1 .. Len(s) : s[i] = nil}
  IN  IF breaks = {} THEN s ELSE SubSeq(s, 1, Min(breaks) - 1)

(* A client receives on each connection only what the test sent there, in  *)
(* order, from the beginning, without a hole: chunks that are still in the *)
(* channel of a dead connection never show up on the next one, and nothing *)
(* follows a break.                                                        *)
ReceivedIsPrefix ==
  \A c \in Conns : IsPrefix(received[c] \o wire[c], BeforeBreak(c))

(* A client that kept its connection sees it end only if the test broke    *)
(* it, and then it has received all that was sent before.                  *)
EndsAfterAll ==
  \A c \in Conns :
    client[c] = "eof" =>
      \/ handler[c] = "refused"
      \/ received[c] = BeforeBreak(c) /\ BeforeBreak(c) # sent[c]

(* What a test sends before it breaks a connection arrives, if the client  *)
(* keeps the connection, also when the test has ended in the meantime.     *)
SentArrives ==
  \A c \in Conns, n \in 1 .. MaxData :
    Contains(BeforeBreak(c), n) ~> Contains(received[c], n) \/ client[c] = "gone"

(* The handler of a connection that was broken, or dropped by the client,  *)
(* ends, so that the connection is closed and the client connects again.   *)
HandlerEnds ==
  \A c \in Conns :
    (Contains(sent[c], nil) \/ done[c]) ~> handler[c] \in {"ended", "refused"}

(* A test is held up in a send only by a connection that is dead and whose *)
(* channel is full.                                                        *)
SendReturns ==
  sending # <<>> ~> \/ sending = <<>>
                    \/ /\ Len(dataCh[sendingTo]) = ChannelSize
                       /\ handler[sendingTo] = "ended"

(* Each connection is a stream of its own, as OrderedStream says: the      *)
(* client reads what the test sent on it, in order, up to the break, and   *)
(* sees it end there and nowhere else, unless it came too late.            *)
Promise == INSTANCE OrderedStream WITH
             over <- endpoint = "closed",
             Data <- 1 .. MaxData
KeepsPromise == Promise!FairSpec
=============================================================================
