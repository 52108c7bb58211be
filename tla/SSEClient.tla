------------------------------ MODULE SSEClient ------------------------------
(***************************************************************************)
(* ssetests/testapi_sse_client.go: the test harness's side of one SSE      *)
(* client that runs in the test service.                                   *)
(*                                                                         *)
(* The test service reports what its client receives by posting callbacks. *)
(* Three kinds of goroutines pass them on: the HTTP handler of each        *)
(* request gives the body to the sorting queue, or, if the URL has no      *)
(* message number, puts an error straight into outputCh; the goroutine     *)
(* consumeCallbacks reads the queue's channel, parses each message and     *)
(* puts it into outputCh; the test takes items from outputCh, ends, and    *)
(* closes the callback endpoint and the queue while handlers may still be  *)
(* running.                                                                *)
(*                                                                         *)
(* The queue is the module MessageSortingQueue, with the same variables.   *)
(* An item of outputCh is the request it comes from.                       *)
(***************************************************************************)
EXTENDS Integers, Sequences, SequencesExt

CONSTANTS
  Requests,     (* the callback requests                                   *)
  Counter,      (* the message number in the URL of each one               *)
  Kind,         (* what each one carries: the kind of message, or          *)
                (* "malformed" for a body that is not JSON, or "badPath"   *)
                (* for a URL without a message number                      *)
  ChannelSize,  (* the capacity of the queue's channel (100)               *)
  OutputSize,   (* the capacity of outputCh (100)                          *)
  NoRequest     (* stands for the absence of a request                     *)

MessageKinds == {"event", "comment", "error"}

ASSUME KindAssumption ==
  Kind \in [Requests -> MessageKinds \cup {"malformed", "badPath"}]
ASSUME OutputSizeAssumption == OutputSize \in Nat \ {0}

(* What MessageSortingQueue assumes of the constants it shares.            *)
ASSUME QueueAssumption ==
  Counter \in [Requests -> Int] /\ ChannelSize \in Nat \ {0} /\ NoRequest \notin Requests

VARIABLES
  (* The sorting queue: see MessageSortingQueue.                           *)
  C, field, lastCounter, deferred, lock, outgoing, phase, received,
  handler,         (* where each request is: not posted, in the handler,   *)
                   (* or answered because its URL was bad                  *)
  endpoint,        (* whether the callback endpoint is registered          *)
  consumer,        (* the goroutine consumeCallbacks                       *)
  held,            (* the item that it is about to put into outputCh       *)
  outputCh,        (* c.outputCh                                           *)
  test,            (* where the test's own goroutine is                    *)
  ignoreNextError, (* c.ignoreNextError                                    *)
  taken,           (* all the items taken from outputCh, in order          *)
  ignored,         (* the positions in `taken' of those AwaitMessage       *)
                   (* dropped                                              *)
  marked           (* the positions that came next when IgnoreErrorHere    *)
                   (* was called                                           *)

queueVars == <<C, field, lastCounter, deferred, lock, outgoing, phase, received>>
awaitVars == <<ignoreNextError, taken, ignored, marked>>
testVars == <<test, awaitVars>>
vars == <<queueVars, handler, endpoint, consumer, held, outputCh, testVars>>

Queue == INSTANCE MessageSortingQueue

TypeOK ==
  /\ Queue!TypeOK
  /\ handler \in [Requests -> {"none", "handling", "rejected"}]
  /\ endpoint \in {"open", "closed"}
  /\ consumer \in {"notStarted", "starting", "ranging", "stuck", "done"}
  /\ held \in Requests \cup {NoRequest}
  /\ outputCh \in Seq(Requests) /\ Len(outputCh) <= OutputSize
  /\ test \in {"creating", "running", "awaiting",
               "closing", "endpointClosed", "channelClosed", "ended"}
  /\ ignoreNextError \in BOOLEAN
  /\ taken \in Seq(Requests)
  /\ ignored \subseteq 1 .. Len(taken)
  /\ marked \subseteq 1 .. Len(taken) + 1

(* NewSSEClient up to the request that creates the client in the service,  *)
(* which may call back before it has answered.                             *)
Init ==
  /\ Queue!Init
  /\ handler = [r \in Requests |-> "none"]
  /\ endpoint = "open"
  /\ consumer = "notStarted"
  /\ held = NoRequest
  /\ outputCh = <<>>
  /\ test = "creating"
  /\ ignoreNextError = FALSE
  /\ taken = <<>>
  /\ ignored = {}
  /\ marked = {}
-----------------------------------------------------------------------------
(***************************************************************************)
(* The HTTP handlers.                                                      *)
(***************************************************************************)

(* A request finds the endpoint registered; what happens to the endpoint   *)
(* then does not stop it.  Requests that do not get to handleCallback are  *)
(* not posted here: those with a body that cannot be read (status 500), and*)
(* those whose push panics as Close closes newConns (see MockEndpoints).   *)
Post(r) ==
  /\ endpoint = "open"
  /\ handler[r] = "none"
  /\ handler' = [handler EXCEPT ![r] = "handling"]
  /\ UNCHANGED <<queueVars, endpoint, consumer, held, outputCh, testVars>>

(* handleCallback: a message with a number goes to the queue.              *)
HandleCallback(r) ==
  /\ handler[r] = "handling"
  /\ Kind[r] # "badPath"
  /\ Queue!Accept(r) \/ Queue!AcceptStep(r)
  /\ UNCHANGED <<handler, endpoint, consumer, held, outputCh, testVars>>

HasRoomAlways == TRUE
HasRoom == Len(outputCh) < OutputSize

(* A URL without a number: an error in outputCh, and status 400.           *)
HandleBadPath(r) ==
  /\ handler[r] = "handling"
  /\ Kind[r] = "badPath"
  /\ HasRoom
  /\ outputCh' = Append(outputCh, r)
  /\ handler' = [handler EXCEPT ![r] = "rejected"]
  /\ UNCHANGED <<queueVars, endpoint, consumer, held, testVars>>
-----------------------------------------------------------------------------
(***************************************************************************)
(* The goroutine consumeCallbacks.                                         *)
(***************************************************************************)

(* `range c.callbackQueue.C' reads the field once, when the goroutine      *)
(* starts to run.  If Close has set it to nil by then, the goroutine waits *)
(* on a nil channel for ever; as the read races with the assignment, it    *)
(* may also find the channel.                                              *)
BeginRange ==
  /\ consumer = "starting"
  /\ \/ consumer' = "ranging"
     \/ field = "nil" /\ consumer' = "stuck"
  /\ UNCHANGED <<queueVars, handler, endpoint, held, outputCh, testVars>>

Consume ==
  /\ consumer = "ranging"
  /\ held = NoRequest
  /\ Queue!Receive
  /\ held' = Head(C)
  /\ UNCHANGED <<handler, endpoint, consumer, outputCh, testVars>>

OutputDropsWhenFull ==
  /\ held # NoRequest
  /\ outputCh' = IF HasRoom THEN Append(outputCh, held) ELSE outputCh
  /\ held' = NoRequest
  /\ UNCHANGED <<queueVars, handler, endpoint, consumer, testVars>>

(* A message that cannot be parsed is put out as an error.                 *)
Output ==
  /\ held # NoRequest
  /\ HasRoom
  /\ outputCh' = Append(outputCh, held)
  /\ held' = NoRequest
  /\ UNCHANGED <<queueVars, handler, endpoint, consumer, testVars>>

EndRangeWhenEmpty ==
  /\ consumer = "ranging"
  /\ held = NoRequest
  /\ C = <<>>
  /\ consumer' = "done"
  /\ UNCHANGED <<queueVars, handler, endpoint, held, outputCh, testVars>>
EndRange ==
  /\ consumer = "ranging"
  /\ held = NoRequest
  /\ C = <<>>
  /\ field # "open"
  /\ consumer' = "done"
  /\ UNCHANGED <<queueVars, handler, endpoint, held, outputCh, testVars>>
-----------------------------------------------------------------------------
(***************************************************************************)
(* The test's goroutine.                                                   *)
(***************************************************************************)

(* The service has created the client.                                     *)
Created ==
  /\ test = "creating"
  /\ test' = "running"
  /\ consumer' = "starting"
  /\ UNCHANGED <<queueVars, handler, endpoint, held, outputCh, awaitVars>>

(* It has not: the test fails at once, and the consumer is not started.    *)
CreationFails ==
  /\ test = "creating"
  /\ test' = "closing"
  /\ UNCHANGED <<queueVars, handler, endpoint, consumer, held, outputCh, awaitVars>>

IgnoreErrorHere ==
  /\ test = "running"
  /\ ignoreNextError' = TRUE
  /\ marked' = marked \cup {Len(taken) + 1}
  /\ UNCHANGED <<queueVars, handler, endpoint, consumer, held, outputCh, test, taken, ignored>>

(* RequireMessage calls AwaitMessage.                                      *)
RequireMessage ==
  /\ test = "running"
  /\ test' = "awaiting"
  /\ UNCHANGED <<queueVars, handler, endpoint, consumer, held, outputCh, awaitVars>>

(* message.Kind of the item that comes from a request.  An item made by    *)
(* outputError has an empty message.                                       *)
ItemKind(r) == IF Kind[r] \in MessageKinds THEN Kind[r] ELSE ""

AwaitTakesKeepingFlag ==
  /\ test = "awaiting"
  /\ outputCh # <<>>
  /\ outputCh' = Tail(outputCh)
  /\ taken' = Append(taken, Head(outputCh))
  /\ IF ignoreNextError /\ ItemKind(Head(outputCh)) = "error"
     THEN ignored' = ignored \cup {Len(taken) + 1} /\ ignoreNextError' = FALSE
          /\ test' = "awaiting"
     ELSE ignored' = ignored /\ test' = "running" /\ UNCHANGED ignoreNextError
  /\ UNCHANGED <<queueVars, handler, endpoint, consumer, held, marked>>

(* AwaitMessage takes an item.  The flag is cleared whatever the item is;  *)
(* an error that is to be ignored makes it wait for another one.           *)
AwaitTakes ==
  /\ test = "awaiting"
  /\ outputCh # <<>>
  /\ outputCh' = Tail(outputCh)
  /\ taken' = Append(taken, Head(outputCh))
  /\ ignoreNextError' = FALSE
  /\ IF ignoreNextError /\ ItemKind(Head(outputCh)) = "error"
     THEN ignored' = ignored \cup {Len(taken) + 1} /\ test' = "awaiting"
     ELSE ignored' = ignored /\ test' = "running"
  /\ UNCHANGED <<queueVars, handler, endpoint, consumer, held, marked>>

(* AwaitMessage times out, maybe with an item there: RequireMessage ends   *)
(* the test.                                                               *)
AwaitTimesOut ==
  /\ test = "awaiting"
  /\ test' = "closing"
  /\ UNCHANGED <<queueVars, handler, endpoint, consumer, held, outputCh, awaitVars>>

(* The test ends, or fails on what it has received.                        *)
EndTest ==
  /\ test = "running"
  /\ test' = "closing"
  /\ UNCHANGED <<queueVars, handler, endpoint, consumer, held, outputCh, awaitVars>>

(* The deferred calls, last one first: the service is told to dispose of   *)
(* its client, which is not waited for and may fail, then the endpoint and *)
(* the queue are closed.                                                   *)
CloseEndpoint ==
  /\ test = "closing"
  /\ endpoint' = "closed"
  /\ test' = "endpointClosed"
  /\ UNCHANGED <<queueVars, handler, consumer, held, outputCh, awaitVars>>

CloseQueueForgotten ==
  /\ test = "endpointClosed"
  /\ test' = "ended"
  /\ UNCHANGED <<queueVars, handler, endpoint, consumer, held, outputCh, awaitVars>>
CloseQueue ==
  /\ \/ test = "endpointClosed" /\ Queue!CloseChannel /\ test' = "channelClosed"
     \/ test = "channelClosed" /\ Queue!ClearField /\ test' = "ended"
  /\ UNCHANGED <<handler, endpoint, consumer, held, outputCh, awaitVars>>
-----------------------------------------------------------------------------
HandlerStep(r) == HandleCallback(r) \/ HandleBadPath(r)
ConsumerStep == BeginRange \/ Consume \/ Output \/ EndRange
TeardownStep == CloseEndpoint \/ CloseQueue

Next ==
  \/ \E r \in Requests : Post(r) \/ HandlerStep(r)
  \/ ConsumerStep
  \/ Created \/ CreationFails
  \/ IgnoreErrorHere \/ RequireMessage \/ AwaitTakes \/ AwaitTimesOut
  \/ EndTest \/ TeardownStep

Spec == Init /\ [][Next]_vars

(* The Go scheduler runs the goroutines that can run, and the deferred     *)
(* calls are made when a test ends.  Nothing is assumed of the service     *)
(* (it may never answer, nor post a callback) nor of the body of the test  *)
(* (it may never ask for a message).                                       *)
Fairness ==
  /\ \A r \in Requests : WF_vars(HandlerStep(r))
  /\ WF_vars(ConsumerStep)
  /\ WF_vars(TeardownStep)

FairSpec == Spec /\ Fairness
-----------------------------------------------------------------------------
(***************************************************************************)
(* Properties.                                                             *)
(***************************************************************************)

(* What came out of the queue, as far as the test: taken by it, in         *)
(* outputCh, or in the hand of the consumer.  The errors for bad URLs are  *)
(* put out by the handlers, at any place among them.                       *)
Held == IF held = NoRequest THEN <<>> ELSE <<held>>
Seen == taken \o outputCh \o Held
HasNumber(r) == Kind[r] # "badPath"

(* The numbers of the messages among the first n items of a sequence.      *)
NumbersIn(s, n) == {Counter[s[i]] : i \in {j \in 1 .. n : HasNumber(s[j])}}

(* End to end: the test gets the messages of well-numbered callbacks in    *)
(* the order of their numbers without a gap (those before number n are     *)
(* 1 to n - 1, each once), whatever the errors that overtake them, and     *)
(* whatever the order in which the requests arrived.                       *)
SeenInOrder ==
  Queue!UniqueCounters =>
    \A i \in 1 .. Len(Seen) :
      HasNumber(Seen[i]) => NumbersIn(Seen, i - 1) = 1 .. Counter[Seen[i]] - 1

(* A callback that was answered, with success or not, is in one place,     *)
(* once, between its handler and the test: none is dropped because a       *)
(* channel is full, somebody waits, or errors overtake.  Only closing the  *)
(* queue drops one, and one at most: a deferred message that was answered  *)
(* long ago, in the hand of a handler whose send the end of the test has   *)
(* interrupted.  What is deferred then stays so.                           *)
Answered(r) == handler[r] = "rejected" \/ phase[r] = "returned"
Places == Seen \o C \o Queue!Outgoing \o deferred
Dropped == {r \in Requests : Answered(r)} \ ToSet(Places)
OnlyCloseDrops ==
  /\ IsInjective(Places)
  /\ Dropped # {} => test \in {"channelClosed", "ended"}
  /\ \A q, r \in Dropped : q = r

(* What IgnoreErrorHere says: of the items that the test takes, exactly    *)
(* those are ignored that are errors and came next after a call of it.  A  *)
(* later error is never ignored because an earlier item was not one.       *)
IgnoresNextErrorOnly ==
  ignored = {i \in marked : i <= Len(taken) /\ ItemKind(taken[i]) = "error"}

(* A callback comes to the test once all callbacks up to its number have   *)
(* been posted, unless the test ends or does not take what there is.       *)
ReachesTest ==
  \A r \in Requests :
    (/\ consumer # "notStarted"
     /\ HasNumber(r)
     /\ \A q \in Requests : HasNumber(q) /\ Counter[q] <= Counter[r]
                              => handler[q] = "handling")
      ~> \/ r \in ToSet(taken \o outputCh)
         \/ Len(outputCh) = OutputSize
         \/ field # "open"

(* When the test has ended, the consumer ends too, unless it was started   *)
(* too late to find the channel, or has a message that nobody will take.   *)
ConsumerEnds ==
  test = "ended" ~> \/ consumer \in {"notStarted", "stuck", "done"}
                    \/ held # NoRequest /\ ~HasRoom

(* ReceivedMessage, line 37: `Kind is "event", "comment", or "error"', for *)
(* the messages that AwaitMessage returns with no error.                   *)
ReturnedKindsKnown ==
  \A i \in 1 .. Len(taken) : i \notin ignored => ItemKind(taken[i]) \in MessageKinds
=============================================================================
