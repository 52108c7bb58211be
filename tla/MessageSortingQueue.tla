------------------------ MODULE MessageSortingQueue ------------------------
(***************************************************************************)
(* framework/harness/message_sorting_queue.go.                             *)
(*                                                                         *)
(* The test service numbers its callbacks 1, 2, 3, ... and posts them to   *)
(* the test harness, whose HTTP server runs one goroutine per request, so  *)
(* the calls of Accept may start in any order.  The queue puts the         *)
(* messages back in order: a message whose predecessor has not been seen   *)
(* is kept in `deferred', any other one goes to the bounded channel C,     *)
(* followed by the deferred ones that it unblocks.                         *)
(*                                                                         *)
(* A call of Accept holds q.lock from its first to its last line, also     *)
(* while it is blocked in a send on C, so a call is modelled by its        *)
(* blocking points: taking the lock, and each send.  Close does NOT take   *)
(* the lock: it closes the channel and then sets the field q.C to nil, two *)
(* steps that any step of Accept may precede, separate or follow.          *)
(*                                                                         *)
(* A definition whose name extends that of the definition it stands before *)
(* (HasGapOffByOne, HasGap) is a faulty variant of it that no action uses: *)
(* the properties are tested by putting it in the other's place.           *)
(***************************************************************************)
EXTENDS Integers, Sequences, SequencesExt

CONSTANTS
  Requests,     (* the callback requests; each one is also its message     *)
  Counter,      (* the counter each request was posted with                *)
  ChannelSize,  (* the capacity of C (100 for an SSE client)               *)
  NoRequest     (* stands for the absence of a request                     *)

ASSUME CounterAssumption == Counter \in [Requests -> Int]
ASSUME ChannelSizeAssumption == ChannelSize \in Nat \ {0}
ASSUME NoRequestAssumption == NoRequest \notin Requests

VARIABLES
  C,            (* what the channel made by NewMessageSortingQueue holds   *)
  field,        (* the state of the field q.C: an open channel, a closed   *)
                (* one, or nil                                             *)
  lastCounter,  (* q.lastCounter                                           *)
  deferred,     (* q.deferred                                              *)
  lock,         (* the request whose goroutine holds q.lock                *)
  outgoing,     (* the message the holder of the lock is about to send, a  *)
                (* local variable of Accept                                *)
  phase,        (* where each request's call of Accept is                  *)
  received      (* everything the reader took from the channel, in order   *)

vars == <<C, field, lastCounter, deferred, lock, outgoing, phase, received>>

Phases == {"notCalled", "locking", "sending", "returned", "panicked", "hung"}

TypeOK ==
  /\ C \in Seq(Requests)
  /\ Len(C) <= ChannelSize
  /\ field \in {"open", "closed", "nil"}
  /\ lastCounter \in Int
  /\ deferred \in Seq(Requests)
  /\ lock \in Requests \cup {NoRequest}
  /\ outgoing \in Requests \cup {NoRequest}
  /\ phase \in [Requests -> Phases]
  /\ received \in Seq(Requests)

Init ==
  /\ C = <<>>
  /\ field = "open"
  /\ lastCounter = 0
  /\ deferred = <<>>
  /\ lock = NoRequest
  /\ outgoing = NoRequest
  /\ phase = [r \in Requests |-> "notCalled"]
  /\ received = <<>>
-----------------------------------------------------------------------------
(***************************************************************************)
(* Accept(Counter[r], r), one action per stretch between blocking points.  *)
(***************************************************************************)

(* The request reaches Accept, which waits for q.lock.                     *)
Accept(r) ==
  /\ phase[r] = "notCalled"
  /\ phase' = [phase EXCEPT ![r] = "locking"]
  /\ UNCHANGED <<C, field, lastCounter, deferred, lock, outgoing, received>>

SortedByCounter(s) ==
  \A i, j \in 1 .. Len(s) : i < j => Counter[s[i]] <= Counter[s[j]]

(* Some message that comes before this one has not been seen.              *)
HasGapOffByOne(r) == Counter[r] > lastCounter + 2
HasGap(r) == Counter[r] > lastCounter + 1

DeferMessageUnsorted(r) ==
  /\ phase[r] = "locking"
  /\ lock = NoRequest
  /\ HasGap(r)
  /\ deferred' = Append(deferred, r)
  /\ phase' = [phase EXCEPT ![r] = "returned"]
  /\ UNCHANGED <<C, field, lastCounter, lock, outgoing, received>>

(* A message with a gap before it: append, sort, unlock, return.  The list *)
(* was sorted, so sorting it again puts the new message somewhere among    *)
(* the old ones; sort.Slice does not promise where among equal counters.   *)
DeferMessage(r) ==
  /\ phase[r] = "locking"
  /\ lock = NoRequest
  /\ HasGap(r)
  /\ \E i \in 1 .. Len(deferred) + 1 :
       /\ deferred' = InsertAt(deferred, i, r)
       /\ SortedByCounter(deferred')
  /\ phase' = [phase EXCEPT ![r] = "returned"]
  /\ UNCHANGED <<C, field, lastCounter, lock, outgoing, received>>

(* Any other message, up to the first send: the one that comes next, but   *)
(* also one whose counter was already passed, which moves lastCounter back.*)
TakeMessage(r) ==
  /\ phase[r] = "locking"
  /\ lock = NoRequest
  /\ ~HasGap(r)
  /\ lock' = r
  /\ lastCounter' = Counter[r]
  /\ outgoing' = r
  /\ phase' = [phase EXCEPT ![r] = "sending"]
  /\ UNCHANGED <<C, field, deferred, received>>

(* The send on C is possible: the field is an open channel with room.      *)
CanSend == field = "open" /\ Len(C) < ChannelSize

(* The test of the loop: the first deferred message comes next.            *)
HeadComesNextNever == FALSE
HeadComesNext == deferred # <<>> /\ Counter[Head(deferred)] = lastCounter + 1

(* A send after which the loop takes the first deferred message.           *)
SendAndContinue(r) ==
  /\ phase[r] = "sending"
  /\ CanSend
  /\ C' = Append(C, outgoing)
  /\ HeadComesNext
  /\ outgoing' = Head(deferred)
  /\ deferred' = Tail(deferred)
  /\ lastCounter' = lastCounter + 1
  /\ UNCHANGED <<field, lock, phase, received>>

SendAndReturnLocked(r) ==
  /\ phase[r] = "sending"
  /\ CanSend
  /\ C' = Append(C, outgoing)
  /\ ~HeadComesNext
  /\ outgoing' = NoRequest
  /\ phase' = [phase EXCEPT ![r] = "returned"]
  /\ UNCHANGED <<field, lastCounter, lock, deferred, received>>

(* A send after which the loop ends: unlock and return.                    *)
SendAndReturn(r) ==
  /\ phase[r] = "sending"
  /\ CanSend
  /\ C' = Append(C, outgoing)
  /\ ~HeadComesNext
  /\ outgoing' = NoRequest
  /\ lock' = NoRequest
  /\ phase' = [phase EXCEPT ![r] = "returned"]
  /\ UNCHANGED <<field, lastCounter, deferred, received>>

SendPanicsUnlocking(r) ==
  /\ phase[r] = "sending"
  /\ field \in {"closed", "nil"}
  /\ outgoing' = NoRequest
  /\ lock' = NoRequest
  /\ phase' = [phase EXCEPT ![r] = "panicked"]
  /\ UNCHANGED <<C, field, lastCounter, deferred, received>>

(* A send on a closed channel panics, and the message is gone: only a      *)
(* local variable has it, also if it was deferred by an earlier request,   *)
(* which was answered.  The read of q.C races with its assignment in       *)
(* Close, so a goroutine may find the closed channel even when the field   *)
(* is nil already.  The HTTP server recovers the panic of a handler;       *)
(* nothing unlocks q.lock.                                                 *)
SendPanics(r) ==
  /\ phase[r] = "sending"
  /\ field \in {"closed", "nil"}
  /\ outgoing' = NoRequest
  /\ phase' = [phase EXCEPT ![r] = "panicked"]
  /\ UNCHANGED <<C, field, lastCounter, deferred, lock, received>>

(* A send on a nil channel blocks for ever, with q.lock held: the goroutine*)
(* keeps its message, but is not about to send it any more.                *)
SendHangs(r) ==
  /\ phase[r] = "sending"
  /\ field = "nil"
  /\ outgoing' = NoRequest
  /\ phase' = [phase EXCEPT ![r] = "hung"]
  /\ UNCHANGED <<C, field, lastCounter, deferred, lock, received>>
-----------------------------------------------------------------------------
(***************************************************************************)
(* Close, called once (closeOnce) and without the lock, and the reader.    *)
(***************************************************************************)

CloseChannel ==
  /\ field = "open"
  /\ field' = "closed"
  /\ UNCHANGED <<C, lastCounter, deferred, lock, outgoing, phase, received>>

ClearField ==
  /\ field = "closed"
  /\ field' = "nil"
  /\ UNCHANGED <<C, lastCounter, deferred, lock, outgoing, phase, received>>

(* The reader, which holds the channel itself, takes one message.  What a  *)
(* closed channel still holds can be received.                             *)
Receive ==
  /\ C # <<>>
  /\ received' = Append(received, Head(C))
  /\ C' = Tail(C)
  /\ UNCHANGED <<field, lastCounter, deferred, lock, outgoing, phase>>
-----------------------------------------------------------------------------
(* The steps of a call of Accept once the call was made.                   *)
AcceptStep(r) ==
  \/ DeferMessage(r)
  \/ TakeMessage(r)
  \/ SendAndContinue(r)
  \/ SendAndReturn(r)
  \/ SendPanics(r)
  \/ SendHangs(r)

Next ==
  \/ \E r \in Requests : Accept(r) \/ AcceptStep(r)
  \/ CloseChannel
  \/ ClearField
  \/ Receive

Spec == Init /\ [][Next]_vars

(* The Go scheduler runs every goroutine that can run, a Go mutex is not   *)
(* taken for ever by others (each call takes it once), and the reader      *)
(* keeps reading.  Nothing says that a callback is ever posted, nor that   *)
(* Close is called.                                                        *)
Fairness ==
  /\ \A r \in Requests : WF_vars(AcceptStep(r))
  /\ WF_vars(Receive)

FairSpec == Spec /\ Fairness
-----------------------------------------------------------------------------
(***************************************************************************)
(* Properties.                                                             *)
(***************************************************************************)

(* What docs/service_spec.md asks of a test service: it counts its         *)
(* callbacks from 1 and posts each once.                                   *)
UniqueCounters ==
  \A q, r \in Requests : Counter[r] > 0 /\ (Counter[q] = Counter[r] => q = r)

(* Everything that was sent on the channel, oldest first, with the message *)
(* that the holder of the lock is about to send.                           *)
Outgoing == IF outgoing = NoRequest THEN <<>> ELSE <<outgoing>>
Sent == received \o C \o Outgoing

(* Accept never runs ahead of a gap, whatever counters arrive in whatever  *)
(* order, duplicates and stale ones included: a message that is sent has a *)
(* counter at most one above the one sent before it, and the first has at  *)
(* most 1.  With well-numbered callbacks this follows from                 *)
(* DeliveredInOrder; it is proved for all others, too.                     *)
NeverSkips ==
  \A i \in 1 .. Len(Sent) :
    Counter[Sent[i]] <= 1 + (IF i = 1 THEN 0 ELSE Counter[Sent[i-1]])

(* The purpose of the queue: if the service numbers its callbacks as it    *)
(* should, the i-th message to be sent is the one numbered i, however the  *)
(* calls of Accept interleave.                                             *)
DeliveredInOrder ==
  UniqueCounters => \A i \in 1 .. Len(Sent) : Counter[Sent[i]] = i

(* Where a message can be that Accept has got hold of: sent, about to be   *)
(* sent by the holder of the lock, or deferred.                            *)
Places == Sent \o deferred
Accepted == {r \in Requests : phase[r] \notin {"notCalled", "locking"}}
Lost == Accepted \ ToSet(Places)

(* A call of Accept that Close has interrupted in a send.                  *)
Interrupted == \E r \in Requests : phase[r] \in {"panicked", "hung"}

(* Conservation: no message is in two places, and while the queue is open  *)
(* each one that Accept has got hold of is in one.  Close costs at most    *)
(* one message, though calls of Accept go on: that in the hand of the call *)
(* it interrupts, which may be one that was deferred and answered before.  *)
(* No later call loses another one, since the lock is never released.      *)
OnlyCloseLoses ==
  /\ IsInjective(Places)
  /\ ToSet(Places) \subseteq Accepted
  /\ Lost # {} => field # "open" /\ Interrupted
  /\ \A q, r \in Lost : q = r

(* Accept does not return with work left to do: while nobody holds the     *)
(* lock, no deferred message could be sent (of well-numbered callbacks).   *)
NoReadyMessageDeferred ==
  UniqueCounters /\ lock = NoRequest =>
    \A i \in 1 .. Len(deferred) : Counter[deferred[i]] > lastCounter + 1

Arrived(r) == phase[r] # "notCalled"

(* While the queue is open, no request waits for ever for its answer: not  *)
(* for the lock, nor for room in the channel, though Accept keeps the lock *)
(* when the channel is full.                                               *)
AcceptReturns ==
  \A r \in Requests :
    phase[r] = "locking" ~> (phase[r] = "returned" \/ field # "open")

(* The queue implements OrderedDelivery: a message is submitted when its   *)
(* request calls Accept, and delivered when the reader takes it.           *)
Promise == INSTANCE OrderedDelivery WITH
  submitted <- {r \in Requests : Arrived(r)},
  delivered <- received,
  closed <- field # "open"

(* Every step of the queue with well-numbered callbacks is a step of the   *)
(* promise or leaves it alone, and the queue delivers when it has to.      *)
KeepsPromise == Promise!FairSpec
=============================================================================
