-------------------------- MODULE SSEClient_proofs --------------------------
(***************************************************************************)
(* Proofs about SSEClient, for all callbacks, whatever they carry, and all *)
(* capacities of the two channels.  What they need of the queue is what    *)
(* MessageSortingQueue_proofs shows of it; the first lemmas relate its     *)
(* definitions to those that SSEClient uses.                               *)
(***************************************************************************)
EXTENDS SSEClient, SequenceTheorems, TLAPS

(***************************************************************************)
(* Facts about sequences.                                                  *)
(***************************************************************************)

(* One more at the end of a sequence that did not have it.                 *)
LEMMA AppendNew ==
  ASSUME NEW S, NEW s \in Seq(S), NEW e \in S, IsInjective(s), e \notin ToSet(s)
  PROVE  /\ IsInjective(Append(s, e))
         /\ ToSet(Append(s, e)) = ToSet(s) \cup {e}
<1>1. /\ Append(s, e) \in Seq(S)
      /\ Len(s) \in Nat /\ DOMAIN s = 1 .. Len(s)
      /\ Len(Append(s, e)) = Len(s) + 1 /\ DOMAIN Append(s, e) = 1 .. Len(s) + 1
      /\ \A i \in 1 .. Len(s) : Append(s, e)[i] = s[i]
      /\ Append(s, e)[Len(s) + 1] = e
  BY AppendProperties, LenProperties
<1>2. \A i \in 1 .. Len(s) : s[i] # e
  BY <1>1 DEF ToSet
<1>3. IsInjective(Append(s, e))
  BY <1>1, <1>2 DEF IsInjective
<1>4. ASSUME NEW x PROVE x \in ToSet(Append(s, e)) <=> x \in ToSet(s) \cup {e}
  <2>1. x \in ToSet(Append(s, e)) <=> \E i \in 1 .. Len(s) + 1 : Append(s, e)[i] = x
    BY <1>1 DEF ToSet
  <2>2. x \in ToSet(s) <=> \E i \in 1 .. Len(s) : s[i] = x
    BY <1>1 DEF ToSet
  <2> QED
    BY <1>1, <2>1, <2>2
<1> QED
  BY <1>3, <1>4

(* An item that is appended to the second of two sequences is appended to  *)
(* both.                                                                   *)
LEMMA AppendToSecond ==
  ASSUME NEW S, NEW s \in Seq(S), NEW t \in Seq(S), NEW e \in S
  PROVE  /\ s \o t \in Seq(S)
         /\ s \o Append(t, e) = Append(s \o t, e)
<1>1. <<e>> \in Seq(S) /\ s \o t \in Seq(S)
  BY ConcatProperties
<1> QED
  BY <1>1, AppendIsConcat, ConcatAssociative

(* The first part of a sequence is where it was, and the second part       *)
(* begins after it.                                                        *)
LEMMA FirstPart ==
  ASSUME NEW S, NEW s \in Seq(S), NEW t \in Seq(S)
  PROVE  /\ s \o t \in Seq(S)
         /\ DOMAIN (s \o t) = 1 .. Len(s \o t)
         /\ \A i \in 1 .. Len(s) : i \in 1 .. Len(s \o t) /\ (s \o t)[i] = s[i]
<1>1. /\ s \o t \in Seq(S) /\ Len(s \o t) = Len(s) + Len(t)
      /\ Len(s) \in Nat /\ Len(t) \in Nat /\ DOMAIN (s \o t) = 1 .. Len(s \o t)
  BY ConcatProperties, LenProperties
<1>2. \A i \in 1 .. Len(s) : i \in 1 .. Len(s) + Len(t) /\ i <= Len(s)
  BY <1>1
<1> QED
  BY <1>1, <1>2, ConcatProperties

LEMMA SecondPart ==
  ASSUME NEW S, NEW s \in Seq(S), NEW t \in Seq(S), t # <<>>
  PROVE  Len(s) + 1 \in 1 .. Len(s \o t) /\ (s \o t)[Len(s) + 1] = Head(t)
<1>1. /\ Len(s \o t) = Len(s) + Len(t)
      /\ Len(s) \in Nat /\ Len(t) \in Nat \ {0} /\ Head(t) = t[1]
  BY ConcatProperties, LenProperties, EmptySeq, HeadTailProperties
<1>2. Len(s) + 1 \in 1 .. Len(s) + Len(t) /\ ~(Len(s) + 1 <= Len(s)) /\ (Len(s) + 1) - Len(s) = 1
  BY <1>1
<1> QED
  BY <1>1, <1>2, ConcatProperties

(* A part of a sequence without repetitions has none.                      *)
LEMMA InjectivePart ==
  ASSUME NEW S, NEW s \in Seq(S), NEW t \in Seq(S), IsInjective(s \o t)
  PROVE  IsInjective(s)
<1>1. /\ DOMAIN (s \o t) = 1 .. Len(s \o t) /\ DOMAIN s = 1 .. Len(s)
      /\ \A i \in 1 .. Len(s) : i \in 1 .. Len(s \o t) /\ (s \o t)[i] = s[i]
  BY FirstPart, LenProperties
<1> QED
  BY <1>1 DEF IsInjective

LEMMA InjectiveParts ==
  ASSUME NEW S, NEW s \in Seq(S), NEW t \in Seq(S), NEW u \in Seq(S), NEW v \in Seq(S),
         IsInjective(s \o t \o u \o v)
  PROVE  IsInjective(s)
<1>1. s \o t \in Seq(S) /\ s \o t \o u \in Seq(S)
  BY ConcatProperties
<1>2. IsInjective(s \o t \o u)
  BY <1>1, InjectivePart
<1>3. IsInjective(s \o t)
  BY <1>1, <1>2, InjectivePart
<1> QED
  BY <1>3, InjectivePart

(* Concatenations and what they hold.                                      *)
LEMMA ConcatElements ==
  ASSUME NEW S, NEW s \in Seq(S), NEW t \in Seq(S)
  PROVE  ToSet(s \o t) = ToSet(s) \cup ToSet(t)
<1>1. /\ Len(s \o t) = Len(s) + Len(t) /\ Len(s) \in Nat /\ Len(t) \in Nat
      /\ DOMAIN (s \o t) = 1 .. Len(s) + Len(t)
      /\ DOMAIN s = 1 .. Len(s) /\ DOMAIN t = 1 .. Len(t)
      /\ \A i \in 1 .. Len(s) + Len(t) :
           (s \o t)[i] = IF i <= Len(s) THEN s[i] ELSE t[i - Len(s)]
  BY ConcatProperties, LenProperties
<1>2. ASSUME NEW i \in 1 .. Len(s) PROVE i \in DOMAIN (s \o t) /\ (s \o t)[i] = s[i]
  BY <1>1
<1>3. ASSUME NEW i \in 1 .. Len(t)
      PROVE  Len(s) + i \in DOMAIN (s \o t) /\ (s \o t)[Len(s) + i] = t[i]
  <2>1. /\ Len(s) + i \in 1 .. Len(s) + Len(t)
        /\ ~(Len(s) + i <= Len(s)) /\ (Len(s) + i) - Len(s) = i
    BY <1>1
  <2> QED
    BY <1>1, <2>1
<1>4. ASSUME NEW i \in 1 .. Len(s) + Len(t)
      PROVE  \/ i \in 1 .. Len(s) /\ (s \o t)[i] = s[i]
             \/ i - Len(s) \in 1 .. Len(t) /\ (s \o t)[i] = t[i - Len(s)]
  <2>1. (i <= Len(s) /\ i \in 1 .. Len(s)) \/ (~(i <= Len(s)) /\ i - Len(s) \in 1 .. Len(t))
    BY <1>1
  <2> QED
    BY <1>1, <2>1
<1> QED
  BY <1>1, <1>2, <1>3, <1>4 DEF ToSet

(* Two sequences that share nothing.                                       *)
LEMMA InjectiveConcat ==
  ASSUME NEW S, NEW s \in Seq(S), NEW t \in Seq(S),
         IsInjective(s), IsInjective(t), \A x \in ToSet(s) : x \notin ToSet(t)
  PROVE  IsInjective(s \o t)
<1>1. /\ Len(s) \in Nat /\ Len(t) \in Nat
      /\ DOMAIN (s \o t) = 1 .. Len(s) + Len(t)
      /\ DOMAIN s = 1 .. Len(s) /\ DOMAIN t = 1 .. Len(t)
      /\ \A i \in 1 .. Len(s) + Len(t) :
           (s \o t)[i] = IF i <= Len(s) THEN s[i] ELSE t[i - Len(s)]
  BY ConcatProperties, LenProperties
<1>2. ASSUME NEW i \in 1 .. Len(s), NEW j \in 1 .. Len(t) PROVE s[i] # t[j]
  BY <1>1 DEF ToSet
<1>3. ASSUME NEW i \in 1 .. Len(s) + Len(t)
      PROVE  \/ i \in 1 .. Len(s) /\ (s \o t)[i] = s[i]
             \/ i - Len(s) \in 1 .. Len(t) /\ (s \o t)[i] = t[i - Len(s)]
  <2>1. (i <= Len(s) /\ i \in 1 .. Len(s)) \/ (~(i <= Len(s)) /\ i - Len(s) \in 1 .. Len(t))
    BY <1>1
  <2> QED
    BY <1>1, <2>1
<1>4. ASSUME NEW i \in 1 .. Len(s) + Len(t), NEW j \in 1 .. Len(s) + Len(t),
             (s \o t)[i] = (s \o t)[j]
      PROVE  i = j
  <2>1. \/ i \in 1 .. Len(s) /\ j \in 1 .. Len(s) /\ s[i] = s[j]
        \/ /\ i - Len(s) \in 1 .. Len(t) /\ j - Len(s) \in 1 .. Len(t)
           /\ t[i - Len(s)] = t[j - Len(s)]
    BY <1>2, <1>3, <1>4
  <2>2. i = j \/ i - Len(s) = j - Len(s)
    BY <1>1, <2>1 DEF IsInjective
  <2> QED
    BY <1>1, <2>2
<1> QED
  BY <1>1, <1>4 DEF IsInjective

(* The second of two sequences that together have no repetitions.          *)
LEMMA InjectiveSecond ==
  ASSUME NEW S, NEW s \in Seq(S), NEW t \in Seq(S), IsInjective(s \o t)
  PROVE  IsInjective(t) /\ \A x \in ToSet(t) : x \notin ToSet(s)
<1>1. /\ Len(s) \in Nat /\ Len(t) \in Nat
      /\ DOMAIN (s \o t) = 1 .. Len(s) + Len(t)
      /\ DOMAIN s = 1 .. Len(s) /\ DOMAIN t = 1 .. Len(t)
      /\ \A i \in 1 .. Len(s) + Len(t) :
           (s \o t)[i] = IF i <= Len(s) THEN s[i] ELSE t[i - Len(s)]
  BY ConcatProperties, LenProperties
<1>2. ASSUME NEW i \in 1 .. Len(t)
      PROVE  Len(s) + i \in DOMAIN (s \o t) /\ (s \o t)[Len(s) + i] = t[i]
  <2>1. /\ Len(s) + i \in 1 .. Len(s) + Len(t)
        /\ ~(Len(s) + i <= Len(s)) /\ (Len(s) + i) - Len(s) = i
    BY <1>1
  <2> QED
    BY <1>1, <2>1
<1>3. ASSUME NEW i \in 1 .. Len(t), NEW j \in 1 .. Len(t), t[i] = t[j] PROVE i = j
  <2>1. Len(s) + i = Len(s) + j
    BY <1>2, <1>3 DEF IsInjective
  <2> QED
    BY <1>1, <2>1
<1>4. ASSUME NEW i \in 1 .. Len(s), NEW j \in 1 .. Len(t) PROVE s[i] # t[j]
  <2>1. i \in DOMAIN (s \o t) /\ (s \o t)[i] = s[i] /\ i # Len(s) + j
    BY <1>1
  <2> QED
    BY <1>2, <2>1 DEF IsInjective
<1> QED
  BY <1>1, <1>3, <1>4 DEF IsInjective, ToSet

(* The first part of a sequence without repetitions may be replaced by     *)
(* another one that has no element of the rest.                            *)
LEMMA ReplaceFirst ==
  ASSUME NEW S, NEW a \in Seq(S), NEW b \in Seq(S), NEW w \in Seq(S),
         IsInjective(a \o w), IsInjective(b),
         \A x \in ToSet(b) : x \in ToSet(a) \/ x \notin ToSet(a \o w)
  PROVE  /\ IsInjective(b \o w)
         /\ ToSet(b \o w) = ToSet(b) \cup (ToSet(a \o w) \ ToSet(a))
<1>1. /\ ToSet(a \o w) = ToSet(a) \cup ToSet(w)
      /\ ToSet(b \o w) = ToSet(b) \cup ToSet(w)
  BY ConcatElements
<1>2. IsInjective(w) /\ \A x \in ToSet(w) : x \notin ToSet(a)
  BY InjectiveSecond
<1>3. \A x \in ToSet(b) : x \notin ToSet(w)
  BY <1>1, <1>2
<1>4. IsInjective(b \o w)
  BY <1>2, <1>3, InjectiveConcat
<1> QED
  BY <1>1, <1>2, <1>4
-----------------------------------------------------------------------------
Proved == INSTANCE MessageSortingQueue_proofs

(* A step of the queue, or one that leaves it alone.                       *)
LEMMA QueueInit == Queue!Init => Proved!IInv
<1>1. Queue!Init => Proved!Init
  BY DEF Queue!Init, Proved!Init
<1> QED
  BY <1>1, QueueAssumption, Proved!IInvInit

LEMMA QueueStep == Proved!IInv /\ [Proved!Next]_queueVars => Proved!IInv'
<1>1. queueVars = Proved!vars
  BY DEF queueVars, Proved!vars
<1> QED
  BY <1>1, QueueAssumption, Proved!IInvStep DEF queueVars, Proved!vars

LEMMA Calls == ASSUME NEW r \in Requests, Queue!Accept(r) PROVE Proved!Next
BY DEF Queue!Accept, Proved!Accept, Proved!Next

LEMMA Closes == Queue!CloseChannel \/ Queue!ClearField \/ Queue!Receive => Proved!Next
BY DEF Queue!CloseChannel, Queue!ClearField, Queue!Receive,
       Proved!CloseChannel, Proved!ClearField, Proved!Receive, Proved!Next

LEMMA Accepts == ASSUME NEW r \in Requests, Queue!AcceptStep(r) PROVE Proved!AcceptStep(r)
<1> USE DEF Queue!HasGap, Proved!HasGap, Queue!CanSend, Proved!CanSend,
            Queue!HeadComesNext, Proved!HeadComesNext
<1>1. Queue!DeferMessage(r) => Proved!DeferMessage(r)
  BY DEF Queue!DeferMessage, Proved!DeferMessage, Queue!SortedByCounter, Proved!SortedByCounter,
         Queue!InsertAt, Proved!InsertAt
<1>2. Queue!TakeMessage(r) => Proved!TakeMessage(r)
  BY DEF Queue!TakeMessage, Proved!TakeMessage
<1>3. Queue!SendAndContinue(r) => Proved!SendAndContinue(r)
  BY DEF Queue!SendAndContinue, Proved!SendAndContinue
<1>4. Queue!SendAndReturn(r) => Proved!SendAndReturn(r)
  BY DEF Queue!SendAndReturn, Proved!SendAndReturn
<1>5. Queue!SendPanics(r) => Proved!SendPanics(r)
  BY DEF Queue!SendPanics, Proved!SendPanics
<1>6. Queue!SendHangs(r) => Proved!SendHangs(r)
  BY DEF Queue!SendHangs, Proved!SendHangs
<1> QED
  BY <1>1, <1>2, <1>3, <1>4, <1>5, <1>6 DEF Queue!AcceptStep, Proved!AcceptStep

(* So every step is one of the queue or leaves it alone, and what was      *)
(* proved of the queue by itself holds of it here.                         *)
LEMMA StepsOfQueue == [Next]_vars => [Proved!Next]_queueVars
<1> SUFFICES ASSUME [Next]_vars PROVE Proved!Next \/ UNCHANGED queueVars
  OBVIOUS
<1>1. ASSUME NEW r \in Requests, HandleCallback(r) PROVE Proved!Next
  BY <1>1, Calls, Accepts DEF HandleCallback, Proved!Next
<1>2. CASE Consume
  BY <1>2, Closes DEF Consume
<1>3. CASE CloseQueue
  BY <1>3, Closes DEF CloseQueue
<1>4. ASSUME NEW r \in Requests, Post(r) \/ HandleBadPath(r) PROVE UNCHANGED queueVars
  BY <1>4 DEF Post, HandleBadPath
<1>5. CASE BeginRange \/ Output \/ EndRange \/ Created \/ CreationFails
  BY <1>5 DEF BeginRange, Output, EndRange, Created, CreationFails
<1>6. CASE IgnoreErrorHere \/ RequireMessage \/ AwaitTakes \/ AwaitTimesOut \/ EndTest
  BY <1>6 DEF IgnoreErrorHere, RequireMessage, AwaitTakes, AwaitTimesOut, EndTest
<1>7. CASE CloseEndpoint
  BY <1>7 DEF CloseEndpoint
<1>8. CASE UNCHANGED vars
  BY <1>8 DEF vars
<1> QED
  BY <1>1, <1>2, <1>3, <1>4, <1>5, <1>6, <1>7, <1>8
  DEF Next, HandlerStep, ConsumerStep, TeardownStep

(* A call of Accept changes the phase of its own request only, and takes   *)
(* nothing from the channel.                                               *)
LEMMA CallStep ==
  ASSUME Proved!IInv, NEW r \in Requests, Queue!Accept(r) \/ Queue!AcceptStep(r)
  PROVE  /\ received' = received /\ field' = field
         /\ \A q \in Requests : q # r => phase'[q] = phase[q]
<1>1. phase \in [Requests -> Proved!Phases]
  BY DEF Proved!IInv, Proved!TypeInv, Proved!TypeOK
<1> QED
  BY <1>1 DEF Queue!Accept, Queue!AcceptStep, Queue!DeferMessage, Queue!TakeMessage,
    Queue!SendAndContinue, Queue!SendAndReturn, Queue!SendPanics, Queue!SendHangs

-----------------------------------------------------------------------------
(* What the queue has given to the consumer it does not have any more, and *)
(* what it gives next is a message that it has not given, the one with the *)
(* next number if callbacks are well numbered.                             *)
LEMMA QueueFacts ==
  ASSUME Proved!IInv
  PROVE  /\ C \in Seq(Requests) /\ received \in Seq(Requests) /\ deferred \in Seq(Requests)
         /\ phase \in [Requests -> Proved!Phases]
         /\ Queue!Outgoing \in Seq(Requests)
         /\ IsInjective(received \o C \o Queue!Outgoing \o deferred)
         /\ ToSet(received \o C \o Queue!Outgoing \o deferred)
              \subseteq {r \in Requests : phase[r] \notin {"notCalled", "locking"}}
         /\ LET lost == {r \in Requests : phase[r] \notin {"notCalled", "locking"}}
                          \ ToSet(received \o C \o Queue!Outgoing \o deferred)
            IN  (\A q, r \in lost : q = r) /\ (lost # {} => field # "open")
         /\ \A r \in ToSet(received) : r \in Requests /\ phase[r] # "notCalled"
         /\ C # <<>> => /\ Head(C) \in Requests \ ToSet(received)
                        /\ phase[Head(C)] # "notCalled"
                        /\ Queue!UniqueCounters => Counter[Head(C)] = Len(received) + 1
<1> DEFINE out == Queue!Outgoing
           first == received \o C
           sent == first \o out
           places == sent \o deferred
           called == {r \in Requests : phase[r] \notin {"notCalled", "locking"}}
           lost == called \ ToSet(places)
<1>1. /\ C \in Seq(Requests) /\ received \in Seq(Requests) /\ deferred \in Seq(Requests)
      /\ phase \in [Requests -> Proved!Phases]
      /\ outgoing \in Requests \cup {NoRequest}
  BY DEF Proved!IInv, Proved!TypeInv, Proved!TypeOK
<1>2. out \in Seq(Requests)
  BY <1>1 DEF Queue!Outgoing
<1>3. sent = Proved!Sent /\ places = Proved!Places
  BY DEF Queue!Outgoing, Proved!Outgoing, Proved!Sent, Proved!Places
<1>4. /\ IsInjective(places) /\ ToSet(places) \subseteq called
      /\ (\A q, r \in lost : q = r) /\ (lost # {} => field # "open")
  <2>1. Proved!OnlyCloseLoses
    BY DEF Proved!IInv
  <2> HIDE DEF places
  <2>2. called = Proved!Accepted /\ ToSet(places) = Proved!ToSet(Proved!Places)
    BY <1>3 DEF Proved!Accepted, Proved!ToSet, ToSet
  <2>3. lost = Proved!Lost
    BY <2>2 DEF Proved!Lost
  <2>4. IsInjective(places)
    BY <1>3, <2>1 DEF Proved!OnlyCloseLoses, Proved!IsInjective, IsInjective
  <2> HIDE DEF lost, called
  <2> QED
    BY <2>1, <2>2, <2>3, <2>4 DEF Proved!OnlyCloseLoses
<1>5. Queue!UniqueCounters => \A i \in 1 .. Len(sent) : Counter[sent[i]] = i
  <2>1. Proved!DeliveredInOrder
    BY DEF Proved!IInv
  <2> HIDE DEF sent
  <2> QED
    BY <1>3, <2>1 DEF Proved!DeliveredInOrder, Proved!UniqueCounters, Queue!UniqueCounters
<1>6. first \in Seq(Requests) /\ \A i \in 1 .. Len(received) :
        i \in 1 .. Len(first) /\ first[i] = received[i]
  BY <1>1, FirstPart
<1>7. C # <<>> => Len(received) + 1 \in 1 .. Len(first) /\ first[Len(received) + 1] = Head(C)
  BY <1>1, SecondPart
<1> HIDE DEF first, out
<1>8. sent \in Seq(Requests) /\ \A i \in 1 .. Len(first) :
        i \in 1 .. Len(sent) /\ sent[i] = first[i]
  BY <1>2, <1>6, FirstPart
<1> HIDE DEF sent
<1>9. /\ DOMAIN places = 1 .. Len(places)
      /\ \A i \in 1 .. Len(sent) : i \in 1 .. Len(places) /\ places[i] = sent[i]
  BY <1>1, <1>8, FirstPart
<1> HIDE DEF places
<1>10. \A i \in 1 .. Len(received) : i \in DOMAIN places /\ places[i] = received[i]
  BY <1>6, <1>8, <1>9
<1>11. DOMAIN received = 1 .. Len(received) /\ Len(received) \in Nat
  BY <1>1, LenProperties
<1>12. ASSUME NEW r \in ToSet(received) PROVE r \in ToSet(places)
  BY <1>10, <1>11 DEF ToSet
<1>13. ASSUME C # <<>>
       PROVE  /\ Head(C) \in ToSet(places) \ ToSet(received)
              /\ Queue!UniqueCounters => Counter[Head(C)] = Len(received) + 1
  <2> DEFINE n == Len(received) + 1
  <2>1. n \in DOMAIN places /\ places[n] = Head(C) /\ n \in 1 .. Len(sent) /\ sent[n] = Head(C)
    BY <1>7, <1>8, <1>9, <1>13
  <2>2. ASSUME NEW i \in 1 .. Len(received) PROVE received[i] # Head(C)
    <3>1. i # n
      BY <1>11
    <3> HIDE DEF n
    <3> QED
      BY <1>4, <1>10, <2>1, <3>1 DEF IsInjective
  <2> QED
    BY <1>5, <1>11, <2>1, <2>2 DEF ToSet
<1> QED
  BY <1>1, <1>2, <1>4, <1>12, <1>13 DEF places, sent, first, out
-----------------------------------------------------------------------------
OwnTypes ==
  /\ handler \in [Requests -> {"none", "handling", "rejected"}]
  /\ endpoint \in {"open", "closed"}
  /\ consumer \in {"notStarted", "starting", "ranging", "stuck", "done"}
  /\ held \in Requests \cup {NoRequest}
  /\ outputCh \in Seq(Requests) /\ Len(outputCh) <= OutputSize
  /\ test \in {"creating", "running", "awaiting",
               "closing", "endpointClosed", "channelClosed", "ended"}
  /\ ignoreNextError \in BOOLEAN
  /\ taken \in Seq(Requests)
  /\ ignored \subseteq 1 .. Len(taken)
  /\ marked \subseteq 1 .. Len(taken) + 1

(* Items that the consumer is about to put out come from the queue.        *)
TypeInv == Proved!IInv /\ OwnTypes

(* The flag is set if and only if IgnoreErrorHere was called since the     *)
(* last item was taken.                                                    *)
FlagInv ==
  /\ ignoreNextError <=> Len(taken) + 1 \in marked
  /\ IgnoresNextErrorOnly

(* What was put into outputCh: what the consumer has of the queue, but for *)
(* the message in its hand, and the errors for bad URLs; each once.        *)
Out == taken \o outputCh
Rejected == {r \in Requests : handler[r] = "rejected"}
OutInv ==
  /\ \A r \in Requests : phase[r] # "notCalled" => HasNumber(r)
  /\ \A r \in Rejected : ~HasNumber(r)
  /\ IsInjective(Out)
  /\ ToSet(Out) = Rejected \cup (ToSet(received) \ {held})
  /\ held # NoRequest => held \in ToSet(received)

(* The numbers put out are those that the queue has given, but for the one *)
(* in the hand, which is the last one.                                     *)
OrderInv ==
  Queue!UniqueCounters =>
    /\ \A i \in 1 .. Len(Out) :
         HasNumber(Out[i]) => NumbersIn(Out, i - 1) = 1 .. Counter[Out[i]] - 1
    /\ IF held = NoRequest
         THEN NumbersIn(Out, Len(Out)) = 1 .. Len(received)
         ELSE /\ NumbersIn(Out, Len(Out)) = 1 .. Len(received) - 1
              /\ Counter[held] = Len(received) /\ Len(received) > 0
-----------------------------------------------------------------------------
LEMMA TypeInvInit == Init => TypeInv
<1> SUFFICES ASSUME Init PROVE TypeInv
  OBVIOUS
<1>1. Proved!IInv
  BY QueueInit DEF Init
<1>2. outputCh \in Seq(Requests) /\ taken \in Seq(Requests) /\ Len(outputCh) = 0
  BY EmptySeq DEF Init
<1>3. Len(outputCh) <= OutputSize
  BY <1>2, OutputSizeAssumption
<1>4. ignored \subseteq 1 .. Len(taken) /\ marked \subseteq 1 .. Len(taken) + 1
  BY DEF Init
<1>5. OwnTypes
  BY <1>2, <1>3, <1>4 DEF Init, OwnTypes
<1> QED
  BY <1>1, <1>5 DEF TypeInv

LEMMA TypeInvStep == TypeInv /\ [Next]_vars => TypeInv'
<1> SUFFICES ASSUME TypeInv, [Next]_vars PROVE TypeInv'
  OBVIOUS
<1>0. Proved!IInv'
  BY StepsOfQueue, QueueStep DEF TypeInv
<1> SUFFICES OwnTypes'
  BY <1>0 DEF TypeInv
<1> USE DEF OwnTypes
<1>l. Len(outputCh) \in Nat /\ Len(taken) \in Nat
  BY LenProperties DEF TypeInv
<1>t. OwnTypes
  BY DEF TypeInv
<1>1. ASSUME NEW r \in Requests, Post(r) PROVE OwnTypes'
  BY <1>t, <1>1 DEF Post, testVars, awaitVars
<1>2. ASSUME NEW r \in Requests, HandleCallback(r) PROVE OwnTypes'
  BY <1>t, <1>2 DEF HandleCallback, testVars, awaitVars
<1>3. ASSUME NEW r \in Requests, HandleBadPath(r) PROVE OwnTypes'
  <2>1. outputCh' \in Seq(Requests) /\ Len(outputCh') <= OutputSize
    BY <1>t, <1>l, <1>3, AppendProperties, OutputSizeAssumption DEF HandleBadPath, HasRoom
  <2> QED
    BY <1>t, <1>3, <2>1 DEF HandleBadPath, testVars, awaitVars
<1>4. CASE BeginRange
  BY <1>t, <1>4 DEF BeginRange, testVars, awaitVars
<1>5. CASE Consume
  <2>1. C # <<>> /\ Head(C) \in Requests
    BY <1>5, QueueFacts DEF Consume, Queue!Receive, TypeInv
  <2> QED
    BY <1>t, <1>5, <2>1 DEF Consume, testVars, awaitVars
<1>6. CASE Output
  <2>1. held \in Requests
    BY <1>t, <1>6 DEF Output
  <2>2. outputCh' \in Seq(Requests) /\ Len(outputCh') <= OutputSize
    BY <1>t, <1>l, <1>6, <2>1, AppendProperties, OutputSizeAssumption DEF Output, HasRoom
  <2> QED
    BY <1>t, <1>6, <2>2 DEF Output, testVars, awaitVars
<1>7. CASE EndRange
  BY <1>t, <1>7 DEF EndRange, testVars, awaitVars
<1>8. CASE Created \/ CreationFails \/ RequireMessage \/ AwaitTimesOut \/ EndTest
  BY <1>t, <1>8 DEF Created, CreationFails, RequireMessage, AwaitTimesOut, EndTest,
                    testVars, awaitVars
<1>9. CASE IgnoreErrorHere
  <2>1. marked' = marked \cup {Len(taken) + 1}
    BY <1>9 DEF IgnoreErrorHere
  <2>2. marked' \subseteq 1 .. Len(taken) + 1
    <3>1. Len(taken) + 1 \in 1 .. Len(taken) + 1
      BY <1>l
    <3>2. marked \subseteq 1 .. Len(taken) + 1
      BY <1>t
    <3> QED
      BY <2>1, <3>1, <3>2, Zenon
  <2>3. /\ handler' = handler /\ endpoint' = endpoint /\ consumer' = consumer /\ held' = held
        /\ outputCh' = outputCh /\ test' = test /\ taken' = taken /\ ignored' = ignored
        /\ ignoreNextError' \in BOOLEAN
    BY <1>9 DEF IgnoreErrorHere
  <2> QED
    BY <1>t, <2>2, <2>3
<1>10. CASE AwaitTakes
  <2>1. /\ Head(outputCh) \in Requests
        /\ outputCh' \in Seq(Requests) /\ Len(outputCh') = Len(outputCh) - 1
    BY <1>t, <1>10, HeadTailProperties DEF AwaitTakes
  <2>2. taken' \in Seq(Requests) /\ Len(taken') = Len(taken) + 1
    BY <1>t, <1>10, <2>1, AppendProperties DEF AwaitTakes
  <2>3. marked' = marked /\ ignored' \subseteq ignored \cup {Len(taken) + 1}
    BY <1>10 DEF AwaitTakes
  <2>4. ignored' \subseteq 1 .. Len(taken') /\ marked' \subseteq 1 .. Len(taken') + 1
    BY <1>t, <1>l, <2>2, <2>3
  <2>5. Len(outputCh') <= OutputSize
    BY <1>t, <1>l, <2>1, OutputSizeAssumption
  <2>6. test' \in {"awaiting", "running"} /\ ignoreNextError' \in BOOLEAN
    BY <1>10 DEF AwaitTakes
  <2> QED
    BY <1>t, <1>10, <2>1, <2>2, <2>4, <2>5, <2>6 DEF AwaitTakes
<1>11. CASE CloseEndpoint \/ CloseQueue
  BY <1>t, <1>11 DEF CloseEndpoint, CloseQueue, testVars, awaitVars
<1>12. CASE UNCHANGED vars
  BY <1>t, <1>12 DEF vars, testVars, awaitVars
<1> QED
  BY <1>1, <1>2, <1>3, <1>4, <1>5, <1>6, <1>7, <1>8, <1>9, <1>10, <1>11, <1>12
  DEF Next, HandlerStep, ConsumerStep, TeardownStep

(* The variables of SSEClient, the queue's with them, always have their    *)
(* types: neither outputCh nor the queue's channel is overfilled, by       *)
(* whichever of the goroutines that send on them.                          *)
THEOREM TypeCorrect == Spec => []TypeOK
<1>1. TypeInv => TypeOK
  BY DEF TypeInv, OwnTypes, TypeOK, Proved!IInv, Proved!TypeInv, Proved!TypeOK, Proved!Phases,
         Queue!TypeOK, Queue!Phases
<1> QED
  BY <1>1, TypeInvInit, TypeInvStep, PTL DEF Spec
-----------------------------------------------------------------------------
(* Only these steps take an item or change the flag.                       *)
LEMMA AwaitSteps == [Next]_vars => IgnoreErrorHere \/ AwaitTakes \/ UNCHANGED awaitVars
BY DEF Next, HandlerStep, ConsumerStep, TeardownStep, Post, HandleCallback, HandleBadPath,
  BeginRange, Consume, Output, EndRange, Created, CreationFails, RequireMessage, AwaitTimesOut,
  EndTest, CloseEndpoint, CloseQueue, testVars, vars

LEMMA FlagInvInit == Init => FlagInv
<1> SUFFICES ASSUME Init PROVE FlagInv
  OBVIOUS
<1>1. ignoreNextError = FALSE /\ marked = {} /\ ignored = {}
  BY DEF Init
<1> QED
  BY <1>1 DEF FlagInv, IgnoresNextErrorOnly

LEMMA FlagInvStep == TypeInv /\ FlagInv /\ [Next]_vars => FlagInv'
<1> SUFFICES ASSUME TypeInv, FlagInv, [Next]_vars PROVE FlagInv'
  OBVIOUS
<1> DEFINE n == Len(taken) + 1
<1>1. /\ taken \in Seq(Requests) /\ Len(taken) \in Nat
      /\ marked \subseteq 1 .. n /\ ignored \subseteq 1 .. Len(taken)
      /\ outputCh \in Seq(Requests)
  BY LenProperties DEF TypeInv, OwnTypes
<1>2. CASE IgnoreErrorHere
  <2>1. /\ ignoreNextError' = TRUE /\ marked' = marked \cup {n}
        /\ taken' = taken /\ ignored' = ignored
    BY <1>2 DEF IgnoreErrorHere
  <2>2. ~(n <= Len(taken))
    BY <1>1
  <2>3. IgnoresNextErrorOnly'
    BY <2>1, <2>2 DEF FlagInv, IgnoresNextErrorOnly
  <2> QED
    BY <2>1, <2>3 DEF FlagInv
<1>3. CASE AwaitTakes
  <2> DEFINE h == Head(outputCh)
             isIgnored == n \in marked /\ ItemKind(h) = "error"
  <2>1. /\ taken' = Append(taken, h) /\ marked' = marked
        /\ ignoreNextError' = FALSE /\ outputCh # <<>>
    BY <1>3 DEF AwaitTakes
  <2>2. ignored' = IF isIgnored THEN ignored \cup {n} ELSE ignored
    BY <1>3 DEF AwaitTakes, FlagInv
  <2>3. /\ Len(taken') = n /\ taken'[n] = h
        /\ \A i \in 1 .. Len(taken) : taken'[i] = taken[i]
    <3>1. h \in Requests
      BY <1>1, <2>1, HeadTailProperties
    <3> HIDE DEF h
    <3> QED
      BY <1>1, <2>1, <3>1, AppendProperties
  <2>4. ~(Len(taken') + 1 \in marked')
    BY <1>1, <2>1, <2>3
  <2>5. ASSUME NEW i
        PROVE  i \in ignored' <=> i \in marked /\ i <= n /\ ItemKind(taken'[i]) = "error"
    <3>1. i \in ignored <=> i \in marked /\ i <= Len(taken) /\ ItemKind(taken[i]) = "error"
      BY DEF FlagInv, IgnoresNextErrorOnly
    <3>2. CASE i = n
      <4>1. ~(n <= Len(taken)) /\ n <= n
        BY <1>1
      <4> QED
        BY <2>2, <2>3, <3>1, <3>2, <4>1
    <3>3. CASE i # n
      <4>1. ASSUME i \in marked PROVE i <= n <=> i <= Len(taken)
        BY <1>1, <3>3, <4>1
      <4>2. ASSUME i \in marked, i <= Len(taken) PROVE taken'[i] = taken[i]
        BY <1>1, <2>3, <4>2
      <4> HIDE DEF n, h
      <4> QED
        BY <2>2, <3>1, <3>3, <4>1, <4>2
    <3> QED
      BY <3>2, <3>3
  <2>6. IgnoresNextErrorOnly'
    <3>1. ignored' = {i \in marked' : i <= Len(taken') /\ ItemKind(taken'[i]) = "error"}
      BY <2>1, <2>3, <2>5
    <3> QED
      BY <3>1 DEF IgnoresNextErrorOnly, ItemKind
  <2> QED
    BY <2>1, <2>4, <2>6 DEF FlagInv
<1>4. CASE UNCHANGED awaitVars
  BY <1>4 DEF awaitVars, FlagInv, IgnoresNextErrorOnly
<1> QED
  BY <1>2, <1>3, <1>4, AwaitSteps

(* IgnoreErrorHere is good for the next item and for no later one, however *)
(* often and whenever it is called, and whatever the items are.            *)
THEOREM IgnoredErrors == Spec => []IgnoresNextErrorOnly
<1>1. FlagInv => IgnoresNextErrorOnly
  BY DEF FlagInv
<1>2. Init => TypeInv /\ FlagInv
  BY TypeInvInit, FlagInvInit
<1>3. TypeInv /\ FlagInv /\ [Next]_vars => (TypeInv /\ FlagInv)'
  BY TypeInvStep, FlagInvStep
<1> QED
  BY <1>1, <1>2, <1>3, PTL DEF Spec
-----------------------------------------------------------------------------
(* The other steps put nothing out, and take nothing out of the queue.     *)
QuietStep ==
  /\ Out' = Out /\ received' = received /\ held' = held /\ Rejected' = Rejected
  /\ \A r \in Requests : phase'[r] # "notCalled" => phase[r] # "notCalled" \/ HasNumber(r)

LEMMA OutSteps ==
  ASSUME TypeInv, [Next]_vars
  PROVE  Consume \/ Output \/ (\E r \in Requests : HandleBadPath(r)) \/ QuietStep
<1>t. /\ handler \in [Requests -> {"none", "handling", "rejected"}]
      /\ outputCh \in Seq(Requests) /\ taken \in Seq(Requests)
  BY DEF TypeInv, OwnTypes
<1>1. ASSUME NEW r \in Requests, Post(r) PROVE QuietStep
  <2>1. Rejected' = Rejected
    BY <1>t, <1>1 DEF Post, Rejected
  <2> QED
    BY <1>1, <2>1 DEF Post, QuietStep, Out, testVars, awaitVars, queueVars
<1>2. ASSUME NEW r \in Requests, HandleCallback(r) PROVE QuietStep
  <2>1. received' = received /\ \A q \in Requests : q # r => phase'[q] = phase[q]
    BY <1>2, CallStep DEF HandleCallback, TypeInv
  <2>2. HasNumber(r) /\ UNCHANGED <<handler, held, outputCh, testVars>>
    BY <1>2 DEF HandleCallback, HasNumber
  <2> QED
    BY <2>1, <2>2 DEF QuietStep, Out, Rejected, testVars, awaitVars
<1>3. CASE AwaitTakes
  <2>1. outputCh # <<>> /\ outputCh' = Tail(outputCh) /\ taken' = Append(taken, Head(outputCh))
    BY <1>3 DEF AwaitTakes
  <2>2. Append(taken, Head(outputCh)) \o Tail(outputCh) = taken \o outputCh
    BY <1>t, <2>1, Proved!MoveHead
  <2>3. Out' = Out
    BY <2>1, <2>2 DEF Out
  <2> QED
    BY <1>3, <2>3 DEF AwaitTakes, QuietStep, Rejected, queueVars
<1>4. CASE BeginRange \/ EndRange
  BY <1>4 DEF BeginRange, EndRange, QuietStep, Out, Rejected, queueVars, testVars, awaitVars
<1>5. CASE Created \/ CreationFails \/ RequireMessage \/ AwaitTimesOut \/ EndTest
  BY <1>5 DEF Created, CreationFails, RequireMessage, AwaitTimesOut, EndTest,
              QuietStep, Out, Rejected, queueVars, awaitVars
<1>6. CASE IgnoreErrorHere
  BY <1>6 DEF IgnoreErrorHere, QuietStep, Out, Rejected, queueVars
<1>7. CASE CloseEndpoint
  BY <1>7 DEF CloseEndpoint, QuietStep, Out, Rejected, queueVars, awaitVars
<1>8. CASE CloseQueue
  BY <1>8 DEF CloseQueue, Queue!CloseChannel, Queue!ClearField, QuietStep, Out, Rejected,
              awaitVars
<1>9. CASE UNCHANGED vars
  BY <1>9 DEF vars, QuietStep, Out, Rejected, queueVars, testVars, awaitVars
<1> QED
  BY <1>1, <1>2, <1>3, <1>4, <1>5, <1>6, <1>7, <1>8, <1>9
  DEF Next, HandlerStep, ConsumerStep, TeardownStep

(* What the three steps that are not quiet do.                             *)
LEMMA ConsumeStep ==
  ASSUME TypeInv, Consume
  PROVE  /\ Out' = Out /\ Rejected' = Rejected /\ phase' = phase
         /\ held = NoRequest /\ held' = Head(C) /\ held' # NoRequest
         /\ received' = Append(received, Head(C))
         /\ C # <<>>
<1>1. C # <<>> /\ Head(C) \in Requests
  BY QueueFacts DEF Consume, Queue!Receive, TypeInv
<1> QED
  BY <1>1, QueueAssumption DEF Consume, Queue!Receive, Out, Rejected, testVars, awaitVars

LEMMA AppendToOut ==
  ASSUME TypeInv, NEW r \in Requests, outputCh' = Append(outputCh, r), UNCHANGED testVars
  PROVE  Out \in Seq(Requests) /\ Out' = Append(Out, r)
<1>1. outputCh \in Seq(Requests) /\ taken \in Seq(Requests)
  BY DEF TypeInv, OwnTypes
<1> QED
  BY <1>1, AppendToSecond DEF Out, testVars, awaitVars

LEMMA OutputStep ==
  ASSUME TypeInv, Output
  PROVE  /\ held \in Requests /\ held # NoRequest /\ held' = NoRequest
         /\ Out' = Append(Out, held)
         /\ Rejected' = Rejected /\ received' = received /\ phase' = phase
<1>1. held \in Requests /\ held # NoRequest
  BY DEF Output, TypeInv, OwnTypes
<1> QED
  BY <1>1, AppendToOut DEF Output, Rejected, queueVars

LEMMA BadPathStep ==
  ASSUME TypeInv, NEW r \in Requests, HandleBadPath(r)
  PROVE  /\ ~HasNumber(r) /\ r \notin Rejected /\ Rejected' = Rejected \cup {r}
         /\ Out' = Append(Out, r)
         /\ held' = held /\ received' = received /\ phase' = phase
<1>1. handler \in [Requests -> {"none", "handling", "rejected"}]
  BY DEF TypeInv, OwnTypes
<1> QED
  BY <1>1, AppendToOut DEF HandleBadPath, HasNumber, Rejected, queueVars
-----------------------------------------------------------------------------
LEMMA OutTypes == ASSUME TypeInv PROVE Out \in Seq(Requests) /\ Len(Out) \in Nat
<1>1. outputCh \in Seq(Requests) /\ taken \in Seq(Requests)
  BY DEF TypeInv, OwnTypes
<1>2. Out \in Seq(Requests)
  BY <1>1, ConcatProperties DEF Out
<1> QED
  BY <1>2, LenProperties

LEMMA OutInvInit == Init => OutInv
<1> SUFFICES ASSUME Init PROVE OutInv
  OBVIOUS
<1>1. Out = <<>> /\ received = <<>> /\ held = NoRequest
  BY DEF Init, Queue!Init, Out
<1>2. /\ \A r \in Requests : phase[r] = "notCalled" /\ handler[r] = "none"
      /\ Rejected = {}
  BY DEF Init, Queue!Init, Rejected
<1>3. IsInjective(<<>>) /\ ToSet(<<>>) = {}
  BY DEF IsInjective, ToSet
<1> QED
  BY <1>1, <1>2, <1>3 DEF OutInv

LEMMA OutInvStep == TypeInv /\ OutInv /\ [Next]_vars => OutInv'
<1> SUFFICES ASSUME TypeInv, OutInv, [Next]_vars PROVE OutInv'
  OBVIOUS
<1>q. /\ received \in Seq(Requests)
      /\ \A r \in ToSet(received) : r \in Requests /\ phase[r] # "notCalled"
      /\ C # <<>> => Head(C) \in Requests \ ToSet(received) /\ phase[Head(C)] # "notCalled"
  BY QueueFacts DEF TypeInv
<1>n. \A r \in ToSet(received) : r \notin Rejected
  BY <1>q DEF OutInv
<1>i. IsInjective(received)
  <2>1. IsInjective(received \o C \o Queue!Outgoing \o deferred)
    BY QueueFacts DEF TypeInv
  <2> QED
    BY <2>1, QueueFacts, InjectiveParts DEF TypeInv
<1>1. CASE Consume
  <2>1. ToSet(received') = ToSet(received) \cup {Head(C)}
    <3>1. C # <<>> /\ received' = Append(received, Head(C))
      BY <1>1, ConsumeStep
    <3>2. ToSet(Append(received, Head(C))) = ToSet(received) \cup {Head(C)}
      BY <1>q, <1>i, <3>1, AppendNew
    <3> QED
      BY <3>1, <3>2
  <2>2. ToSet(received') \ {held'} = ToSet(received) \ {held}
    BY <1>q, <1>1, <2>1, ConsumeStep, QueueAssumption
  <2> QED
    BY <1>1, <2>1, <2>2, ConsumeStep DEF OutInv
<1>2. CASE Output
  <2>1. held \in ToSet(received) /\ held \notin ToSet(Out)
    BY <1>n, <1>2, OutputStep DEF OutInv
  <2>2. IsInjective(Out') /\ ToSet(Out') = ToSet(Out) \cup {held}
    <3>1. /\ Out \in Seq(Requests) /\ IsInjective(Out)
          /\ held \in Requests /\ Out' = Append(Out, held)
      BY <1>2, OutputStep, OutTypes DEF OutInv
    <3>2. IsInjective(Append(Out, held)) /\ ToSet(Append(Out, held)) = ToSet(Out) \cup {held}
      BY <2>1, <3>1, AppendNew
    <3> QED
      BY <3>1, <3>2
  <2>3. ToSet(Out') = Rejected \cup ToSet(received)
    BY <2>1, <2>2 DEF OutInv
  <2>4. NoRequest \notin ToSet(received)
    BY <1>q, QueueAssumption
  <2> QED
    BY <1>2, <2>2, <2>3, <2>4, OutputStep DEF OutInv
<1>3. ASSUME NEW r \in Requests, HandleBadPath(r) PROVE OutInv'
  <2>1. r \notin ToSet(Out)
    BY <1>q, <1>3, BadPathStep DEF OutInv
  <2>2. IsInjective(Out') /\ ToSet(Out') = ToSet(Out) \cup {r}
    <3>1. Out \in Seq(Requests) /\ IsInjective(Out) /\ Out' = Append(Out, r)
      BY <1>3, BadPathStep, OutTypes DEF OutInv
    <3>2. IsInjective(Append(Out, r)) /\ ToSet(Append(Out, r)) = ToSet(Out) \cup {r}
      BY <2>1, <3>1, AppendNew
    <3> QED
      BY <3>1, <3>2
  <2> QED
    BY <1>3, <2>2, BadPathStep DEF OutInv
<1>4. CASE QuietStep
  BY <1>4 DEF QuietStep, OutInv
<1> QED
  BY <1>1, <1>2, <1>3, <1>4, OutSteps
-----------------------------------------------------------------------------
(* The numbers among the items, when one more is appended.                 *)
LEMMA NumbersAppend ==
  ASSUME NEW s \in Seq(Requests), NEW e \in Requests
  PROVE  /\ Len(Append(s, e)) = Len(s) + 1 /\ Append(s, e)[Len(s) + 1] = e
         /\ \A i \in 1 .. Len(s) : Append(s, e)[i] = s[i]
         /\ \A n \in 0 .. Len(s) : NumbersIn(Append(s, e), n) = NumbersIn(s, n)
         /\ NumbersIn(Append(s, e), Len(s) + 1)
              = NumbersIn(s, Len(s)) \cup IF HasNumber(e) THEN {Counter[e]} ELSE {}
<1> DEFINE t == Append(s, e)
<1>1. /\ Len(s) \in Nat
      /\ Len(t) = Len(s) + 1 /\ t[Len(s) + 1] = e
      /\ \A i \in 1 .. Len(s) : t[i] = s[i]
  BY AppendProperties, LenProperties
<1> HIDE DEF t
<1>2. ASSUME NEW n \in 0 .. Len(s) PROVE NumbersIn(t, n) = NumbersIn(s, n)
  <2>1. \A i \in 1 .. n : t[i] = s[i]
    BY <1>1
  <2> QED
    BY <2>1 DEF NumbersIn
<1>3. ASSUME NEW c
      PROVE  c \in NumbersIn(t, Len(s) + 1)
               <=> c \in NumbersIn(s, Len(s)) \/ (HasNumber(e) /\ c = Counter[e])
  <2>1. \A i \in 1 .. Len(s) + 1 : i \in 1 .. Len(s) \/ i = Len(s) + 1
    BY <1>1
  <2>2. Len(s) + 1 \in 1 .. Len(s) + 1 /\ \A i \in 1 .. Len(s) : i \in 1 .. Len(s) + 1
    BY <1>1
  <2>3. c \in NumbersIn(t, Len(s) + 1)
          <=> \E i \in 1 .. Len(s) + 1 : HasNumber(t[i]) /\ c = Counter[t[i]]
    BY DEF NumbersIn
  <2>4. c \in NumbersIn(s, Len(s)) <=> \E i \in 1 .. Len(s) : HasNumber(s[i]) /\ c = Counter[s[i]]
    BY DEF NumbersIn
  <2> QED
    BY <1>1, <2>1, <2>2, <2>3, <2>4
<1>4. NumbersIn(t, Len(s) + 1)
        = NumbersIn(s, Len(s)) \cup IF HasNumber(e) THEN {Counter[e]} ELSE {}
  BY <1>3
<1> QED
  BY <1>1, <1>2, <1>4 DEF t

(* An item without a number changes nothing for those that have one, and   *)
(* the message that comes next, put last, has all the others before it.    *)
InOrder(s) ==
  \A i \in 1 .. Len(s) : HasNumber(s[i]) => NumbersIn(s, i - 1) = 1 .. Counter[s[i]] - 1

LEMMA InOrderAppend ==
  ASSUME NEW s \in Seq(Requests), NEW e \in Requests, InOrder(s),
         HasNumber(e) => NumbersIn(s, Len(s)) = 1 .. Counter[e] - 1
  PROVE  InOrder(Append(s, e))
<1> DEFINE t == Append(s, e)
<1>1. /\ Len(s) \in Nat /\ Len(t) = Len(s) + 1 /\ t[Len(s) + 1] = e
      /\ \A i \in 1 .. Len(s) : t[i] = s[i]
      /\ \A n \in 0 .. Len(s) : NumbersIn(t, n) = NumbersIn(s, n)
  BY NumbersAppend, LenProperties
<1> HIDE DEF t
<1>2. ASSUME NEW i \in 1 .. Len(t), HasNumber(t[i])
      PROVE  NumbersIn(t, i - 1) = 1 .. Counter[t[i]] - 1
  <2>1. i - 1 \in 0 .. Len(s) /\ (i \in 1 .. Len(s) \/ (i = Len(s) + 1 /\ i - 1 = Len(s)))
    BY <1>1
  <2>2. NumbersIn(t, i - 1) = NumbersIn(s, i - 1)
    BY <1>1, <2>1
  <2>3. CASE i \in 1 .. Len(s)
    BY <1>1, <1>2, <2>2, <2>3 DEF InOrder
  <2>4. CASE i = Len(s) + 1 /\ i - 1 = Len(s)
    BY <1>1, <1>2, <2>2, <2>4
  <2> QED
    BY <2>1, <2>3, <2>4
<1> QED
  BY <1>2 DEF InOrder, t

LEMMA OrderInvInit == Init => OrderInv
<1> SUFFICES ASSUME Init PROVE OrderInv
  OBVIOUS
<1>1. Out = <<>> /\ received = <<>> /\ held = NoRequest
  BY DEF Init, Queue!Init, Out
<1>2. Len(<<>>) = 0 /\ 1 .. 0 = {}
  BY EmptySeq
<1>3. NumbersIn(<<>>, 0) = {}
  BY <1>2 DEF NumbersIn
<1> QED
  BY <1>1, <1>2, <1>3 DEF OrderInv

LEMMA OrderInvStep == TypeInv /\ OutInv /\ OrderInv /\ [Next]_vars => OrderInv'
<1> SUFFICES ASSUME TypeInv, OutInv, OrderInv, [Next]_vars, Queue!UniqueCounters
             PROVE  /\ InOrder(Out')
                    /\ IF held' = NoRequest
                         THEN NumbersIn(Out', Len(Out')) = 1 .. Len(received')
                         ELSE /\ NumbersIn(Out', Len(Out')) = 1 .. Len(received') - 1
                              /\ Counter[held'] = Len(received') /\ Len(received') > 0
  BY DEF OrderInv, InOrder, NumbersIn, HasNumber, Queue!UniqueCounters
<1> DEFINE n == Len(received)
<1>1. /\ n \in Nat /\ received \in Seq(Requests)
      /\ Out \in Seq(Requests) /\ Len(Out) \in Nat
  BY QueueFacts, OutTypes, LenProperties DEF TypeInv
<1>2. /\ InOrder(Out)
      /\ held = NoRequest => NumbersIn(Out, Len(Out)) = 1 .. n
      /\ held # NoRequest =>
           /\ NumbersIn(Out, Len(Out)) = 1 .. n - 1
           /\ Counter[held] = n /\ n > 0
  BY DEF OrderInv, InOrder
<1>3. CASE Consume
  <2>1. Head(C) \in Requests /\ Counter[Head(C)] = n + 1
    BY <1>3, ConsumeStep, QueueFacts DEF TypeInv
  <2>2. Len(received') = n + 1
    BY <1>1, <1>3, <2>1, ConsumeStep, AppendProperties
  <2>3. NumbersIn(Out, Len(Out)) = 1 .. (n + 1) - 1
    BY <1>1, <1>2, <1>3, ConsumeStep
  <2> QED
    BY <1>1, <1>2, <1>3, <2>1, <2>2, <2>3, ConsumeStep
<1>4. CASE Output
  <2>1. held \in Requests /\ HasNumber(held)
    <3>1. held \in ToSet(received)
      BY <1>4, OutputStep DEF OutInv
    <3> QED
      BY <1>4, <3>1, QueueFacts, OutputStep DEF OutInv, TypeInv
  <2>2. NumbersIn(Out, Len(Out)) = 1 .. n - 1 /\ Counter[held] = n /\ n > 0
    BY <1>2, <1>4, OutputStep
  <2>3. InOrder(Append(Out, held))
    BY <1>1, <1>2, <2>1, <2>2, InOrderAppend
  <2>4. NumbersIn(Append(Out, held), Len(Append(Out, held))) = (1 .. n - 1) \cup {n}
    BY <1>1, <2>1, <2>2, NumbersAppend
  <2>5. (1 .. n - 1) \cup {n} = 1 .. n
    BY <1>1, <2>2
  <2> QED
    BY <1>4, <2>3, <2>4, <2>5, OutputStep
<1>5. ASSUME NEW r \in Requests, HandleBadPath(r)
      PROVE  /\ InOrder(Out')
             /\ NumbersIn(Out', Len(Out')) = NumbersIn(Out, Len(Out))
  <2>1. ~HasNumber(r) /\ Out' = Append(Out, r)
    BY <1>5, BadPathStep
  <2>2. InOrder(Append(Out, r))
    BY <1>1, <1>2, <2>1, InOrderAppend
  <2>3. NumbersIn(Append(Out, r), Len(Append(Out, r))) = NumbersIn(Out, Len(Out))
    BY <1>1, <2>1, NumbersAppend
  <2> QED
    BY <2>1, <2>2, <2>3
<1>6. ASSUME NEW r \in Requests, HandleBadPath(r)
      PROVE  held' = held /\ received' = received
  BY <1>6, BadPathStep
<1>7. CASE QuietStep
  BY <1>2, <1>7 DEF QuietStep
<1> QED
  BY <1>2, <1>3, <1>4, <1>5, <1>6, <1>7, OutSteps
-----------------------------------------------------------------------------
(* The inductive invariant.                                                *)
IInv == TypeInv /\ OutInv /\ OrderInv

LEMMA IInvInit == Init => IInv
BY TypeInvInit, OutInvInit, OrderInvInit DEF IInv

LEMMA IInvStep == IInv /\ [Next]_vars => IInv'
BY TypeInvStep, OutInvStep, OrderInvStep DEF IInv

LEMMA SeenIsOut ==
  ASSUME TypeInv
  PROVE  Seen = IF held = NoRequest THEN Out ELSE Append(Out, held)
<1>1. Out \in Seq(Requests)
  BY OutTypes
<1>2. Seen = Out \o Held
  BY DEF Seen, Out
<1>3. CASE held = NoRequest
  BY <1>1, <1>2, <1>3, ConcatEmptySeq DEF Held
<1>4. CASE held # NoRequest
  <2>1. held \in Requests
    BY <1>4 DEF TypeInv, OwnTypes
  <2>2. Append(Out, held) = Out \o <<held>>
    BY <1>1, <2>1, AppendIsConcat
  <2> QED
    BY <1>2, <1>4, <2>2 DEF Held
<1> QED
  BY <1>3, <1>4

(* End to end: the test gets what the service posted in the order of its   *)
(* numbers and without a gap, for any number of callbacks, of whatever     *)
(* kinds, any capacities of the channels, and every interleaving of the    *)
(* handlers, the consumer, the test and its teardown.                      *)
THEOREM EndToEndOrder == Spec => []SeenInOrder
<1>1. ASSUME IInv PROVE SeenInOrder
  <2> USE <1>1
  <2> SUFFICES ASSUME Queue!UniqueCounters PROVE InOrder(Seen)
    BY DEF SeenInOrder, InOrder
  <2>1. Out \in Seq(Requests) /\ InOrder(Out)
    BY OutTypes DEF IInv, OrderInv, InOrder
  <2>2. CASE held = NoRequest
    BY <2>1, <2>2, SeenIsOut DEF IInv
  <2>3. CASE held # NoRequest
    <3>1. held \in Requests /\ NumbersIn(Out, Len(Out)) = 1 .. Counter[held] - 1
      BY <2>3 DEF IInv, OrderInv, TypeInv, OwnTypes
    <3>2. InOrder(Append(Out, held))
      BY <2>1, <3>1, InOrderAppend
    <3> QED
      BY <2>3, <3>2, SeenIsOut DEF IInv
  <2> QED
    BY <2>2, <2>3
<1> QED
  BY <1>1, IInvInit, IInvStep, PTL DEF Spec

(* The queue is closed by the teardown only.                               *)
ClosedInv == field # "open" => test \in {"channelClosed", "ended"}

LEMMA ClosedInvInit == Init => ClosedInv
BY DEF Init, Queue!Init, ClosedInv

LEMMA ClosedInvStep == TypeInv /\ ClosedInv /\ [Next]_vars => ClosedInv'
<1> SUFFICES ASSUME TypeInv, ClosedInv, [Next]_vars PROVE ClosedInv'
  OBVIOUS
<1> USE DEF ClosedInv
<1>1. ASSUME NEW r \in Requests, HandleCallback(r) PROVE ClosedInv'
  <2>1. field' = field
    BY <1>1, CallStep DEF HandleCallback, TypeInv
  <2> QED
    BY <1>1, <2>1 DEF HandleCallback, testVars
<1>2. ASSUME NEW r \in Requests, Post(r) \/ HandleBadPath(r) PROVE ClosedInv'
  BY <1>2 DEF Post, HandleBadPath, queueVars, testVars
<1>3. CASE BeginRange \/ Consume \/ Output \/ EndRange
  BY <1>3 DEF BeginRange, Consume, Queue!Receive, Output, EndRange, queueVars, testVars
<1>4. CASE Created \/ CreationFails \/ IgnoreErrorHere \/ RequireMessage
  BY <1>4 DEF Created, CreationFails, IgnoreErrorHere, RequireMessage, queueVars
<1>5. CASE AwaitTakes \/ AwaitTimesOut \/ EndTest \/ CloseEndpoint
  BY <1>5 DEF AwaitTakes, AwaitTimesOut, EndTest, CloseEndpoint, queueVars
<1>6. CASE CloseQueue
  BY <1>6 DEF CloseQueue
<1>7. CASE UNCHANGED vars
  BY <1>7 DEF vars, queueVars, testVars
<1> QED
  BY <1>1, <1>2, <1>3, <1>4, <1>5, <1>6, <1>7
  DEF Next, HandlerStep, ConsumerStep, TeardownStep

(* No callback that was answered is dropped between its handler and the    *)
(* test, or comes twice, whatever fills up and whoever waits, until the    *)
(* queue is closed after the test; that costs one callback at most.        *)
THEOREM EndToEndConservation == Spec => []OnlyCloseDrops
<1>1. ASSUME IInv, ClosedInv PROVE OnlyCloseDrops
  <2> USE <1>1
  <2> DEFINE rest == C \o Queue!Outgoing \o deferred
             places == received \o C \o Queue!Outgoing \o deferred
             onTheWay == Seen \o C \o Queue!Outgoing \o deferred
             called == {r \in Requests : phase[r] \notin {"notCalled", "locking"}}
             lost == called \ ToSet(places)
  <2>1. /\ C \in Seq(Requests) /\ received \in Seq(Requests) /\ deferred \in Seq(Requests)
        /\ Queue!Outgoing \in Seq(Requests)
        /\ IsInjective(places) /\ ToSet(places) \subseteq called
        /\ (\A q, r \in lost : q = r) /\ (lost # {} => field # "open")
        /\ \A r \in ToSet(received) : r \in Requests
    BY QueueFacts DEF IInv, TypeInv
  <2>2. /\ Out \in Seq(Requests) /\ IsInjective(Out)
        /\ ToSet(Out) = Rejected \cup (ToSet(received) \ {held})
        /\ held # NoRequest => held \in ToSet(received)
        /\ held \in Requests \cup {NoRequest}
    BY OutTypes DEF IInv, OutInv, TypeInv, OwnTypes
  <2>3. \A r \in Requests : r \in Rejected => phase[r] = "notCalled"
    BY DEF IInv, OutInv, Rejected
  <2>4. Seen \in Seq(Requests) /\ IsInjective(Seen) /\ ToSet(Seen) = Rejected \cup ToSet(received)
    <3>1. CASE held = NoRequest
      BY <2>1, <2>2, <3>1, SeenIsOut, QueueAssumption DEF IInv
    <3>2. CASE held # NoRequest
      <4>1. held \in Requests /\ held \in ToSet(received) /\ held \notin ToSet(Out)
        BY <2>2, <3>2, QueueFacts DEF IInv, OutInv, TypeInv
      <4>2. /\ Append(Out, held) \in Seq(Requests)
            /\ IsInjective(Append(Out, held))
            /\ ToSet(Append(Out, held)) = ToSet(Out) \cup {held}
        BY <2>2, <4>1, AppendNew, AppendProperties
      <4>3. ToSet(Out) \cup {held} = Rejected \cup ToSet(received)
        BY <2>2, <4>1
      <4> QED
        BY <3>2, <4>2, <4>3, SeenIsOut DEF IInv
    <3> QED
      BY <3>1, <3>2
  <2>5. \A x \in ToSet(Seen) : x \in ToSet(received) \/ x \notin ToSet(places)
    BY <2>1, <2>3, <2>4 DEF Rejected
  <2>6. IsInjective(onTheWay) /\ ToSet(onTheWay) = ToSet(Seen) \cup (ToSet(places) \ ToSet(received))
    <3>1. places = received \o rest
      <4>1. received \in Seq(Requests) /\ C \in Seq(Requests) /\ deferred \in Seq(Requests)
            /\ Queue!Outgoing \in Seq(Requests)
        BY <2>1
      <4> QED
        BY <4>1
    <3>0. onTheWay = Seen \o rest
      <4>1. Seen \in Seq(Requests) /\ C \in Seq(Requests) /\ deferred \in Seq(Requests)
            /\ Queue!Outgoing \in Seq(Requests)
        BY <2>1, <2>4
      <4> QED
        BY <4>1
    <3>2. rest \in Seq(Requests)
      BY <2>1, ConcatProperties
    <3> HIDE DEF rest, places, onTheWay
    <3> QED
      BY <2>1, <2>4, <2>5, <3>0, <3>1, <3>2, ReplaceFirst
  <2>7. ASSUME NEW r \in Requests, Answered(r), r \notin ToSet(onTheWay)
        PROVE  r \in lost
    <3>1. r \in Rejected \/ r \in called
      BY <2>7 DEF Answered, Rejected
    <3> HIDE DEF onTheWay, places
    <3> QED
      BY <2>4, <2>6, <2>7, <3>1
  <2>8. Dropped \subseteq lost
    BY <2>7 DEF Dropped, Places
  <2> HIDE DEF lost
  <2> QED
    BY <1>1, <2>1, <2>6, <2>8 DEF OnlyCloseDrops, Places, ClosedInv
<1>2. Init => IInv /\ ClosedInv
  BY IInvInit, ClosedInvInit
<1>3. IInv /\ ClosedInv /\ [Next]_vars => IInv' /\ ClosedInv'
  BY IInvStep, ClosedInvStep DEF IInv
<1> QED
  BY <1>1, <1>2, <1>3, PTL DEF Spec
=============================================================================
