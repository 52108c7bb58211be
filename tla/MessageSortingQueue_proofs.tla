--------------------- MODULE MessageSortingQueue_proofs ---------------------
(***************************************************************************)
(* Proofs about MessageSortingQueue, for every set of requests, every      *)
(* numbering of them and every size of the channel.                        *)
(***************************************************************************)
EXTENDS MessageSortingQueue, SequenceTheorems, TLAPS

(***************************************************************************)
(* Facts about sequences.                                                  *)
(***************************************************************************)

(* InsertAt(s, i, e) is s with e put before its i-th element.              *)
LEMMA InsertAtElements ==
  ASSUME NEW S, NEW s \in Seq(S), NEW e \in S, NEW i \in 1 .. Len(s) + 1
  PROVE  /\ InsertAt(s, i, e) \in Seq(S)
         /\ Len(InsertAt(s, i, e)) = Len(s) + 1
         /\ \A k \in 1 .. i-1 : InsertAt(s, i, e)[k] = s[k]
         /\ InsertAt(s, i, e)[i] = e
         /\ \A k \in i .. Len(s) : InsertAt(s, i, e)[k+1] = s[k]
<1> DEFINE a == SubSeq(s, 1, i-1)
           b == SubSeq(s, i, Len(s))
<1>0. Len(s) \in Nat /\ i \in Int
  BY LenProperties
<1>1. /\ a \in Seq(S) /\ Len(a) = i - 1
      /\ \A k \in 1 .. i-1 : a[k] = s[k]
  <2>1. \A k \in 1 .. i-1 : s[k] \in S
    BY <1>0, ElementOfSeq
  <2> QED
    BY <1>0, <2>1, SubSeqProperties
<1>2. /\ b \in Seq(S) /\ Len(b) = Len(s) - i + 1
      /\ \A k \in 1 .. Len(s)-i+1 : b[k] = s[i+k-1]
  <2>1. \A k \in i .. Len(s) : s[k] \in S
    BY <1>0, ElementOfSeq
  <2> QED
    BY <1>0, <2>1, SubSeqProperties
<1>3. <<e>> \in Seq(S) /\ Len(<<e>>) = 1 /\ <<e>>[1] = e
  OBVIOUS
<1> HIDE DEF a, b
<1> DEFINE c == a \o <<e>>
<1>4. /\ c \in Seq(S) /\ Len(c) = i
      /\ \A k \in 1 .. i : c[k] = IF k < i THEN s[k] ELSE e
  BY <1>0, <1>1, <1>3, ConcatProperties
<1> HIDE DEF c
<1>5. /\ c \o b \in Seq(S) /\ Len(c \o b) = Len(c) + Len(b)
      /\ \A k \in 1 .. Len(c) + Len(b) :
           (c \o b)[k] = IF k <= Len(c) THEN c[k] ELSE b[k - Len(c)]
  BY <1>2, <1>4, ConcatProperties
<1>7. Len(c) + Len(b) = Len(s) + 1
  BY <1>0, <1>2, <1>4
<1>6. InsertAt(s, i, e) = c \o b
  BY DEF InsertAt, a, b, c
<1> DEFINE t == c \o b
<1> HIDE DEF t
<1>8. ASSUME NEW k \in i .. Len(s)
      PROVE  t[k+1] = s[k]
  <2>1. k + 1 \in 1 .. Len(c) + Len(b) /\ ~(k + 1 <= i) /\ (k + 1) - i = k - i + 1
    BY <1>0, <1>7
  <2>2. k - i + 1 \in 1 .. Len(s) - i + 1 /\ i + (k - i + 1) - 1 = k
    BY <1>0
  <2>3. t[k+1] = b[k - i + 1]
    BY <1>4, <1>5, <2>1 DEF t
  <2>4. b[k - i + 1] = s[k]
    BY <1>2, <2>2
  <2> QED
    BY <2>3, <2>4
<1>9. /\ \A k \in 1 .. i-1 : t[k] = s[k]
      /\ t[i] = e
  BY <1>0, <1>4, <1>5, <1>7 DEF t
<1> QED
  BY <1>5, <1>6, <1>7, <1>8, <1>9 DEF t

(* Inserting a new element keeps a sequence free of duplicates.            *)
LEMMA InsertAtNew ==
  ASSUME NEW S, NEW s \in Seq(S), NEW e \in S, NEW i \in 1 .. Len(s) + 1,
         IsInjective(s), e \notin ToSet(s)
  PROVE  /\ IsInjective(InsertAt(s, i, e))
         /\ ToSet(InsertAt(s, i, e)) = ToSet(s) \cup {e}
<1> DEFINE t == InsertAt(s, i, e)
<1>1. /\ t \in Seq(S) /\ Len(t) = Len(s) + 1
      /\ \A k \in 1 .. i-1 : t[k] = s[k]
      /\ t[i] = e
      /\ \A k \in i .. Len(s) : t[k+1] = s[k]
  BY InsertAtElements
<1> HIDE DEF t
<1>2. Len(s) \in Nat /\ DOMAIN s = 1 .. Len(s) /\ DOMAIN t = 1 .. Len(s) + 1
  BY <1>1, LenProperties
<1>3. \A k \in 1 .. Len(s) : s[k] # e
  BY <1>2 DEF ToSet
<1>4. \A k, l \in 1 .. Len(s) : s[k] = s[l] => k = l
  BY <1>2 DEF IsInjective
(* Where the elements of t come from.                                      *)
<1> DEFINE Old(k) == IF k < i THEN k ELSE k - 1
<1>5. ASSUME NEW k \in 1 .. Len(s) + 1, k # i
      PROVE  Old(k) \in 1 .. Len(s) /\ t[k] = s[Old(k)]
  <2>1. CASE k < i
    BY <1>1, <1>2, <2>1
  <2>2. CASE k > i
    <3>1. k - 1 \in i .. Len(s) /\ (k - 1) + 1 = k
      BY <1>2, <2>2
    <3> QED
      BY <1>1, <1>2, <2>2, <3>1
  <2> QED
    BY <1>2, <1>5, <2>1, <2>2
<1>6. ASSUME NEW k \in 1 .. Len(s) + 1, NEW l \in 1 .. Len(s) + 1, t[k] = t[l]
      PROVE  k = l
  <2>1. CASE k = i \/ l = i
    <3>1. \A m \in 1 .. Len(s) + 1 : m # i => t[m] # e
      BY <1>3, <1>5
    <3> QED
      BY <1>1, <1>6, <2>1, <3>1
  <2>2. CASE k # i /\ l # i
    <3>1. Old(k) = Old(l)
      BY <1>4, <1>5, <1>6, <2>2
    <3> QED
      BY <1>2, <2>2, <3>1
  <2> QED
    BY <2>1, <2>2
<1>7. \A k \in 1 .. Len(s) + 1 : t[k] \in ToSet(s) \cup {e}
  <2> SUFFICES ASSUME NEW k \in 1 .. Len(s) + 1
               PROVE  t[k] \in ToSet(s) \cup {e}
    OBVIOUS
  <2> HIDE DEF Old
  <2> QED
    BY <1>1, <1>2, <1>5 DEF ToSet
<1>8. \A k \in 1 .. Len(s) : s[k] \in ToSet(t)
  <2> SUFFICES ASSUME NEW k \in 1 .. Len(s)
               PROVE  \E l \in 1 .. Len(s) + 1 : t[l] = s[k]
    BY <1>2 DEF ToSet
  <2>1. CASE k < i
    BY <1>1, <1>2, <2>1
  <2>2. CASE ~(k < i)
    <3>1. k \in i .. Len(s) /\ k + 1 \in 1 .. Len(s) + 1
      BY <1>2, <2>2
    <3> QED
      BY <1>1, <3>1
  <2> QED
    BY <2>1, <2>2
<1>9. e \in ToSet(t)
  BY <1>1, <1>2 DEF ToSet
<1> QED
  BY <1>2, <1>6, <1>7, <1>8, <1>9 DEF IsInjective, ToSet, t

(* Conversely, a sequence without duplicates has none without e, which is  *)
(* then gone.                                                              *)
LEMMA InsertAtOld ==
  ASSUME NEW S, NEW s \in Seq(S), NEW e \in S, NEW i \in 1 .. Len(s) + 1,
         IsInjective(InsertAt(s, i, e))
  PROVE  /\ IsInjective(s) /\ e \notin ToSet(s)
         /\ ToSet(InsertAt(s, i, e)) = ToSet(s) \cup {e}
<1> DEFINE t == InsertAt(s, i, e)
           New(k) == IF k < i THEN k ELSE k + 1
<1>1. /\ t \in Seq(S) /\ Len(t) = Len(s) + 1
      /\ \A k \in 1 .. i-1 : t[k] = s[k]
      /\ t[i] = e
      /\ \A k \in i .. Len(s) : t[k+1] = s[k]
  BY InsertAtElements
<1> HIDE DEF t
<1>2. Len(s) \in Nat /\ DOMAIN s = 1 .. Len(s) /\ DOMAIN t = 1 .. Len(s) + 1
  BY <1>1, LenProperties
<1>3. ASSUME NEW k \in 1 .. Len(s)
      PROVE  New(k) \in DOMAIN t /\ New(k) # i /\ t[New(k)] = s[k]
  <2>1. CASE k < i
    BY <1>1, <1>2, <2>1
  <2>2. CASE ~(k < i)
    <3>1. k \in i .. Len(s) /\ k + 1 \in 1 .. Len(s) + 1 /\ k + 1 # i
      BY <1>2, <2>2
    <3> QED
      BY <1>1, <1>2, <2>2, <3>1
  <2> QED
    BY <2>1, <2>2
<1>4. ASSUME NEW k \in 1 .. Len(s), NEW l \in 1 .. Len(s), New(k) = New(l)
      PROVE  k = l
  BY <1>2, <1>4
<1>5. IsInjective(t)
  BY DEF t
<1> HIDE DEF New
<1>6. IsInjective(s)
  BY <1>2, <1>3, <1>4, <1>5 DEF IsInjective
<1>7. i \in DOMAIN t
  BY <1>2
<1>8. e \notin ToSet(s)
  BY <1>1, <1>2, <1>3, <1>5, <1>7 DEF IsInjective, ToSet
<1> QED
  BY <1>6, <1>8, InsertAtNew

(* An insertion into the second part of a concatenation is one into the    *)
(* whole.                                                                  *)
LEMMA ConcatInsertAt ==
  ASSUME NEW S, NEW s \in Seq(S), NEW t \in Seq(S), NEW e \in S,
         NEW i \in 1 .. Len(t) + 1
  PROVE  s \o InsertAt(t, i, e) = InsertAt(s \o t, Len(s) + i, e)
<1> DEFINE u == InsertAt(t, i, e)
           v == s \o t
           j == Len(s) + i
           w == InsertAt(v, j, e)
           x == s \o u
<1>1. Len(s) \in Nat /\ Len(t) \in Nat
  BY LenProperties
<1>2. /\ u \in Seq(S) /\ Len(u) = Len(t) + 1
      /\ \A k \in 1 .. i-1 : u[k] = t[k]
      /\ u[i] = e
      /\ \A k \in i .. Len(t) : u[k+1] = t[k]
  BY InsertAtElements
<1>3. /\ v \in Seq(S) /\ Len(v) = Len(s) + Len(t)
      /\ \A k \in 1 .. Len(s) + Len(t) :
           v[k] = IF k <= Len(s) THEN s[k] ELSE t[k - Len(s)]
  BY ConcatProperties
<1> HIDE DEF u, v
<1>4. j \in 1 .. Len(v) + 1 /\ j = Len(s) + i
  BY <1>1, <1>3
<1> HIDE DEF j
<1>5. /\ w \in Seq(S) /\ Len(w) = Len(v) + 1
      /\ \A k \in 1 .. j-1 : w[k] = v[k]
      /\ w[j] = e
      /\ \A k \in j .. Len(v) : w[k+1] = v[k]
  <2>1. v \in Seq(S)
    BY <1>3
  <2>2. j \in 1 .. Len(v) + 1
    BY <1>4
  <2> QED
    BY <2>1, <2>2, InsertAtElements
<1> HIDE DEF w
<1>6. /\ x \in Seq(S) /\ Len(x) = Len(s) + Len(u)
      /\ \A k \in 1 .. Len(s) + Len(u) :
           x[k] = IF k <= Len(s) THEN s[k] ELSE u[k - Len(s)]
  BY <1>2, ConcatProperties
<1> HIDE DEF x
<1>7. ASSUME NEW k \in 1 .. Len(x)
      PROVE  x[k] = w[k]
  <2>0. k \in Int /\ k >= 1 /\ k <= Len(s) + Len(t) + 1
    BY <1>1, <1>2, <1>6
  <2>1. CASE k <= Len(s)
    <3>1. k \in 1 .. j-1 /\ k \in 1 .. Len(s) + Len(t) /\ k \in 1 .. Len(s) + Len(u)
      BY <1>1, <1>2, <1>4, <2>0, <2>1
    <3>2. w[k] = s[k]
      BY <1>3, <1>5, <2>1, <3>1
    <3> QED
      BY <1>6, <2>1, <3>1, <3>2
  <2>2. CASE k > Len(s) /\ k < j
    <3>1. /\ k \in 1 .. j-1 /\ k \in 1 .. Len(s) + Len(t)
          /\ k \in 1 .. Len(s) + Len(u) /\ k - Len(s) \in 1 .. i-1 /\ ~(k <= Len(s))
      BY <1>1, <1>2, <1>4, <2>0, <2>2
    <3>2. w[k] = t[k - Len(s)]
      BY <1>3, <1>5, <3>1
    <3>3. x[k] = u[k - Len(s)]
      BY <1>6, <3>1
    <3> QED
      BY <1>2, <3>1, <3>2, <3>3
  <2>3. CASE k = j
    <3>1. /\ j \in 1 .. Len(s) + Len(u) /\ ~(j <= Len(s)) /\ j - Len(s) = i
      BY <1>1, <1>2, <1>4, <2>0, <2>3
    <3>2. x[j] = u[i]
      BY <1>6, <3>1
    <3> QED
      BY <1>2, <1>5, <2>3, <3>2
  <2>4. CASE k > j
    <3>1. /\ k - 1 \in j .. Len(v) /\ (k - 1) + 1 = k
          /\ k - 1 \in 1 .. Len(s) + Len(t) /\ ~(k - 1 <= Len(s))
      BY <1>1, <1>3, <1>4, <2>0, <2>4
    <3>2. /\ k - 1 - Len(s) \in i .. Len(t) /\ (k - 1 - Len(s)) + 1 = k - Len(s)
          /\ k \in 1 .. Len(s) + Len(u) /\ ~(k <= Len(s))
      BY <1>1, <1>2, <1>4, <2>0, <2>4
    <3>3. w[k] = v[k - 1]
      BY <1>5, <3>1
    <3>4. v[k - 1] = t[k - 1 - Len(s)]
      BY <1>3, <3>1
    <3>5. x[k] = u[k - Len(s)]
      BY <1>6, <3>2
    <3>6. u[k - Len(s)] = t[k - 1 - Len(s)]
      BY <1>2, <3>2
    <3> QED
      BY <3>3, <3>4, <3>5, <3>6
  <2> QED
    BY <1>1, <1>4, <2>0, <2>1, <2>2, <2>3, <2>4
<1>8. Len(x) = Len(w)
  BY <1>1, <1>2, <1>3, <1>5, <1>6
<1>9. x = w
  BY <1>5, <1>6, <1>7, <1>8, SeqEqual
<1> QED
  BY <1>9 DEF u, v, j, w, x

(* So is appending to the first part.                                      *)
LEMMA AppendConcat ==
  ASSUME NEW S, NEW s \in Seq(S), NEW t \in Seq(S), NEW e \in S
  PROVE  Append(s, e) \o t = InsertAt(s \o t, Len(s) + 1, e)
<1>1. Append(s, e) = s \o <<e>> /\ <<e>> \in Seq(S)
  BY AppendIsConcat
<1>2. (s \o <<e>>) \o t = s \o (<<e>> \o t)
  BY <1>1, ConcatAssociative
<1>3. <<e>> \o t = InsertAt(t, 1, e)
  <2>1. SubSeq(t, 1, 0) = <<>> /\ SubSeq(t, 1, Len(t)) = t
    BY SubSeqEmpty, SubSeqFull
  <2>2. <<>> \o <<e>> = <<e>>
    BY <1>1, ConcatEmptySeq
  <2> QED
    BY <2>1, <2>2 DEF InsertAt
<1>4. s \o InsertAt(t, 1, e) = InsertAt(s \o t, Len(s) + 1, e)
  <2>1. 1 \in 1 .. Len(t) + 1
    BY LenProperties
  <2> QED
    BY <2>1, ConcatInsertAt
<1> QED
  BY <1>1, <1>2, <1>3, <1>4

(* Moving the head of the second part to the end of the first part leaves  *)
(* the concatenation as it was.                                            *)
LEMMA MoveHead ==
  ASSUME NEW S, NEW s \in Seq(S), NEW t \in Seq(S), t # <<>>
  PROVE  Append(s, Head(t)) \o Tail(t) = s \o t
<1>1. Head(t) \in S /\ Tail(t) \in Seq(S) /\ <<Head(t)>> \in Seq(S)
  BY HeadTailProperties
<1>2. t = <<Head(t)>> \o Tail(t)
  <2>1. Len(t) \in Nat \ {0} /\ SubSeq(t, 1, Len(t)) = t /\ Tail(t) = SubSeq(t, 2, Len(t))
    BY EmptySeq, SubSeqFull, TailIsSubSeq
  <2>2. SubSeq(t, 1, Len(t)) = <<t[1]>> \o SubSeq(t, 1 + 1, Len(t))
    BY <2>1, SubSeqRecursiveFirst
  <2> QED
    BY <2>1, <2>2, HeadTailProperties
<1>3. Append(s, Head(t)) = s \o <<Head(t)>>
  BY <1>1, AppendIsConcat
<1> QED
  BY <1>1, <1>2, <1>3, ConcatAssociative
-----------------------------------------------------------------------------
(* What is sent comes from one goroutine at a time, the one that has the   *)
(* lock.  One that Close has interrupted keeps it, with nothing to send.   *)
LockInv ==
  /\ \A r \in Requests : phase[r] \in {"sending", "panicked", "hung"} => lock = r
  /\ \A r \in Requests : phase[r] = "sending" => outgoing # NoRequest
  /\ outgoing # NoRequest => lock # NoRequest /\ ~Interrupted
  /\ Interrupted => field # "open"

(* lastCounter is the counter of the last message sent, or of the one that *)
(* was lost.                                                               *)
CounterInv ==
  ~Interrupted => lastCounter = IF Sent = <<>> THEN 0 ELSE Counter[Sent[Len(Sent)]]

TypeInv == TypeOK /\ LockInv

(* The inductive invariant.                                                *)
IInv ==
  /\ TypeInv
  /\ CounterInv
  /\ NeverSkips
  /\ SortedByCounter(deferred)
  /\ OnlyCloseLoses
  /\ DeliveredInOrder
  /\ NoReadyMessageDeferred
-----------------------------------------------------------------------------
(* Types need LockInv: a send appends `outgoing', which must be a message. *)
LEMMA TypeInvInit == Init => TypeInv
BY ChannelSizeAssumption DEF Init, TypeInv, TypeOK, LockInv, Interrupted, Phases

LEMMA TypeInvStep == TypeInv /\ [Next]_vars => TypeInv'
<1> SUFFICES ASSUME TypeInv, [Next]_vars PROVE TypeInv'
  OBVIOUS
<1> USE DEF TypeInv, TypeOK, LockInv, Interrupted, Phases
<1>1. ASSUME NEW r \in Requests, Accept(r) PROVE TypeInv'
  BY <1>1 DEF Accept
<1>2. ASSUME NEW r \in Requests, DeferMessage(r) PROVE TypeInv'
  <2>1. PICK i \in 1 .. Len(deferred) + 1 : deferred' = InsertAt(deferred, i, r)
    BY <1>2 DEF DeferMessage
  <2>2. deferred' \in Seq(Requests)
    BY <2>1, InsertAtElements
  <2> QED
    BY <1>2, <2>2 DEF DeferMessage
<1>3. ASSUME NEW r \in Requests, TakeMessage(r) PROVE TypeInv'
  BY <1>3, CounterAssumption, NoRequestAssumption DEF TakeMessage
<1>4. ASSUME NEW r \in Requests, SendAndContinue(r) PROVE TypeInv'
  <2>1. Head(deferred) \in Requests /\ Tail(deferred) \in Seq(Requests)
    BY <1>4, HeadTailProperties DEF SendAndContinue, HeadComesNext
  <2>2. outgoing \in Requests /\ lock # NoRequest
    BY <1>4, NoRequestAssumption DEF SendAndContinue
  <2>3. C' \in Seq(Requests) /\ Len(C') <= ChannelSize
    BY <1>4, <2>2, AppendProperties, ChannelSizeAssumption DEF SendAndContinue, CanSend
  <2> QED
    BY <1>4, <2>1, <2>2, <2>3, NoRequestAssumption DEF SendAndContinue
<1>5. ASSUME NEW r \in Requests, SendAndReturn(r) PROVE TypeInv'
  <2>1. outgoing \in Requests /\ lock = r
    BY <1>5, NoRequestAssumption DEF SendAndReturn
  <2>2. C' \in Seq(Requests) /\ Len(C') <= ChannelSize
    BY <1>5, <2>1, AppendProperties, ChannelSizeAssumption DEF SendAndReturn, CanSend
  <2> QED
    BY <1>5, <2>1, <2>2 DEF SendAndReturn
<1>6. ASSUME NEW r \in Requests, SendPanics(r) PROVE TypeInv'
  BY <1>6 DEF SendPanics
<1>7. ASSUME NEW r \in Requests, SendHangs(r) PROVE TypeInv'
  BY <1>7 DEF SendHangs
<1>8. ASSUME CloseChannel PROVE TypeInv'
  BY <1>8 DEF CloseChannel
<1>9. ASSUME ClearField PROVE TypeInv'
  BY <1>9 DEF ClearField
<1>10. ASSUME Receive PROVE TypeInv'
  <2>1. Head(C) \in Requests /\ Tail(C) \in Seq(Requests) /\ Len(Tail(C)) = Len(C) - 1
    BY <1>10, HeadTailProperties DEF Receive
  <2>2. Len(C) \in Nat
    BY LenProperties
  <2> QED
    BY <1>10, <2>1, <2>2, ChannelSizeAssumption DEF Receive
<1>11. ASSUME UNCHANGED vars PROVE TypeInv'
  BY <1>11 DEF vars
<1> QED
  BY <1>1, <1>2, <1>3, <1>4, <1>5, <1>6, <1>7, <1>8, <1>9, <1>10, <1>11
  DEF Next, AcceptStep

(* The variables always have their types, and only the goroutine that      *)
(* holds the lock is about to send something: the state of the queue, and  *)
(* the message in the hand of a goroutine, make sense in every interleaving*)
THEOREM TypeCorrect == Spec => []TypeOK
<1>1. TypeInv => TypeOK
  BY DEF TypeInv
<1> QED
  BY <1>1, TypeInvInit, TypeInvStep, PTL DEF Spec
-----------------------------------------------------------------------------
(* What the steps do to the messages sent: only two of them add one, the   *)
(* others leave the sequence as it is, though a message may move from the  *)
(* hand of the goroutine to the channel and from there to the reader.      *)
LEMMA SentTypes ==
  ASSUME TypeInv
  PROVE  /\ Sent \in Seq(Requests) /\ Len(Sent) \in Nat
         /\ received \o C \in Seq(Requests)
         /\ Places = Sent \o deferred /\ Places \in Seq(Requests)
         /\ DOMAIN Places = 1 .. Len(Sent) + Len(deferred)
         /\ Len(deferred) \in Nat
         /\ \A i \in 1 .. Len(Sent) : Places[i] = Sent[i]
         /\ \A i \in 1 .. Len(deferred) : Places[Len(Sent) + i] = deferred[i]
<1> USE DEF TypeInv, TypeOK
<1>1. received \o C \in Seq(Requests) /\ Outgoing \in Seq(Requests)
  BY ConcatProperties DEF Outgoing
<1>2. Sent \in Seq(Requests)
  BY <1>1, ConcatProperties DEF Sent
<1>3. /\ Places \in Seq(Requests)
      /\ Len(Places) = Len(Sent) + Len(deferred)
      /\ \A i \in 1 .. Len(Sent) + Len(deferred) :
           Places[i] = IF i <= Len(Sent) THEN Sent[i] ELSE deferred[i - Len(Sent)]
  BY <1>2, ConcatProperties DEF Places
<1>4. Len(Sent) \in Nat /\ Len(deferred) \in Nat /\ DOMAIN Places = 1 .. Len(Places)
  BY <1>2, <1>3, LenProperties
<1>5. ASSUME NEW i \in 1 .. Len(Sent) PROVE Places[i] = Sent[i]
  BY <1>3, <1>4
<1>6. ASSUME NEW i \in 1 .. Len(deferred) PROVE Places[Len(Sent) + i] = deferred[i]
  <2>1. /\ Len(Sent) + i \in 1 .. Len(Sent) + Len(deferred)
        /\ ~(Len(Sent) + i <= Len(Sent)) /\ (Len(Sent) + i) - Len(Sent) = i
    BY <1>4
  <2> QED
    BY <1>3, <2>1
<1> QED
  BY <1>1, <1>2, <1>3, <1>4, <1>5, <1>6 DEF Places

LEMMA SentByTake ==
  ASSUME TypeInv, NEW r \in Requests, TakeMessage(r)
  PROVE  Sent' = Append(Sent, r)
<1>1. Outgoing = <<>> /\ Outgoing' = <<r>>
  BY NoRequestAssumption DEF TakeMessage, Outgoing, TypeInv, LockInv
<1>2. received \o C \in Seq(Requests)
  BY SentTypes
<1> QED
  BY <1>1, <1>2, ConcatEmptySeq, AppendIsConcat DEF Sent, TakeMessage

(* What is in the hand goes to the end of the channel.                     *)
LEMMA HandToChannel ==
  ASSUME TypeInv, outgoing # NoRequest, C' = Append(C, outgoing), received' = received
  PROVE  (received \o C)' = Sent
<1>1. outgoing \in Requests /\ received \in Seq(Requests) /\ C \in Seq(Requests)
  BY DEF TypeInv, TypeOK
<1>2. Append(C, outgoing) = C \o <<outgoing>> /\ <<outgoing>> \in Seq(Requests)
  BY <1>1, AppendIsConcat
<1>3. received \o (C \o <<outgoing>>) = (received \o C) \o <<outgoing>>
  BY <1>1, <1>2, ConcatAssociative
<1> QED
  BY <1>2, <1>3 DEF Sent, Outgoing

LEMMA SentByContinue ==
  ASSUME TypeInv, NEW r \in Requests, SendAndContinue(r)
  PROVE  Sent' = Append(Sent, Head(deferred))
<1>1. outgoing # NoRequest
  BY NoRequestAssumption DEF SendAndContinue, TypeInv, LockInv
<1>2. (received \o C)' = Sent
  BY <1>1, HandToChannel DEF SendAndContinue
<1>3. Head(deferred) \in Requests
  BY HeadTailProperties DEF SendAndContinue, HeadComesNext, TypeInv, TypeOK
<1>4. Outgoing' = <<Head(deferred)>>
  BY <1>3, NoRequestAssumption DEF SendAndContinue, Outgoing
<1>5. Append(Sent, Head(deferred)) = Sent \o <<Head(deferred)>>
  BY <1>3, SentTypes, AppendIsConcat
<1> QED
  BY <1>2, <1>4, <1>5 DEF Sent

LEMMA SentByReturn ==
  ASSUME TypeInv, NEW r \in Requests, SendAndReturn(r)
  PROVE  Sent' = Sent
<1>1. outgoing # NoRequest
  BY NoRequestAssumption DEF SendAndReturn, TypeInv, LockInv
<1>2. (received \o C)' = Sent
  BY <1>1, HandToChannel DEF SendAndReturn
<1>3. Outgoing' = <<>>
  BY DEF SendAndReturn, Outgoing
<1> QED
  BY <1>2, <1>3, SentTypes, ConcatEmptySeq DEF Sent

LEMMA SentByReceive ==
  ASSUME TypeInv, Receive
  PROVE  Sent' = Sent
<1>1. (received \o C)' = received \o C
  BY MoveHead DEF Receive, TypeInv, TypeOK
<1> QED
  BY <1>1 DEF Sent, Outgoing, Receive

(* A send that Close interrupts takes the last message away.               *)
LoseStep ==
  /\ \E m \in Requests : Sent = Append(Sent', m)
  /\ Sent' \in Seq(Requests)
  /\ UNCHANGED <<deferred, Accepted>>
  /\ lock' # NoRequest /\ ~Interrupted /\ Interrupted' /\ field' # "open"

LEMMA SentByInterrupted ==
  ASSUME TypeInv, NEW r \in Requests, SendPanics(r) \/ SendHangs(r)
  PROVE  LoseStep
<1>1. /\ phase[r] = "sending" /\ lock = r /\ outgoing # NoRequest /\ outgoing' = NoRequest
      /\ phase' = [phase EXCEPT ![r] = "panicked"] \/ phase' = [phase EXCEPT ![r] = "hung"]
      /\ UNCHANGED <<C, field, deferred, lock, received>> /\ field # "open"
  BY DEF SendPanics, SendHangs, TypeInv, LockInv
<1>2. /\ outgoing \in Requests /\ received \o C \in Seq(Requests)
      /\ phase \in [Requests -> Phases]
  BY <1>1, SentTypes DEF TypeInv, TypeOK
<1>3. Sent' = received \o C
  BY <1>1, <1>2, ConcatEmptySeq DEF Sent, Outgoing
<1>4. Sent = Append(Sent', outgoing)
  BY <1>1, <1>2, <1>3, AppendIsConcat DEF Sent, Outgoing
<1>5. Accepted' = Accepted
  BY <1>1, <1>2 DEF Accepted, Phases
<1>6. ~Interrupted /\ Interrupted'
  BY <1>1, <1>2 DEF TypeInv, LockInv, Interrupted, Phases
<1> QED
  BY <1>1, <1>2, <1>3, <1>4, <1>5, <1>6, NoRequestAssumption DEF LoseStep
-----------------------------------------------------------------------------
(* While nobody holds the lock, or its holder is about to send, no call    *)
(* has been interrupted.                                                   *)
LEMMA NotInterrupted ==
  ASSUME TypeInv, lock = NoRequest \/ \E r \in Requests : phase[r] = "sending"
  PROVE  ~Interrupted
BY NoRequestAssumption DEF TypeInv, LockInv, Interrupted

(* The numbers of the messages sent.                                       *)
LEMMA SkipAppend ==
  ASSUME TypeInv, CounterInv, NeverSkips, ~Interrupted,
         NEW m \in Requests, Counter[m] <= lastCounter + 1,
         lastCounter' = Counter[m], Sent' = Append(Sent, m)
  PROVE  CounterInv' /\ NeverSkips'
<1> DEFINE n == Len(Sent)
<1>1. Sent \in Seq(Requests) /\ n \in Nat
  BY SentTypes
<1>2. /\ Sent' # <<>> /\ Len(Sent') = n + 1
      /\ \A i \in 1 .. n : Sent'[i] = Sent[i]
      /\ Sent'[n + 1] = m
  BY <1>1, AppendProperties
<1>3. CounterInv'
  BY <1>2 DEF CounterInv
<1>4. ASSUME NEW i \in 1 .. n + 1
      PROVE  Counter[Sent'[i]] <= 1 + (IF i = 1 THEN 0 ELSE Counter[Sent'[i-1]])
  <2>1. CASE i <= n
    <3>1. Counter[Sent[i]] <= 1 + (IF i = 1 THEN 0 ELSE Counter[Sent[i-1]])
      BY <1>1, <2>1 DEF NeverSkips
    <3> QED
      BY <1>1, <1>2, <2>1, <3>1
  <2>2. CASE i = n + 1 /\ n = 0
    <3>1. Sent = <<>>
      BY <1>1, <2>2, EmptySeq
    <3> QED
      BY <1>2, <2>2, <3>1 DEF CounterInv
  <2>3. CASE i = n + 1 /\ n # 0
    <3>1. Sent # <<>> /\ lastCounter = Counter[Sent[n]]
      BY <1>1, <2>3, EmptySeq DEF CounterInv
    <3>2. i # 1 /\ i - 1 = n /\ n \in 1 .. n
      BY <1>1, <2>3
    <3>3. Sent'[i-1] = Sent[n]
      BY <1>2, <3>2
    <3>4. Counter[Sent'[i]] <= lastCounter + 1
      BY <1>2, <2>3
    <3>5. Counter[Sent[n]] \in Int
      BY <1>1, <3>2, ElementOfSeq, CounterAssumption
    <3> QED
      BY <3>1, <3>2, <3>3, <3>4, <3>5
  <2> QED
    BY <1>1, <2>1, <2>2, <2>3
<1> QED
  BY <1>2, <1>3, <1>4 DEF NeverSkips

LEMMA SkipSame ==
  ASSUME CounterInv, NeverSkips, Sent' = Sent, lastCounter' = lastCounter,
         Interrupted => Interrupted'
  PROVE  CounterInv' /\ NeverSkips'
BY DEF CounterInv, NeverSkips

LEMMA SkipLose ==
  ASSUME NeverSkips, LoseStep
  PROVE  CounterInv' /\ NeverSkips'
<1>1. PICK m \in Requests : Sent = Append(Sent', m)
  BY DEF LoseStep
<1>2. /\ Len(Sent') \in Nat /\ Len(Sent) = Len(Sent') + 1
      /\ \A i \in 1 .. Len(Sent') : Sent[i] = Sent'[i]
  BY <1>1, AppendProperties, LenProperties DEF LoseStep
<1>3. ASSUME NEW i \in 1 .. Len(Sent')
      PROVE  Counter[Sent'[i]] <= 1 + (IF i = 1 THEN 0 ELSE Counter[Sent'[i-1]])
  <2>1. /\ i \in 1 .. Len(Sent) /\ Sent[i] = Sent'[i]
        /\ i # 1 => Sent[i-1] = Sent'[i-1]
    BY <1>2
  <2>2. Counter[Sent[i]] <= 1 + (IF i = 1 THEN 0 ELSE Counter[Sent[i-1]])
    BY <2>1 DEF NeverSkips
  <2> QED
    BY <2>1, <2>2
<1> QED
  BY <1>3 DEF NeverSkips, CounterInv, LoseStep

LEMMA SkipStep ==
  ASSUME TypeInv, CounterInv, NeverSkips, [Next]_vars
  PROVE  CounterInv' /\ NeverSkips'
<1> USE DEF Sent, Outgoing
<1>0. phase \in [Requests -> Phases]
  BY DEF TypeInv, TypeOK
<1>1. ASSUME NEW r \in Requests, Accept(r) PROVE CounterInv' /\ NeverSkips'
  BY <1>0, <1>1, SkipSame DEF Accept, Interrupted
<1>2. ASSUME NEW r \in Requests, DeferMessage(r) PROVE CounterInv' /\ NeverSkips'
  BY <1>0, <1>2, SkipSame DEF DeferMessage, Interrupted
<1>3. ASSUME NEW r \in Requests, TakeMessage(r) PROVE CounterInv' /\ NeverSkips'
  <2>1. Counter[r] <= lastCounter + 1 /\ lastCounter' = Counter[r]
    BY <1>3, CounterAssumption DEF TakeMessage, HasGap, TypeInv, TypeOK
  <2> HIDE DEF Sent
  <2> QED
    BY <1>3, <2>1, SentByTake, SkipAppend, NotInterrupted DEF TakeMessage
<1>4. ASSUME NEW r \in Requests, SendAndContinue(r) PROVE CounterInv' /\ NeverSkips'
  <2>1. /\ Head(deferred) \in Requests
        /\ Counter[Head(deferred)] = lastCounter + 1
        /\ lastCounter' = Counter[Head(deferred)]
    BY <1>4, HeadTailProperties
    DEF SendAndContinue, HeadComesNext, TypeInv, TypeOK
  <2>2. Counter[Head(deferred)] <= lastCounter + 1
    BY <2>1, CounterAssumption
  <2> HIDE DEF Sent
  <2> QED
    BY <1>4, <2>1, <2>2, SentByContinue, SkipAppend, NotInterrupted DEF SendAndContinue
<1>5. ASSUME NEW r \in Requests, SendAndReturn(r) PROVE CounterInv' /\ NeverSkips'
  <2> HIDE DEF Sent
  <2> QED
    BY <1>0, <1>5, SentByReturn, SkipSame DEF SendAndReturn, Interrupted
<1>6. ASSUME NEW r \in Requests, SendPanics(r) PROVE CounterInv' /\ NeverSkips'
  BY <1>6, SentByInterrupted, SkipLose
<1>7. ASSUME NEW r \in Requests, SendHangs(r) PROVE CounterInv' /\ NeverSkips'
  BY <1>7, SentByInterrupted, SkipLose
<1>8. ASSUME CloseChannel PROVE CounterInv' /\ NeverSkips'
  BY <1>8, SkipSame DEF CloseChannel, Interrupted
<1>9. ASSUME ClearField PROVE CounterInv' /\ NeverSkips'
  BY <1>9, SkipSame DEF ClearField, Interrupted
<1>10. ASSUME Receive PROVE CounterInv' /\ NeverSkips'
  <2> HIDE DEF Sent
  <2> QED
    BY <1>10, SentByReceive, SkipSame DEF Receive, Interrupted
<1>11. ASSUME UNCHANGED vars PROVE CounterInv' /\ NeverSkips'
  BY <1>11, SkipSame DEF vars, Interrupted
<1> QED
  BY <1>1, <1>2, <1>3, <1>4, <1>5, <1>6, <1>7, <1>8, <1>9, <1>10, <1>11
  DEF Next, AcceptStep

LEMMA SkipInit == Init => CounterInv /\ NeverSkips
<1> SUFFICES ASSUME Init PROVE CounterInv /\ NeverSkips
  OBVIOUS
<1>1. Sent = <<>>
  <2>1. <<>> \in Seq(Requests)
    BY EmptySeq
  <2> QED
    BY <2>1, ConcatEmptySeq DEF Init, Sent, Outgoing
<1> QED
  BY <1>1 DEF Init, CounterInv, NeverSkips

(* Accept never sends a message ahead of a gap, whatever the requests and  *)
(* their counters are and however their goroutines interleave.             *)
THEOREM NoGap == Spec => []NeverSkips
<1>1. Init => TypeInv /\ CounterInv /\ NeverSkips
  BY TypeInvInit, SkipInit
<1>2. TypeInv /\ CounterInv /\ NeverSkips /\ [Next]_vars
        => TypeInv' /\ CounterInv' /\ NeverSkips'
  BY TypeInvStep, SkipStep
<1> QED
  BY <1>1, <1>2, PTL DEF Spec
-----------------------------------------------------------------------------
(* The steps that neither send or lose a message nor defer one.            *)
QuietStep ==
  /\ UNCHANGED <<Sent, deferred, lastCounter, Accepted>>
  /\ lock' = lock \/ (~HeadComesNext /\ ~Interrupted)
  /\ Interrupted => Interrupted'

LEMMA StepKinds ==
  ASSUME TypeInv, [Next]_vars
  PROVE  \/ \E r \in Requests : DeferMessage(r)
         \/ \E r \in Requests : TakeMessage(r)
         \/ \E r \in Requests : SendAndContinue(r)
         \/ LoseStep
         \/ QuietStep
<1> USE DEF QuietStep, Accepted, Interrupted, TypeInv, TypeOK, Phases
<1>1. ASSUME NEW r \in Requests, Accept(r) PROVE QuietStep
  BY <1>1 DEF Accept, Sent, Outgoing
<1>2. ASSUME NEW r \in Requests, SendAndReturn(r) PROVE QuietStep
  <2>1. Sent' = Sent /\ ~Interrupted
    BY <1>2, SentByReturn, NotInterrupted DEF SendAndReturn
  <2> QED
    BY <1>2, <2>1 DEF SendAndReturn
<1>3. ASSUME NEW r \in Requests, SendPanics(r) PROVE LoseStep
  BY <1>3, SentByInterrupted
<1>4. ASSUME NEW r \in Requests, SendHangs(r) PROVE LoseStep
  BY <1>4, SentByInterrupted
<1>5. ASSUME CloseChannel PROVE QuietStep
  BY <1>5 DEF CloseChannel, Sent, Outgoing
<1>6. ASSUME ClearField PROVE QuietStep
  BY <1>6 DEF ClearField, Sent, Outgoing
<1>7. ASSUME Receive PROVE QuietStep
  BY <1>7, SentByReceive DEF Receive
<1>8. ASSUME UNCHANGED vars PROVE QuietStep
  BY <1>8 DEF vars, Sent, Outgoing
<1> QED
  BY <1>1, <1>2, <1>3, <1>4, <1>5, <1>6, <1>7, <1>8 DEF Next, AcceptStep

(* Conservation.  A message that Accept gets hold of is in no place yet,   *)
(* and is put in one; the others move from one place to another.           *)
LEMMA NewPlace ==
  ASSUME TypeInv, OnlyCloseLoses, ~Interrupted, NEW r \in Requests,
         phase[r] = "locking", phase'[r] \notin {"notCalled", "locking"},
         \A q \in Requests \ {r} : phase'[q] = phase[q],
         NEW i \in 1 .. Len(Places) + 1, Places' = InsertAt(Places, i, r)
  PROVE  OnlyCloseLoses'
<1>1. Places \in Seq(Requests)
  BY SentTypes
<1>2. IsInjective(Places) /\ ToSet(Places) \subseteq Accepted /\ r \notin ToSet(Places)
  BY DEF OnlyCloseLoses, Accepted
<1>3. IsInjective(Places') /\ ToSet(Places') = ToSet(Places) \cup {r}
  BY <1>1, <1>2, InsertAtNew
<1>4. Accepted' = Accepted \cup {r}
  BY DEF Accepted
<1>5. Lost = {}
  BY DEF OnlyCloseLoses
<1>6. Lost' = {}
  BY <1>3, <1>4, <1>5 DEF Lost
<1> QED
  BY <1>2, <1>3, <1>4, <1>6 DEF OnlyCloseLoses

LEMMA ConservationStep ==
  ASSUME TypeInv, OnlyCloseLoses, [Next]_vars
  PROVE  OnlyCloseLoses'
<1>0. /\ Sent \in Seq(Requests) /\ Len(Sent) \in Nat /\ Len(deferred) \in Nat
      /\ Places = Sent \o deferred /\ Len(Places) = Len(Sent) + Len(deferred)
      /\ deferred \in Seq(Requests)
  BY SentTypes, ConcatProperties DEF TypeInv, TypeOK
<1>1. ASSUME NEW r \in Requests, DeferMessage(r) PROVE OnlyCloseLoses'
  <2>1. PICK i \in 1 .. Len(deferred) + 1 : deferred' = InsertAt(deferred, i, r)
    BY <1>1 DEF DeferMessage
  <2>2. Sent' = Sent
    BY <1>1 DEF DeferMessage, Sent, Outgoing
  <2>3. Places' = InsertAt(Places, Len(Sent) + i, r)
    <3>1. Sent \o InsertAt(deferred, i, r) = InsertAt(Sent \o deferred, Len(Sent) + i, r)
      BY <1>0, ConcatInsertAt
    <3> QED
      BY <2>1, <2>2, <3>1 DEF Places
  <2>4. Len(Sent) + i \in 1 .. Len(Places) + 1
    BY <1>0
  <2>5. /\ phase[r] = "locking" /\ phase'[r] = "returned"
        /\ \A q \in Requests \ {r} : phase'[q] = phase[q]
    BY <1>1 DEF DeferMessage, TypeInv, TypeOK
  <2>6. ~Interrupted
    BY <1>1, NotInterrupted DEF DeferMessage
  <2> QED
    BY <2>3, <2>4, <2>5, <2>6, NewPlace
<1>2. ASSUME NEW r \in Requests, TakeMessage(r) PROVE OnlyCloseLoses'
  <2>1. Sent' = Append(Sent, r) /\ deferred' = deferred
    BY <1>2, SentByTake DEF TakeMessage
  <2>2. Places' = InsertAt(Places, Len(Sent) + 1, r)
    BY <1>0, <2>1, AppendConcat DEF Places
  <2>3. Len(Sent) + 1 \in 1 .. Len(Places) + 1
    BY <1>0
  <2>4. /\ phase[r] = "locking" /\ phase'[r] = "sending"
        /\ \A q \in Requests \ {r} : phase'[q] = phase[q]
    BY <1>2 DEF TakeMessage, TypeInv, TypeOK
  <2>5. ~Interrupted
    BY <1>2, NotInterrupted DEF TakeMessage
  <2> QED
    BY <2>2, <2>3, <2>4, <2>5, NewPlace
<1>3. ASSUME NEW r \in Requests, SendAndContinue(r) PROVE OnlyCloseLoses'
  <2>1. Sent' = Append(Sent, Head(deferred)) /\ deferred' = Tail(deferred)
    BY <1>3, SentByContinue DEF SendAndContinue
  <2>2. Places' = Places
    BY <1>0, <1>3, <2>1, MoveHead DEF Places, SendAndContinue, HeadComesNext
  <2>3. phase' = phase /\ field' = field
    BY <1>3 DEF SendAndContinue
  <2> QED
    BY <2>2, <2>3 DEF OnlyCloseLoses, Lost, Accepted, Interrupted
<1>4. ASSUME LoseStep PROVE OnlyCloseLoses'
  <2>1. PICK m \in Requests : Sent = Append(Sent', m)
    BY <1>4 DEF LoseStep
  <2>2. Sent' \in Seq(Requests) /\ deferred' = deferred /\ Len(Sent') \in Nat
    BY <1>4, LenProperties DEF LoseStep
  <2>3. Places' \in Seq(Requests) /\ Len(Sent') + 1 \in 1 .. Len(Places') + 1
    BY <1>0, <2>2, ConcatProperties DEF Places
  <2>4. Places = InsertAt(Places', Len(Sent') + 1, m)
    BY <1>0, <2>1, <2>2, AppendConcat DEF Places
  <2>5. IsInjective(Places') /\ ToSet(Places) = ToSet(Places') \cup {m}
    <3> DEFINE p == Places'
    <3>1. p \in Seq(Requests) /\ Len(Sent') + 1 \in 1 .. Len(p) + 1
          /\ Places = InsertAt(p, Len(Sent') + 1, m)
      BY <2>3, <2>4
    <3> HIDE DEF p
    <3>2. IsInjective(InsertAt(p, Len(Sent') + 1, m))
      BY <3>1 DEF OnlyCloseLoses
    <3>3. IsInjective(p) /\ ToSet(Places) = ToSet(p) \cup {m}
      BY <3>1, <3>2, InsertAtOld
    <3> QED
      BY <3>3 DEF p
  <2>6. Lost = {} /\ Accepted' = Accepted
    BY <1>4 DEF OnlyCloseLoses, LoseStep
  <2>7. Lost' \subseteq {m} /\ ToSet(Places') \subseteq Accepted'
    BY <2>5, <2>6 DEF Lost, OnlyCloseLoses
  <2> QED
    BY <1>4, <2>5, <2>7 DEF LoseStep, OnlyCloseLoses
<1>5. ASSUME QuietStep PROVE OnlyCloseLoses'
  <2>1. Places' = Places /\ Lost' = Lost /\ Accepted' = Accepted
    BY <1>5 DEF QuietStep, Places, Lost
  <2>2. Interrupted' => field' # "open"
    BY TypeInvStep DEF TypeInv, LockInv
  <2> QED
    BY <1>5, <2>1, <2>2 DEF QuietStep, OnlyCloseLoses
<1> QED
  BY <1>1, <1>2, <1>3, <1>4, <1>5, StepKinds
-----------------------------------------------------------------------------
(* Order.  With well-numbered callbacks the messages sent are the first    *)
(* lastCounter ones, so any other message has a higher number.             *)
LEMMA Numbers ==
  ASSUME TypeInv, CounterInv, DeliveredInOrder, UniqueCounters, ~Interrupted
  PROVE  /\ lastCounter = Len(Sent)
         /\ \A r \in Requests :
              (\A i \in 1 .. Len(Sent) : Sent[i] # r) => Counter[r] > lastCounter
<1>1. Sent \in Seq(Requests) /\ Len(Sent) \in Nat
  BY SentTypes
<1>2. \A i \in 1 .. Len(Sent) : Sent[i] \in Requests /\ Counter[Sent[i]] = i
  BY <1>1, ElementOfSeq DEF DeliveredInOrder
<1>3. lastCounter = Len(Sent)
  <2>1. CASE Sent = <<>>
    BY <2>1 DEF CounterInv
  <2>2. CASE Sent # <<>>
    <3>1. Len(Sent) \in 1 .. Len(Sent)
      BY <1>1, <2>2, EmptySeq
    <3> QED
      BY <1>2, <2>2, <3>1 DEF CounterInv
  <2> QED
    BY <2>1, <2>2
<1>4. ASSUME NEW r \in Requests, \A i \in 1 .. Len(Sent) : Sent[i] # r
      PROVE  Counter[r] > lastCounter
  <2>1. Counter[r] \in Int /\ Counter[r] > 0
    BY CounterAssumption DEF UniqueCounters
  <2>2. CASE Counter[r] <= lastCounter
    <3>1. Counter[r] \in 1 .. Len(Sent)
      BY <1>1, <1>3, <2>1, <2>2
    <3>2. Counter[Sent[Counter[r]]] = Counter[r] /\ Sent[Counter[r]] \in Requests
      BY <1>2, <3>1
    <3>3. Sent[Counter[r]] = r
      BY <3>2 DEF UniqueCounters
    <3> QED
      BY <1>4, <3>1, <3>3
  <2> QED
    BY <1>1, <1>3, <2>1, <2>2
<1> QED
  BY <1>3, <1>4

(* A message that was not taken, and one that is deferred, was not sent.   *)
LEMMA NotSent ==
  ASSUME TypeInv, OnlyCloseLoses
  PROVE  /\ \A r \in Requests : phase[r] = "locking" =>
              \A i \in 1 .. Len(Sent) : Sent[i] # r
         /\ \A j \in 1 .. Len(deferred) : \A i \in 1 .. Len(Sent) :
              Sent[i] # deferred[j]
<1>1. ASSUME NEW i \in 1 .. Len(Sent)
      PROVE  /\ i \in DOMAIN Places /\ Places[i] = Sent[i]
             /\ phase[Sent[i]] # "locking"
  <2>1. i \in DOMAIN Places /\ Places[i] = Sent[i]
    BY SentTypes
  <2>2. Sent[i] \in ToSet(Places)
    BY <2>1 DEF ToSet
  <2> QED
    BY <2>1, <2>2 DEF OnlyCloseLoses, Accepted
<1>2. ASSUME NEW i \in 1 .. Len(Sent), NEW j \in 1 .. Len(deferred)
      PROVE  Sent[i] # deferred[j]
  <2>1. /\ Len(Sent) + j \in DOMAIN Places /\ Places[Len(Sent) + j] = deferred[j]
        /\ Len(Sent) + j # i
    BY SentTypes
  <2> QED
    BY <1>1, <2>1 DEF OnlyCloseLoses, IsInjective
<1> QED
  BY <1>1, <1>2

LEMMA OrderAppend ==
  ASSUME TypeInv, DeliveredInOrder, NEW m \in Requests, Sent' = Append(Sent, m),
         UniqueCounters => Counter[m] = Len(Sent) + 1
  PROVE  DeliveredInOrder'
<1>1. Sent \in Seq(Requests) /\ Len(Sent) \in Nat
  BY SentTypes
<1>2. /\ Len(Sent') = Len(Sent) + 1
      /\ \A i \in 1 .. Len(Sent) : Sent'[i] = Sent[i]
      /\ Sent'[Len(Sent) + 1] = m
  BY <1>1, AppendProperties
<1>3. ASSUME UniqueCounters, NEW i \in 1 .. Len(Sent) + 1
      PROVE  Counter[Sent'[i]] = i
  <2>1. CASE i \in 1 .. Len(Sent)
    BY <1>2, <1>3, <2>1 DEF DeliveredInOrder
  <2>2. CASE i = Len(Sent) + 1
    BY <1>2, <1>3, <2>2
  <2> QED
    BY <1>1, <2>1, <2>2
<1> QED
  BY <1>2, <1>3 DEF DeliveredInOrder, UniqueCounters

LEMMA OrderStep ==
  ASSUME TypeInv, CounterInv, OnlyCloseLoses, DeliveredInOrder, [Next]_vars
  PROVE  DeliveredInOrder'
<1>1. ASSUME NEW r \in Requests, DeferMessage(r) PROVE DeliveredInOrder'
  <2>1. Sent' = Sent
    BY <1>1 DEF DeferMessage, Sent, Outgoing
  <2> QED
    BY <2>1 DEF DeliveredInOrder, UniqueCounters
<1>2. ASSUME NEW r \in Requests, TakeMessage(r) PROVE DeliveredInOrder'
  <2>1. ASSUME UniqueCounters PROVE Counter[r] = Len(Sent) + 1
    <3>1. lastCounter = Len(Sent) /\ Counter[r] > lastCounter
      BY <1>2, <2>1, Numbers, NotSent, NotInterrupted DEF TakeMessage
    <3>2. ~(Counter[r] > lastCounter + 1)
      BY <1>2 DEF TakeMessage, HasGap
    <3> QED
      BY <3>1, <3>2, SentTypes, CounterAssumption
  <2> QED
    BY <1>2, <2>1, SentByTake, OrderAppend
<1>3. ASSUME NEW r \in Requests, SendAndContinue(r) PROVE DeliveredInOrder'
  <2>1. Head(deferred) \in Requests /\ Counter[Head(deferred)] = lastCounter + 1
    BY <1>3, HeadTailProperties
    DEF SendAndContinue, HeadComesNext, TypeInv, TypeOK
  <2>2. UniqueCounters => Counter[Head(deferred)] = Len(Sent) + 1
    BY <1>3, <2>1, Numbers, NotInterrupted DEF SendAndContinue
  <2> QED
    BY <1>3, <2>1, <2>2, SentByContinue, OrderAppend
<1>4. ASSUME LoseStep PROVE DeliveredInOrder'
  <2>1. PICK m \in Requests : Sent = Append(Sent', m)
    BY <1>4 DEF LoseStep
  <2>2. /\ Len(Sent') \in Nat /\ Len(Sent) = Len(Sent') + 1
        /\ \A i \in 1 .. Len(Sent') : Sent[i] = Sent'[i]
    BY <1>4, <2>1, AppendProperties, LenProperties DEF LoseStep
  <2>3. \A i \in 1 .. Len(Sent') : i \in 1 .. Len(Sent)
    BY <2>2
  <2> QED
    BY <2>2, <2>3 DEF DeliveredInOrder, UniqueCounters
<1>5. ASSUME QuietStep PROVE DeliveredInOrder'
  BY <1>5 DEF QuietStep, DeliveredInOrder, UniqueCounters
<1> QED
  BY <1>1, <1>2, <1>3, <1>4, <1>5, StepKinds
-----------------------------------------------------------------------------
(* The deferred messages.                                                  *)
LEMMA SortedStep ==
  ASSUME TypeInv, SortedByCounter(deferred), [Next]_vars
  PROVE  SortedByCounter(deferred)'
<1>1. ASSUME NEW r \in Requests, DeferMessage(r) PROVE SortedByCounter(deferred)'
  BY <1>1 DEF DeferMessage, SortedByCounter
<1>2. ASSUME NEW r \in Requests, TakeMessage(r) PROVE SortedByCounter(deferred)'
  BY <1>2 DEF TakeMessage, SortedByCounter
<1>3. ASSUME NEW r \in Requests, SendAndContinue(r) PROVE SortedByCounter(deferred)'
  <2>1. deferred' = Tail(deferred) /\ deferred # <<>> /\ deferred \in Seq(Requests)
    BY <1>3 DEF SendAndContinue, HeadComesNext, TypeInv, TypeOK
  <2>2. /\ Len(deferred') = Len(deferred) - 1 /\ Len(deferred) \in Nat
        /\ \A i \in 1 .. Len(deferred') : deferred'[i] = deferred[i+1]
    BY <2>1, HeadTailProperties, LenProperties
  <2>3. ASSUME NEW i \in 1 .. Len(deferred'), NEW j \in 1 .. Len(deferred'), i < j
        PROVE  Counter[deferred'[i]] <= Counter[deferred'[j]]
    <3>1. i+1 \in 1 .. Len(deferred) /\ j+1 \in 1 .. Len(deferred) /\ i+1 < j+1
      BY <2>2, <2>3
    <3>2. Counter[deferred[i+1]] <= Counter[deferred[j+1]]
      BY <3>1 DEF SortedByCounter
    <3> QED
      BY <2>2, <3>2
  <2> QED
    BY <2>3 DEF SortedByCounter
<1>4. ASSUME QuietStep \/ LoseStep PROVE SortedByCounter(deferred)'
  BY <1>4 DEF QuietStep, LoseStep, SortedByCounter
<1> QED
  BY <1>1, <1>2, <1>3, <1>4, StepKinds

(* When the loop ends, the first deferred message has a gap before it, and *)
(* so have those after it.                                                 *)
LEMMA NothingReady ==
  ASSUME IInv, UniqueCounters, ~HeadComesNext, ~Interrupted, NEW i \in 1 .. Len(deferred)
  PROVE  Counter[deferred[i]] > lastCounter + 1
<1>1. deferred \in Seq(Requests) /\ Len(deferred) \in Nat /\ lastCounter \in Int
  BY LenProperties DEF IInv, TypeInv, TypeOK
<1>2. /\ 1 \in 1 .. Len(deferred) /\ deferred # <<>> /\ Head(deferred) = deferred[1]
      /\ deferred[1] \in Requests /\ deferred[i] \in Requests
  BY <1>1, EmptySeq, ElementOfSeq
<1>3. Counter[deferred[1]] \in Int /\ Counter[deferred[i]] \in Int
  BY <1>2, CounterAssumption
<1>4. Counter[deferred[1]] > lastCounter
  BY <1>2, Numbers, NotSent DEF IInv
<1>5. Counter[deferred[1]] # lastCounter + 1
  BY <1>2 DEF HeadComesNext
<1>6. Counter[deferred[1]] <= Counter[deferred[i]]
  BY <1>1, <1>2, <1>3 DEF IInv, SortedByCounter
<1> QED
  BY <1>1, <1>3, <1>4, <1>5, <1>6

LEMMA ReadyStep ==
  ASSUME IInv, [Next]_vars
  PROVE  NoReadyMessageDeferred'
<1>0. TypeInv /\ deferred \in Seq(Requests)
  BY DEF IInv, TypeInv, TypeOK
<1>1. ASSUME NEW r \in Requests, DeferMessage(r) PROVE NoReadyMessageDeferred'
  <2> SUFFICES ASSUME UniqueCounters, NEW k \in 1 .. Len(deferred')
               PROVE  Counter[deferred'[k]] > lastCounter + 1
    BY <1>1 DEF DeferMessage, NoReadyMessageDeferred, UniqueCounters
  <2>1. PICK i \in 1 .. Len(deferred) + 1 : deferred' = InsertAt(deferred, i, r)
    BY <1>1 DEF DeferMessage
  <2>2. \A j \in 1 .. Len(deferred) : Counter[deferred[j]] > lastCounter + 1
    BY <1>1 DEF DeferMessage, IInv, NoReadyMessageDeferred
  <2>3. Counter[r] > lastCounter + 1
    BY <1>1 DEF DeferMessage, HasGap
  <2>4. /\ Len(deferred') = Len(deferred) + 1 /\ deferred'[i] = r
        /\ \A j \in 1 .. i-1 : deferred'[j] = deferred[j]
        /\ \A j \in i .. Len(deferred) : deferred'[j+1] = deferred[j]
    <3>1. /\ Len(InsertAt(deferred, i, r)) = Len(deferred) + 1
          /\ InsertAt(deferred, i, r)[i] = r
          /\ \A j \in 1 .. i-1 : InsertAt(deferred, i, r)[j] = deferred[j]
          /\ \A j \in i .. Len(deferred) :
               InsertAt(deferred, i, r)[j+1] = deferred[j]
      BY <1>0, InsertAtElements
    <3> QED
      BY <2>1, <3>1
  <2>5. Len(deferred) \in Nat
    BY <1>0, LenProperties
  <2>6. CASE k < i
    BY <2>2, <2>4, <2>5, <2>6
  <2>7. CASE k = i
    BY <2>3, <2>4, <2>7
  <2>8. CASE k > i
    <3>1. k-1 \in i .. Len(deferred) /\ (k-1)+1 = k /\ k-1 \in 1 .. Len(deferred)
      BY <2>4, <2>5, <2>8
    <3> QED
      BY <2>2, <2>4, <3>1
  <2> QED
    BY <2>4, <2>5, <2>6, <2>7, <2>8
<1>2. ASSUME NEW r \in Requests, TakeMessage(r) PROVE NoReadyMessageDeferred'
  BY <1>2, NoRequestAssumption DEF TakeMessage, NoReadyMessageDeferred
<1>3. ASSUME NEW r \in Requests, SendAndContinue(r) PROVE NoReadyMessageDeferred'
  BY <1>0, <1>3, NoRequestAssumption
  DEF SendAndContinue, NoReadyMessageDeferred, TypeInv, LockInv
<1>4. ASSUME QuietStep PROVE NoReadyMessageDeferred'
  <2>1. CASE lock' = lock
    BY <1>4, <2>1 DEF QuietStep, IInv, NoReadyMessageDeferred, UniqueCounters
  <2>2. CASE ~HeadComesNext /\ ~Interrupted
    BY <1>4, <2>2, NothingReady DEF QuietStep, NoReadyMessageDeferred, UniqueCounters
  <2> QED
    BY <1>4, <2>1, <2>2 DEF QuietStep
<1>5. ASSUME LoseStep PROVE NoReadyMessageDeferred'
  BY <1>5 DEF LoseStep, NoReadyMessageDeferred
<1> QED
  BY <1>0, <1>1, <1>2, <1>3, <1>4, <1>5, StepKinds
-----------------------------------------------------------------------------
LEMMA IInvInit == Init => IInv
<1> SUFFICES ASSUME Init PROVE IInv
  OBVIOUS
<1>1. Sent = <<>> /\ Places = <<>>
  <2>1. <<>> \in Seq(Requests)
    BY EmptySeq
  <2> QED
    BY <2>1, ConcatEmptySeq DEF Init, Sent, Outgoing, Places
<1>2. OnlyCloseLoses
  BY <1>1 DEF Init, OnlyCloseLoses, Lost, Accepted, IsInjective, ToSet
<1>3. SortedByCounter(deferred) /\ DeliveredInOrder /\ NoReadyMessageDeferred
  BY <1>1 DEF Init, SortedByCounter, DeliveredInOrder, NoReadyMessageDeferred
<1> QED
  BY <1>2, <1>3, TypeInvInit, SkipInit DEF IInv

LEMMA IInvStep == IInv /\ [Next]_vars => IInv'
<1> SUFFICES ASSUME IInv, [Next]_vars PROVE IInv'
  OBVIOUS
<1>1. /\ TypeInv /\ CounterInv /\ NeverSkips /\ SortedByCounter(deferred)
      /\ OnlyCloseLoses /\ DeliveredInOrder
  BY DEF IInv
<1>2. TypeInv'
  BY <1>1, TypeInvStep
<1>3. CounterInv' /\ NeverSkips'
  BY <1>1, SkipStep
<1>4. SortedByCounter(deferred)'
  BY <1>1, SortedStep
<1>5. OnlyCloseLoses'
  BY <1>1, ConservationStep
<1>6. DeliveredInOrder'
  BY <1>1, OrderStep
<1>7. NoReadyMessageDeferred'
  BY ReadyStep
<1> QED
  BY <1>2, <1>3, <1>4, <1>5, <1>6, <1>7 DEF IInv

THEOREM Invariance == Spec => []IInv
BY IInvInit, IInvStep, PTL DEF Spec

(* However the goroutines interleave, well-numbered callbacks are sent on  *)
(* the channel in the order of their numbers and without a gap.            *)
THEOREM InOrder == Spec => []DeliveredInOrder
<1>1. IInv => DeliveredInOrder
  BY DEF IInv
<1> QED
  BY <1>1, Invariance, PTL

(* No message is doubled, and none is lost while the queue is open; Close  *)
(* costs one at most, that in the hand of the call of Accept that it       *)
(* interrupts.  This is so for any number of calls under way, whatever     *)
(* their counters are.                                                     *)
THEOREM Conservation == Spec => []OnlyCloseLoses
<1>1. IInv => OnlyCloseLoses
  BY DEF IInv
<1> QED
  BY <1>1, Invariance, PTL

(* No call of Accept leaves a deferred message behind that could be sent.  *)
THEOREM NoneReady == Spec => []NoReadyMessageDeferred
<1>1. IInv => NoReadyMessageDeferred
  BY DEF IInv
<1> QED
  BY <1>1, Invariance, PTL
-----------------------------------------------------------------------------
(* Refinement: Accept submits, Receive delivers, CloseChannel closes and   *)
(* every other step leaves the promise alone.                              *)
LEMMA ReceiveDelivers ==
  ASSUME IInv, UniqueCounters, Receive
  PROVE  \E r \in Requests : Promise!Deliver(r)
<1> DEFINE m == Head(C)
           n == Len(received)
<1>1. received \in Seq(Requests) /\ C \in Seq(Requests) /\ C # <<>>
  BY DEF IInv, TypeInv, TypeOK, Receive
<1>2. n \in Nat /\ Len(C) \in Nat \ {0} /\ m = C[1] /\ m \in Requests
  BY <1>1, LenProperties, EmptySeq, HeadTailProperties
<1>3. /\ Sent = (received \o C) \o Outgoing
      /\ received \o C \in Seq(Requests) /\ Outgoing \in Seq(Requests)
  BY <1>1 DEF IInv, TypeInv, TypeOK, Sent, Outgoing
<1>4. /\ Len(received \o C) = n + Len(C)
      /\ (received \o C)[n + 1] = m
  <2>1. /\ Len(received \o C) = n + Len(C)
        /\ \A i \in 1 .. n + Len(C) :
             (received \o C)[i] = IF i <= n THEN received[i] ELSE C[i - n]
    BY <1>1, ConcatProperties
  <2>2. n + 1 \in 1 .. n + Len(C) /\ ~(n + 1 <= n) /\ (n + 1) - n = 1
    BY <1>2
  <2> QED
    BY <1>2, <2>1, <2>2
<1>5. n + 1 \in 1 .. Len(Sent) /\ Sent[n + 1] = m
  <2> DEFINE s == received \o C
  <2>0. s \in Seq(Requests) /\ Len(s) = n + Len(C) /\ s[n + 1] = m
    BY <1>3, <1>4
  <2> HIDE DEF s
  <2>1. /\ Len(s \o Outgoing) = Len(s) + Len(Outgoing)
        /\ \A i \in 1 .. Len(s) + Len(Outgoing) :
             (s \o Outgoing)[i] = IF i <= Len(s) THEN s[i] ELSE Outgoing[i - Len(s)]
    <3>1. s \in Seq(Requests) /\ Outgoing \in Seq(Requests)
      BY <1>3, <2>0
    <3> QED
      BY <3>1, ConcatProperties
  <2>2. Len(Outgoing) \in Nat
    BY <1>3, LenProperties
  <2>3. /\ n + 1 \in 1 .. Len(s) + Len(Outgoing) /\ n + 1 <= Len(s)
    BY <1>2, <2>0, <2>2
  <2>4. Sent = s \o Outgoing
    BY <1>3 DEF s
  <2> QED
    BY <2>0, <2>1, <2>3, <2>4
<1>6. Counter[m] = n + 1
  BY <1>5 DEF IInv, DeliveredInOrder
<1>7. Arrived(m)
  <2>1. n + 1 \in DOMAIN Places /\ Places[n + 1] = m
    BY <1>5, SentTypes DEF IInv
  <2>2. m \in ToSet(Places)
    BY <2>1 DEF ToSet
  <2> QED
    BY <2>2 DEF IInv, OnlyCloseLoses, Accepted, Arrived
<1>8. Promise!Deliver(m)
  BY <1>2, <1>6, <1>7 DEF Promise!Deliver, Receive, Arrived
<1> QED
  BY <1>2, <1>8

LEMMA PromiseInit == Init => Promise!Init
BY EmptySeq DEF Init, Promise!Init, Arrived

LEMMA PromiseStep ==
  ASSUME IInv, UniqueCounters, [Next]_vars
  PROVE  [Promise!Next]_Promise!vars
<1> USE DEF Promise!vars, Promise!Next, Promise!Submit, Promise!Close, Arrived
<1> USE DEF IInv, TypeInv, TypeOK, Phases
<1>1. ASSUME NEW r \in Requests, Accept(r) PROVE Promise!Submit(r)
  BY <1>1 DEF Accept
<1>2. ASSUME NEW r \in Requests, DeferMessage(r) PROVE UNCHANGED Promise!vars
  BY <1>2 DEF DeferMessage
<1>3. ASSUME NEW r \in Requests, TakeMessage(r) PROVE UNCHANGED Promise!vars
  BY <1>3 DEF TakeMessage
<1>4. ASSUME NEW r \in Requests, SendAndContinue(r) PROVE UNCHANGED Promise!vars
  BY <1>4 DEF SendAndContinue
<1>5. ASSUME NEW r \in Requests, SendAndReturn(r) PROVE UNCHANGED Promise!vars
  BY <1>5 DEF SendAndReturn
<1>6. ASSUME NEW r \in Requests, SendPanics(r) PROVE UNCHANGED Promise!vars
  BY <1>6 DEF SendPanics
<1>7. ASSUME NEW r \in Requests, SendHangs(r) PROVE UNCHANGED Promise!vars
  BY <1>7 DEF SendHangs
<1>8. ASSUME CloseChannel PROVE Promise!Close
  BY <1>8 DEF CloseChannel
<1>9. ASSUME ClearField PROVE UNCHANGED Promise!vars
  BY <1>9 DEF ClearField
<1>10. ASSUME Receive PROVE \E r \in Requests : Promise!Deliver(r)
  BY <1>10, ReceiveDelivers
<1>11. ASSUME UNCHANGED vars PROVE UNCHANGED Promise!vars
  BY <1>11 DEF vars
<1> QED
  BY <1>1, <1>2, <1>3, <1>4, <1>5, <1>6, <1>7, <1>8, <1>9, <1>10, <1>11
  DEF Next, AcceptStep

(* With well-numbered callbacks, every behaviour of the queue, seen by the *)
(* requests and by the reader of the channel, is one that OrderedDelivery  *)
(* allows: messages are read in the order of their numbers, only after     *)
(* they were submitted, and each once.                                     *)
THEOREM Refinement == ASSUME UniqueCounters PROVE Spec => Promise!Spec
<1>1. IInv /\ [Next]_vars => [Promise!Next]_Promise!vars
  BY PromiseStep
<1> QED
  BY <1>1, PromiseInit, Invariance, PTL DEF Spec, Promise!Spec
=============================================================================
