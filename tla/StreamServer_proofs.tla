------------------------- MODULE StreamServer_proofs -------------------------
(***************************************************************************)
(* Proofs about StreamServer, for any number of connections, of data and   *)
(* of breaks, and for any capacity of dataCh.                              *)
(***************************************************************************)
EXTENDS StreamServer, SequenceTheorems, WellFoundedInduction, TLAPS

(***************************************************************************)
(* Facts about sequences.                                                  *)
(***************************************************************************)

(* Moving the head of the second part to the end of the first part leaves  *)
(* the concatenation as it was.                                            *)
LEMMA MoveHead ==
  ASSUME NEW S, NEW s \in Seq(S), NEW t \in Seq(S), t # <<>>
  PROVE  Append(s, Head(t)) \o Tail(t) = s \o t
<1>1. Head(t) \in S /\ Tail(t) \in Seq(S) /\ <<Head(t)>> \in Seq(S)
  BY HeadTailProperties
<1>2. t = <<Head(t)>> \o Tail(t)
  <2>1. Len(t) \in Nat \ {0} /\ SubSeq(t, 1, Len(t)) = t /\ Tail(t) = SubSeq(t, 2, Len(t))
    BY EmptySeq, SubSeqFull, TailIsSubSeq
  <2>2. SubSeq(t, 1, Len(t)) = <<t[1]>> \o SubSeq(t, 1 + 1, Len(t))
    BY <2>1, SubSeqRecursiveFirst
  <2> QED
    BY <2>1, <2>2, HeadTailProperties
<1>3. Append(s, Head(t)) = s \o <<Head(t)>>
  BY <1>1, AppendIsConcat
<1> QED
  BY <1>1, <1>2, <1>3, ConcatAssociative

(* An item that is appended to the second of two sequences is appended to  *)
(* both.                                                                   *)
LEMMA AppendToSecond ==
  ASSUME NEW S, NEW s \in Seq(S), NEW t \in Seq(S), NEW e \in S
  PROVE  /\ s \o t \in Seq(S)
         /\ s \o Append(t, e) = Append(s \o t, e)
<1>1. <<e>> \in Seq(S) /\ s \o t \in Seq(S)
  BY ConcatProperties
<1> QED
  BY <1>1, AppendIsConcat, ConcatAssociative

LEMMA SecondPart ==
  ASSUME NEW S, NEW s \in Seq(S), NEW t \in Seq(S), t # <<>>
  PROVE  Len(s) + 1 \in 1 .. Len(s \o t) /\ (s \o t)[Len(s) + 1] = Head(t)
<1>1. /\ Len(s \o t) = Len(s) + Len(t)
      /\ Len(s) \in Nat /\ Len(t) \in Nat \ {0} /\ Head(t) = t[1]
  BY ConcatProperties, LenProperties, EmptySeq, HeadTailProperties
<1>2. Len(s) + 1 \in 1 .. Len(s) + Len(t) /\ ~(Len(s) + 1 <= Len(s)) /\ (Len(s) + 1) - Len(s) = 1
  BY <1>1
<1> QED
  BY <1>1, <1>2, ConcatProperties
-----------------------------------------------------------------------------
(***************************************************************************)
(* Least and greatest numbers.                                             *)
(***************************************************************************)

LEMMA MinIsLeast ==
  ASSUME NEW S \in SUBSET Nat, S # {}
  PROVE  Min(S) \in S /\ \A y \in S : Min(S) <= y
<1>1. PICK x \in S : \A y \in S : ~ (<<y, x>> \in OpToRel(<, Nat))
  BY WFMin, NatLessThanWellFounded
<1>2. \A y \in S : ~(y < x)
  BY <1>1 DEF OpToRel
<1>3. \E z \in S : \A y \in S : z <= y
  BY <1>2
<1> QED
  BY <1>3 DEF Min

LEMMA MaxIsGreatest ==
  ASSUME NEW n \in Nat, NEW S \in SUBSET (0 .. n), S # {}
  PROVE  Max(S) \in S /\ \A y \in S : Max(S) >= y
<1> DEFINE Bounds == {u \in 0 .. n : \A y \in S : y <= u}
<1>1. n \in Bounds /\ Bounds \in SUBSET Nat
  OBVIOUS
<1> DEFINE m == Min(Bounds)
<1>2. m \in Bounds /\ \A u \in Bounds : m <= u
  BY <1>1, MinIsLeast
<1> HIDE DEF m
<1>3. m \in S
  <2>1. SUFFICES ASSUME m \notin S PROVE FALSE
    OBVIOUS
  <2>2. m \in Nat /\ m <= n /\ \A y \in S : y \in Nat /\ y <= m /\ y # m
    BY <1>2, <2>1
  <2>3. \A y \in S : y <= m - 1 /\ y >= 0
    BY <2>2
  <2>4. m - 1 >= 0
    <3>1. PICK y \in S : TRUE
      OBVIOUS
    <3>2. y <= m - 1 /\ y >= 0 /\ y \in Nat
      BY <2>2, <2>3, <3>1
    <3> QED
      BY <2>2, <3>2
  <2>5. m - 1 \in Bounds
    BY <2>2, <2>3, <2>4
  <2> QED
    BY <1>2, <2>2, <2>5
<1>4. \E x \in S : \A y \in S : x >= y
  BY <1>2, <1>3
<1> QED
  BY <1>4 DEF Max
-----------------------------------------------------------------------------
(***************************************************************************)
(* Types.                                                                  *)
(***************************************************************************)

(* While the test sends, it does so on a connection that it has.           *)
TypeInv == TypeOK /\ (sending # <<>> => sendingTo \in Conns)

LEMMA TypesInitially == Init => TypeInv
BY ChannelSizeAssumption, BoundsAssumption DEF Init, TypeInv, TypeOK, Conns

LEMMA LastDataIsBounded ==
  ASSUME TypeOK
  PROVE  LastData \in 0 .. MaxData
<1> DEFINE S == {0} \cup UNION {Range(sent[c]) : c \in Conns}
<1>1. ASSUME NEW c \in Conns PROVE Range(sent[c]) \subseteq 0 .. MaxData
  <2>1. sent[c] \in Seq(0 .. MaxData)
    BY DEF TypeOK
  <2>2. DOMAIN sent[c] = 1 .. Len(sent[c])
        /\ \A i \in 1 .. Len(sent[c]) : sent[c][i] \in 0 .. MaxData
    BY <2>1, ElementOfSeq, LenProperties
  <2> QED
    BY <2>2, Zenon DEF Range
<1>2. S \in SUBSET (0 .. MaxData) /\ S # {} /\ MaxData \in Nat
  BY <1>1, BoundsAssumption
<1>3. Max(S) \in S
  BY <1>2, MaxIsGreatest
<1> QED
  BY <1>2, <1>3 DEF LastData

LEMMA BeginSendKeepsTypes ==
  ASSUME TypeInv, NEW c \in Conns, NEW chunks \in Seq(Chunks), BeginSend(c, chunks)
  PROVE  TypeInv'
<1>1. sending' = chunks /\ sendingTo' = c
  BY DEF BeginSend
<1>2. UNCHANGED <<endpoint, newConns, handler, dataCh, done, client, received, wire, conns,
                  sent>>
  BY DEF BeginSend, serverVars, clientVars
<1>3. c \in 0 .. MaxConns
  BY BoundsAssumption DEF Conns
<1> QED
  BY <1>1, <1>2, <1>3 DEF TypeInv, TypeOK

LEMMA TypeSteps == TypeInv /\ [Next]_vars => TypeInv'
<1> SUFFICES ASSUME TypeInv, [Next]_vars PROVE TypeInv'
  OBVIOUS
<1> USE BoundsAssumption, ChannelSizeAssumption
<1>1. ASSUME NEW c \in Conns, Connect(c) PROVE TypeInv'
  BY <1>1 DEF Connect, TypeInv, TypeOK, testVars
<1>2. ASSUME NEW c \in Conns, Receive(c) PROVE TypeInv'
  <2>1. /\ wire[c] \in Seq(1 .. MaxData) /\ received[c] \in Seq(1 .. MaxData)
        /\ wire[c] # <<>>
    BY <1>2 DEF Receive, TypeInv, TypeOK
  <2>2. /\ Append(received[c], Head(wire[c])) \in Seq(1 .. MaxData)
        /\ Tail(wire[c]) \in Seq(1 .. MaxData)
    <3>1. Head(wire[c]) \in 1 .. MaxData /\ Tail(wire[c]) \in Seq(1 .. MaxData)
      BY <2>1, HeadTailProperties
    <3> QED
      BY <2>1, <3>1, AppendProperties
  <2> QED
    BY <1>2, <2>2 DEF Receive, TypeInv, TypeOK, serverVars, testVars
<1>3. ASSUME NEW c \in Conns, SeeEnd(c) \/ Disconnect(c) \/ ContextDone(c) PROVE TypeInv'
  <2>1. CASE SeeEnd(c)
    BY <2>1 DEF SeeEnd, TypeInv, TypeOK, serverVars, testVars
  <2>2. CASE Disconnect(c)
    <3>1. <<>> \in Seq(1 .. MaxData)
      OBVIOUS
    <3> QED
      BY <2>2, <3>1 DEF Disconnect, TypeInv, TypeOK, serverVars, testVars
  <2>3. CASE ContextDone(c)
    BY <2>3 DEF ContextDone, TypeInv, TypeOK, serverVars, clientVars, testVars
  <2> QED
    BY <1>3, <2>1, <2>2, <2>3
<1>4. ASSUME NEW c \in Conns, Push(c) PROVE TypeInv'
  <2>1. newConns' \in Seq(Conns)
    <3>1. newConns \in Seq(Conns)
      BY DEF TypeInv, TypeOK
    <3>2. Append(newConns, c) \in Seq(Conns)
      BY <3>1, AppendProperties
    <3>3. newConns' = newConns \/ newConns' = Append(newConns, c)
      BY <1>4 DEF Push
    <3> QED
      BY <3>1, <3>2, <3>3
  <2>2. handler' \in [Conns -> {"none", "arrived", "looping", "sleeping", "ended", "refused"}]
    BY <1>4 DEF Push, TypeInv, TypeOK
  <2> QED
    BY <1>4, <2>1, <2>2 DEF Push, TypeInv, TypeOK, clientVars, testVars
<1>5. ASSUME NEW c \in Conns, dataCh[c] # <<>>, dataCh' = [dataCh EXCEPT ![c] = Tail(dataCh[c])]
      PROVE  /\ dataCh' \in [Conns -> Seq(Chunks)]
             /\ \A d \in Conns : Len(dataCh'[d]) <= ChannelSize
  <2>1. dataCh[c] \in Seq(Chunks) /\ Len(dataCh[c]) <= ChannelSize
    BY DEF TypeInv, TypeOK
  <2>2. Tail(dataCh[c]) \in Seq(Chunks) /\ Len(Tail(dataCh[c])) = Len(dataCh[c]) - 1
    BY <1>5, <2>1
  <2>3. Len(Tail(dataCh[c])) <= ChannelSize
    BY <2>1, <2>2, LenProperties
  <2> QED
    BY <1>5, <2>2, <2>3 DEF TypeInv, TypeOK
<1>6. ASSUME NEW c \in Conns, HandleChunk(c) PROVE TypeInv'
  <2>1. dataCh' = [dataCh EXCEPT ![c] = Tail(dataCh[c])] /\ dataCh[c] # <<>>
    BY <1>6 DEF HandleChunk
  <2>2. Head(dataCh[c]).data \in 1 .. MaxData
    <3>1. dataCh[c] \in Seq(Chunks)
      BY DEF TypeInv, TypeOK
    <3>2. Head(dataCh[c]) \in Chunks
      BY <2>1, <3>1
    <3> QED
      BY <1>6, <3>2 DEF HandleChunk, Chunks, nil
  <2>3. wire' \in [Conns -> Seq(1 .. MaxData)]
    <3>1. wire[c] \in Seq(1 .. MaxData)
      BY DEF TypeInv, TypeOK
    <3>2. Append(wire[c], Head(dataCh[c]).data) \in Seq(1 .. MaxData)
      BY <2>2, <3>1
    <3> QED
      BY <1>6, <3>2 DEF HandleChunk, TypeInv, TypeOK
  <2>4. handler' \in [Conns -> {"none", "arrived", "looping", "sleeping", "ended", "refused"}]
    BY <1>6 DEF HandleChunk, TypeInv, TypeOK
  <2> QED
    BY <1>5, <1>6, <2>1, <2>3, <2>4 DEF HandleChunk, TypeInv, TypeOK, clientVars, testVars
<1>7. ASSUME NEW c \in Conns, WakeUp(c) \/ HandleDone(c) PROVE TypeInv'
  BY <1>7 DEF WakeUp, HandleDone, TypeInv, TypeOK, clientVars, testVars
<1>8. ASSUME NEW c \in Conns, HandleBreak(c) PROVE TypeInv'
  <2>1. dataCh' = [dataCh EXCEPT ![c] = Tail(dataCh[c])] /\ dataCh[c] # <<>>
    BY <1>8 DEF HandleBreak
  <2> QED
    BY <1>5, <1>8, <2>1 DEF HandleBreak, TypeInv, TypeOK, clientVars, testVars
<1>9. ASSUME NEW c \in Conns, Send(c) PROVE TypeInv'
  <2>1. [data |-> LastData + 1, delayAfter |-> FALSE] \in Chunks
    BY <1>9, LastDataIsBounded DEF Send, TypeInv, Chunks
  <2>2. <<[data |-> LastData + 1, delayAfter |-> FALSE]>> \in Seq(Chunks)
    BY <2>1
  <2> QED
    BY <1>9, <2>2, BeginSendKeepsTypes DEF Send
<1>10. ASSUME NEW c \in Conns, SendInChunks(c) PROVE TypeInv'
  <2>1. PICK pieces \in 2 .. MaxData - LastData, delay \in BOOLEAN :
          BeginSend(c, [i \in 1 .. pieces |->
                          [data |-> LastData + i, delayAfter |-> delay /\ i < pieces]])
    BY <1>10 DEF SendInChunks
  <2> DEFINE chunks == [i \in 1 .. pieces |->
                          [data |-> LastData + i, delayAfter |-> delay /\ i < pieces]]
  <2>2. LastData \in Nat /\ pieces \in Nat /\ LastData + pieces <= MaxData
    BY LastDataIsBounded DEF TypeInv
  <2>3. \A i \in 1 .. pieces : chunks[i] \in Chunks
    <3> TAKE i \in 1 .. pieces
    <3>1. LastData + i \in 0 .. MaxData
      BY <2>2
    <3>2. (delay /\ i < pieces) \in BOOLEAN
      OBVIOUS
    <3>3. chunks[i] = [data |-> LastData + i, delayAfter |-> delay /\ i < pieces]
      OBVIOUS
    <3> QED
      BY <3>1, <3>2, <3>3, Zenon DEF Chunks
  <2>4. chunks \in Seq(Chunks)
    <3> HIDE DEF Chunks
    <3>1. chunks = [i \in 1 .. pieces |-> chunks[i]]
      OBVIOUS
    <3>2. chunks \in [1 .. pieces -> Chunks]
      BY <2>3, <3>1, Zenon
    <3> HIDE DEF chunks
    <3> QED
      BY <2>2, <3>2
  <2> QED
    BY <2>1, <2>4, BeginSendKeepsTypes
<1>11. ASSUME NEW c \in Conns, BreakConnection(c) PROVE TypeInv'
  <2>1. [data |-> nil, delayAfter |-> FALSE] \in Chunks
    BY DEF Chunks, nil
  <2>2. <<[data |-> nil, delayAfter |-> FALSE]>> \in Seq(Chunks)
    BY <2>1
  <2> QED
    BY <1>11, <2>2, BeginSendKeepsTypes DEF BreakConnection
<1>12. CASE AwaitConnection
  <2>1. newConns \in Seq(Conns) /\ newConns # <<>>
    BY <1>12 DEF AwaitConnection, TypeInv, TypeOK
  <2>2. Head(newConns) \in Conns /\ Tail(newConns) \in Seq(Conns)
    BY <2>1
  <2> QED
    BY <1>12, <2>2 DEF AwaitConnection, TypeInv, TypeOK, clientVars
<1>13. CASE PutChunk
  <2>1. sendingTo \in Conns /\ sending \in Seq(Chunks) /\ sending # <<>>
    BY <1>13 DEF PutChunk, TypeInv, TypeOK
  <2>2. /\ Head(sending) \in Chunks /\ Head(sending).data \in 0 .. MaxData
        /\ Tail(sending) \in Seq(Chunks)
    <3>1. Head(sending) \in Chunks /\ Tail(sending) \in Seq(Chunks)
      BY <2>1, HeadTailProperties
    <3> QED
      BY <3>1 DEF Chunks
  <2>3. /\ dataCh[sendingTo] \in Seq(Chunks) /\ sent[sendingTo] \in Seq(0 .. MaxData)
        /\ Len(dataCh[sendingTo]) < ChannelSize
    BY <1>13, <2>1 DEF PutChunk, HasRoom, TypeInv, TypeOK
  <2>4. /\ Append(dataCh[sendingTo], Head(sending)) \in Seq(Chunks)
        /\ Append(sent[sendingTo], Head(sending).data) \in Seq(0 .. MaxData)
    BY <2>2, <2>3, AppendProperties
  <2>5. Len(Append(dataCh[sendingTo], Head(sending))) <= ChannelSize
    BY <2>2, <2>3, AppendProperties, LenProperties
  <2> QED
    BY <1>13, <2>1, <2>2, <2>4, <2>5
       DEF PutChunk, TypeInv, TypeOK, serverVars, clientVars
<1>14. CASE Close
  BY <1>14 DEF Close, TypeInv, TypeOK, clientVars, testVars
<1>15. CASE UNCHANGED vars
  BY <1>15 DEF vars, TypeInv, TypeOK, serverVars, clientVars, testVars
<1> QED
  BY <1>1, <1>2, <1>3, <1>4, <1>6, <1>7, <1>8, <1>9, <1>10, <1>11, <1>12, <1>13, <1>14,
     <1>15 DEF Next, ClientStep, HandlerStep
-----------------------------------------------------------------------------
(***************************************************************************)
(* One connection: s is what the test has put into its channel, d is what  *)
(* the channel holds, o is what was written to the client, h and cl are    *)
(* where its handler and its client are, and dn is whether its Context is  *)
(* done.                                                                   *)
(***************************************************************************)

(* How many chunks the handler has taken, and whether the last one was a   *)
(* break.                                                                  *)
TakenOf(s, d) == Len(s) - Len(d)
BrokenBy(s, d) == TakenOf(s, d) > 0 /\ s[TakenOf(s, d)] = nil

LEMMA TakenIsBounded ==
  ASSUME NEW S, NEW s \in Seq(S), NEW d \in Seq(Chunks)
  PROVE  TakenOf(s, d) \in Int /\ Len(s) \in Nat /\ TakenOf(s, d) <= Len(s)
<1>1. Len(s) \in Nat /\ Len(d) \in Nat
  BY LenProperties
<1> QED
  BY <1>1 DEF TakenOf

(* The channel holds what was sent and not taken; the handler takes        *)
(* nothing after a break.                                                  *)
ChannelFacts(s, d, h) ==
  /\ Len(d) <= Len(s)
  /\ \A i \in 1 .. Len(d) : d[i].data = s[TakenOf(s, d) + i]
  /\ \A i \in 1 .. Len(s) : i < TakenOf(s, d) => s[i] # nil
  /\ h # "ended" => ~BrokenBy(s, d)

(* What was written is what was taken: all of it, but for the break, as    *)
(* long as the client does not leave.                                      *)
OutputFacts(s, d, o, cl) ==
  /\ Len(o) <= TakenOf(s, d)
  /\ \A i \in 1 .. Len(o) : o[i] = s[i]
  /\ cl # "gone" => Len(o) = IF BrokenBy(s, d) THEN TakenOf(s, d) - 1 ELSE TakenOf(s, d)

(* A handler ends because of a break or because the client has left.       *)
EndFacts(s, d, h, cl, dn) ==
  /\ h = "ended" => dn \/ BrokenBy(s, d)
  /\ dn => cl = "gone"
  /\ cl = "none" => h = "none"
  /\ cl = "eof" => h \in {"ended", "refused"}

ConnFacts(s, d, o, h, cl, dn) ==
  ChannelFacts(s, d, h) /\ OutputFacts(s, d, o, cl) /\ EndFacts(s, d, h, cl, dn)

(* The handler takes a chunk from the channel.                             *)
LEMMA TakeOne ==
  ASSUME NEW s \in Seq(0 .. MaxData), NEW d \in Seq(Chunks), d # <<>>, NEW h,
         ChannelFacts(s, d, h), h # "ended"
  PROVE  /\ Len(Tail(d)) <= Len(s)
         /\ \A i \in 1 .. Len(Tail(d)) : Tail(d)[i].data = s[TakenOf(s, Tail(d)) + i]
         /\ TakenOf(s, d) \in Nat
         /\ TakenOf(s, Tail(d)) = TakenOf(s, d) + 1
         /\ s[TakenOf(s, d) + 1] = Head(d).data
         /\ \A i \in 1 .. Len(s) : i <= TakenOf(s, d) => s[i] # nil
<1>1. /\ Len(s) \in Nat /\ Len(d) \in Nat \ {0} /\ Len(Tail(d)) = Len(d) - 1
      /\ Head(d) = d[1] /\ \A i \in 1 .. Len(Tail(d)) : Tail(d)[i] = d[i + 1]
  BY HeadTailProperties, LenProperties, EmptySeq
<1>2. TakenOf(s, d) \in Nat /\ TakenOf(s, Tail(d)) = TakenOf(s, d) + 1
  BY <1>1 DEF ChannelFacts, TakenOf
<1>3. Len(Tail(d)) <= Len(s)
  BY <1>1 DEF ChannelFacts
<1>4. ASSUME NEW i \in 1 .. Len(Tail(d))
      PROVE  Tail(d)[i].data = s[TakenOf(s, Tail(d)) + i]
  <2>1. i + 1 \in 1 .. Len(d) /\ Tail(d)[i] = d[i + 1]
    BY <1>1
  <2>2. d[i + 1].data = s[TakenOf(s, d) + (i + 1)]
    BY <2>1 DEF ChannelFacts
  <2>3. TakenOf(s, d) + (i + 1) = TakenOf(s, Tail(d)) + i
    BY <1>2
  <2> QED
    BY <2>1, <2>2, <2>3
<1>5. s[TakenOf(s, d) + 1] = Head(d).data
  BY <1>1 DEF ChannelFacts
<1>6. ASSUME NEW i \in 1 .. Len(s), i <= TakenOf(s, d) PROVE s[i] # nil
  <2>1. CASE i < TakenOf(s, d)
    BY <2>1 DEF ChannelFacts
  <2>2. CASE i = TakenOf(s, d)
    BY <1>2, <2>2 DEF ChannelFacts, BrokenBy
  <2> QED
    BY <1>2, <1>6, <2>1, <2>2
<1> QED
  BY <1>2, <1>3, <1>4, <1>5, <1>6

LEMMA ChunkWritten ==
  ASSUME NEW s \in Seq(0 .. MaxData), NEW d \in Seq(Chunks), d # <<>>,
         NEW o \in Seq(1 .. MaxData), NEW p, NEW h, NEW g, NEW dn,
         NEW cl \in {"none", "open", "gone", "eof"},
         ConnFacts(s, d, o, h, cl, dn), h = "looping", g \in {"looping", "sleeping"},
         Head(d).data # nil, Head(d).data \in 1 .. MaxData,
         p = IF cl = "open" THEN Append(o, Head(d).data) ELSE o
  PROVE  ConnFacts(s, Tail(d), p, g, cl, dn)
<1> DEFINE n == TakenOf(s, d)
           x == Head(d).data
<1>1. /\ Len(Tail(d)) <= Len(s)
      /\ \A i \in 1 .. Len(Tail(d)) : Tail(d)[i].data = s[TakenOf(s, Tail(d)) + i]
      /\ n \in Nat /\ TakenOf(s, Tail(d)) = n + 1
      /\ s[n + 1] = x
      /\ \A i \in 1 .. Len(s) : i <= n => s[i] # nil
  BY TakeOne DEF ConnFacts
<1>2. ~BrokenBy(s, Tail(d)) /\ ~BrokenBy(s, d)
  BY <1>1 DEF BrokenBy, ConnFacts, ChannelFacts
<1>3. ChannelFacts(s, Tail(d), g)
  BY <1>1, <1>2 DEF ChannelFacts
<1>4. EndFacts(s, Tail(d), g, cl, dn)
  BY <1>2 DEF ConnFacts, EndFacts
<1>5. OutputFacts(s, Tail(d), p, cl)
  <2>1. /\ Len(o) \in Nat /\ Len(o) <= n /\ (\A i \in 1 .. Len(o) : o[i] = s[i])
        /\ cl # "gone" => Len(o) = n
    BY <1>2, LenProperties DEF ConnFacts, OutputFacts
  <2>2. CASE cl = "open"
    <3>1. /\ p = Append(o, x) /\ Len(p) = Len(o) + 1 /\ Len(o) = n
          /\ (\A i \in 1 .. Len(o) : p[i] = o[i]) /\ p[Len(o) + 1] = x
      BY <2>1, <2>2, AppendProperties
    <3> HIDE DEF x, n
    <3>2. \A i \in 1 .. Len(p) : p[i] = s[i]
      BY <1>1, <2>1, <3>1
    <3> QED
      BY <1>1, <1>2, <3>1, <3>2 DEF OutputFacts
  <2>3. CASE cl # "open"
    <3>1. cl = "gone"
      BY <2>3 DEF ConnFacts, EndFacts
    <3>2. p = o
      BY <2>3
    <3>3. Len(o) <= n + 1
      BY <1>1, <2>1
    <3> QED
      BY <1>1, <2>1, <3>1, <3>2, <3>3 DEF OutputFacts
  <2> QED
    BY <2>2, <2>3
<1> QED
  BY <1>3, <1>4, <1>5 DEF ConnFacts

LEMMA BreakTaken ==
  ASSUME NEW s \in Seq(0 .. MaxData), NEW d \in Seq(Chunks), d # <<>>,
         NEW o \in Seq(1 .. MaxData), NEW h, NEW cl, NEW dn,
         ConnFacts(s, d, o, h, cl, dn), h = "looping", Head(d).data = nil
  PROVE  ConnFacts(s, Tail(d), o, "ended", cl, dn)
<1> DEFINE n == TakenOf(s, d)
<1>1. /\ Len(Tail(d)) <= Len(s)
      /\ \A i \in 1 .. Len(Tail(d)) : Tail(d)[i].data = s[TakenOf(s, Tail(d)) + i]
      /\ n \in Nat /\ TakenOf(s, Tail(d)) = n + 1
      /\ s[n + 1] = nil
      /\ \A i \in 1 .. Len(s) : i <= n => s[i] # nil
  BY TakeOne DEF ConnFacts
<1>2. BrokenBy(s, Tail(d)) /\ ~BrokenBy(s, d)
  BY <1>1 DEF BrokenBy, ConnFacts, ChannelFacts
<1>3. ChannelFacts(s, Tail(d), "ended")
  BY <1>1, <1>2 DEF ChannelFacts
<1>4. EndFacts(s, Tail(d), "ended", cl, dn)
  BY <1>2 DEF ConnFacts, EndFacts
<1>5. OutputFacts(s, Tail(d), o, cl)
  <2>1. /\ Len(o) \in Nat /\ Len(o) <= n /\ (\A i \in 1 .. Len(o) : o[i] = s[i])
        /\ cl # "gone" => Len(o) = n
    BY <1>2, LenProperties DEF ConnFacts, OutputFacts
  <2> QED
    BY <1>1, <1>2, <2>1 DEF OutputFacts
<1> QED
  BY <1>3, <1>4, <1>5 DEF ConnFacts

(* The test puts a chunk into the channel.                                 *)
LEMMA ChunkPut ==
  ASSUME NEW s \in Seq(0 .. MaxData), NEW d \in Seq(Chunks), NEW o \in Seq(1 .. MaxData),
         NEW h, NEW cl, NEW dn, NEW x \in Chunks, x.data \in 0 .. MaxData,
         ConnFacts(s, d, o, h, cl, dn)
  PROVE  ConnFacts(Append(s, x.data), Append(d, x), o, h, cl, dn)
<1> DEFINE t == Append(s, x.data)
           e == Append(d, x)
           n == TakenOf(s, d)
<1>1. /\ Len(s) \in Nat /\ Len(d) \in Nat /\ Len(o) \in Nat
      /\ Len(t) = Len(s) + 1 /\ Len(e) = Len(d) + 1
      /\ (\A i \in 1 .. Len(s) : t[i] = s[i]) /\ t[Len(s) + 1] = x.data
      /\ (\A i \in 1 .. Len(d) : e[i] = d[i]) /\ e[Len(d) + 1] = x
  BY AppendProperties, LenProperties
<1> HIDE DEF t, e
<1>2. Len(d) <= Len(s) /\ n \in Nat /\ n = Len(s) - Len(d) /\ TakenOf(t, e) = n
  BY <1>1 DEF TakenOf, ConnFacts, ChannelFacts
<1>3. \A i \in 1 .. Len(e) : e[i].data = t[n + i]
  <2> TAKE i \in 1 .. Len(e)
  <2>1. CASE i = Len(d) + 1
    BY <1>1, <1>2, <2>1
  <2>2. CASE i # Len(d) + 1
    <3>1. i \in 1 .. Len(d) /\ n + i \in 1 .. Len(s)
      BY <1>1, <1>2, <2>2
    <3>2. d[i].data = s[n + i]
      BY <3>1 DEF ConnFacts, ChannelFacts
    <3> QED
      BY <1>1, <3>1, <3>2
  <2> QED
    BY <2>1, <2>2
<1>4. \A i \in 1 .. Len(t) : i < n => t[i] # nil
  <2> SUFFICES ASSUME NEW i \in 1 .. Len(t), i < n PROVE t[i] # nil
    OBVIOUS
  <2>1. i \in 1 .. Len(s)
    BY <1>1, <1>2
  <2>2. s[i] # nil
    BY <2>1 DEF ConnFacts, ChannelFacts
  <2> QED
    BY <1>1, <2>1, <2>2
<1>5. BrokenBy(t, e) <=> BrokenBy(s, d)
  <2>1. n > 0 => n \in 1 .. Len(s)
    BY <1>1, <1>2
  <2>2. n > 0 => t[n] = s[n]
    BY <1>1, <2>1
  <2> QED
    BY <1>2, <2>2 DEF BrokenBy
<1>6. \A i \in 1 .. Len(o) : o[i] = t[i]
  <2> TAKE i \in 1 .. Len(o)
  <2>1. Len(o) <= n /\ o[i] = s[i]
    BY DEF ConnFacts, OutputFacts
  <2>2. i \in 1 .. Len(s)
    BY <1>1, <1>2, <2>1
  <2> QED
    BY <1>1, <2>1, <2>2
<1>7. ChannelFacts(t, e, h)
  BY <1>1, <1>2, <1>3, <1>4, <1>5 DEF ConnFacts, ChannelFacts
<1>8. OutputFacts(t, e, o, cl)
  BY <1>2, <1>5, <1>6 DEF ConnFacts, OutputFacts
<1>9. EndFacts(t, e, h, cl, dn)
  BY <1>5 DEF ConnFacts, EndFacts
<1> QED
  BY <1>7, <1>8, <1>9 DEF ConnFacts, t, e

(* The client leaves: what was on its way is lost.                         *)
LEMMA ClientLeaves ==
  ASSUME NEW s \in Seq(0 .. MaxData), NEW d \in Seq(Chunks), NEW r \in Seq(1 .. MaxData),
         NEW w \in Seq(1 .. MaxData),
         NEW h, NEW cl, NEW dn, ConnFacts(s, d, r \o w, h, cl, dn), cl = "open"
  PROVE  ConnFacts(s, d, r \o <<>>, h, "gone", dn)
<1>1. /\ r \o <<>> = r /\ Len(r) \in Nat
      /\ Len(r \o w) = Len(r) + Len(w) /\ Len(w) \in Nat
      /\ \A i \in 1 .. Len(r) : (r \o w)[i] = r[i]
  BY ConcatEmptySeq, ConcatProperties, LenProperties
<1>2. Len(r) <= Len(r \o w)
  BY <1>1
<1>3. OutputFacts(s, d, r, "gone")
  <2>1. Len(r \o w) <= TakenOf(s, d) /\ \A i \in 1 .. Len(r \o w) : (r \o w)[i] = s[i]
    BY DEF ConnFacts, OutputFacts
  <2>2. TakenOf(s, d) \in Int
    BY LenProperties DEF TakenOf
  <2>3. Len(r) <= TakenOf(s, d)
    BY <1>1, <1>2, <2>1, <2>2
  <2>4. \A i \in 1 .. Len(r) : r[i] = s[i]
    BY <1>1, <1>2, <2>1
  <2> QED
    BY <2>3, <2>4 DEF OutputFacts
<1> QED
  BY <1>1, <1>3 DEF ConnFacts, EndFacts
-----------------------------------------------------------------------------
(***************************************************************************)
(* All connections.                                                        *)
(***************************************************************************)

Out(c) == received[c] \o wire[c]

ConnInv(c) == ConnFacts(sent[c], dataCh[c], Out(c), handler[c], client[c], done[c])

(* A client sees the end of a stream only when it has read all of it.      *)
DrainedInv == \A c \in Conns : client[c] = "eof" => wire[c] = <<>>

IInv ==
  /\ TypeInv
  /\ \A c \in Conns : ConnInv(c)
  /\ DrainedInv

LEMMA ConnTypes ==
  ASSUME TypeInv, NEW c \in Conns
  PROVE  /\ sent[c] \in Seq(0 .. MaxData) /\ dataCh[c] \in Seq(Chunks)
         /\ received[c] \in Seq(1 .. MaxData) /\ wire[c] \in Seq(1 .. MaxData)
         /\ Out(c) \in Seq(1 .. MaxData)
         /\ client[c] \in {"none", "open", "gone", "eof"}
<1>1. /\ sent[c] \in Seq(0 .. MaxData) /\ dataCh[c] \in Seq(Chunks)
      /\ received[c] \in Seq(1 .. MaxData) /\ wire[c] \in Seq(1 .. MaxData)
      /\ client[c] \in {"none", "open", "gone", "eof"}
  BY DEF TypeInv, TypeOK
<1> QED
  BY <1>1, ConcatProperties DEF Out

LEMMA Initially == Init => IInv
<1> SUFFICES ASSUME Init PROVE IInv
  OBVIOUS
<1>1. ASSUME NEW c \in Conns PROVE ConnInv(c)
  <2>1. sent[c] = <<>> /\ dataCh[c] = <<>> /\ Out(c) = <<>>
    BY ConcatEmptySeq DEF Init, Out
  <2> QED
    BY <2>1 DEF Init, ConnInv, ConnFacts, ChannelFacts, OutputFacts, EndFacts, TakenOf,
                BrokenBy
<1> QED
  BY <1>1, TypesInitially DEF Init, IInv, DrainedInv

(* What a connection is, when its own variables do not change.             *)
LEMMA OthersStand ==
  ASSUME NEW c \in Conns, ConnInv(c), sent'[c] = sent[c], dataCh'[c] = dataCh[c],
         received'[c] = received[c], wire'[c] = wire[c], handler'[c] = handler[c],
         client'[c] = client[c], done'[c] = done[c]
  PROVE  ConnInv(c)'
BY DEF ConnInv, Out

LEMMA ConnSteps == IInv /\ [Next]_vars => \A c \in Conns : ConnInv(c)'
<1> SUFFICES ASSUME IInv, [Next]_vars, NEW c \in Conns PROVE ConnInv(c)'
  OBVIOUS
<1>0. /\ ConnInv(c) /\ TypeInv /\ TypeOK
      /\ sent[c] \in Seq(0 .. MaxData) /\ dataCh[c] \in Seq(Chunks)
      /\ received[c] \in Seq(1 .. MaxData) /\ wire[c] \in Seq(1 .. MaxData)
      /\ Out(c) \in Seq(1 .. MaxData)
      /\ client[c] \in {"none", "open", "gone", "eof"}
  BY ConnTypes DEF IInv, TypeInv
<1>1. ASSUME NEW b \in Conns, b # c,
             \/ Connect(b) \/ ClientStep(b) \/ Disconnect(b) \/ ContextDone(b)
             \/ HandlerStep(b)
      PROVE  ConnInv(c)'
  <2>1. /\ sent'[c] = sent[c] /\ dataCh'[c] = dataCh[c]
        /\ received'[c] = received[c] /\ wire'[c] = wire[c]
    BY <1>0, <1>1 DEF Connect, ClientStep, Receive, SeeEnd, Disconnect, ContextDone,
         HandlerStep, Push, HandleChunk, WakeUp, HandleBreak, HandleDone, TypeOK,
         serverVars, clientVars, testVars
  <2>2. handler'[c] = handler[c] /\ client'[c] = client[c] /\ done'[c] = done[c]
    BY <1>0, <1>1 DEF Connect, ClientStep, Receive, SeeEnd, Disconnect, ContextDone,
         HandlerStep, Push, HandleChunk, WakeUp, HandleBreak, HandleDone, TypeOK,
         serverVars, clientVars, testVars
  <2> QED
    BY <1>0, <2>1, <2>2, OthersStand
<1>2. ASSUME Connect(c) PROVE ConnInv(c)'
  <2>1. /\ client[c] = "none" /\ client'[c] = "open" /\ handler'[c] = "arrived"
        /\ UNCHANGED <<sent, dataCh, received, wire, done>>
    BY <1>0, <1>2 DEF Connect, TypeOK
  <2>2. Out(c)' = Out(c)
    BY <2>1 DEF Out
  <2> QED
    BY <1>0, <2>1, <2>2 DEF ConnInv, ConnFacts, ChannelFacts, OutputFacts, EndFacts
<1>3. ASSUME Receive(c) PROVE ConnInv(c)'
  <2>1. /\ wire[c] # <<>>
        /\ received'[c] = Append(received[c], Head(wire[c])) /\ wire'[c] = Tail(wire[c])
        /\ UNCHANGED <<sent, dataCh, handler, client, done>>
    BY <1>0, <1>3 DEF Receive, TypeOK, serverVars
  <2>2. Out(c)' = Out(c)
    BY <1>0, <2>1, MoveHead DEF Out
  <2> QED
    BY <1>0, <2>1, <2>2 DEF ConnInv
<1>4. ASSUME SeeEnd(c) PROVE ConnInv(c)'
  <2>1. /\ client[c] = "open" /\ client'[c] = "eof" /\ handler[c] \in {"ended", "refused"}
        /\ UNCHANGED <<sent, dataCh, received, wire, handler, done>>
    BY <1>0, <1>4 DEF SeeEnd, TypeOK, serverVars
  <2>2. Out(c)' = Out(c)
    BY <2>1 DEF Out
  <2> QED
    BY <1>0, <2>1, <2>2 DEF ConnInv, ConnFacts, ChannelFacts, OutputFacts, EndFacts
<1>5. ASSUME Disconnect(c) PROVE ConnInv(c)'
  <2>1. /\ client[c] = "open" /\ client'[c] = "gone" /\ wire'[c] = <<>>
        /\ UNCHANGED <<sent, dataCh, received, handler, done>>
    BY <1>0, <1>5 DEF Disconnect, TypeOK, serverVars
  <2>2. ConnFacts(sent[c], dataCh[c], received[c] \o wire[c], handler[c], client[c], done[c])
    BY <1>0 DEF ConnInv, Out
  <2>3. ConnFacts(sent[c], dataCh[c], received[c] \o <<>>, handler[c], "gone", done[c])
    BY <1>0, <2>1, <2>2, ClientLeaves
  <2> QED
    BY <2>1, <2>3 DEF ConnInv, Out
<1>6. ASSUME ContextDone(c) PROVE ConnInv(c)'
  <2>1. /\ client[c] = "gone"
        /\ UNCHANGED <<sent, dataCh, received, wire, handler, client>>
    BY <1>6 DEF ContextDone, serverVars, clientVars
  <2>2. Out(c)' = Out(c)
    BY <2>1 DEF Out
  <2>3. done'[c]
    BY <1>0, <1>6 DEF ContextDone, TypeOK
  <2> QED
    BY <1>0, <2>1, <2>2, <2>3 DEF ConnInv, ConnFacts, EndFacts
<1>7. ASSUME Push(c) \/ WakeUp(c) PROVE ConnInv(c)'
  <2>1. /\ handler[c] \in {"arrived", "sleeping"} /\ handler'[c] \in {"looping", "refused"}
        /\ UNCHANGED <<sent, dataCh, received, wire, client, done>>
    BY <1>0, <1>7 DEF Push, WakeUp, TypeOK, clientVars
  <2>2. Out(c)' = Out(c)
    BY <2>1 DEF Out
  <2> QED
    BY <1>0, <2>1, <2>2 DEF ConnInv, ConnFacts, ChannelFacts, OutputFacts, EndFacts
<1>8. ASSUME HandleChunk(c) PROVE ConnInv(c)'
  <2> DEFINE x == Head(dataCh[c]).data
  <2>1. /\ handler[c] = "looping" /\ dataCh[c] # <<>> /\ x # nil
        /\ dataCh'[c] = Tail(dataCh[c])
        /\ handler'[c] \in {"looping", "sleeping"}
        /\ UNCHANGED <<sent, received, client, done>>
    BY <1>0, <1>8 DEF HandleChunk, TypeOK, clientVars
  <2>2. wire'[c] = IF client[c] = "open" THEN Append(wire[c], x) ELSE wire[c]
    BY <1>0, <1>8 DEF HandleChunk, TypeOK
  <2>3. x \in 1 .. MaxData
    <3>1. Head(dataCh[c]) \in Chunks
      BY <1>0, <2>1, HeadTailProperties
    <3> QED
      BY <2>1, <3>1 DEF Chunks, nil
  <2> HIDE DEF x
  <2>4. received[c] \o Append(wire[c], x) = Append(received[c] \o wire[c], x)
    <3>1. \A r, w \in Seq(1 .. MaxData) : r \o Append(w, x) = Append(r \o w, x)
      BY <2>3, AppendToSecond
    <3> QED
      BY <1>0, <3>1, Zenon
  <2>5. Out(c)' = IF client[c] = "open" THEN Append(Out(c), x) ELSE Out(c)
    BY <2>1, <2>2, <2>4 DEF Out
  <2>6. ConnFacts(sent[c], Tail(dataCh[c]), Out(c)', handler'[c], client[c], done[c])
    <3>1. ConnFacts(sent[c], dataCh[c], Out(c), handler[c], client[c], done[c])
      BY <1>0 DEF ConnInv
    <3>2. Head(dataCh[c]).data # nil /\ Head(dataCh[c]).data \in 1 .. MaxData
      BY <2>1, <2>3 DEF x
    <3>3. Out(c)' = IF client[c] = "open" THEN Append(Out(c), Head(dataCh[c]).data) ELSE Out(c)
      BY <2>5 DEF x
    <3>4. ASSUME NEW p, NEW g \in {"looping", "sleeping"},
                 p = IF client[c] = "open" THEN Append(Out(c), Head(dataCh[c]).data) ELSE Out(c)
          PROVE  ConnFacts(sent[c], Tail(dataCh[c]), p, g, client[c], done[c])
      BY <1>0, <2>1, <3>1, <3>2, <3>4, ChunkWritten
    <3> QED
      BY <2>1, <3>3, <3>4
  <2> QED
    BY <2>1, <2>6 DEF ConnInv
<1>9. ASSUME HandleBreak(c) PROVE ConnInv(c)'
  <2>1. /\ handler[c] = "looping" /\ dataCh[c] # <<>> /\ Head(dataCh[c]).data = nil
        /\ dataCh'[c] = Tail(dataCh[c]) /\ handler'[c] = "ended"
        /\ UNCHANGED <<sent, received, wire, client, done>>
    BY <1>0, <1>9 DEF HandleBreak, TypeOK, clientVars
  <2>2. Out(c)' = Out(c)
    BY <2>1 DEF Out
  <2>3. ConnFacts(sent[c], Tail(dataCh[c]), Out(c), "ended", client[c], done[c])
    BY <1>0, <2>1, BreakTaken DEF ConnInv
  <2> QED
    BY <2>1, <2>2, <2>3 DEF ConnInv
<1>10. ASSUME HandleDone(c) PROVE ConnInv(c)'
  <2>1. /\ handler[c] = "looping" /\ handler'[c] = "ended" /\ done[c]
        /\ UNCHANGED <<sent, dataCh, received, wire, client, done>>
    BY <1>0, <1>10 DEF HandleDone, TypeOK, clientVars
  <2>2. Out(c)' = Out(c)
    BY <2>1 DEF Out
  <2> QED
    BY <1>0, <2>1, <2>2 DEF ConnInv, ConnFacts, ChannelFacts, OutputFacts, EndFacts
<1>11. CASE PutChunk
  <2>1. /\ sendingTo \in Conns /\ sending \in Seq(Chunks) /\ sending # <<>>
        /\ UNCHANGED <<received, wire, handler, client, done>>
    BY <1>0, <1>11 DEF PutChunk, TypeInv, TypeOK, serverVars, clientVars
  <2>2. CASE sendingTo = c
    <3> DEFINE x == Head(sending)
    <3>1. /\ dataCh'[c] = Append(dataCh[c], x)
          /\ sent'[c] = Append(sent[c], x.data)
      BY <1>0, <1>11, <2>2 DEF PutChunk, TypeOK
    <3>2. x \in Chunks
      BY <2>1, HeadTailProperties
    <3>3. x.data \in 0 .. MaxData
      BY <3>2 DEF Chunks
    <3>4. Out(c)' = Out(c)
      BY <2>1 DEF Out
    <3> HIDE DEF x
    <3>5. ConnFacts(Append(sent[c], x.data), Append(dataCh[c], x), Out(c), handler[c],
                    client[c], done[c])
      BY <1>0, <3>2, <3>3, ChunkPut DEF ConnInv
    <3> QED
      BY <2>1, <3>1, <3>4, <3>5 DEF ConnInv
  <2>3. CASE sendingTo # c
    <3>1. dataCh'[c] = dataCh[c] /\ sent'[c] = sent[c]
      BY <1>0, <1>11, <2>3 DEF PutChunk, TypeOK
    <3> QED
      BY <1>0, <2>1, <3>1, OthersStand
  <2> QED
    BY <2>2, <2>3
<1>12. ASSUME \/ AwaitConnection \/ Close \/ UNCHANGED vars
              \/ \E b \in Conns : Send(b) \/ SendInChunks(b) \/ BreakConnection(b)
       PROVE  ConnInv(c)'
  <2>1. UNCHANGED <<sent, dataCh, received, wire, handler, client, done>>
    BY <1>12 DEF AwaitConnection, Close, Send, SendInChunks, BreakConnection, BeginSend,
                 vars, serverVars, clientVars, testVars
  <2> QED
    BY <1>0, <2>1, OthersStand
<1> QED
  BY <1>1, <1>2, <1>3, <1>4, <1>5, <1>6, <1>7, <1>8, <1>9, <1>10, <1>11, <1>12
     DEF Next, ClientStep, HandlerStep

LEMMA Inductive == IInv /\ [Next]_vars => IInv'
<1> SUFFICES ASSUME IInv, [Next]_vars PROVE IInv'
  OBVIOUS
<1>1. TypeInv' /\ \A c \in Conns : ConnInv(c)'
  BY TypeSteps, ConnSteps DEF IInv
<1>2. ASSUME NEW c \in Conns, client'[c] = "eof" PROVE wire'[c] = <<>>
  <2>1. TypeOK /\ ConnInv(c) /\ (client[c] = "eof" => wire[c] = <<>>)
    BY DEF IInv, TypeInv, DrainedInv
  <2>2. client[c] = "eof" => handler[c] \in {"ended", "refused"}
    BY <2>1 DEF ConnInv, ConnFacts, EndFacts
  <2>3. ASSUME NEW b \in Conns, b # c,
               \/ Connect(b) \/ ClientStep(b) \/ Disconnect(b) \/ ContextDone(b)
               \/ HandlerStep(b)
        PROVE  client'[c] = client[c] /\ wire'[c] = wire[c]
    BY <2>1, <2>3 DEF Connect, ClientStep, Receive, SeeEnd, Disconnect, ContextDone,
         HandlerStep, Push, HandleChunk, WakeUp, HandleBreak, HandleDone, TypeOK,
         clientVars
  <2>4. ASSUME Connect(c) \/ Disconnect(c) PROVE client'[c] # "eof"
    BY <2>1, <2>4 DEF Connect, Disconnect, TypeOK
  <2>5. ASSUME Receive(c) PROVE client'[c] # "eof"
    BY <2>5 DEF Receive
  <2>6. ASSUME SeeEnd(c) PROVE wire'[c] = <<>>
    BY <2>6 DEF SeeEnd
  <2>7. ASSUME HandlerStep(c) \/ ContextDone(c)
        PROVE  client'[c] = client[c] /\ (client[c] = "eof" => wire'[c] = wire[c])
    BY <2>2, <2>7 DEF HandlerStep, Push, HandleChunk, WakeUp, HandleBreak, HandleDone,
                      ContextDone, clientVars
  <2>8. ASSUME \/ AwaitConnection \/ PutChunk \/ Close \/ UNCHANGED vars
               \/ \E b \in Conns : Send(b) \/ SendInChunks(b) \/ BreakConnection(b)
        PROVE  UNCHANGED <<client, wire>>
    BY <2>8 DEF AwaitConnection, PutChunk, Close, Send, SendInChunks, BreakConnection,
                BeginSend, vars, clientVars
  <2> QED
    BY <1>2, <2>1, <2>3, <2>4, <2>5, <2>6, <2>7, <2>8 DEF Next, ClientStep
<1> QED
  BY <1>1, <1>2 DEF IInv, DrainedInv

LEMMA Invariant == Spec => []IInv
BY Initially, Inductive, PTL DEF Spec
-----------------------------------------------------------------------------
(***************************************************************************)
(* What was sent before the break.                                         *)
(***************************************************************************)

LEMMA Beginning ==
  ASSUME NEW S, NEW s \in Seq(S), NEW n \in 0 .. Len(s)
  PROVE  /\ SubSeq(s, 1, n) \in Seq(S)
         /\ Len(SubSeq(s, 1, n)) = n
         /\ \A i \in 1 .. n : SubSeq(s, 1, n)[i] = s[i]
OBVIOUS

Breaks(s) == {i \in 1 .. Len(s) : s[i] = nil}
Before(s) == IF Breaks(s) = {} THEN s ELSE SubSeq(s, 1, Min(Breaks(s)) - 1)

LEMMA FirstBreak ==
  ASSUME NEW s \in Seq(0 .. MaxData), Breaks(s) # {}
  PROVE  /\ Min(Breaks(s)) \in 1 .. Len(s)
         /\ s[Min(Breaks(s))] = nil
         /\ \A i \in 1 .. Len(s) : s[i] = nil => Min(Breaks(s)) <= i
<1>1. Breaks(s) \in SUBSET Nat
  BY LenProperties DEF Breaks
<1>2. Min(Breaks(s)) \in Breaks(s) /\ \A i \in Breaks(s) : Min(Breaks(s)) <= i
  BY <1>1, MinIsLeast
<1> QED
  BY <1>2 DEF Breaks

(* A sequence of data that is the beginning of what was sent.              *)
LEMMA PrefixOfBefore ==
  ASSUME NEW s \in Seq(0 .. MaxData), NEW o \in Seq(1 .. MaxData), Len(o) <= Len(s),
         \A i \in 1 .. Len(o) : o[i] = s[i]
  PROVE  IsPrefix(o, Before(s))
<1>1. Len(o) \in Nat /\ Len(s) \in Nat /\ \A i \in 1 .. Len(o) : o[i] # nil
  <2>1. \A i \in 1 .. Len(o) : o[i] \in 1 .. MaxData
    BY ElementOfSeq
  <2> QED
    BY <2>1, LenProperties DEF nil
<1>2. SubSeq(o, 1, Len(o)) = o
  BY SubSeqFull
<1>3. ASSUME NEW t \in Seq(0 .. MaxData), Len(o) <= Len(t),
             \A i \in 1 .. Len(o) : o[i] = t[i]
      PROVE  IsPrefix(o, t)
  <2>1. SubSeq(t, 1, Len(o)) = o
    <3>1. /\ SubSeq(t, 1, Len(o)) \in Seq(0 .. MaxData)
          /\ Len(SubSeq(t, 1, Len(o))) = Len(o)
          /\ \A i \in 1 .. Len(o) : SubSeq(t, 1, Len(o))[i] = t[i]
      <4>1. Len(o) \in 0 .. Len(t)
        BY <1>1, <1>3, LenProperties
      <4> QED
        BY <4>1, Beginning
    <3>2. o \in Seq(0 .. MaxData)
      BY SeqMonotonic
    <3> QED
      BY <1>3, <3>1, <3>2, SeqEqual
  <2> QED
    BY <1>2, <1>3, <2>1 DEF IsPrefix
<1>4. CASE Breaks(s) = {}
  BY <1>3, <1>4 DEF Before
<1>5. CASE Breaks(s) # {}
  <2> DEFINE m == Min(Breaks(s))
             t == SubSeq(s, 1, m - 1)
  <2>1. m \in 1 .. Len(s) /\ s[m] = nil
    BY <1>5, FirstBreak
  <2> HIDE DEF m
  <2>2. Len(o) <= m - 1
    <3>1. SUFFICES ASSUME m <= Len(o) PROVE FALSE
      BY <1>1, <2>1
    <3> QED
      BY <1>1, <2>1, <3>1
  <2>3. /\ t \in Seq(0 .. MaxData) /\ Len(t) = m - 1
        /\ \A i \in 1 .. m - 1 : t[i] = s[i]
    <3>1. m - 1 \in 0 .. Len(s)
      BY <1>1, <2>1
    <3> QED
      BY <3>1, Beginning
  <2> HIDE DEF t
  <2>4. \A i \in 1 .. Len(o) : o[i] = t[i]
    BY <1>1, <2>1, <2>2, <2>3
  <2>5. IsPrefix(o, t)
    BY <1>3, <2>2, <2>3, <2>4
  <2> QED
    BY <1>5, <2>5 DEF Before, m, t
<1> QED
  BY <1>4, <1>5

(* The beginning of what was sent, if a break comes after it.              *)
LEMMA AllOfBefore ==
  ASSUME NEW s \in Seq(0 .. MaxData), NEW o \in Seq(1 .. MaxData), Len(o) < Len(s),
         \A i \in 1 .. Len(o) : o[i] = s[i], s[Len(o) + 1] = nil
  PROVE  o = Before(s) /\ Before(s) # s
<1>1. Len(o) \in Nat /\ Len(s) \in Nat /\ \A i \in 1 .. Len(o) : o[i] # nil
  <2>1. \A i \in 1 .. Len(o) : o[i] \in 1 .. MaxData
    BY ElementOfSeq
  <2> QED
    BY <2>1, LenProperties DEF nil
<1>2. Len(o) + 1 \in Breaks(s)
  BY <1>1 DEF Breaks
<1> DEFINE m == Min(Breaks(s))
           t == SubSeq(s, 1, m - 1)
<1>3. m \in 1 .. Len(s) /\ s[m] = nil /\ \A i \in 1 .. Len(s) : s[i] = nil => m <= i
  BY <1>2, FirstBreak
<1> HIDE DEF m
<1>4. m = Len(o) + 1
  <2>1. m <= Len(o) + 1
    BY <1>1, <1>3
  <2>2. m > Len(o)
    BY <1>1, <1>3
  <2> QED
    BY <1>1, <1>3, <2>1, <2>2
<1>5. /\ t \in Seq(0 .. MaxData) /\ Len(t) = Len(o)
      /\ \A i \in 1 .. Len(o) : t[i] = s[i]
  <2>1. m - 1 \in 0 .. Len(s) /\ m - 1 = Len(o)
    BY <1>1, <1>3, <1>4
  <2> QED
    BY <2>1, Beginning
<1> HIDE DEF t
<1>6. o \in Seq(0 .. MaxData)
  BY SeqMonotonic
<1>7. o = t
  BY <1>5, <1>6, SeqEqual
<1>8. t # s
  BY <1>1, <1>5
<1> QED
  BY <1>2, <1>7, <1>8 DEF Before, m, t
-----------------------------------------------------------------------------
(***************************************************************************)
(* Theorems.                                                               *)
(***************************************************************************)

(* The state of testapi_stream_server.go has its types; no channel holds   *)
(* more than it can.                                                       *)
THEOREM TypeCorrect == Spec => []TypeOK
<1>1. IInv => TypeOK
  BY DEF IInv, TypeInv
<1> QED
  BY <1>1, Invariant, PTL

(* streamHandler: what a client receives on a connection is, in order and  *)
(* without a hole, what Send and SendInChunks were given for it, up to     *)
(* BreakConnection.                                                        *)
THEOREM Received == Spec => []ReceivedIsPrefix
<1>1. IInv => ReceivedIsPrefix
  <2> SUFFICES ASSUME IInv, NEW c \in Conns
               PROVE  IsPrefix(received[c] \o wire[c], BeforeBreak(c))
    BY DEF ReceivedIsPrefix
  <2>1. /\ sent[c] \in Seq(0 .. MaxData) /\ dataCh[c] \in Seq(Chunks)
        /\ Out(c) \in Seq(1 .. MaxData)
    BY ConnTypes DEF IInv
  <2>2. /\ Len(Out(c)) <= Len(sent[c]) - Len(dataCh[c])
        /\ \A i \in 1 .. Len(Out(c)) : Out(c)[i] = sent[c][i]
    BY DEF IInv, ConnInv, ConnFacts, OutputFacts, TakenOf
  <2>3. Len(Out(c)) <= Len(sent[c])
    BY <2>1, <2>2, LenProperties
  <2>4. IsPrefix(Out(c), Before(sent[c]))
    BY <2>1, <2>2, <2>3, PrefixOfBefore
  <2> QED
    BY <2>4 DEF Out, BeforeBreak, Before, Breaks
<1> QED
  BY <1>1, Invariant, PTL

(* streamHandler and BreakConnection: a client that kept its connection    *)
(* sees it end only after all that was sent before the break.              *)
THEOREM Complete == Spec => []EndsAfterAll
<1>1. IInv => EndsAfterAll
  <2> SUFFICES ASSUME IInv, NEW c \in Conns, client[c] = "eof", handler[c] # "refused"
               PROVE  received[c] = BeforeBreak(c) /\ BeforeBreak(c) # sent[c]
    BY DEF EndsAfterAll
  <2>1. /\ sent[c] \in Seq(0 .. MaxData) /\ dataCh[c] \in Seq(Chunks)
        /\ received[c] \in Seq(1 .. MaxData)
        /\ wire[c] = <<>>
    BY ConnTypes DEF IInv, DrainedInv
  <2>2. Out(c) = received[c]
    BY <2>1, ConcatEmptySeq DEF Out
  <2>3. BrokenBy(sent[c], dataCh[c])
    BY DEF IInv, ConnInv, ConnFacts, EndFacts
  <2>4. /\ Len(received[c]) = TakenOf(sent[c], dataCh[c]) - 1
        /\ \A i \in 1 .. Len(received[c]) : received[c][i] = sent[c][i]
    BY <2>2, <2>3 DEF IInv, ConnInv, ConnFacts, OutputFacts
  <2>5. Len(received[c]) < Len(sent[c]) /\ sent[c][Len(received[c]) + 1] = nil
    <3>1. /\ TakenOf(sent[c], dataCh[c]) <= Len(sent[c])
          /\ TakenOf(sent[c], dataCh[c]) \in Int /\ Len(sent[c]) \in Nat
      BY <2>1, TakenIsBounded
    <3> QED
      BY <2>3, <2>4, <3>1 DEF BrokenBy
  <2>6. received[c] = Before(sent[c]) /\ Before(sent[c]) # sent[c]
    BY <2>1, <2>4, <2>5, AllOfBefore
  <2> QED
    BY <2>6 DEF BeforeBreak, Before, Breaks
<1> QED
  BY <1>1, Invariant, PTL
-----------------------------------------------------------------------------
(***************************************************************************)
(* The promise of OrderedStream.                                           *)
(***************************************************************************)

(* The test has only connections that the endpoint has reported, and sends *)
(* on no other; one that is refused came when the endpoint was closed.     *)
Reported(c) == handler[c] \in {"looping", "sleeping", "ended"}

ReportInv ==
  /\ \A i \in 1 .. Len(newConns) : Reported(newConns[i])
  /\ \A c \in conns : Reported(c)
  /\ sending # <<>> => sendingTo \in conns
  /\ \A c \in Conns : ~Reported(c) => sent[c] = <<>>
  /\ \A c \in Conns : handler[c] = "refused" => endpoint = "closed"

LEMMA ReportedInitially == Init => ReportInv
BY EmptySeq DEF Init, ReportInv, Reported

(* What a step may do to the handler of a connection.                      *)
LEMMA HandlerSteps ==
  ASSUME IInv, [Next]_vars, NEW c \in Conns
  PROVE  \/ handler'[c] = handler[c]
         \/ Connect(c) /\ handler[c] = "none" /\ handler'[c] = "arrived"
         \/ Push(c)
         \/ Reported(c) /\ Reported(c)'
<1>0. TypeOK /\ (client[c] = "none" => handler[c] = "none")
  BY DEF IInv, TypeInv, ConnInv, ConnFacts, EndFacts
<1>1. ASSUME NEW b \in Conns, Connect(b)
      PROVE  handler'[c] = handler[c] \/ (b = c /\ handler[c] = "none" /\ handler'[c] = "arrived")
  BY <1>0, <1>1 DEF Connect, TypeOK
<1>2. ASSUME NEW b \in Conns, ClientStep(b) \/ Disconnect(b) \/ ContextDone(b)
      PROVE  handler'[c] = handler[c]
  BY <1>2 DEF ClientStep, Receive, SeeEnd, Disconnect, ContextDone, serverVars
<1>3. ASSUME NEW b \in Conns, Push(b) PROVE handler'[c] = handler[c] \/ b = c
  BY <1>0, <1>3 DEF Push, TypeOK
<1>4. ASSUME NEW b \in Conns, HandleChunk(b) \/ WakeUp(b) \/ HandleBreak(b) \/ HandleDone(b)
      PROVE  handler'[c] = handler[c] \/ (Reported(c) /\ Reported(c)')
  BY <1>0, <1>4 DEF HandleChunk, WakeUp, HandleBreak, HandleDone, Reported, TypeOK
<1>5. ASSUME \/ AwaitConnection \/ PutChunk \/ Close \/ UNCHANGED vars
             \/ \E b \in Conns : Send(b) \/ SendInChunks(b) \/ BreakConnection(b)
      PROVE  handler'[c] = handler[c]
  BY <1>5 DEF AwaitConnection, PutChunk, Close, Send, SendInChunks, BreakConnection,
              BeginSend, vars, serverVars
<1> QED
  BY <1>1, <1>2, <1>3, <1>4, <1>5 DEF Next, HandlerStep

(* A connection that was reported remains so.                              *)
LEMMA ReportStands ==
  ASSUME IInv, [Next]_vars, NEW c \in Conns, Reported(c)
  PROVE  Reported(c)'
<1>1. ~Push(c) /\ handler[c] # "none"
  BY DEF Push, Reported
<1> QED
  BY <1>1, HandlerSteps DEF Reported

Sends == \E c \in Conns : Send(c) \/ SendInChunks(c) \/ BreakConnection(c)

LEMMA ReportSteps == IInv /\ ReportInv /\ [Next]_vars => ReportInv'
<1> SUFFICES ASSUME IInv, ReportInv, [Next]_vars PROVE ReportInv'
  OBVIOUS
<1>0. /\ TypeOK /\ newConns \in Seq(Conns) /\ conns \subseteq Conns
      /\ sending # <<>> => sendingTo \in Conns
      /\ handler \in [Conns -> {"none", "arrived", "looping", "sleeping", "ended", "refused"}]
  BY DEF IInv, TypeInv, TypeOK
<1>1. \A c \in Conns : Reported(c) => Reported(c)'
  BY ReportStands
<1>2. ASSUME NEW c \in Conns, Push(c)
      PROVE  \/ newConns' = Append(newConns, c) /\ Reported(c)'
             \/ newConns' = newConns
  BY <1>0, <1>2 DEF Push, Reported
<1>3. ASSUME Sends PROVE /\ UNCHANGED <<endpoint, newConns, conns, sent>>
                         /\ sendingTo' \in conns
  BY <1>3 DEF Sends, Send, SendInChunks, BreakConnection, BeginSend, serverVars
<1>4. ASSUME NEW c \in Conns,
             \/ Connect(c) \/ ClientStep(c) \/ Disconnect(c) \/ ContextDone(c)
             \/ HandlerStep(c)
      PROVE  UNCHANGED <<endpoint, conns, sending, sendingTo, sent>>
  BY <1>4 DEF Connect, ClientStep, Receive, SeeEnd, Disconnect, ContextDone, HandlerStep, Push,
              HandleChunk, WakeUp, HandleBreak, HandleDone, serverVars, testVars
<1>5. ASSUME NEW c \in Conns,
             \/ Connect(c) \/ ClientStep(c) \/ Disconnect(c) \/ ContextDone(c)
             \/ HandlerStep(c)
      PROVE  Push(c) \/ newConns' = newConns
  BY <1>5 DEF Connect, ClientStep, Receive, SeeEnd, Disconnect, ContextDone, HandlerStep,
              HandleChunk, WakeUp, HandleBreak, HandleDone, serverVars
<1> DEFINE StillReported(c) == handler'[c] \in {"looping", "sleeping", "ended"}
<1>6. \A i \in 1 .. Len(newConns') : StillReported(newConns'[i])
  <2>0. \A i \in 1 .. Len(newConns) : newConns[i] \in Conns /\ StillReported(newConns[i])
    <3>1. \A i \in 1 .. Len(newConns) : newConns[i] \in Conns /\ Reported(newConns[i])
      BY <1>0, ElementOfSeq DEF ReportInv
    <3> QED
      BY <1>1, <3>1 DEF Reported
  <2>1. CASE newConns' = newConns
    BY <2>0, <2>1
  <2>2. ASSUME NEW c \in Conns, newConns' = Append(newConns, c), Reported(c)'
        PROVE  \A i \in 1 .. Len(newConns') : StillReported(newConns'[i])
    BY <1>0, <2>0, <2>2, AppendProperties, LenProperties DEF Reported
  <2>3. CASE AwaitConnection
    <3>1. newConns # <<>> /\ newConns' = Tail(newConns)
      BY <2>3 DEF AwaitConnection
    <3>2. \A i \in 1 .. Len(newConns') :
            i + 1 \in 1 .. Len(newConns) /\ newConns'[i] = newConns[i + 1]
      BY <1>0, <3>1
    <3> QED
      BY <2>0, <3>2
  <2>4. CASE PutChunk \/ Close \/ UNCHANGED vars
    BY <2>1, <2>4 DEF PutChunk, Close, vars, serverVars
  <2> QED
    BY <1>2, <1>3, <1>5, <2>1, <2>2, <2>3, <2>4 DEF Next, Sends
<1>7. (\A c \in conns : Reported(c))' /\ (sending # <<>> => sendingTo \in conns)'
  <2>1. CASE AwaitConnection
    <3>1. /\ newConns # <<>> /\ conns' = conns \cup {Head(newConns)}
          /\ UNCHANGED <<sending, sendingTo>>
      BY <2>1 DEF AwaitConnection
    <3>2. Head(newConns) \in Conns /\ Reported(Head(newConns))
      <4>1. Head(newConns) = newConns[1] /\ 1 \in 1 .. Len(newConns) /\ Head(newConns) \in Conns
        BY <1>0, <3>1
      <4> QED
        BY <4>1 DEF ReportInv
    <3> QED
      BY <1>0, <1>1, <3>1, <3>2 DEF ReportInv
  <2>2. CASE PutChunk
    <3>1. sending # <<>> /\ UNCHANGED <<conns, sendingTo>>
      BY <2>2 DEF PutChunk
    <3> QED
      BY <1>0, <1>1, <3>1 DEF ReportInv
  <2>3. CASE Close \/ UNCHANGED vars
    BY <1>0, <1>1, <2>3 DEF Close, vars, testVars, ReportInv
  <2>4. CASE Sends
    BY <1>0, <1>1, <1>3, <2>4 DEF ReportInv
  <2>5. CASE UNCHANGED <<endpoint, conns, sending, sendingTo, sent>>
    BY <1>0, <1>1, <2>5 DEF ReportInv
  <2> QED
    BY <1>4, <2>1, <2>2, <2>3, <2>4, <2>5 DEF Next, Sends
<1>8. ASSUME NEW c \in Conns PROVE ~Reported(c)' => sent'[c] = <<>>
  <2>0. ~Reported(c)' => ~Reported(c) /\ sent[c] = <<>>
    BY <1>1 DEF ReportInv
  <2>1. CASE PutChunk
    <3>1. sending # <<>> /\ sent' = [sent EXCEPT ![sendingTo] = Append(@, Head(sending).data)]
      BY <2>1 DEF PutChunk
    <3>2. Reported(sendingTo) /\ sendingTo \in Conns
      BY <1>0, <3>1 DEF ReportInv
    <3>3. c # sendingTo => sent'[c] = sent[c]
      BY <1>0, <3>1, <3>2 DEF TypeOK
    <3> QED
      BY <2>0, <3>2, <3>3
  <2>2. CASE AwaitConnection \/ Close \/ UNCHANGED vars
    BY <2>0, <2>2 DEF AwaitConnection, Close, vars
  <2> QED
    BY <1>3, <1>4, <2>0, <2>1, <2>2 DEF Next, Sends
<1>9. ASSUME NEW c \in Conns, handler'[c] = "refused" PROVE endpoint' = "closed"
  <2>1. endpoint = "closed" => endpoint' = "closed"
    <3>1. ASSUME AwaitConnection \/ PutChunk \/ UNCHANGED vars PROVE endpoint' = endpoint
      BY <3>1 DEF AwaitConnection, PutChunk, vars, serverVars
    <3>2. Close => endpoint' = "closed"
      BY DEF Close
    <3> QED
      BY <1>3, <1>4, <3>1, <3>2 DEF Next, Sends
  <2>2. CASE handler[c] = "refused"
    BY <2>1, <2>2 DEF ReportInv
  <2>3. CASE Push(c)
    BY <1>0, <1>9, <2>3 DEF Push, TypeOK
  <2> QED
    BY <1>9, <2>2, <2>3, HandlerSteps DEF Reported
<1> QED
  BY <1>6, <1>7, <1>8, <1>9 DEF ReportInv, Reported
-----------------------------------------------------------------------------
(* Where the client is in the stream.                                      *)
LEMMA ReadingPoint ==
  ASSUME IInv, NEW c \in Conns
  PROVE  /\ Len(received[c]) \in Nat
         /\ wire[c] # <<>> =>
              /\ Len(received[c]) < Len(sent[c])
              /\ sent[c][Len(received[c]) + 1] = Head(wire[c])
              /\ Head(wire[c]) # nil
         /\ wire[c] = <<>> /\ client[c] = "open" /\ handler[c] = "ended" =>
              /\ Len(received[c]) < Len(sent[c])
              /\ sent[c][Len(received[c]) + 1] = nil
<1> DEFINE n == Len(received[c])
           t == TakenOf(sent[c], dataCh[c])
<1>1. /\ sent[c] \in Seq(0 .. MaxData) /\ dataCh[c] \in Seq(Chunks)
      /\ received[c] \in Seq(1 .. MaxData) /\ wire[c] \in Seq(1 .. MaxData)
  BY ConnTypes DEF IInv
<1>2. n \in Nat /\ t \in Int /\ Len(sent[c]) \in Nat /\ t <= Len(sent[c])
  BY <1>1, LenProperties, TakenIsBounded
<1>3. OutputFacts(sent[c], dataCh[c], Out(c), client[c])
  BY DEF IInv, ConnInv, ConnFacts
<1>4. ASSUME wire[c] # <<>>
      PROVE  n < Len(sent[c]) /\ sent[c][n + 1] = Head(wire[c]) /\ Head(wire[c]) # nil
  <2>1. n + 1 \in 1 .. Len(Out(c)) /\ Out(c)[n + 1] = Head(wire[c]) /\ Len(Out(c)) \in Nat
    <3>1. Len(Out(c)) \in Nat
      BY <1>1, ConcatProperties, LenProperties DEF Out
    <3>2. n + 1 \in 1 .. Len(received[c] \o wire[c]) /\ (received[c] \o wire[c])[n + 1] = Head(wire[c])
      BY <1>1, <1>4, SecondPart
    <3> QED
      BY <3>1, <3>2 DEF Out
  <2>2. Head(wire[c]) \in 1 .. MaxData
    BY <1>1, <1>4, HeadTailProperties
  <2>3. Len(Out(c)) <= t /\ Out(c)[n + 1] = sent[c][n + 1]
    BY <1>3, <2>1 DEF OutputFacts
  <2> HIDE DEF n, t
  <2>4. n < Len(sent[c])
    BY <1>2, <2>1, <2>3
  <2> QED
    BY <2>1, <2>2, <2>3, <2>4 DEF nil
<1>5. ASSUME wire[c] = <<>>, client[c] = "open", handler[c] = "ended"
      PROVE  n < Len(sent[c]) /\ sent[c][n + 1] = nil
  <2>1. Out(c) = received[c]
    BY <1>1, <1>5, ConcatEmptySeq DEF Out
  <2>2. BrokenBy(sent[c], dataCh[c])
    BY <1>5 DEF IInv, ConnInv, ConnFacts, EndFacts
  <2>3. n = t - 1 /\ t > 0 /\ sent[c][t] = nil
    BY <1>3, <1>5, <2>1, <2>2 DEF OutputFacts, BrokenBy
  <2> QED
    BY <1>2, <2>3
<1> QED
  BY <1>2, <1>4, <1>5

(* Every step of the server is one of its promise or leaves it alone.      *)
LEMMA PromiseStep == IInv /\ ReportInv /\ [Next]_vars => [Promise!Next]_(Promise!vars)
<1> SUFFICES ASSUME IInv, ReportInv, [Next]_vars
             PROVE  Promise!Next \/ UNCHANGED Promise!vars
  OBVIOUS
<1>0. TypeOK
  BY DEF IInv, TypeInv
<1>1. ASSUME NEW c \in Conns, Connect(c) PROVE Promise!Connect(c)
  <2>1. \A b \in Conns : b < c => b \in 1 .. c - 1
    BY BoundsAssumption DEF Conns
  <2> QED
    BY <1>1, <2>1 DEF Connect, Promise!Connect
<1>2. ASSUME NEW c \in Conns, Receive(c) PROVE Promise!Receive(c)
  <2>1. /\ client[c] = "open" /\ wire[c] # <<>>
        /\ received' = [received EXCEPT ![c] = Append(@, Head(wire[c]))]
        /\ UNCHANGED <<endpoint, client, sent>>
    BY <1>2 DEF Receive, serverVars
  <2> QED
    BY <2>1, ReadingPoint DEF Promise!Receive, Promise!NextItem
<1>3. ASSUME NEW c \in Conns, SeeEnd(c) PROVE Promise!End(c) \/ Promise!Refuse(c)
  <2>1. /\ client[c] = "open" /\ wire[c] = <<>> /\ handler[c] \in {"ended", "refused"}
        /\ client' = [client EXCEPT ![c] = "eof"]
        /\ UNCHANGED <<endpoint, sent, received>>
    BY <1>3 DEF SeeEnd, serverVars
  <2>2. CASE handler[c] = "ended"
    BY <2>1, <2>2, ReadingPoint DEF Promise!End, Promise!NextItem
  <2>3. CASE handler[c] = "refused"
    BY <2>1, <2>3 DEF ReportInv, Reported, Promise!Refuse
  <2> QED
    BY <2>1, <2>2, <2>3
<1>4. ASSUME NEW c \in Conns, Disconnect(c) PROVE Promise!Disconnect(c)
  BY <1>4 DEF Disconnect, serverVars, Promise!Disconnect
<1>5. CASE PutChunk
  <2>1. /\ sending # <<>> /\ sending \in Seq(Chunks) /\ sendingTo \in Conns
        /\ sent' = [sent EXCEPT ![sendingTo] = Append(@, Head(sending).data)]
        /\ UNCHANGED <<endpoint, client, received>>
    BY <1>5 DEF PutChunk, IInv, TypeInv, TypeOK, serverVars, clientVars
  <2>2. Head(sending).data \in 1 .. MaxData \cup {nil}
    <3>1. Head(sending) \in Chunks
      BY <2>1, HeadTailProperties
    <3> QED
      BY <3>1, BoundsAssumption DEF Chunks, nil
  <2>3. client[sendingTo] # "none"
    <3>1. handler[sendingTo] # "none"
      BY <2>1 DEF ReportInv, Reported
    <3> QED
      BY <2>1, <3>1 DEF IInv, ConnInv, ConnFacts, EndFacts
  <2>4. Promise!Put(sendingTo, Head(sending).data)
    BY <2>1, <2>3 DEF Promise!Put
  <2> QED
    BY <2>1, <2>2, <2>4 DEF Promise!Next
<1>6. CASE Close
  BY <1>6 DEF Close, Idle, clientVars, Promise!Close, Promise!Next
<1>7. ASSUME NEW c \in Conns, ContextDone(c) \/ HandlerStep(c) PROVE UNCHANGED Promise!vars
  BY <1>7 DEF ContextDone, HandlerStep, Push, HandleChunk, WakeUp, HandleBreak, HandleDone,
              serverVars, clientVars, Promise!vars
<1>8. CASE AwaitConnection \/ Sends \/ UNCHANGED vars
  BY <1>8 DEF AwaitConnection, Sends, Send, SendInChunks, BreakConnection, BeginSend, vars,
              serverVars, clientVars, Promise!vars
<1> QED
  BY <1>1, <1>2, <1>3, <1>4, <1>5, <1>6, <1>7, <1>8
     DEF Next, ClientStep, Sends, Promise!Next

(* testapi_stream_server.go implements OrderedStream: whatever becomes of  *)
(* the channels, the handlers and the Contexts, each connection carries    *)
(* what the test sent on it up to the break, and ends there.               *)
THEOREM Refinement == Spec => Promise!Spec
<1>1. Init => Promise!Init
  BY DEF Init, Promise!Init
<1>2. Init => IInv /\ ReportInv
  BY Initially, ReportedInitially
<1>3. IInv /\ ReportInv /\ [Next]_vars => (IInv /\ ReportInv)'
  BY Inductive, ReportSteps
<1> QED
  BY <1>1, <1>2, <1>3, PromiseStep, PTL DEF Spec, Promise!Spec
=============================================================================
