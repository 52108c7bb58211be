------------------------ MODULE MockEndpoints_proofs ------------------------
(***************************************************************************)
(* Proofs about MockEndpoints, for any finite set of endpoints, any set of *)
(* requests and any capacity of newConns.                                  *)
(***************************************************************************)
EXTENDS MockEndpoints, SequenceTheorems, FiniteSetTheorems, TLAPS

(***************************************************************************)
(* Facts about sequences.                                                  *)
(***************************************************************************)

(* Moving the head of the second part to the end of the first part leaves  *)
(* the concatenation as it was.                                            *)
LEMMA MoveHead ==
  ASSUME NEW S, NEW s \in Seq(S), NEW t \in Seq(S), t # <<>>
  PROVE  Append(s, Head(t)) \o Tail(t) = s \o t
<1>1. Head(t) \in S /\ Tail(t) \in Seq(S) /\ <<Head(t)>> \in Seq(S)
  BY HeadTailProperties
<1>2. t = <<Head(t)>> \o Tail(t)
  <2>1. Len(t) \in Nat \ {0} /\ SubSeq(t, 1, Len(t)) = t /\ Tail(t) = SubSeq(t, 2, Len(t))
    BY EmptySeq, SubSeqFull, TailIsSubSeq
  <2>2. SubSeq(t, 1, Len(t)) = <<t[1]>> \o SubSeq(t, 1 + 1, Len(t))
    BY <2>1, SubSeqRecursiveFirst
  <2> QED
    BY <2>1, <2>2, HeadTailProperties
<1>3. Append(s, Head(t)) = s \o <<Head(t)>>
  BY <1>1, AppendIsConcat
<1> QED
  BY <1>1, <1>2, <1>3, ConcatAssociative

(* One more at the end of a sequence that did not have it.                 *)
LEMMA AppendNew ==
  ASSUME NEW S, NEW s \in Seq(S), NEW e \in S, IsInjective(s), e \notin ToSet(s)
  PROVE  /\ IsInjective(Append(s, e))
         /\ ToSet(Append(s, e)) = ToSet(s) \cup {e}
<1>1. /\ Append(s, e) \in Seq(S)
      /\ Len(s) \in Nat /\ DOMAIN s = 1 .. Len(s)
      /\ Len(Append(s, e)) = Len(s) + 1 /\ DOMAIN Append(s, e) = 1 .. Len(s) + 1
      /\ \A i \in 1 .. Len(s) : Append(s, e)[i] = s[i]
      /\ Append(s, e)[Len(s) + 1] = e
  BY AppendProperties, LenProperties
<1>2. \A i \in 1 .. Len(s) : s[i] # e
  BY <1>1 DEF ToSet
<1>3. IsInjective(Append(s, e))
  BY <1>1, <1>2 DEF IsInjective
<1>4. ASSUME NEW x PROVE x \in ToSet(Append(s, e)) <=> x \in ToSet(s) \cup {e}
  <2>1. x \in ToSet(Append(s, e)) <=> \E i \in 1 .. Len(s) + 1 : Append(s, e)[i] = x
    BY <1>1 DEF ToSet
  <2>2. x \in ToSet(s) <=> \E i \in 1 .. Len(s) : s[i] = x
    BY <1>1 DEF ToSet
  <2> QED
    BY <1>1, <2>1, <2>2
<1> QED
  BY <1>3, <1>4

(* An item that is appended to the second of two sequences is appended to  *)
(* both.                                                                   *)
LEMMA AppendToSecond ==
  ASSUME NEW S, NEW s \in Seq(S), NEW t \in Seq(S), NEW e \in S
  PROVE  /\ s \o t \in Seq(S)
         /\ s \o Append(t, e) = Append(s \o t, e)
<1>1. <<e>> \in Seq(S) /\ s \o t \in Seq(S)
  BY ConcatProperties
<1> QED
  BY <1>1, AppendIsConcat, ConcatAssociative

LEMMA LengthOfBoth ==
  ASSUME NEW S, NEW s \in Seq(S), NEW t \in Seq(S), NEW n \in Nat
  PROVE  Len(t) >= n => Len(s \o t) >= n
<1>1. Len(s \o t) = Len(s) + Len(t) /\ Len(s) \in Nat /\ Len(t) \in Nat
  BY ConcatProperties, LenProperties
<1> QED
  BY <1>1

LEMMA LengthGrows ==
  ASSUME NEW S, NEW s \in Seq(S), NEW e \in S, NEW n \in Nat
  PROVE  Len(s) >= n => Len(Append(s, e)) >= n
<1>1. Len(Append(s, e)) = Len(s) + 1 /\ Len(s) \in Nat
  BY AppendProperties, LenProperties
<1> QED
  BY <1>1
-----------------------------------------------------------------------------
(***************************************************************************)
(* The endpoints.                                                          *)
(***************************************************************************)

CreatedEndpoints == {e \in Endpoints : id[e] # 0}

(* Ids are given out one after another, and none twice, so they suffice    *)
(* for all endpoints; the map leads from an id to the endpoint that has    *)
(* it, until Close takes it out.                                           *)
EndpointInv ==
  /\ lastEndpointID = Cardinality(CreatedEndpoints)
  /\ \A e \in Endpoints : id[e] <= lastEndpointID
  /\ \A e, f \in CreatedEndpoints : id[e] = id[f] => e = f
  /\ \A i \in Ids : endpoints[i] # NoEndpoint =>
       id[endpoints[i]] = i /\ closing[endpoints[i]] = "open"
  /\ \A e \in CreatedEndpoints : closing[e] = "open" => endpoints[id[e]] = e
  /\ \A e \in Endpoints : closing[e] # "open" => id[e] # 0

(* The types of the variables that belong to the manager.                  *)
ManagerTypes ==
  /\ lastEndpointID \in 0 .. Cardinality(Endpoints)
  /\ endpoints \in [Ids -> Endpoints \cup {NoEndpoint}]
  /\ id \in [Endpoints -> 0 .. Cardinality(Endpoints)]
  /\ closing \in [Endpoints -> {"open", "deleted", "closed"}]

ManagerInv == ManagerTypes /\ EndpointInv

LEMMA EndpointsAreFinite == Cardinality(Endpoints) \in Nat
BY EndpointsAssumption, FS_CardinalityType

LEMMA ManagerInitially == Init => ManagerInv
<1> SUFFICES ASSUME Init PROVE ManagerInv
  OBVIOUS
<1>1. CreatedEndpoints = {}
  BY DEF Init, CreatedEndpoints
<1>2. Cardinality(CreatedEndpoints) = 0
  BY <1>1, FS_EmptySet
<1> QED
  BY <1>1, <1>2, EndpointsAreFinite DEF Init, ManagerInv, ManagerTypes, EndpointInv

(* While there is an endpoint to be created, there is an id for it.        *)
LEMMA IdIsFree ==
  ASSUME ManagerInv, NEW e \in Endpoints, id[e] = 0
  PROVE  /\ NextID \in Ids
         /\ Cardinality(CreatedEndpoints \cup {e}) = NextID
         /\ \A f \in Endpoints : id[f] # NextID
         /\ endpoints[NextID] = NoEndpoint
<1>1. /\ CreatedEndpoints \in SUBSET Endpoints
      /\ CreatedEndpoints \cup {e} \in SUBSET Endpoints
      /\ e \notin CreatedEndpoints
  BY DEF CreatedEndpoints
<1>2. IsFiniteSet(CreatedEndpoints)
  BY <1>1, EndpointsAssumption, FS_Subset
<1>3. Cardinality(CreatedEndpoints \cup {e}) = Cardinality(CreatedEndpoints) + 1
  BY <1>1, <1>2, FS_AddElement
<1>4. Cardinality(CreatedEndpoints \cup {e}) <= Cardinality(Endpoints)
  BY <1>1, EndpointsAssumption, FS_Subset
<1>5. NextID = lastEndpointID + 1 /\ lastEndpointID \in Nat
  BY EndpointsAreFinite DEF NextID, ManagerInv, ManagerTypes
<1>6. Cardinality(CreatedEndpoints \cup {e}) = NextID /\ NextID \in Ids
  BY <1>3, <1>4, <1>5, EndpointsAreFinite DEF ManagerInv, EndpointInv, Ids
<1>7. \A f \in Endpoints : id[f] # NextID
  BY <1>5, EndpointsAreFinite DEF ManagerInv, ManagerTypes, EndpointInv
<1>8. endpoints[NextID] = NoEndpoint
  BY <1>6, <1>7 DEF ManagerInv, ManagerTypes, EndpointInv
<1> QED
  BY <1>6, <1>7, <1>8

LEMMA ManagerSteps == ManagerInv /\ [Next]_vars => ManagerInv'
<1> SUFFICES ASSUME ManagerInv, [Next]_vars PROVE ManagerInv'
  OBVIOUS
<1> USE EndpointsAreFinite
<1>1. ASSUME NEW e \in Endpoints, newMockEndpoint(e) PROVE ManagerInv'
  <2> DEFINE n == NextID
  <2>1. /\ n \in Ids /\ n \in Nat \ {0} /\ n <= Cardinality(Endpoints)
        /\ Cardinality(CreatedEndpoints \cup {e}) = n
        /\ n = lastEndpointID + 1
        /\ \A f \in Endpoints : id[f] # n
    <3>1. id[e] = 0
      BY <1>1 DEF newMockEndpoint
    <3>2. /\ n \in Ids /\ Cardinality(CreatedEndpoints \cup {e}) = n
          /\ \A f \in Endpoints : id[f] # n
      BY <3>1, IdIsFree
    <3>3. n = lastEndpointID + 1
      BY DEF NextID
    <3> QED
      BY <3>2, <3>3 DEF Ids
  <2>2. /\ lastEndpointID' = n
        /\ id' = [id EXCEPT ![e] = n]
        /\ endpoints' = [endpoints EXCEPT ![n] = e]
        /\ closing' = closing
        /\ id[e] = 0
    BY <1>1 DEF newMockEndpoint
  <2> HIDE DEF n
  <2>3. ManagerTypes'
    BY <2>1, <2>2 DEF ManagerInv, ManagerTypes, Ids
  <2>4. CreatedEndpoints' = CreatedEndpoints \cup {e}
    BY <2>1, <2>2 DEF CreatedEndpoints, ManagerInv, ManagerTypes
  <2>5. \A f \in Endpoints : id'[f] = IF f = e THEN n ELSE id[f]
    BY <2>2 DEF ManagerInv, ManagerTypes
  <2>6. \A i \in Ids : endpoints'[i] = IF i = n THEN e ELSE endpoints[i]
    BY <2>2 DEF ManagerInv, ManagerTypes
  <2>7. closing[e] = "open"
    BY <2>2 DEF ManagerInv, EndpointInv
  <2>8. (\A f \in Endpoints : id[f] <= lastEndpointID)'
    BY <2>1, <2>2, <2>5 DEF ManagerInv, EndpointInv, ManagerTypes
  <2>9. (\A f, g \in CreatedEndpoints : id[f] = id[g] => f = g)'
    BY <2>1, <2>4, <2>5 DEF ManagerInv, EndpointInv, CreatedEndpoints
  <2>10. (\A i \in Ids : endpoints[i] # NoEndpoint =>
           id[endpoints[i]] = i /\ closing[endpoints[i]] = "open")'
    <3> SUFFICES ASSUME NEW i \in Ids, endpoints'[i] # NoEndpoint
                 PROVE  id'[endpoints'[i]] = i /\ closing'[endpoints'[i]] = "open"
      BY DEF Ids
    <3>1. CASE i = n
      BY <3>1, <2>2, <2>5, <2>6, <2>7
    <3>2. CASE i # n
      <4>1. endpoints'[i] = endpoints[i] /\ endpoints[i] \in Endpoints
        BY <3>2, <2>6 DEF ManagerInv, ManagerTypes
      <4>2. id[endpoints[i]] = i /\ closing[endpoints[i]] = "open" /\ i # 0
        BY <4>1 DEF ManagerInv, EndpointInv, Ids
      <4>3. endpoints[i] # e
        BY <4>2, <2>2
      <4> QED
        BY <4>1, <4>2, <4>3, <2>2, <2>5
    <3> QED
      BY <3>1, <3>2
  <2>11. (\A f \in CreatedEndpoints : closing[f] = "open" => endpoints[id[f]] = f)'
    <3> SUFFICES ASSUME NEW f \in CreatedEndpoints', closing'[f] = "open"
                 PROVE  endpoints'[id'[f]] = f
      OBVIOUS
    <3>1. CASE f = e
      BY <3>1, <2>1, <2>5, <2>6
    <3>2. CASE f # e
      <4>1. f \in Endpoints /\ id'[f] = id[f] /\ id[f] # n /\ id[f] \in Ids
        BY <3>2, <2>1, <2>4, <2>5 DEF CreatedEndpoints, ManagerInv, ManagerTypes, Ids
      <4>2. f \in CreatedEndpoints /\ endpoints[id[f]] = f
        BY <3>2, <2>2, <2>4 DEF ManagerInv, EndpointInv
      <4> QED
        BY <4>1, <4>2, <2>6
    <3> QED
      BY <3>1, <3>2
  <2>12. (\A f \in Endpoints : closing[f] # "open" => id[f] # 0)'
    BY <2>1, <2>2, <2>5 DEF ManagerInv, EndpointInv
  <2>13. (lastEndpointID = Cardinality(CreatedEndpoints))'
    BY <2>1, <2>2, <2>4
  <2> QED
    BY <2>3, <2>8, <2>9, <2>10, <2>11, <2>12, <2>13 DEF ManagerInv, EndpointInv
<1>2. ASSUME NEW e \in Endpoints, CloseDeletes(e) PROVE ManagerInv'
  <2>1. id[e] \in Ids /\ e \in CreatedEndpoints /\ endpoints[id[e]] = e
    BY <1>2 DEF CloseDeletes, ManagerInv, ManagerTypes, EndpointInv, CreatedEndpoints, Ids
  <2>2. /\ ManagerTypes' /\ UNCHANGED <<lastEndpointID, id>>
        /\ closing' = [closing EXCEPT ![e] = "deleted"]
        /\ endpoints' = [endpoints EXCEPT ![id[e]] = NoEndpoint]
    BY <1>2 DEF CloseDeletes, ManagerInv, ManagerTypes, Ids
  <2>3. CreatedEndpoints' = CreatedEndpoints
    BY <2>2 DEF CreatedEndpoints
  <2>4. \A f \in Endpoints : closing'[f] = IF f = e THEN "deleted" ELSE closing[f]
    BY <2>2 DEF ManagerInv, ManagerTypes
  <2>5. \A i \in Ids : endpoints'[i] = IF i = id[e] THEN NoEndpoint ELSE endpoints[i]
    BY <2>2 DEF ManagerInv, ManagerTypes
  <2>6. (\A i \in Ids : endpoints[i] # NoEndpoint =>
           id[endpoints[i]] = i /\ closing[endpoints[i]] = "open")'
    <3> SUFFICES ASSUME NEW i \in Ids, endpoints'[i] # NoEndpoint
                 PROVE  id'[endpoints'[i]] = i /\ closing'[endpoints'[i]] = "open"
      BY DEF Ids
    <3>1. i # id[e] /\ endpoints'[i] = endpoints[i] /\ endpoints[i] \in Endpoints
      BY <2>5 DEF ManagerInv, ManagerTypes
    <3>2. id[endpoints[i]] = i /\ closing[endpoints[i]] = "open"
      BY <3>1 DEF ManagerInv, EndpointInv
    <3> QED
      BY <3>1, <3>2, <2>2, <2>4
  <2>7. (\A f \in CreatedEndpoints : closing[f] = "open" => endpoints[id[f]] = f)'
    <3> SUFFICES ASSUME NEW f \in CreatedEndpoints, closing'[f] = "open"
                 PROVE  endpoints'[id[f]] = f
      BY <2>2, <2>3
    <3>1. f # e /\ closing[f] = "open" /\ f \in Endpoints
      BY <2>4 DEF CreatedEndpoints
    <3>2. id[f] # id[e] /\ endpoints[id[f]] = f /\ id[f] \in Ids
      BY <3>1, <2>1 DEF ManagerInv, ManagerTypes, EndpointInv, CreatedEndpoints, Ids
    <3> QED
      BY <3>2, <2>5
  <2>8. (\A f \in Endpoints : closing[f] # "open" => id[f] # 0)'
    BY <1>2, <2>2, <2>4 DEF CloseDeletes, ManagerInv, EndpointInv
  <2> QED
    BY <2>2, <2>3, <2>6, <2>7, <2>8 DEF ManagerInv, EndpointInv
<1>3. ASSUME NEW e \in Endpoints, CloseClosesChannel(e) PROVE ManagerInv'
  <2>1. /\ ManagerTypes' /\ UNCHANGED <<lastEndpointID, id, endpoints>>
        /\ \A f \in Endpoints : /\ closing'[f] = "open" <=> closing[f] = "open"
    BY <1>3 DEF CloseClosesChannel, ManagerInv, ManagerTypes, Ids
  <2>2. CreatedEndpoints' = CreatedEndpoints
    BY <2>1 DEF CreatedEndpoints
  <2> QED
    BY <2>1, <2>2 DEF ManagerInv, ManagerTypes, EndpointInv, CreatedEndpoints, Ids
<1>4. ASSUME UNCHANGED managerVars PROVE ManagerInv'
  BY <1>4 DEF managerVars, ManagerInv, ManagerTypes, EndpointInv, CreatedEndpoints, Ids
<1>5. ASSUME NEW e \in Endpoints, AwaitConnection(e) PROVE UNCHANGED managerVars
  BY <1>5 DEF AwaitConnection
<1>6. ASSUME NEW r \in Requests, NEW e \in Endpoints \cup {NoEndpoint}, Arrive(r, e)
      PROVE  UNCHANGED managerVars
  BY <1>6 DEF Arrive
<1>7. ASSUME NEW r \in Requests, ServeStep(r) \/ HandlerReturns(r) \/ ClientDisconnects(r)
      PROVE  UNCHANGED managerVars
  BY <1>7 DEF ServeStep, Lookup, BodyFails, SetActive, Push, PushPanics, HandlerReturns,
              ClientDisconnects
<1>8. CASE UNCHANGED vars
  BY <1>8, <1>4 DEF vars
<1> QED
  BY <1>1, <1>2, <1>3, <1>4, <1>5, <1>6, <1>7, <1>8 DEF Next
-----------------------------------------------------------------------------
(***************************************************************************)
(* The goroutines of the requests.                                         *)
(***************************************************************************)

RequestTypes ==
  /\ target \in [Requests -> Endpoints \cup {NoEndpoint}]
  /\ late \subseteq Requests
  /\ pc \in [Requests -> {"notSent", "arrived", "found", "active", "serving",
                          "served", "404", "500", "panicked"}]
  /\ found \in [Requests -> Endpoints \cup {NoEndpoint}]
  /\ cancelled \subseteq Requests
  /\ activeConn \in [Endpoints -> Requests \cup {NoRequest}]

(* What is known of a request: an endpoint was found for it once it is     *)
(* past the lookup, and it is the one that it was sent to.                 *)
RequestFacts(r) ==
  /\ pc[r] \in {"notSent", "arrived", "404"} <=> found[r] = NoEndpoint
  /\ found[r] \in {NoEndpoint, target[r]}
  /\ target[r] # NoEndpoint => id[target[r]] # 0
  /\ pc[r] = "404" /\ target[r] # NoEndpoint => closing[target[r]] # "open"
  /\ r \in late => /\ target[r] # NoEndpoint
                   /\ closing[target[r]] = "closed"
                   /\ pc[r] \in {"arrived", "404"}

RequestInv == RequestTypes /\ \A r \in Requests : RequestFacts(r)

LEMMA RequestsInitially == Init => RequestInv
BY DEF Init, RequestInv, RequestTypes, RequestFacts

(* The map leads to an endpoint exactly as long as it is not closed.       *)
LEMMA LookupFinds ==
  ASSUME ManagerInv, NEW e \in Endpoints, id[e] # 0
  PROVE  endpoints[id[e]] = IF closing[e] = "open" THEN e ELSE NoEndpoint
<1>1. e \in CreatedEndpoints /\ id[e] \in Ids
  BY EndpointsAreFinite DEF CreatedEndpoints, ManagerInv, ManagerTypes, Ids
<1>2. CASE closing[e] = "open"
  BY <1>1, <1>2 DEF ManagerInv, EndpointInv
<1>3. CASE closing[e] # "open"
  <2>1. SUFFICES ASSUME endpoints[id[e]] # NoEndpoint PROVE FALSE
    BY <1>3
  <2>2. endpoints[id[e]] \in Endpoints
    BY <1>1, <2>1 DEF ManagerInv, ManagerTypes
  <2>3. id[endpoints[id[e]]] = id[e] /\ closing[endpoints[id[e]]] = "open"
    BY <1>1, <2>1 DEF ManagerInv, EndpointInv
  <2>4. endpoints[id[e]] = e
    BY <1>1, <2>2, <2>3 DEF ManagerInv, EndpointInv, CreatedEndpoints
  <2> QED
    BY <1>3, <2>3, <2>4
<1> QED
  BY <1>2, <1>3

(* Closing goes on, and an id stays.                                       *)
LEMMA EndpointsMoveOn ==
  ASSUME ManagerInv, NEW e \in Endpoints,
         newMockEndpoint(e) \/ CloseDeletes(e) \/ CloseClosesChannel(e)
  PROVE  \A f \in Endpoints :
           /\ id[f] # 0 => id'[f] # 0
           /\ closing[f] # "open" => closing'[f] # "open"
           /\ closing[f] = "closed" => closing'[f] = "closed"
<1>1. CASE newMockEndpoint(e)
  <2>1. /\ \A f \in Endpoints : f # e => id'[f] = id[f]
        /\ id[e] = 0
        /\ closing' = closing
    BY <1>1 DEF newMockEndpoint, ManagerInv, ManagerTypes
  <2> QED
    BY <2>1
<1>2. CASE CloseDeletes(e)
  BY <1>2 DEF CloseDeletes, ManagerInv, ManagerTypes
<1>3. CASE CloseClosesChannel(e)
  BY <1>3 DEF CloseClosesChannel, ManagerInv, ManagerTypes
<1> QED
  BY <1>1, <1>2, <1>3

LEMMA RequestSteps == ManagerInv /\ RequestInv /\ [Next]_vars => RequestInv'
<1> SUFFICES ASSUME ManagerInv, RequestInv, [Next]_vars PROVE RequestInv'
  OBVIOUS
<1> USE EndpointsAssumption
<1>1. ASSUME NEW e \in Endpoints,
             newMockEndpoint(e) \/ CloseDeletes(e) \/ CloseClosesChannel(e)
      PROVE  RequestInv'
  <2>1. UNCHANGED <<target, late, pc, found, cancelled, activeConn>>
    BY <1>1 DEF newMockEndpoint, CloseDeletes, CloseClosesChannel, requestVars
  <2>2. \A f \in Endpoints :
           /\ id[f] # 0 => id'[f] # 0
           /\ closing[f] # "open" => closing'[f] # "open"
           /\ closing[f] = "closed" => closing'[f] = "closed"
    BY <1>1, EndpointsMoveOn
  <2>3. ASSUME NEW r \in Requests PROVE RequestFacts(r)'
    <3>1. RequestFacts(r) /\ target[r] \in Endpoints \cup {NoEndpoint}
      BY DEF RequestInv, RequestTypes
    <3> QED
      BY <2>1, <2>2, <3>1 DEF RequestFacts
  <2> QED
    BY <2>1, <2>3 DEF RequestInv, RequestTypes
<1>2. ASSUME NEW r \in Requests, NEW e \in Endpoints \cup {NoEndpoint}, Arrive(r, e)
      PROVE  RequestInv'
  <2>1. /\ RequestTypes' /\ UNCHANGED <<found, id, closing>>
        /\ pc[r] = "notSent" /\ pc'[r] = "arrived" /\ target'[r] = e
        /\ e # NoEndpoint => id[e] # 0
        /\ r \in late' => r \in late \/ (e # NoEndpoint /\ closing[e] = "closed")
        /\ \A q \in Requests : q # r => /\ pc'[q] = pc[q] /\ target'[q] = target[q]
                                        /\ q \in late' => q \in late
    <3>1. \/ late' = late
          \/ late' = late \cup {r} /\ e # NoEndpoint /\ closing[e] = "closed"
      BY <1>2 DEF Arrive
    <3>2. /\ pc[r] = "notSent" /\ (e # NoEndpoint => id[e] # 0)
          /\ pc' = [pc EXCEPT ![r] = "arrived"]
          /\ target' = [target EXCEPT ![r] = e]
          /\ UNCHANGED <<id, closing, found, cancelled, activeConn>>
      BY <1>2 DEF Arrive, managerVars
    <3>3. RequestTypes'
      BY <3>1, <3>2 DEF RequestInv, RequestTypes
    <3>4. \A q \in Requests : /\ pc'[q] = IF q = r THEN "arrived" ELSE pc[q]
                              /\ target'[q] = IF q = r THEN e ELSE target[q]
      BY <3>2 DEF RequestInv, RequestTypes
    <3>5. /\ r \in late' => r \in late \/ (e # NoEndpoint /\ closing[e] = "closed")
          /\ \A q \in Requests : q # r /\ q \in late' => q \in late
      BY <3>1
    <3> QED
      BY <3>2, <3>3, <3>4, <3>5
  <2>2. RequestFacts(r)'
    <3>1. found[r] = NoEndpoint /\ r \notin late
      BY <2>1 DEF RequestInv, RequestFacts
    <3> QED
      BY <2>1, <3>1 DEF RequestFacts
  <2>3. ASSUME NEW q \in Requests, q # r PROVE RequestFacts(q)'
    BY <2>1, <2>3 DEF RequestInv, RequestFacts
  <2> QED
    BY <2>1, <2>2, <2>3 DEF RequestInv
<1>3. ASSUME NEW r \in Requests, Lookup(r) PROVE RequestInv'
  <2> DEFINE e == IF target[r] = NoEndpoint THEN NoEndpoint ELSE endpoints[id[target[r]]]
  <2>1. e = IF target[r] # NoEndpoint /\ closing[target[r]] = "open"
            THEN target[r] ELSE NoEndpoint
    BY LookupFinds DEF RequestInv, RequestFacts, RequestTypes
  <2>2. e \in Endpoints \cup {NoEndpoint}
    BY <2>1 DEF RequestInv, RequestTypes
  <2>3. /\ pc[r] = "arrived"
        /\ found' = [found EXCEPT ![r] = e]
        /\ pc' = [pc EXCEPT ![r] = IF e = NoEndpoint THEN "404" ELSE "found"]
        /\ UNCHANGED <<managerVars, target, late, cancelled, activeConn>>
    BY <1>3 DEF Lookup
  <2> HIDE DEF e
  <2>4. RequestTypes' /\ UNCHANGED <<id, closing, target, late>>
    BY <2>2, <2>3 DEF RequestInv, RequestTypes, managerVars
  <2>5. /\ found'[r] = e /\ pc'[r] = IF e = NoEndpoint THEN "404" ELSE "found"
        /\ \A q \in Requests : q # r => pc'[q] = pc[q] /\ found'[q] = found[q]
    BY <2>3 DEF RequestInv, RequestTypes
  <2>6. RequestFacts(r)'
    BY <2>1, <2>4, <2>5 DEF RequestInv, RequestFacts
  <2>7. ASSUME NEW q \in Requests, q # r PROVE RequestFacts(q)'
    BY <2>4, <2>5, <2>7 DEF RequestInv, RequestFacts
  <2> QED
    BY <2>4, <2>6, <2>7 DEF RequestInv
<1>4. ASSUME NEW r \in Requests,
             \/ BodyFails(r) \/ SetActive(r) \/ Push(r) \/ PushPanics(r)
             \/ HandlerReturns(r) \/ ClientDisconnects(r)
      PROVE  RequestInv'
  <2>1. /\ pc[r] \in {"found", "active", "serving"}
        /\ pc'[r] \in {"active", "serving", "served", "500", "panicked"}
        /\ \A q \in Requests : q # r => pc'[q] = pc[q]
        /\ UNCHANGED <<id, closing, target, late, found>>
    BY <1>4 DEF BodyFails, SetActive, Push, PushPanics, HandlerReturns, ClientDisconnects,
                managerVars, requestVars, RequestInv, RequestTypes
  <2>2. found[r] \in Endpoints
    BY <2>1 DEF RequestInv, RequestTypes, RequestFacts
  <2>3. RequestTypes'
    BY <1>4, <2>2 DEF BodyFails, SetActive, Push, PushPanics, HandlerReturns,
                      ClientDisconnects, requestVars, RequestInv, RequestTypes
  <2>4. RequestFacts(r)'
    BY <2>1, <2>2 DEF RequestInv, RequestFacts
  <2>5. ASSUME NEW q \in Requests, q # r PROVE RequestFacts(q)'
    BY <2>1, <2>5 DEF RequestInv, RequestFacts
  <2> QED
    BY <2>3, <2>4, <2>5 DEF RequestInv
<1>5. ASSUME UNCHANGED <<id, closing, target, late, pc, found, cancelled, activeConn>>
      PROVE  RequestInv'
  BY <1>5 DEF RequestInv, RequestTypes, RequestFacts
<1>6. ASSUME NEW e \in Endpoints, AwaitConnection(e) PROVE RequestInv'
  BY <1>5, <1>6 DEF AwaitConnection, managerVars, requestVars
<1>7. CASE UNCHANGED vars
  BY <1>5, <1>7 DEF vars, managerVars, requestVars
<1> QED
  BY <1>1, <1>2, <1>3, <1>4, <1>6, <1>7 DEF Next, ServeStep
-----------------------------------------------------------------------------
(***************************************************************************)
(* The channel newConns.                                                   *)
(***************************************************************************)

ReportTypes ==
  /\ newConns \in [Endpoints -> Seq(Requests)]
  /\ \A e \in Endpoints : Len(newConns[e]) <= QueueSize
  /\ taken \in [Endpoints -> Seq(Requests)]
  /\ dropped \subseteq Requests

Reported(e) == taken[e] \o newConns[e]
Served == {r \in Requests : pc[r] \in {"serving", "served"}}
ServedBy(e) == {r \in Served : found[r] = e}

(* What ServedAreReported says of one endpoint.                            *)
ReportFacts(e) ==
  /\ IsInjective(Reported(e))
  /\ ToSet(Reported(e)) = ServedBy(e) \ dropped
  /\ dropped \cap ServedBy(e) # {} => Len(Reported(e)) >= QueueSize

ReportInv ==
  /\ ReportTypes
  /\ dropped \subseteq Served
  /\ \A e \in Endpoints : ReportFacts(e)

LEMMA ReportsInitially == Init => ReportInv
<1> SUFFICES ASSUME Init PROVE ReportInv
  OBVIOUS
<1>1. Served = {}
  BY DEF Init, Served
<1>2. ReportTypes
  BY QueueSizeAssumption DEF Init, ReportTypes
<1>3. ASSUME NEW e \in Endpoints PROVE ReportFacts(e)
  <2>1. Reported(e) = <<>>
    BY DEF Init, Reported
  <2>2. ServedBy(e) = {} /\ dropped = {}
    BY <1>1 DEF Init, ServedBy
  <2> QED
    BY <2>1, <2>2 DEF ReportFacts, IsInjective, ToSet
<1> QED
  BY <1>1, <1>2, <1>3 DEF Init, ReportInv

(* Nothing changes for an endpoint whose reports and whose served requests *)
(* are the same as before.                                                 *)
LEMMA ReportsStand ==
  ASSUME ReportInv, UNCHANGED <<newConns, taken, dropped>>, Served' = Served,
         \A r \in Served : found'[r] = found[r]
  PROVE  ReportInv'
<1>1. ASSUME NEW e \in Endpoints PROVE ReportFacts(e)'
  <2>1. Reported(e)' = Reported(e) /\ ServedBy(e)' = ServedBy(e)
    BY DEF Reported, ServedBy
  <2> QED
    BY <2>1 DEF ReportInv, ReportFacts
<1> QED
  BY <1>1 DEF ReportInv, ReportTypes

LEMMA ReportSteps == RequestInv /\ ReportInv /\ [Next]_vars => ReportInv'
<1> SUFFICES ASSUME RequestInv, ReportInv, [Next]_vars PROVE ReportInv'
  OBVIOUS
<1> USE QueueSizeAssumption
<1>1. ASSUME NEW e \in Endpoints, AwaitConnection(e) PROVE ReportInv'
  <2>1. /\ newConns[e] # <<>> /\ newConns[e] \in Seq(Requests) /\ taken[e] \in Seq(Requests)
        /\ taken' = [taken EXCEPT ![e] = Append(taken[e], Head(newConns[e]))]
        /\ newConns' = [newConns EXCEPT ![e] = Tail(newConns[e])]
        /\ UNCHANGED <<pc, found, dropped>>
    BY <1>1 DEF AwaitConnection, ReportInv, ReportTypes, requestVars
  <2>2. /\ Head(newConns[e]) \in Requests /\ Tail(newConns[e]) \in Seq(Requests)
        /\ Len(Tail(newConns[e])) <= Len(newConns[e])
        /\ Append(taken[e], Head(newConns[e])) \in Seq(Requests)
    BY <2>1
  <2>3. ReportTypes'
    <3>1. /\ Len(newConns[e]) <= QueueSize
          /\ Len(newConns[e]) \in Nat /\ Len(Tail(newConns[e])) \in Nat
      BY <2>1, <2>2 DEF ReportInv, ReportTypes
    <3>2. Len(Tail(newConns[e])) <= QueueSize
      BY <2>2, <3>1
    <3> QED
      BY <2>1, <2>2, <3>2 DEF ReportInv, ReportTypes
  <2>4. Reported(e)' = Reported(e)
    BY <2>1, MoveHead DEF Reported, ReportInv, ReportTypes
  <2>5. ASSUME NEW f \in Endpoints PROVE ReportFacts(f)'
    <3>1. Reported(f)' = Reported(f)
      BY <2>1, <2>4 DEF Reported, ReportInv, ReportTypes
    <3> QED
      BY <2>1, <3>1 DEF ReportInv, ReportFacts, ServedBy, Served
  <2> QED
    BY <2>1, <2>3, <2>5 DEF ReportInv, Served
<1>2. ASSUME NEW r \in Requests, Push(r) PROVE ReportInv'
  <2>0. PICK e \in Endpoints : e = found[r]
    BY <1>2 DEF Push, RequestInv, RequestTypes, RequestFacts
  <2>1. r \notin Served /\ pc[r] = "active"
    BY <1>2 DEF Push, Served
  <2>2. Served' = Served \cup {r} /\ found' = found /\ taken' = taken
    BY <1>2 DEF Push, Served, RequestInv, RequestTypes
  <2>3. r \notin dropped
    BY <2>1 DEF ReportInv
  <2>4. /\ newConns[e] \in Seq(Requests) /\ taken[e] \in Seq(Requests)
        /\ Reported(e) \in Seq(Requests)
        /\ Len(newConns[e]) \in Nat
    BY ConcatProperties, LenProperties DEF ReportInv, ReportTypes, Reported
  <2>5. \A f \in Endpoints : ServedBy(f)' = IF f = e THEN ServedBy(f) \cup {r} ELSE ServedBy(f)
    BY <2>0, <2>1, <2>2 DEF ServedBy
  <2>6. CASE IsFull(e)
    <3>1. newConns' = newConns /\ dropped' = dropped \cup {r} /\ Len(newConns[e]) >= QueueSize
      BY <1>2, <2>0, <2>6 DEF Push, IsFull
    <3>2. ReportTypes' /\ dropped' \subseteq Served'
      BY <2>2, <3>1 DEF ReportInv, ReportTypes
    <3>3. ASSUME NEW f \in Endpoints PROVE ReportFacts(f)'
      <4>1. Reported(f)' = Reported(f)
        BY <2>2, <3>1 DEF Reported
      <4>2. ServedBy(f)' \ dropped' = ServedBy(f) \ dropped
        BY <2>0, <2>1, <2>3, <2>5, <3>1 DEF ServedBy
      <4>3. CASE f = e
        <5>1. QueueSize \in Nat
          OBVIOUS
        <5>2. Len(newConns[e]) >= QueueSize => Len(taken[e] \o newConns[e]) >= QueueSize
          BY <2>4, <5>1, LengthOfBoth
        <5>3. Len(Reported(e)) >= QueueSize
          BY <3>1, <5>2 DEF Reported
        <5> QED
          BY <4>1, <4>2, <4>3, <5>3 DEF ReportInv, ReportFacts
      <4>4. CASE f # e
        <5>1. dropped' \cap ServedBy(f)' = dropped \cap ServedBy(f)
          BY <2>0, <2>1, <2>5, <3>1, <4>4 DEF ServedBy
        <5> QED
          BY <4>1, <4>2, <5>1 DEF ReportInv, ReportFacts
      <4> QED
        BY <4>3, <4>4
    <3> QED
      BY <3>2, <3>3 DEF ReportInv
  <2>7. CASE ~IsFull(e)
    <3>1. /\ newConns' = [newConns EXCEPT ![e] = Append(newConns[e], r)]
          /\ dropped' = dropped
          /\ Len(newConns[e]) < QueueSize
      BY <1>2, <2>0, <2>4, <2>7 DEF Push, IsFull
    <3>2. /\ Append(newConns[e], r) \in Seq(Requests)
          /\ Len(Append(newConns[e], r)) <= QueueSize
      BY <2>4, <3>1, AppendProperties
    <3>3. ReportTypes' /\ dropped' \subseteq Served'
      BY <2>1, <2>2, <3>1, <3>2 DEF ReportInv, ReportTypes
    <3>4. Reported(e)' = Append(Reported(e), r)
      <4>1. Reported(e)' = taken[e] \o Append(newConns[e], r)
        BY <2>1, <2>2, <3>1 DEF Reported, ReportInv, ReportTypes
      <4>2. taken[e] \o Append(newConns[e], r) = Append(taken[e] \o newConns[e], r)
        <5>1. \A s, t \in Seq(Requests) : s \o Append(t, r) = Append(s \o t, r)
          BY AppendToSecond
        <5> QED
          BY <2>4, <5>1, Zenon
      <4> QED
        BY <4>1, <4>2 DEF Reported
    <3>5. ReportFacts(e)'
      <4>1. r \notin ToSet(Reported(e)) /\ IsInjective(Reported(e))
        BY <2>1 DEF ReportInv, ReportFacts, ServedBy
      <4>2. /\ IsInjective(Reported(e)')
            /\ ToSet(Reported(e)') = ToSet(Reported(e)) \cup {r}
        BY <2>4, <3>4, <4>1, AppendNew
      <4>3. ServedBy(e)' = ServedBy(e) \cup {r}
        BY <2>1, <2>5
      <4>4. ToSet(Reported(e)') = ServedBy(e)' \ dropped'
        BY <2>1, <2>3, <3>1, <4>2, <4>3 DEF ReportInv, ReportFacts
      <4>5. dropped' \cap ServedBy(e)' = dropped \cap ServedBy(e)
        BY <2>3, <3>1, <4>3
      <4>6. QueueSize \in Nat
        OBVIOUS
      <4>7. Len(Reported(e)) >= QueueSize => Len(Append(Reported(e), r)) >= QueueSize
        BY <2>4, <4>6, LengthGrows
      <4>8. dropped' \cap ServedBy(e)' # {} => Len(Reported(e)') >= QueueSize
        BY <3>4, <4>5, <4>7 DEF ReportInv, ReportFacts
      <4> QED
        BY <4>2, <4>4, <4>8 DEF ReportFacts
    <3>6. ASSUME NEW f \in Endpoints, f # e PROVE ReportFacts(f)'
      <4>1. Reported(f)' = Reported(f)
        BY <2>2, <3>1, <3>6 DEF Reported, ReportInv, ReportTypes
      <4>2. ServedBy(f)' = ServedBy(f)
        BY <2>5, <3>6
      <4> QED
        BY <3>1, <4>1, <4>2 DEF ReportInv, ReportFacts
    <3> QED
      BY <2>2, <3>3, <3>5, <3>6 DEF ReportInv
  <2> QED
    BY <2>6, <2>7
<1>3. ASSUME NEW e \in Endpoints,
             newMockEndpoint(e) \/ CloseDeletes(e) \/ CloseClosesChannel(e)
      PROVE  ReportInv'
  <2>1. UNCHANGED <<newConns, taken, dropped, pc, found>>
    BY <1>3 DEF newMockEndpoint, CloseDeletes, CloseClosesChannel, requestVars
  <2> QED
    BY <2>1, ReportsStand DEF Served
<1>4. ASSUME NEW r \in Requests, NEW e \in Endpoints \cup {NoEndpoint}, Arrive(r, e)
      PROVE  ReportInv'
  <2>1. /\ UNCHANGED <<newConns, taken, dropped, found>>
        /\ pc[r] = "notSent" /\ pc' = [pc EXCEPT ![r] = "arrived"]
    BY <1>4 DEF Arrive
  <2>2. Served' = Served
    BY <2>1 DEF Served, RequestInv, RequestTypes
  <2> QED
    BY <2>1, <2>2, ReportsStand
<1>5. ASSUME NEW r \in Requests, Lookup(r) PROVE ReportInv'
  <2>1. /\ UNCHANGED <<newConns, taken, dropped>>
        /\ pc[r] = "arrived" /\ pc'[r] \in {"404", "found"}
        /\ \A q \in Requests : q # r => pc'[q] = pc[q] /\ found'[q] = found[q]
    BY <1>5 DEF Lookup, RequestInv, RequestTypes
  <2>2. Served' = Served /\ \A q \in Served : found'[q] = found[q]
    BY <2>1 DEF Served
  <2> QED
    BY <2>1, <2>2, ReportsStand
<1>6. ASSUME NEW r \in Requests,
             \/ BodyFails(r) \/ SetActive(r) \/ PushPanics(r)
             \/ HandlerReturns(r) \/ ClientDisconnects(r)
      PROVE  ReportInv'
  <2>1. /\ UNCHANGED <<newConns, taken, dropped, found>>
        /\ pc[r] \in {"serving", "served"} <=> pc'[r] \in {"serving", "served"}
        /\ \A q \in Requests : q # r => pc'[q] = pc[q]
    BY <1>6 DEF BodyFails, SetActive, PushPanics, HandlerReturns, ClientDisconnects,
                requestVars, RequestInv, RequestTypes
  <2>2. Served' = Served
    BY <2>1 DEF Served
  <2> QED
    BY <2>1, <2>2, ReportsStand
<1>7. CASE UNCHANGED vars
  BY <1>7, ReportsStand DEF vars, requestVars, Served
<1> QED
  BY <1>1, <1>2, <1>3, <1>4, <1>5, <1>6, <1>7 DEF Next, ServeStep
-----------------------------------------------------------------------------
(***************************************************************************)
(* Theorems.                                                               *)
(***************************************************************************)

IInv == ManagerInv /\ RequestInv /\ ReportInv

LEMMA Invariant == Spec => []IInv
<1>1. Init => IInv
  BY ManagerInitially, RequestsInitially, ReportsInitially DEF IInv
<1>2. IInv /\ [Next]_vars => IInv'
  BY ManagerSteps, RequestSteps, ReportSteps DEF IInv
<1> QED
  BY <1>1, <1>2, PTL DEF Spec

(* The state of mock_endpoints.go has its types: among other things, an id *)
(* is left for each endpoint, and newConns never holds more than it can.   *)
THEOREM TypeCorrect == Spec => []TypeOK
<1>1. IInv => TypeOK
  BY DEF IInv, ManagerInv, ManagerTypes, RequestInv, RequestTypes, ReportInv, ReportTypes,
         TypeOK
<1> QED
  BY <1>1, Invariant, PTL

(* serveHTTP: a request is never handed to another endpoint than the one   *)
(* whose URL it was sent to, and is not refused while that one is open.    *)
THEOREM Routing == Spec => []ReachesItsEndpoint
<1>1. IInv => ReachesItsEndpoint
  BY DEF IInv, RequestInv, RequestFacts, ReachesItsEndpoint
<1> QED
  BY <1>1, Invariant, PTL

(* Close: the requests that come after it get a 404, as its comment says.  *)
THEOREM LateRequests == Spec => []LateRequestsRejected
<1>1. IInv => LateRequestsRejected
  BY DEF IInv, RequestInv, RequestTypes, RequestFacts, LateRequestsRejected
<1> QED
  BY <1>1, Invariant, PTL

(* serveHTTP and AwaitConnection: a test learns of each request that was   *)
(* served, once, unless newConns was full when it came.                    *)
THEOREM Reports == Spec => []ServedAreReported
<1>1. IInv => ServedAreReported
  <2> SUFFICES ASSUME IInv, NEW e \in Endpoints
               PROVE  LET reported == taken[e] \o newConns[e]
                          served == {r \in Requests : found[r] = e /\ pc[r] \in {"serving", "served"}}
                      IN  /\ IsInjective(reported)
                          /\ ToSet(reported) = served \ dropped
                          /\ dropped \cap served # {} => Len(reported) >= QueueSize
    BY DEF ServedAreReported
  <2>1. ServedBy(e) = {r \in Requests : found[r] = e /\ pc[r] \in {"serving", "served"}}
    BY DEF ServedBy, Served
  <2> QED
    BY <2>1 DEF IInv, ReportInv, ReportFacts, Reported
<1> QED
  BY <1>1, Invariant, PTL
=============================================================================
