---------------------------- MODULE MockEndpoints ----------------------------
(***************************************************************************)
(* framework/harness/mock_endpoints.go: the endpoints that the test        *)
(* harness opens for the test service to send requests to.                 *)
(*                                                                         *)
(* A test opens an endpoint, gives its URL to the test service, waits for  *)
(* connections to it, and closes it at its end.  The HTTP server runs one  *)
(* goroutine per request, which finds the endpoint under the manager's     *)
(* lock, reads the body, stores the request as the active one under the    *)
(* endpoint's lock, pushes it to the channel newConns without waiting, and *)
(* runs the endpoint's handler: four steps, between any two of which the   *)
(* endpoint may be closed and other requests may run.                      *)
(***************************************************************************)
EXTENDS Integers, Sequences, FiniteSets, SequencesExt

CONSTANTS
  Requests,   (* the requests that the service may send                    *)
  Endpoints,  (* the endpoint objects that tests may create                *)
  QueueSize,  (* the capacity of newConns (100)                            *)
  NoRequest,  (* no request (a nil activeConn)                             *)
  NoEndpoint  (* no endpoint (a nil entry of the map)                      *)

ASSUME EndpointsAssumption == IsFiniteSet(Endpoints) /\ NoEndpoint \notin Endpoints
ASSUME QueueSizeAssumption == QueueSize \in Nat \ {0}
ASSUME NoRequestAssumption == NoRequest \notin Requests

VARIABLES
  lastEndpointID, (* m.lastEndpointID                                      *)
  endpoints,      (* m.endpoints, from ids                                 *)
  id,             (* e.id, 0 if e was not created                          *)
  newConns,       (* what the channel e.newConns holds                     *)
  activeConn,     (* e.activeConn                                          *)
  closing,        (* how far Close has come for each endpoint              *)
  target,         (* the endpoint whose URL each request was sent to       *)
  late,           (* the requests that arrived after Close had returned    *)
  pc,             (* where each request's goroutine is                     *)
  found,          (* the endpoint that serveHTTP found for each request    *)
  dropped,        (* the requests that were served but not pushed          *)
  cancelled,      (* the requests whose Context is done                    *)
  taken           (* the requests that AwaitConnection returned            *)

managerVars == <<lastEndpointID, endpoints, id, closing>>
requestVars == <<target, late, found, dropped>>
vars == <<managerVars, newConns, activeConn, requestVars, pc, cancelled, taken>>

Ids == 1 .. Cardinality(Endpoints)

TypeOK ==
  /\ lastEndpointID \in 0 .. Cardinality(Endpoints)
  /\ endpoints \in [Ids -> Endpoints \cup {NoEndpoint}]
  /\ id \in [Endpoints -> 0 .. Cardinality(Endpoints)]
  /\ newConns \in [Endpoints -> Seq(Requests)]
  /\ \A e \in Endpoints : Len(newConns[e]) <= QueueSize
  /\ activeConn \in [Endpoints -> Requests \cup {NoRequest}]
  /\ closing \in [Endpoints -> {"open", "deleted", "closed"}]
  /\ target \in [Requests -> Endpoints \cup {NoEndpoint}]
  /\ late \subseteq Requests
  /\ pc \in [Requests -> {"notSent", "arrived", "found", "active", "serving",
                          "served", "404", "500", "panicked"}]
  /\ found \in [Requests -> Endpoints \cup {NoEndpoint}]
  /\ dropped \subseteq Requests
  /\ cancelled \subseteq Requests
  /\ taken \in [Endpoints -> Seq(Requests)]

Init ==
  /\ lastEndpointID = 0
  /\ endpoints = [i \in Ids |-> NoEndpoint]
  /\ id = [e \in Endpoints |-> 0]
  /\ newConns = [e \in Endpoints |-> <<>>]
  /\ activeConn = [e \in Endpoints |-> NoRequest]
  /\ closing = [e \in Endpoints |-> "open"]
  /\ target = [r \in Requests |-> NoEndpoint]
  /\ late = {}
  /\ pc = [r \in Requests |-> "notSent"]
  /\ found = [r \in Requests |-> NoEndpoint]
  /\ dropped = {}
  /\ cancelled = {}
  /\ taken = [e \in Endpoints |-> <<>>]
-----------------------------------------------------------------------------
(***************************************************************************)
(* The tests.                                                              *)
(***************************************************************************)

NextIDFromMap == Cardinality({i \in Ids : endpoints[i] # NoEndpoint}) + 1
NextID == lastEndpointID + 1

newMockEndpoint(e) ==
  /\ id[e] = 0
  /\ lastEndpointID' = NextID
  /\ id' = [id EXCEPT ![e] = NextID]
  /\ endpoints' = [endpoints EXCEPT ![NextID] = e]
  /\ UNCHANGED <<newConns, activeConn, closing, requestVars, pc, cancelled, taken>>

(* AwaitConnection, when it returns a request: a time-out, and the empty   *)
(* value that the closed channel gives, change nothing.                    *)
AwaitConnection(e) ==
  /\ newConns[e] # <<>>
  /\ taken' = [taken EXCEPT ![e] = Append(@, Head(newConns[e]))]
  /\ newConns' = [newConns EXCEPT ![e] = Tail(@)]
  /\ UNCHANGED <<managerVars, activeConn, requestVars, pc, cancelled>>

CloseWithoutDelete(e) ==
  /\ id[e] # 0
  /\ closing[e] = "open"
  /\ closing' = [closing EXCEPT ![e] = "deleted"]
  /\ UNCHANGED <<lastEndpointID, endpoints, id, newConns, activeConn,
                 requestVars, pc, cancelled, taken>>

(* Close, once, in two steps: under the manager's lock, then under the     *)
(* endpoint's.                                                             *)
CloseDeletes(e) ==
  /\ id[e] # 0
  /\ closing[e] = "open"
  /\ closing' = [closing EXCEPT ![e] = "deleted"]
  /\ endpoints' = [endpoints EXCEPT ![id[e]] = NoEndpoint]
  /\ UNCHANGED <<lastEndpointID, id, newConns, activeConn, requestVars, pc,
                 cancelled, taken>>

CloseClosesChannel(e) ==
  /\ closing[e] = "deleted"
  /\ closing' = [closing EXCEPT ![e] = "closed"]
  /\ UNCHANGED <<lastEndpointID, endpoints, id, newConns, activeConn,
                 requestVars, pc, cancelled, taken>>
-----------------------------------------------------------------------------
(***************************************************************************)
(* serveHTTP for one request.                                              *)
(***************************************************************************)

(* The service knows the URLs of the endpoints that were created, also of  *)
(* those that were closed since, and may use another one.                  *)
Arrive(r, e) ==
  /\ pc[r] = "notSent"
  /\ e # NoEndpoint => id[e] # 0
  /\ pc' = [pc EXCEPT ![r] = "arrived"]
  /\ target' = [target EXCEPT ![r] = e]
  /\ late' = IF e # NoEndpoint /\ closing[e] = "closed" THEN late \cup {r} ELSE late
  /\ UNCHANGED <<managerVars, newConns, activeConn, found, dropped, cancelled, taken>>

(* The path gives the id: the map is read under the lock.  A path with     *)
(* another prefix, and an id that is not in the map, get a 404.            *)
Lookup(r) ==
  /\ pc[r] = "arrived"
  /\ LET e == IF target[r] = NoEndpoint THEN NoEndpoint ELSE endpoints[id[target[r]]]
     IN  /\ found' = [found EXCEPT ![r] = e]
         /\ pc' = [pc EXCEPT ![r] = IF e = NoEndpoint THEN "404" ELSE "found"]
  /\ UNCHANGED <<managerVars, newConns, activeConn, target, late, dropped,
                 cancelled, taken>>

(* The body cannot be read.                                                *)
BodyFails(r) ==
  /\ pc[r] = "found"
  /\ pc' = [pc EXCEPT ![r] = "500"]
  /\ UNCHANGED <<managerVars, newConns, activeConn, requestVars, cancelled, taken>>

(* The body was read: the request becomes the active one.                  *)
SetActive(r) ==
  /\ pc[r] = "found"
  /\ activeConn' = [activeConn EXCEPT ![found[r]] = r]
  /\ pc' = [pc EXCEPT ![r] = "active"]
  /\ UNCHANGED <<managerVars, newConns, requestVars, cancelled, taken>>

IsFullNever(e) == FALSE
IsFullTooSoon(e) == Len(newConns[e]) >= QueueSize - 1
IsFull(e) == Len(newConns[e]) >= QueueSize

PushWaits(r) ==
  LET e == found[r]
  IN  /\ pc[r] = "active"
      /\ closing[e] # "closed"
      /\ ~IsFull(e)
      /\ newConns' = [newConns EXCEPT ![e] = Append(@, r)]
      /\ pc' = [pc EXCEPT ![r] = "serving"]
      /\ UNCHANGED <<managerVars, activeConn, requestVars, cancelled, taken>>

(* The push does not wait: if the channel is full, the request is served   *)
(* without being reported.                                                 *)
Push(r) ==
  LET e == found[r]
  IN  /\ pc[r] = "active"
      /\ closing[e] # "closed"
      /\ IF IsFull(e)
         THEN newConns' = newConns /\ dropped' = dropped \cup {r}
         ELSE newConns' = [newConns EXCEPT ![e] = Append(@, r)] /\ dropped' = dropped
      /\ pc' = [pc EXCEPT ![r] = "serving"]
      /\ UNCHANGED <<managerVars, activeConn, target, late, found, cancelled, taken>>

(* If Close has closed the channel since the lookup, the push panics.  The *)
(* HTTP server recovers the panic and breaks the connection.               *)
PushPanics(r) ==
  /\ pc[r] = "active"
  /\ closing[found[r]] = "closed"
  /\ pc' = [pc EXCEPT ![r] = "panicked"]
  /\ cancelled' = cancelled \cup {r}
  /\ UNCHANGED <<managerVars, newConns, activeConn, requestVars, taken>>

(* The handler returns, when it wants to.  The HTTP server cancels the     *)
(* Context.                                                                *)
HandlerReturns(r) ==
  /\ pc[r] = "serving"
  /\ pc' = [pc EXCEPT ![r] = "served"]
  /\ cancelled' = cancelled \cup {r}
  /\ UNCHANGED <<managerVars, newConns, activeConn, requestVars, taken>>

(* So it does when the client breaks the connection.                       *)
ClientDisconnects(r) ==
  /\ pc[r] = "serving"
  /\ cancelled' = cancelled \cup {r}
  /\ UNCHANGED <<managerVars, newConns, activeConn, requestVars, pc, taken>>
-----------------------------------------------------------------------------
ServeStep(r) ==
  Lookup(r) \/ BodyFails(r) \/ SetActive(r) \/ Push(r) \/ PushPanics(r)

Next ==
  \/ \E e \in Endpoints :
       \/ newMockEndpoint(e) \/ AwaitConnection(e)
       \/ CloseDeletes(e) \/ CloseClosesChannel(e)
  \/ \E r \in Requests :
       \/ \E e \in Endpoints \cup {NoEndpoint} : Arrive(r, e)
       \/ ServeStep(r) \/ HandlerReturns(r) \/ ClientDisconnects(r)

Spec == Init /\ [][Next]_vars

(* The goroutine of a request runs when it can.  Nothing is assumed of the *)
(* tests: they need not take connections, nor close an endpoint.           *)
FairSpec == Spec /\ \A r \in Requests : WF_vars(ServeStep(r))
-----------------------------------------------------------------------------
(***************************************************************************)
(* Properties.                                                             *)
(***************************************************************************)

(* A request never reaches another endpoint than the one whose URL it was  *)
(* sent to, however late it comes: the service may still retry with the    *)
(* URL of an earlier test when a new one has begun.  And an endpoint that  *)
(* is not closed is always found.                                          *)
ReachesItsEndpoint ==
  /\ \A r \in Requests : found[r] \in {NoEndpoint, target[r]}
  /\ \A r \in Requests :
       pc[r] = "404" /\ target[r] # NoEndpoint => closing[target[r]] # "open"

(* Close: `Any subsequent requests to it will receive 404 errors.'         *)
LateRequestsRejected == \A r \in late : pc[r] \in {"arrived", "404"}

(* A request that is served was reported, once, to whoever waits for       *)
(* connections of its endpoint; it is left out only if as many requests as *)
(* the channel has room for were reported before it.                       *)
ServedAreReported ==
  \A e \in Endpoints :
    LET reported == taken[e] \o newConns[e]
        served == {r \in Requests : found[r] = e /\ pc[r] \in {"serving", "served"}}
    IN  /\ IsInjective(reported)
        /\ ToSet(reported) = served \ dropped
        /\ dropped \cap served # {} => Len(reported) >= QueueSize

(* A request is answered, or handed to the handler, whether or not the     *)
(* test takes the connections: a service that reconnects more often than a *)
(* test expects is not left hanging.                                       *)
NeverWaitsForTest ==
  \A r \in Requests :
    pc[r] = "arrived" ~> pc[r] \in {"serving", "served", "404", "500", "panicked"}

(* Close, lines 179-180: `It also cancels the Context for every active     *)
(* request to that endpoint', and harness.go, lines 81-82: the Done        *)
(* channel `will be closed if Close is called on the endpoint'.            *)
CloseCancels ==
  \A r \in Requests :
    pc[r] = "serving" /\ closing[found[r]] = "closed" => r \in cancelled
=============================================================================
