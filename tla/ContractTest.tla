---------------------------- MODULE ContractTest ----------------------------
(***************************************************************************)
(* One contract test: a script of ContractScripts, run by the harness      *)
(* against an SSE client in the test service.                              *)
(*                                                                         *)
(* The client does what docs/service_spec.md and docs/optional_features.md *)
(* ask for, or else it has one of the faults that the script is there to   *)
(* detect.  It connects, reads, reports, and connects again at its own     *)
(* pace, while the test takes its steps or waits until a deadline.         *)
(*                                                                         *)
(* The parts between them are reduced to what their own modules show:      *)
(* reports arrive one by one in their order (SSEClient, SeenInOrder), what *)
(* is sent on a connection arrives there in order and then its end         *)
(* (StreamServer, ReceivedIsPrefix, EndsAfterAll), and connections are     *)
(* reported to the test in their order (MockEndpoints).  What the service  *)
(* can do to a request is in ServiceEntity; here it does what it is asked. *)
(***************************************************************************)
EXTENDS ContractScripts, EventStream

CONSTANTS
  Scripts,     (* the contract tests                                       *)
  MaxRequests  (* bound: requests of the client for the stream             *)

(* What texts are made of: the tokens of the scripts, and those that the   *)
(* client puts into them.                                                  *)
Sending == {"send", "sendDelayed"}
SentBy(s) == UNION {Range(step.arg) : step \in {step \in Range(s.steps) : step.op \in Sending}}
Token ==
  {"LF", "message", "?"} \cup
  UNION {Range(text) : text \in UNION {{s.params.lastID} \cup SentBy(s) : s \in Range(Scripts)}}

(* Texts are sequences of tokens, and a test breaks a connection that it   *)
(* has.                                                                    *)
WellFormed(s) ==
  /\ s.params.lastID \in Seq(Token) /\ {s.params.body, s.params.headers} \subseteq BOOLEAN
  /\ s.steps \in Seq(Range(s.steps))
  /\ \A i \in 1 .. Len(s.steps) :
       /\ s.steps[i].op \in Sending => s.steps[i].arg \in Seq(Seq(Token))
       /\ s.steps[i].op = "break" => \E j \in 1 .. i - 1 : s.steps[j].op = "await"

ASSUME ScriptsAssumption == \A i \in DOMAIN Scripts : WellFormed(Scripts[i])
ASSUME MaxRequestsAssumption == MaxRequests \in Nat \ {0}

VARIABLES
  setup,      (* what does not change: the script, the capabilities and    *)
              (* the habits of the client                                  *)
  test,       (* where the test is                                         *)
  pc,         (* its next step                                             *)
  failed,     (* whether the test has failed                               *)
  ignoreNextError,
  newConns,   (* the connections that wait for AwaitConnection             *)
  stream,     (* the connection that the test got last                     *)
  requests,   (* the requests for a stream: one connection for each        *)
  wire,       (* on each connection: the chunks that were not read         *)
  broken,     (* the connections whose handler has ended                   *)
  client,     (* what the client is doing                                  *)
  told,       (* whether it is told to restart                             *)
  listening,  (* the types of events that it listens for                   *)
  parser,     (* its parser                                                *)
  messages,   (* its reports that the test has not taken                   *)
  joined      (* whether the client has read chunks together               *)

testVars == <<test, pc, failed, ignoreNextError, stream>>
serverVars == <<newConns, requests, wire, broken>>
clientVars == <<client, told, listening, parser, messages, joined>>
vars == <<setup, testVars, serverVars, clientVars>>

script == Scripts[setup.script]
params == script.params
Fault(f) == setup.fault = f

MessageKinds == {"event", "comment", "error"}

(* Capabilities.Has.                                                       *)
Has(capability) == capability \in setup.capabilities

(* The capabilities that make a difference to a script.                    *)
Matter(s) == s.needs \cup {"comments", "event-type-listeners"}

TypeOK ==
  /\ test \in {"starting", "running", "ended"}
  /\ pc \in 1 .. Len(script.steps) + 1
  /\ {failed, ignoreNextError, told, joined} \subseteq BOOLEAN
  /\ Len(requests) <= MaxRequests /\ Len(wire) = Len(requests)
  /\ newConns \in Seq(1 .. Len(requests)) /\ stream \in 0 .. Len(requests)
  /\ broken \subseteq 1 .. Len(requests)
  /\ client \in {"none", "connecting", "reading", "waiting", "stopped"}
  /\ \A i \in 1 .. Len(messages) : messages[i].kind \in MessageKinds

Uses(s, op) == \E i \in 1 .. Len(s.steps) : s.steps[i].op = op
Either(matters) == IF matters THEN BOOLEAN ELSE {TRUE}

(* What a service may be like, as far as it matters to the script.         *)
Setups(s) ==
  LET its == Scripts[s] IN
  [script : {s},
   capabilities : SUBSET Matter(its),
   fault : {"none"} \cup its.purpose,
   reportsEnd :    (* whether it reports the end of a stream as an error   *)
     Either(Uses(its, "break") \/ Uses(its, "restart")),
   sendsAccept :   (* whether its requests have an Accept header           *)
     Either(Uses(its, "request")),
   retriesSoon :   (* whether it waits for less than a second by default   *)
     Either(its.server # "stream"),
   punctual : BOOLEAN]   (* whether it does what it has to do before the   *)
                         (* test is done with waiting                      *)

Init ==
  /\ \E s \in DOMAIN Scripts : setup \in Setups(s)
  /\ test = "starting" /\ pc = 1
  /\ failed = FALSE /\ ignoreNextError = FALSE
  /\ newConns = <<>> /\ stream = 0
  /\ requests = <<>> /\ wire = <<>> /\ broken = {}
  /\ client = "none" /\ told = FALSE /\ listening = {<<"message">>} /\ joined = FALSE
  /\ parser = NewParser(setup.fault, none)
  /\ messages = <<>>
-----------------------------------------------------------------------------
(***************************************************************************)
(* The SSE client.                                                         *)
(***************************************************************************)
Current == Len(requests)
Reading == client = "reading" /\ test # "ended"

At(op) ==
  /\ test = "running"
  /\ pc <= Len(script.steps)
  /\ script.steps[pc].op = op
Arg == script.steps[pc].arg

(* What RequireEvent, RequireComment, RequireError wait for.  One script   *)
(* looks at the capabilities before it requires a comment.                 *)
Awaits(kind) ==
  At(kind) \/ (kind = "comment" /\ At("commentIfAble") /\ Has("comments"))

(* The test waits for something that is not there, or for a second.        *)
WaitsForReport == messages = <<>> /\ \E kind \in MessageKinds : Awaits(kind)
WaitsForStream == newConns = <<>> /\ At("await")
Waits == At("sleep") \/ WaitsForReport \/ WaitsForStream

(* With type listeners, a client u sees only the types that it listens     *)
(* for; it may not be able to see comments.                                *)
CanReport(u, types, m) ==
  /\ m.kind = "event" /\ "event-type-listeners" \in u.capabilities => m.type \in types
  /\ m.kind = "comment" => "comments" \in u.capabilities /\ u.fault # "dropsComments"

ReportedBy(u, types, reports) ==
  FlattenSeq([i \in DOMAIN reports |->
                IF CanReport(u, types, reports[i]) THEN <<reports[i]>> ELSE <<>>])
Says(reports) == messages' = messages \o ReportedBy(setup, listening, reports)

(* The first request and those after it.  The header is left out without   *)
(* an ID.                                                                  *)
FirstID(u) == IF u.fault = "ignoresInitialID" THEN none ELSE Scripts[u.script].params.lastID
LastEventIDs(u, lastID, again) ==
  CASE lastID = none -> IF u.fault = "sendsEmptyID" THEN <<none>> ELSE <<>>
    [] again /\ u.fault = "noLastEventID" -> <<>>
    [] OTHER -> <<lastID>>

RequestOf(u, lastID, again) ==
  LET its == Scripts[u.script].params
      plain == u.fault = "ignoresMethod" \/ (again /\ u.fault = "sendsBodyOnce")
  IN  [method |-> IF plain THEN "GET" ELSE its.method,
       body |-> its.body /\ ~plain /\ u.fault # "dropsBody",
       accept |-> u.sendsAccept, noCache |-> u.fault # "cached",
       headers |-> its.headers /\ u.fault # "ignoresHeaders",
       ids |-> LastEventIDs(u, lastID, again)]

(* The parser when it has left a connection, and when it has the next one. *)
(* What was read of an incomplete event is forgotten, its ID too.          *)
LeftBy(u, p) == IF u.fault = "takesPartialID" THEN [p EXCEPT !.lastID = p.id] ELSE p
Reopened(u, p) == IF u.fault = "keepsPartial" THEN p ELSE NewParser(u.fault, p.lastID)

CanConnect == client = "connecting" /\ test # "ended" /\ Current < MaxRequests
Asked ==
  /\ requests' = Append(requests, RequestOf(setup, parser.lastID, Current > 0))
  /\ wire' = Append(wire, <<>>)

(* Its stream is one that a StreamServer serves, if need be after a        *)
(* redirect.                                                               *)
Connect ==
  /\ CanConnect
  /\ \/ script.server = "stream"
     \/ script.server = "redirect" /\ ~Fault("staysAfterRedirect")
  /\ Asked
  /\ newConns' = Append(newConns, Current + 1)
  /\ client' = "reading"
  /\ parser' = Reopened(setup, parser)
  /\ UNCHANGED <<setup, testVars, broken, told, listening, messages, joined>>

(* Or it is refused: by a redirect to nowhere, or by the status 204, after *)
(* which it is not to connect again.  It may be able to report that.       *)
ConnectInVain ==
  /\ CanConnect
  /\ script.server # "stream"
  /\ script.server = "redirect" => Fault("staysAfterRedirect")
  /\ Asked
  /\ IF script.server = "204"
       THEN /\ client' = IF Fault("retriesAfter204") THEN "waiting" ELSE "stopped"
            /\ Says(<<>>)
       ELSE /\ client' = "waiting"
            /\ Says(IF Fault("loopsOnRedirect") THEN <<>> ELSE <<Error>>)
  /\ UNCHANGED <<setup, testVars, newConns, broken, told, listening, parser, joined>>

(* One read of the connection returns some of the chunks; more than one    *)
(* only if they were sent with no delay, or the client is slow.            *)
Read ==
  /\ Reading
  /\ \E n \in 1 .. Len(wire[Current]) :
       LET chunks == SubSeq(wire[Current], 1, n)
           p == ChunkRead(parser, FlattenSeq([i \in 1 .. n |-> chunks[i].data]))
       IN  /\ setup.punctual => \A i \in 1 .. n - 1 : ~chunks[i].delayAfter
           /\ joined' = (joined \/ n > 1)
           /\ wire' = [wire EXCEPT ![Current] = SubSeq(@, n + 1, Len(@))]
           /\ parser' = [p EXCEPT !.out = <<>>]
           /\ Says(p.out)
  /\ UNCHANGED <<setup, testVars, newConns, requests, broken, client, told, listening>>

(* The connection is over: it is to be opened again after some delay.      *)
Leave ==
  /\ client' = IF Fault("neverReconnects") THEN "stopped" ELSE "waiting"
  /\ parser' = LeftBy(setup, parser)
  /\ UNCHANGED <<setup, testVars, serverVars, listening, joined>>

SeeEnd ==
  /\ Reading
  /\ wire[Current] = <<>> /\ Current \in broken
  /\ Leave
  /\ Says(IF setup.reportsEnd THEN <<Error>> ELSE <<>>)
  /\ UNCHANGED told

(* restart: as if the server had dropped the connection.                   *)
DropForRestart ==
  /\ Reading
  /\ told /\ ~Fault("ignoresRestart")
  /\ told' = FALSE
  /\ Leave
  /\ Says(IF setup.reportsEnd THEN <<Error>> ELSE <<>>)

(* No data for half a second.  The test takes no time between its waits.   *)
CanTimeOut ==
  /\ Reading
  /\ params.readTimeout /\ ~Fault("noReadTimeout")
  /\ wire[Current] = <<>> /\ Current \notin broken
  /\ setup.punctual => Waits
ReadTimesOut ==
  /\ CanTimeOut
  /\ Leave
  /\ Says(<<Error>>)
  /\ UNCHANGED told

Retry ==
  /\ client = "waiting" /\ test # "ended"
  /\ client' = "connecting"
  /\ UNCHANGED <<setup, testVars, serverVars, told, listening, parser, messages, joined>>

ClientStep ==
  \/ Connect \/ ConnectInVain \/ Read \/ SeeEnd \/ DropForRestart \/ ReadTimesOut \/ Retry

(* What a client does in time: all but the retry if the delay was left to  *)
(* it.                                                                     *)
Busy ==
  \/ CanConnect
  \/ client = "waiting" /\ (params.quick \/ setup.retriesSoon)
  \/ Reading /\ \/ wire[Current] # <<>> \/ Current \in broken \/ CanTimeOut
                \/ told /\ ~Fault("ignoresRestart")
TimePasses == ~(setup.punctual /\ Busy)
-----------------------------------------------------------------------------
(***************************************************************************)
(* The test.                                                               *)
(***************************************************************************)
GoOn == pc' = pc + 1 /\ UNCHANGED test

(* The client is closed first, then the endpoints.                         *)
TearDown == test' = "ended" /\ UNCHANGED <<pc, ignoreNextError, stream>>
FailNow == failed' = TRUE /\ TearDown
TestOnly == UNCHANGED <<setup, serverVars, clientVars>>

(* RequireCapability skips the test.                                       *)
Skip ==
  /\ test = "starting"
  /\ ~ \A c \in script.needs : Has(c)
  /\ TearDown
  /\ UNCHANGED failed /\ TestOnly

(* docs/service_spec.md, `Create stream' and `Send command': a parameter   *)
(* is set, or a command sent, only if the service has the capability.  Or  *)
(* else it may refuse, as it does here, and the test ends.                 *)
Understood(capabilities) == capabilities \subseteq setup.capabilities

Asks(its) ==
     (IF its.readTimeout THEN {"read-timeout"} ELSE {})
  \cup (IF its.method = "POST" THEN {"post"} ELSE {})
  \cup (IF its.method = "REPORT" THEN {"report"} ELSE {})
  \cup (IF its.headers /\ its.method = "GET" THEN {"headers"} ELSE {})
  \cup (IF its.lastID # none THEN {"last-event-id"} ELSE {})

(* NewSSEClient: the client is created with what the parameters ask for.   *)
CreateClient ==
  /\ test = "starting"
  /\ \A c \in script.needs : Has(c)
  /\ IF Understood(Asks(params))
       THEN /\ test' = "running"
            /\ client' = "connecting"
            /\ parser' = NewParser(setup.fault, FirstID(setup))
            /\ UNCHANGED <<pc, failed, ignoreNextError, stream>>
       ELSE FailNow /\ UNCHANGED <<client, parser>>
  /\ UNCHANGED <<setup, serverVars, told, listening, messages, joined>>

AwaitsConnection ==
  /\ At("await")
  /\ newConns # <<>>
  /\ stream' = Head(newConns)
  /\ newConns' = Tail(newConns)
  /\ GoOn
  /\ UNCHANGED <<setup, failed, ignoreNextError, requests, wire, broken, clientVars>>

(* AwaitConnection or RequireMessage: the five seconds have passed.        *)
TimesOutNever == FALSE /\ UNCHANGED vars
TimesOut ==
  /\ TimePasses
  /\ WaitsForReport \/ WaitsForStream
  /\ FailNow /\ TestOnly

(* Each field that is named has a value that is accepted.                  *)
Matches(actual, accepted) == \A f \in DOMAIN accepted : actual[f] \in accepted[f]

(* assert: the test fails and goes on.                                     *)
assertLast(condition) == failed' = ~condition
assert(condition) == failed' = (failed \/ ~condition)

ChecksRequest ==
  /\ At("request")
  /\ assert(Matches(requests[stream], Arg))
  /\ GoOn
  /\ UNCHANGED <<ignoreNextError, stream>> /\ TestOnly

(* Send, SendInChunks, BreakConnection.  A broken connection takes the     *)
(* chunks and does nothing with them.                                      *)
Put(chunks) ==
  /\ wire' = IF stream \in broken \/ (stream < Current) \/ client # "reading" THEN wire
             ELSE [wire EXCEPT ![stream] = @ \o chunks]
  /\ GoOn
  /\ UNCHANGED <<setup, failed, ignoreNextError, stream, newConns, requests, clientVars>>

Sends ==
  /\ At("send") \/ At("sendDelayed")
  /\ Put([i \in DOMAIN Arg |->
            [data |-> Arg[i], delayAfter |-> At("sendDelayed") /\ i < Len(Arg)]])
  /\ UNCHANGED broken

Breaks ==
  /\ At("break")
  /\ broken' = broken \cup {stream}
  /\ Put(<<>>)

IgnoresError ==
  /\ At("ignoreError")
  /\ ignoreNextError' = TRUE
  /\ GoOn
  /\ UNCHANGED <<failed, stream>> /\ TestOnly

(* RequireEvent, RequireComment, RequireError, for RequireSpecificEvents   *)
(* as well: AwaitMessage takes the next message, an error that is to be    *)
(* ignored is dropped, and another kind than the one required ends the     *)
(* test.                                                                   *)
Takes ==
  /\ messages # <<>>
  /\ messages' = Tail(messages)
  /\ UNCHANGED <<setup, serverVars, client, told, listening, parser, joined>>

IgnoredNever == FALSE
Ignored == ignoreNextError /\ Head(messages).kind = "error"

DropsError ==
  /\ \E kind \in MessageKinds : Awaits(kind)
  /\ Takes
  /\ Ignored
  /\ ignoreNextError' = FALSE
  /\ UNCHANGED <<test, pc, failed, stream>>

TakesMessage ==
  \E kind \in MessageKinds :
    /\ Awaits(kind)
    /\ Takes
    /\ ~Ignored
    /\ IF Head(messages).kind = kind
         THEN /\ assert(Matches(Head(messages), Arg))
              /\ ignoreNextError' = FALSE
              /\ GoOn /\ UNCHANGED stream
         ELSE FailNow

RequiresNoComment ==
  /\ At("commentIfAble") /\ ~Has("comments")
  /\ GoOn
  /\ UNCHANGED <<failed, ignoreNextError, stream>> /\ TestOnly

(* The requests that were recorded.                                        *)
CountsRequests ==
  /\ At("countRequests")
  /\ assert(Current = Arg)
  /\ GoOn
  /\ UNCHANGED <<ignoreNextError, stream>> /\ TestOnly

(* time.Sleep, for a second.                                               *)
Sleeps ==
  /\ At("sleep")
  /\ TimePasses
  /\ GoOn
  /\ UNCHANGED <<failed, ignoreNextError, stream>> /\ TestOnly

Restarts ==
  /\ At("restart")
  /\ IF Understood({"restart"})
       THEN /\ told' = TRUE
            /\ GoOn /\ UNCHANGED <<failed, ignoreNextError, stream>>
       ELSE FailNow /\ UNCHANGED told
  /\ UNCHANGED <<setup, serverVars, client, listening, parser, messages, joined>>

(* BePreparedToReceiveEventType: no command without the capability.        *)
Prepares ==
  /\ At("listen")
  /\ LET command == Has("event-type-listeners") IN
       IF command => Understood({"event-type-listeners"})
         THEN /\ listening' = IF command THEN listening \cup {Arg} ELSE listening
              /\ GoOn /\ UNCHANGED <<failed, ignoreNextError, stream>>
         ELSE FailNow /\ UNCHANGED listening
  /\ UNCHANGED <<setup, serverVars, client, told, parser, messages, joined>>

FinishesAgain ==
  /\ test = "running"
  /\ pc > Len(script.steps)
  /\ GoOn
  /\ UNCHANGED <<failed, ignoreNextError, stream>> /\ TestOnly
Finishes ==
  /\ test = "running"
  /\ pc > Len(script.steps)
  /\ TearDown
  /\ UNCHANGED failed /\ TestOnly

TestStep ==
  \/ Skip \/ CreateClient \/ AwaitsConnection \/ TimesOut \/ ChecksRequest
  \/ Sends \/ Breaks \/ IgnoresError \/ DropsError \/ TakesMessage
  \/ RequiresNoComment \/ CountsRequests \/ Sleeps \/ Restarts \/ Prepares \/ Finishes

Next == TestStep \/ ClientStep

Spec == Init /\ [][Next]_vars

(* The test's goroutine runs, and time passes for its waits.  A client     *)
(* that is punctual does what it has to do in time: weak fairness, with    *)
(* Busy for the condition that ClientStep is enabled.                      *)
ClientFairness == setup.punctual => []<>~Busy \/ []<><<ClientStep>>_vars

FairSpec == Spec /\ WF_vars(TestStep) /\ ClientFairness
-----------------------------------------------------------------------------
(***************************************************************************)
(* Properties.                                                             *)
(***************************************************************************)
Ended == test = "ended"
Passed == Ended /\ ~failed /\ script.needs \subseteq setup.capabilities

(* The suite asks for more than the documents do in two tests.  A client   *)
(* may report the end of a stream as an error (testapi_sse_client.go:198)  *)
(* and restarts as if its server had ended it (optional_features.md:82),   *)
(* but the restart test has no IgnoreErrorHere.  An Accept header is not   *)
(* required (optional_features.md:48), but the default request has one.    *)
RestartReported(u) == u.reportsEnd /\ Uses(Scripts[u.script], "restart")
NoAccept(u) ==
  /\ ~u.sendsAccept
  /\ \E step \in Range(Scripts[u.script].steps) :
       step.op = "request" /\ "accept" \in DOMAIN step.arg

(* A client that does what the documents ask for, in time, passes every    *)
(* test but these two, whichever order things happen in, and whether or    *)
(* not it reports the end of a stream as an error: with RequireMessage and *)
(* IgnoreErrorHere, no other script trips over that.  Where the documents  *)
(* leave open what a client does, the one here does what the tests expect: *)
(* it reports a read timeout as an error (optional_features.md:72 says     *)
(* `drop and retry'), and gives an event without a type the default one    *)
(* (`type' is optional in service_spec.md:82).                             *)
ConformingPasses ==
  setup.fault = "none" /\ setup.punctual /\ Ended /\ failed =>
    RestartReported(setup) \/ NoAccept(setup)

(* And these faults go undetected: a missing default type, except where    *)
(* events are not compared by RequireSpecificEvents (its comment promises  *)
(* a test); a BOM that was left before a comment which the client cannot   *)
(* report.                                                                 *)
Indistinct(u) ==
  LET its == Scripts[u.script] IN
  \/ u.fault = "noDefaultType" /\ ~Uses(its, "comment")
  \/ u.fault = "keepsBOM" /\ Uses(its, "commentIfAble") /\ "comments" \notin u.capabilities

(* And these can: a limit of a chunk, if the client gets several of them   *)
(* in one read; a retry after 204 that comes later than the second that    *)
(* the test waits, because InitialDelayMS is not set.                      *)
Undetected ==
  \/ Indistinct(setup)
  \/ setup.fault \in BoundaryFaults /\ joined
  \/ Fault("retriesAfter204") /\ ~(setup.retriesSoon /\ setup.punctual)

(* Otherwise no test is passed by a client that has a fault which the test *)
(* is about, late or in time, with any of the other habits.                *)
CatchesFaults == Passed /\ setup.fault # "none" => Undetected

(* Every test ends, whatever the client does or fails to do, and whether   *)
(* or not it is in time.                                                   *)
TestEnds == <>Ended
=============================================================================
