--------------------------- MODULE ContractScripts ---------------------------
(***************************************************************************)
(* The contract tests of ssetests/tests_*.go, as data: what each of them   *)
(* needs, which server and which parameters it uses, what it does step by  *)
(* step after it has created its client, and its purpose: the faults of    *)
(* EventStream and ContractTest that its name or comments say it is about. *)
(* ContractTest says what the steps do.                                    *)
(*                                                                         *)
(* A text is a sequence of tokens, see EventStream; a word is one token,   *)
(* also if it is five megabytes long.                                      *)
(***************************************************************************)
EXTENDS Integers, SequencesExt

LF == <<"LF">>
CR == <<"CR">>
utf8BOM == <<"BOM1", "BOM2", "BOM3">>
euro == <<"E1", "E2", "E3">>
Hello == <<"Hello">>
World == <<"World">>
abc == <<"abc">>
def == <<"def">>
greeting == <<"greeting">>
none == <<>>

FieldLine(name, value) == <<name, ":", " ">> \o value \o LF
Data(value) == FieldLine("data", value)
ID(value) == FieldLine("id", value)
Message(value) == Data(value) \o LF

(* A step, and what it is about.                                           *)
Step(op, arg) == <<[op |-> op, arg |-> arg]>>
AwaitConnection == Step("await", none)
Send(text) == Step("send", <<text>>)
SendInChunks(text, size) ==
  Step("sendDelayed",
       [i \in 1 .. (Len(text) + size - 1) \div size |->
          SubSeq(text, (i - 1) * size + 1, Min({i * size, Len(text)}))])
BreakConnection == Step("break", none)
IgnoreErrorHere == Step("ignoreError", none)
RequireError == Step("error", <<>>)
RequireComment(text) == Step("comment", [data |-> {text}])
Restart == Step("restart", none)
BePreparedFor(type) == Step("listen", type)

(* What is required of the fields of an event, or of a request: each of    *)
(* those that are named has one of some values.                            *)
RequireEvent(accepted) == Step("event", accepted)
CheckRequest(accepted) == Step("request", accepted)
NoLastEventID == CheckRequest([ids |-> {<<>>}])
SentLastEventID(id) == CheckRequest([ids |-> {<<id>>}])

(* RequireSpecificEvents: an event with all its fields, but no type is the *)
(* same as the type "message".                                             *)
EqualTypes(type) == IF type \in {none, <<"message">>} THEN {none, <<"message">>} ELSE {type}
EventMessage(type, id, data) ==
  RequireEvent([type |-> EqualTypes(type), id |-> {id}, data |-> {data}])
Plain(data) == EventMessage(none, none, data)

(* servicedef.CreateStreamParams.                                          *)
Default == [quick |-> FALSE, method |-> "GET", body |-> FALSE, headers |-> FALSE,
            lastID |-> none, readTimeout |-> FALSE]
Quick == [Default EXCEPT !.quick = TRUE]

Script(needs, params, server, purpose, steps) ==
  [needs |-> needs, params |-> params, server |-> server, purpose |-> purpose, steps |-> steps]

(* A script that begins with NewStreamAndSSEClient.                        *)
WithParams(needs, params, purpose, steps) ==
  <<Script(needs, params, "stream", purpose, AwaitConnection \o steps)>>
Test(purpose, steps) == WithParams({}, Default, purpose, steps)
-----------------------------------------------------------------------------
(***************************************************************************)
(* tests_basic_parsing.go.                                                 *)
(***************************************************************************)
Chunking ==
     Test({"keepsSpace"}, Send(Message(Hello)) \o Plain(Hello))
  \o Test({"chunkIsLine"},
       Send(<<"data", ":", " ", "test">>) \o Send(<<"test", "LF", "LF", "data", ":">>)
       \o Send(<<"test", "LF", "LF">>) \o Plain(<<"test", "test">>) \o Plain(<<"test">>))
  \o Test({}, Send(Message(<<"large">>)) \o RequireEvent([data |-> {<<"large">>}]))
  \o Test({"chunkIsLine"},
       Send(<<"data", ":", " ", "largeA">>) \o Send(<<"largeB", "LF", "LF">>)
       \o RequireEvent([data |-> {<<"largeA", "largeB">>}]))
  \o Test({"chunkIsLine"},
       Send(<<"data", ":", " ", "Hel">>) \o Send(<<"lo", "LF", "LF">>) \o Plain(<<"Hel", "lo">>))

SeveralInOneChunk ==
     Test({"swapsEvents"},
       Send(Message(Hello) \o Message(World)) \o Plain(Hello) \o Plain(World))
  \o Test({"lastLineOnly", "needsSpace"},
       Send(Data(Hello) \o <<"data", ":", "World", "LF", "LF">>) \o Plain(Hello \o LF \o World))
  \o Test({"dropsEmptyData"}, Send(<<"data", ":", "LF", "LF">>) \o Plain(none))

TypesAndIDs ==
     Test({"ignoresType"},
       BePreparedFor(greeting) \o Send(FieldLine("event", greeting) \o Message(Hello))
       \o EventMessage(greeting, none, Hello))
  \o Test({"noDefaultType"}, Send(Message(Hello)) \o EventMessage(<<"message">>, none, Hello))
  \o Test({"ignoresIDs"}, Send(ID(abc) \o Message(Hello)) \o EventMessage(none, abc, Hello))
  \o Test({"ignoresType", "ignoresIDs"},
       BePreparedFor(greeting)
       \o Send(FieldLine("event", greeting) \o ID(abc) \o Message(Hello))
       \o EventMessage(greeting, abc, Hello))
  \o Test({"keepsNull"}, Send(ID(<<"a", "NUL", "bc">>) \o Message(Hello)) \o Plain(Hello))

LastIDs ==
     Test({"forgetsID"},
       Send(ID(abc) \o Message(Hello)) \o Send(Message(World))
       \o EventMessage(none, abc, Hello) \o EventMessage(none, abc, World))
  \o Test({"keepsID"},
       Send(ID(abc) \o Message(Hello)) \o Send(ID(none) \o Message(World))
       \o EventMessage(none, abc, Hello) \o Plain(World))

FieldSyntax ==
     Test({"fixedOrder"},
       BePreparedFor(greeting)
       \o Send(Data(Hello) \o ID(abc) \o FieldLine("event", greeting) \o LF)
       \o EventMessage(greeting, abc, Hello))
  \o Test({"unknownIsData"},
       BePreparedFor(greeting)
       \o Send(FieldLine("event", greeting) \o FieldLine("color", <<"blue">>) \o Message(Hello))
       \o EventMessage(greeting, none, Hello))
  \o Test({"needsSpace"},
       BePreparedFor(greeting)
       \o Send(<<"event", ":", "greeting", "LF", "data", ":", "Hello", "LF", "LF">>)
       \o EventMessage(greeting, none, Hello))
  \o Test({"trimsSpaces", "keepsSpace"},
       BePreparedFor(<<" ", "greeting">>)
       \o Send(FieldLine("event", <<" ", "greeting">>) \o Message(<<" ", "Hello">>))
       \o EventMessage(<<" ", "greeting">>, none, <<" ", "Hello">>))
  \o Test({"needsColon"},
       Send(<<"data", "LF", "LF", "data", "LF", "data", "LF", "LF">>) \o Plain(none) \o Plain(LF))

(* Three messages for the hundred of the code.                             *)
Characters ==
     Test({}, Send(Message(euro)) \o Plain(euro))
  \o Test({"swapsEvents"},
       Send(Message(<<"0">>) \o Message(<<"1">>) \o Message(<<"2">>))
       \o Plain(<<"0">>) \o Plain(<<"1">>) \o Plain(<<"2">>))
  \o Test({"decodesChunks"}, SendInChunks(Message(euro), 1) \o Plain(euro))
-----------------------------------------------------------------------------
(***************************************************************************)
(* tests_bom.go.                                                           *)
(***************************************************************************)
BOMTest(purpose, steps) == WithParams({"bom"}, Default, purpose, steps)

BOMAtStart ==
     BOMTest({"keepsBOM"}, Send(utf8BOM \o Message(Hello)) \o Plain(Hello))
  \o BOMTest({"keepsBOM"},
       BePreparedFor(greeting)
       \o Send(utf8BOM \o FieldLine("event", greeting) \o ID(abc) \o Message(Hello))
       \o EventMessage(greeting, abc, Hello))
  \o BOMTest({"keepsBOM"},
       Send(utf8BOM \o Message(Hello) \o Message(World)) \o Plain(Hello) \o Plain(World))

BOMInData ==
     BOMTest({"stripsAllBOMs"},
       Send(Message(Hello)) \o Send(Message(utf8BOM \o World))
       \o Plain(Hello) \o Plain(utf8BOM \o World))
  \o BOMTest({"stripsAllBOMs", "keepsBOM"},
       Send(utf8BOM \o Message(utf8BOM \o Hello)) \o Plain(utf8BOM \o Hello))

BOMSplit ==
     BOMTest({"wholeBOMOnly", "keepsBOM"},
       Send(<<"BOM1", "BOM2">>) \o Send(<<"BOM3">> \o Message(Hello)) \o Plain(Hello))
  \o BOMTest({"wholeBOMOnly", "keepsBOM"},
       Send(<<"BOM1">>) \o Send(<<"BOM2">>) \o Send(<<"BOM3">>) \o Send(Message(Hello))
       \o Plain(Hello))

BOMAndOthers ==
     BOMTest({}, Send(Message(Hello)) \o Plain(Hello))
  \o BOMTest({"keepsBOM"},
       Send(utf8BOM \o Data(Hello) \o Message(World)) \o Plain(Hello \o LF \o World))
  \o BOMTest({"keepsBOM"},
       Send(utf8BOM \o <<":", "comment", "LF">> \o Message(Hello))
       \o Step("commentIfAble", [data |-> {<<"comment">>}]) \o Plain(Hello))
  \o BOMTest({"keepsBOM"}, Send(utf8BOM \o <<"data", ":", "LF", "LF">>) \o Plain(none))
-----------------------------------------------------------------------------
(***************************************************************************)
(* tests_comments.go.                                                      *)
(***************************************************************************)
Comment(value) == Send(<<":">> \o value \o LF)
MessageEvent == RequireEvent([type |-> {<<"message">>}, data |-> {Hello}])

Comments ==
  LET CommentTest(purpose, steps) ==
        WithParams({"comments"}, Default, {"dropsComments"} \cup purpose, steps)
  IN
     CommentTest({}, Comment(Hello) \o RequireComment(Hello))
  \o CommentTest({},
       Comment(Hello) \o RequireComment(Hello) \o Comment(World) \o RequireComment(World))
  \o CommentTest({"noDefaultType"},
       Comment(Hello) \o Send(Message(Hello)) \o RequireComment(Hello) \o MessageEvent)
  \o CommentTest({"noDefaultType"},
       Send(Message(Hello)) \o Comment(Hello) \o MessageEvent \o RequireComment(Hello))
-----------------------------------------------------------------------------
(***************************************************************************)
(* tests_linefeeds.go.                                                     *)
(***************************************************************************)
testInputParsing(input, purpose, split, events) ==
     Test(purpose, Send(input) \o events)
  \o Test(purpose \cup {"chunkIsLine"} \cup split, SendInChunks(input, 1) \o events)
  \o Test(purpose \cup {"chunkIsLine"}, SendInChunks(input, 2) \o events)

testWithTerminator(nl, purpose) ==
  LET Line(value) == <<"data", ":">> \o value \o nl
      Some(value) == <<" ">> \o value
      one == <<"1">>  two == <<"2">>  three == <<"3">>
      Longer(input, events) ==
        testInputParsing(input, purpose \cup {"lastLineOnly"},
          IF nl = CR \o LF THEN {"splitsCRLF"} ELSE {}, events)
      Spaced(input) ==
        testInputParsing(input, purpose \cup {"reportsEmpty"}, {}, Plain(one) \o Plain(two))
  IN
     testInputParsing(Line(Some(one)) \o nl, purpose, {}, Plain(one))
  \o Longer(Line(Some(one)) \o nl \o Line(Some(two)) \o Line(Some(three)) \o nl,
       Plain(one) \o Plain(two \o LF \o three))
  \o Longer(Line(none) \o Line(Some(two)) \o Line(Some(three)) \o nl,
       Plain(LF \o two \o LF \o three))
  \o Longer(Line(Some(one)) \o Line(none) \o Line(Some(three)) \o nl,
       Plain(one \o LF \o LF \o three))
  \o Spaced(Line(Some(one)) \o nl \o nl \o Line(Some(two)) \o nl)
  \o Spaced(Line(Some(one)) \o nl \o nl \o nl \o Line(Some(two)) \o nl)

Linefeeds ==
     testWithTerminator(LF, {})
  \o testWithTerminator(CR \o LF, {})
  \o testWithTerminator(CR, {"ignoresCR"})

SplitCRLF ==
  Test({"splitsCRLF"},
    Send(<<"data", ":", " ", "Hello", "CR">>) \o Send(<<"LF", "data", ":", " ", "World", "CR">>)
    \o Send(<<"LF", "CR", "LF", "data", ":", " ", "OK", "CR">>)
    \o Send(LF) \o Send(CR) \o Send(LF)
    \o Plain(Hello \o LF \o World) \o Plain(<<"OK">>))
-----------------------------------------------------------------------------
(***************************************************************************)
(* tests_http_behavior.go.                                                 *)
(***************************************************************************)
DefaultRequest ==
  Test({"cached", "sendsEmptyID"},
    CheckRequest([method |-> {"GET"}, accept |-> {TRUE}, noCache |-> {TRUE}, ids |-> {<<>>}]))

HaltedBy204 ==
  <<Script({"server-directed-shutdown-request"}, Default, "204", {"retriesAfter204"},
           Step("sleep", none) \o Step("countRequests", 1))>>

Redirects ==
     <<Script({}, Default, "redirect", {"staysAfterRedirect"},
              AwaitConnection \o Send(Message(Hello)) \o Plain(Hello))>>
  \o <<Script({}, Default, "redirectNowhere", {"loopsOnRedirect"}, RequireError)>>

CustomHeaders ==
  WithParams({"headers"}, [Default EXCEPT !.headers = TRUE], {"ignoresHeaders"},
    CheckRequest([headers |-> {TRUE}]))

doRequestWithBody(method, capability) ==
  WithParams({capability},
    [Default EXCEPT !.headers = TRUE, !.method = method, !.body = TRUE],
    {"ignoresMethod", "ignoresHeaders", "dropsBody"},
    CheckRequest([method |-> {method}, headers |-> {TRUE}, body |-> {TRUE}]))

InitialID ==
  WithParams({"last-event-id"}, [Default EXCEPT !.lastID = abc], {"ignoresInitialID"},
    SentLastEventID(abc))
-----------------------------------------------------------------------------
(***************************************************************************)
(* tests_reconnection.go.                                                  *)
(***************************************************************************)
Restarted ==
  WithParams({"restart"}, Quick, {"ignoresRestart"},
    Send(Message(Hello)) \o Plain(Hello) \o Restart
    \o AwaitConnection \o Send(Message(World)) \o Plain(World))

Reconnect == BreakConnection \o AwaitConnection
ReconnectTest(purpose, steps) == WithParams({}, Quick, {"neverReconnects"} \cup purpose, steps)

SendsLastID ==
     ReconnectTest({"noLastEventID"},
       NoLastEventID \o Send(ID(abc) \o Message(Hello)) \o EventMessage(none, abc, Hello)
       \o Reconnect \o SentLastEventID(abc))
  \o ReconnectTest({"noLastEventID", "forgetsID"},
       NoLastEventID \o Send(ID(abc) \o Message(Hello)) \o Send(Message(World))
       \o RequireEvent([data |-> {Hello}, id |-> {abc}]) \o RequireEvent([data |-> {World}])
       \o Reconnect \o SentLastEventID(abc))
  \o ReconnectTest({"keepsID", "sendsEmptyID"},
       NoLastEventID \o Send(ID(abc) \o Message(Hello)) \o Send(ID(none) \o Message(World))
       \o RequireEvent([data |-> {Hello}, id |-> {abc}])
       \o RequireEvent([data |-> {World}, id |-> {none}])
       \o Reconnect \o NoLastEventID)

ResendsBody ==
  LET sent == CheckRequest([method |-> {"POST"}, body |-> {TRUE}]) IN
  WithParams({"post"},
    [Quick EXCEPT !.headers = TRUE, !.method = "POST", !.body = TRUE],
    {"neverReconnects", "sendsBodyOnce"}, sent \o Reconnect \o sent)

ReadTimeout ==
  WithParams({"read-timeout"}, [Quick EXCEPT !.readTimeout = TRUE], {"noReadTimeout"},
    Send(Message(Hello)) \o Step("sleep", none) \o Plain(Hello) \o RequireError \o AwaitConnection)

PartialDiscarded ==
  ReconnectTest({"keepsPartial", "takesPartialID"},
    Send(ID(abc) \o Message(Hello) \o ID(def) \o <<"data", ":", " ", "Goodbye">>)
    \o EventMessage(none, abc, Hello)
    \o BreakConnection \o IgnoreErrorHere \o AwaitConnection
    \o Send(Message(World)) \o RequireEvent([data |-> {World}, id |-> {none, abc}]))

WorksAgain ==
  ReconnectTest({},
    NoLastEventID \o Send(ID(abc) \o Message(Hello)) \o EventMessage(none, abc, Hello)
    \o BreakConnection \o IgnoreErrorHere \o AwaitConnection
    \o Send(ID(def) \o Message(World)) \o EventMessage(none, def, World))
-----------------------------------------------------------------------------
(* What it runs.                                                           *)
RunTestSuite ==
  Chunking \o SeveralInOneChunk \o TypesAndIDs \o LastIDs \o FieldSyntax \o Characters
  \o BOMAtStart \o BOMInData \o BOMSplit \o BOMAndOthers
  \o Comments
  \o Linefeeds \o SplitCRLF
  \o DefaultRequest \o HaltedBy204 \o Redirects \o CustomHeaders
  \o doRequestWithBody("POST", "post") \o doRequestWithBody("REPORT", "report") \o InitialID
  \o Restarted \o SendsLastID \o ResendsBody \o ReadTimeout \o PartialDiscarded \o WorksAgain
=============================================================================
