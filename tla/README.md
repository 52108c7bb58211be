# Verification of sse-contract-tests

This directory holds TLA+ models of the SSE contract test harness, the TLC
configurations that check them on small instances, and proofs that the TLA+
proof system (TLAPS) checks for all values of the constants. `PROJECT.json`
lists every run, the source lines each definition stands for, the hazards of
the code and the theorems.

    tlc -workers 2 -config SortingQueueOrder.cfg MCMessageSortingQueue
    tlapm MessageSortingQueue_proofs.tla

## 1. The system and its parts

The harness is a Go program that tests SSE client libraries. A *test service*,
another program that wraps the library, is told over HTTP to create SSE clients.
The harness then plays two HTTP servers towards it: the *stream server* that the
client connects to, and the *callback endpoint* on which the service reports
each event, comment and error that the client saw. Everything runs in one
process: the main goroutine runs the tests one after another, the HTTP server
runs a goroutine per request, and each SSE client has a goroutine of its own
that passes the callbacks on.

                     Send, Break              stream (HTTP response)
      test scope  ────────────▶ stream server ─────────────▶ SSE client
        (test)                     │ mock endpoint            in the test
          ▲                                                   service
          │ AwaitMessage                                         │
        outputCh ◀── consumer ◀── sorting queue ◀── mock endpoint│
                     goroutine       (C)          callback POST ◀┘

| Component (source) | State | Operations | Talks to | What is hard | What makes it correct |
|---|---|---|---|---|---|
| Message sorting queue (`framework/harness/message_sorting_queue.go`) | channel `C`, `lastCounter`, `deferred`, `lock` | `Accept`, `Close`, `Deferred` | called by one goroutine per callback; read by the consumer | calls in any order, a bounded channel sent to with the lock held, `Close` without the lock, repeated numbers | messages leave in the order of their numbers, each once, none is left behind while the queue is open |
| SSE client, harness side (`ssetests/testapi_sse_client.go`) | `callbackQueue`, `outputCh`, `ignoreNextError` | `NewSSEClient`, `handleCallback`, `consumeCallbacks`, `AwaitMessage`, `Require*`, `IgnoreErrorHere`, `Restart`, `BePreparedToReceiveEventType`, teardown | mock endpoints, the queue, the test service entity | three kinds of goroutines, errors that bypass the queue, a consumer that starts late, a teardown with callbacks in flight | the test sees what was posted, in order; only the error that it announced is ignored; goroutines end |
| Mock endpoints (`framework/harness/mock_endpoints.go`) | map of endpoints, their channels `newConns` and `activeConn` | `newMockEndpoint`, `serveHTTP`, `AwaitConnection`, `Close` | HTTP server, tests | an endpoint that closes between the steps of a request; a full channel | requests reach their endpoint or get a 404; each one is reported once; nobody waits for the test |
| Stream server (`ssetests/testapi_stream_server.go`) | a channel per connection | `AwaitConnection`, `Send`, `SendInChunks`, `BreakConnection`, `streamHandler` | mock endpoints, the SSE client | `select` between data and disconnection, breaks that share the channel with data, dead connections | the client gets what was sent on its connection, in order, then the end |
| Test scopes (`framework/ldtest/test_scope.go`, `result.go`) | stack of scopes, `Results` | `Run`, `Errorf`, `FailNow`, `Skip`, `Defer` | all tests | panics as control flow; failing cleanups | the report agrees with what happened; resources are released in reverse order |
| Test selection (`framework/ldtest/filter.go`, `params.go`) | two lists of patterns | `Set`, `Match` | test scopes | the filter is asked at every scope on the way down | what runs is what the documentation says was chosen |
| Program run (`main.go`, `params.go`, `framework/harness/harness.go`, `test_service.go`) | options, listener, results | `main`, `queryTestServiceInfo`, `startServer`, `StopService` | the test service | a service that starts late or fails, a listener started in the background | exit status tells the result; no test runs before the listener is up |
| Test service entity (`framework/harness/test_service.go`) | URL of a client in the service | `NewTestServiceEntity`, `SendCommand`, `SendCommandWithParams`, `Close` | the test service | requests without time-outs, answers that are lost, a URL that is not looked at before it is used | each client that the service has named is asked to close; what goes wrong fails a test |
| Contract tests (`ssetests/tests_*.go`, `testsuite.go`) | none | scripts | all of the above | the client connects, reads, reports and reconnects at its own pace; reports of errors are optional | a client that does what the documents ask for passes, one that has a fault which the test is about does not, and the test ends |
| Capabilities (`framework/capabilities.go`, `RequireCapability`) | what the service has said it can do | `Has` | contract tests | 2^n kinds of services | a test asks nothing of a service that it has not offered |

Logging, the JSON types and the downloader have no behaviour worth modelling;
they are listed in `PROJECT.json` with their reasons.

## 2. The modules

| Module | What it is | Depends on |
|---|---|---|
| `OrderedDelivery` | what the queue promises: submit in any order, deliver by number | |
| `MessageSortingQueue` | the queue as it is coded | `OrderedDelivery` (refined) |
| `MessageSortingQueue_proofs` | the proofs about the queue | |
| `SSEClient`, `SSEClient_proofs` | the harness's side of one client, with the queue inside; the proofs, which rest on those about the queue | `MessageSortingQueue` (instance), `MessageSortingQueue_proofs` |
| `MockEndpoints`, `MockEndpoints_proofs` | the endpoints and the requests to them; proofs | |
| `OrderedStream` | what a stream promises: what is sent on a connection is received there in order, then its end | |
| `StreamServer`, `StreamServer_proofs` | streams, their handlers, and the client as environment; proofs | `OrderedStream` (refined) |
| `TestScope`, `TestScope_proofs` | scopes, results, cleanups; proofs | |
| `Filter`, `TestSelection`, `TestSelection_proofs` | the filter and its documentation; command line and descent; proofs | |
| `ServiceEntity` | the clients that the tests create in the service, one test after another | |
| `HarnessRun`, `HarnessRun_proofs` | one run of the program, from start-up to exit status, tests included; proofs | `ServiceEntity` (extended) |
| `EventStream` | what the client under test makes of a stream, or gets wrong | |
| `ContractScripts` | the contract tests, as data | |
| `ContractTest` | one contract test against a client | `ContractScripts`, `EventStream` (extended) |
| `ContractPlan` | the one run of a contract test with a client that does everything at once | `ContractTest` (extended) |
| `ContractTest_proofs` | the proofs about contract tests | `ContractPlan` (extended) |
| `MC...` | values of the constants for TLC | the module of that name |

A definition placed before another one and named after it (`HasGapOffByOne`
before `HasGap`) is a faulty variant that no action uses. It is a bug that the
code might have had; put in place of the definition it stands before, it makes
TLC find a violation of the property that `PROJECT.json` names with it.

### How state and actions correspond to the code

*`MessageSortingQueue`.* `C` is the channel, `field` the struct field that
`Close` overwrites, `lastCounter`, `deferred` and `lock` the fields of the same
names; `outgoing` and `phase` are the local variables and the program counters
of the calls in progress. One call of `Accept` is cut where it can wait: taking
the lock (`TakeMessage`, `DeferMessage`), and each send on the channel, which
goes on with the loop (`SendAndContinue`) or returns (`SendAndReturn`). A send on
a closed channel panics (`SendPanics`), and on the nil field it hangs
(`SendHangs`); both leave the lock held, as the code has no `defer Unlock`, and both
end the message in hand, which is in no data structure any more (lines 34 and 40-42).
`Close` is two steps (`CloseChannel`, `ClearField`), since it does not take the
lock. `sort.Slice` is not stable: `DeferMessage` may put the new message at any
place that keeps the list sorted. `received` is a history variable.

*`SSEClient`.* It has the variables of the queue, and an instance of its module.
An item of `outputCh` is the request that it comes from; `Kind` says what the
request carries. Handlers run `HandleCallback`, all of whose steps are steps of
`Accept`, or `HandleBadPath`. The goroutine `consumeCallbacks` is `BeginRange`,
`Consume`, `Output`, `EndRange`; reading the field `C` at the beginning of
`range` races with the assignment in `Close`, so `BeginRange` allows both
outcomes. `RequireMessage`, `AwaitTakes`, `AwaitTimesOut` are `AwaitMessage`:
`select` may time out with an item there. The deferred calls of `NewSSEClient`
are `CloseEndpoint` and `CloseQueue`. `Post` stands for the requests that get through
the mock endpoint to `handleCallback`; a body that cannot be read, and a push that
panics because the endpoint is being closed, end a request before that.

*`MockEndpoints`.* A request goes through `Arrive`, `Lookup` (under the
manager's lock), `SetActive` (under the endpoint's lock), `Push` (without waiting)
and the handler. `Close` is `CloseDeletes` and `CloseClosesChannel`, the two locked
sections of the code. A push to a closed channel panics (`PushPanics`).

*`StreamServer`.* A connection has the goroutine `streamHandler` (`HandleChunk`,
`WakeUp`, `HandleBreak`, `HandleDone`: the two cases of `select` are separate
actions, either of which may be taken when both are ready) and a channel, into
which the test puts what `Send`, `SendInChunks` and `BreakConnection` made
(`PutChunk`, which waits when the channel is full). Data are numbers in the order
in which the test sends them. The client is the environment: it connects when it
has no connection, reads, and may drop the connection. The endpoint is reduced
to a flag and a queue of reported connections, as `MockEndpoints` shows it.

*`OrderedStream`.* Of each connection, what was sent on it (breaks included), what the
client has received, and whether the client still has it. There are no handlers,
channels or Contexts: this is what a test and a client may rely on.

*`TestScope`.* `stack` is the stack of Go calls of `T.run`. `Record` is the
deferred function of `T.run` up to its loop over the cleanups; `RecoverOwn` and
`RecoverOther` are its two ways to recover. `Skip` leaves the scope without
either, as the early return does. A cleanup that panics ends the action of the
scope around it (`CleanupPanics`); one that calls `Errorf` or `FailNow` is not
modelled, and there is none in the program.

*`Filter`, `TestSelection`.* A regular expression is the set of the names it
matches; a test is the sequence of the names of its scopes. `Selects` and
`Chosen` are the rules of `docs/running.md` (13-23), independent of the way the
code computes its answer.

*`ServiceEntity`.* The test at hand is between two requests, or waits for the
answer to one: `Create`, then `Created` or `CreationFails`; `SendCommand`, then
`CommandDone` or `CommandFails`; `Close` or `ClosePanics`. A test creates one
client, so the client of test `i` is `i`. The service may refuse a request, carry
it out and lose the answer, give a URL that cannot be parsed, hang (it takes
requests and answers none), break down with its clients, and start again.
`named`, `unusable`, `deleted` and `denied` are history variables.

*`HarnessRun`.* `main` is where the main goroutine is, from `commandParams.Read`
to `os.Exit`; `listener` is the goroutine of `startServer`. While `main` is
`"testing"`, its steps are those of a test in `ServiceEntity` (`RunTest`). Another
program may have the port. `service` is one variable for the start-up, the tests
and `StopService`, so a service that breaks down in a test is down from then on.

*`EventStream`.* The client's parser, a token at a time: `TokenRead`, `LineEnded`,
`FieldRead`, `Dispatch`. It is external code, written down from what the tests and
`docs/optional_features.md` expect. A parser carries its `fault`, which makes one part
of it wrong, or `"none"`. A token is a word, a character with a meaning (`:`, space, CR, LF, NUL),
or one byte of a BOM or of a character of several bytes, since tests split those.

*`ContractScripts`.* Each test function is a sequence of steps named for the methods
that it calls (`Send`, `BreakConnection`, `IgnoreErrorHere`, `RequireError`, ...),
with the capabilities that it needs, its parameters, its kind of server and its
`purpose`: the faults that its name or its comments say it is about. A word of
five megabytes is one token, as any other word. Three messages stand for the
hundred of one test, one script for both redirect statuses, and one for both forms
of a useless `Location`.

*`ContractTest`.* Its constants are `Scripts`, which a run sets to those of
`RunTestSuite`, and the bound `MaxRequests`. `pc` is the next step of the script.
`setup` is chosen once: the script, the fault or none, the capabilities, and the
habits in which clients are free to differ (whether they report the end of a stream as
an error, send an `Accept` header, retry soon, are in time). Time is abstract: a wait
of the test (`TimesOut`, `Sleeps`) ends when it likes if the client is not `punctual`,
and not before the client has nothing more to do if it is (`TimePasses`). A read of a
connection may return several chunks together; those that `SendInChunks` sends with a
delay only if the client is not punctual. `Put` to a connection that is broken, or
that the client has left, has no effect, as in `StreamServer`. What lies between the
test and the client is reduced to what the other modules show of it.

*`ContractPlan`.* No action and no state of its own: `Plan` is the sequence of states
that a script goes through with a client that is always ahead of the test and reads
each chunk by itself. `Passes` says what a step needs to succeed there, `Fails` when the
test fails without, `After` what the step leaves behind. All are defined from the same
`ChunkRead`, `ReportedBy`, `RequestOf`, `Reopened` and `Matches` as `ContractTest`, and for
clients with a fault as well. It is the abstract view of a contract test, in which there
is nothing left to interleave. It is defined for the scripts that are `Streaming`; the
three kinds in which the client acts on its own account are `Halting` (the status 204),
`GoingNowhere` (a redirect that cannot be followed) and `TimingOut` (the read timeout).
`Shows` says what a script must have in it to be about a fault.

## 3. The runs

All bounds are constants or definitions of an `MC` module.

| Run | What it asks | Bounds, and why they are enough |
|---|---|---|
| `queue_order` | With well-numbered callbacks and `Close` at any moment: order, no message doubled nor, but for one at `Close`, lost, nothing ready left behind, every call returns while the queue is open, refinement of `OrderedDelivery` with liveness | 4 requests, channel of 2: a call can defer two messages, release both in one loop and fill the channel with the lock held |
| `sse_client` | End to end from the POST to the test, with teardown: order, no answered callback dropped but one by the teardown, `IgnoreErrorHere`, progress, end of the consumer | 3 numbered callbacks (two are errors) and one bad URL; queue channel of 1 and `outputCh` of 2, so both fill up |
| `sse_client_bad_message` | *violation*: a malformed body reaches the test as a message with an empty kind | 2 callbacks |
| `endpoints` | Routing, 404 after `Close`, reporting exactly once, no wait for the test | 2 requests and 2 endpoints, `newConns` of 1: every race here is of a request with one other request or with one `Close`, and the second request finds the channel full |
| `endpoints_cancel` | *violation*: `Close` does not cancel the contexts of requests in progress | 2 requests, 1 endpoint |
| `stream_server` | Order and completeness on each connection, end after a break, end of handlers, sends that return, refinement of `OrderedStream` with liveness | 2 connections in turn (the old one may be dead and still be sent to), 3 data chunks and a break on each, channel of 2, so that `SendInChunks` waits in the middle |
| `scopes` | Report, results and cleanups agree under panics, skips and failing cleanups | scopes nested three deep, two names, 1 error and 2 cleanups in each; names are symmetric (all properties are safety, so the reduction is sound) |
| `scopes_skip` | *violation*: `Skip` after `Defer` leaves cleanups uncalled | as above, two deep |
| `selection` | What runs is what the documentation chooses | up to 2 `-run` and 2 `-skip` patterns of 1 or 2 scopes, tests 3 deep: patterns shorter than, as long as, and longer than the path |
| `contract_tests` | Conforming clients pass, faulty ones do not, each test ends | all scripts, each with every set of the capabilities that it looks at, every habit and every fault that it is about; 4 requests of the client, two more than any script waits for, so that it may connect again, and again, behind the test's back |
| `whole_run` | Exit status, clients closed, listener before tests, the run ends | all start states of service and port, both values of the option, 2 tests (the second one meets what the first has left behind) with a command each, a service that may break down, start again or hang at any moment |
| `startup_waits` | *violation*: a HEAD request that comes before the listener ends the program by a nil dereference | free port, service up |

What happens when a callback is posted twice, late or with a negative number has no
run: `NoGap` (that nothing is skipped, `NeverSkips`), `Conservation` and `TypeCorrect`
of `MessageSortingQueue_proofs` assume nothing of the counters.

`CHECK_DEADLOCK FALSE` is set everywhere: the callbacks, requests and chunks of a
run are finitely many, so every system here comes to rest in the end. That it
does not rest with work to do is what the liveness properties say.

### Fairness

* Goroutines that can run do run (weak fairness of each handler, of the consumer,
  of the receiver of the queue, of the teardown once it has begun): the Go
  scheduler is preemptive. Weak fairness is enough for the lock of the queue as
  well, for each of the finitely many calls takes it once.
* In `queue_order` the reader keeps reading. In `SSEClient` this is not assumed:
  the consumer may wait for room in `outputCh` for ever if the test does not read.
* In `StreamServer` the HTTP server notices that a client is gone, and a client
  that keeps its connection reads from it.
* In `ContractTest` the test's goroutine runs and its time-outs come to their end. A
  client that is not punctual need not take any step. A punctual one is not `Busy`
  for ever without a step: this is weak fairness of `ClientStep`, with `Busy` for the
  condition that it is enabled.
* In `HarnessRun` the main goroutine, the listener and time go on. That the body of a
  test ends (`BodyEnds`) is what `TestEnds` of `ContractTest` says. A service that
  hangs may hang for ever; `RunEnds` names it as the exception.
* Nothing is assumed of what the environment decides to do: that a service posts
  a callback, that a test asks for a message or ends, that a client connects or
  disconnects, that a service answers.

### Disagreements with the documentation or comments

Each one is a run that TLC ends with a violation, and a finding in
`PROJECT.json`.

* `ReturnedKindsKnown` (`testapi_sse_client.go:153`): `AwaitMessage` discards the
  error of an item, and returns an empty message whose `Kind` is none of the three
  that line 37 lists.
* `CloseCancels` (`mock_endpoints.go:181`): `Close` cancels no context, against
  its comment and that of `harness.go:81`. `StreamServer` therefore has handlers
  that outlive the endpoint, and `HandlerEnds` holds only from a break or a
  disconnection by the client.
* `DeferredAreCalled` (`test_scope.go:62`): the early return for a skipped scope
  comes before the cleanups, which `Defer` guarantees "for any reason".
* `WaitsForListener` (`harness.go:130`): `resp.Body` is used before `err` is looked
  at, so a first HEAD request that is refused ends the program by a panic.

One more, which no document excludes, is a loss of data: `Close` of the queue takes no
lock, so it may interrupt a call of `Accept` in a send, which then panics or never
ends, and the message in its hand is gone, though its own request may have been
answered with 202 long before (deferred, then released by the call that panics).
`OnlyCloseLoses` and `OnlyCloseDrops` say that this costs one message at most, and none
before the queue is closed: the interrupted call keeps the lock, so those that follow
do not get as far as a send. They wait for the lock for ever instead, and what is
deferred stays so. A test that has ended misses nothing by it.

Smaller ones, seen while modelling and not the subject of a run: the early
return at `test_scope.go:62` also loses the failure of a scope that calls `Errorf`
and then `Skip`; another server on the harness's port that answers HEAD with 200
ends the wait for the listener (`harness.go:133`; `ServerListens` and
`ExitCodeTells` name it as their exception); a failed subtest does not fail its
parent (`test_scope.go:97`), unlike Go's own `testing`.

Of the test service:

* `Close` takes 200 and 204 for success (`test_service.go:160`), while
  `docs/service_spec.md` allows any 2xx, and 404. Nobody looks at its result.
* It panics if the URL of the client cannot be parsed (line 151: the error of
  `NewRequest` is dropped), which fails the scope around the test.
* If the answer to a creation is lost, the client runs on and nobody can close it.
* The `content-type` of a body is set by `headers` even if the service lacks that
  capability, to which `docs/service_spec.md` ties the parameter.
* `AllCapabilities` (`testsuite.go:8`) lacks `restart`, `event-type-listeners` and
  `server-directed-shutdown-request`.

Of the contract tests (`ConformingPasses` and `CatchesFaults` name those that are
about what a client does as their exceptions; where the documents leave a choice, the
conforming client of `ContractTest` makes the one that the tests expect: it reports a
read timeout as an error, of which `docs/optional_features.md:72` says only that the
client drops and retries, and it reports the default type of an event without one,
where `docs/service_spec.md:82` calls `type` optional):

* After `Restart` there is no `IgnoreErrorHere` (`tests_reconnection.go:28`): a client
  that reports the end of a stream as an error, as `testapi_sse_client.go:198` allows,
  fails this test only.
* The default request must have an `Accept` header (`tests_http_behavior.go:20`), which
  `docs/optional_features.md:48` does not ask for.
* The comment at `testapi_sse_client.go:212` says that a missing default type is left
  to a more specific test. That test uses the same loose comparison; two tests of
  comments compare strictly, and need a capability.
* The test of the status 204 sets no `InitialDelayMS` (`tests_http_behavior.go:35-39`):
  a client that retries by its own delay of more than a second passes.
* Chunks that are sent without a delay may be read together, and then a test about
  the end of a chunk tests nothing.
* A BOM before a comment is tested on clients that cannot report comments, too; on
  those the test shows nothing.

## 4. What is proved

TLAPS checks these for every value of the constants, under the `ASSUME`s of the
modules only: `Counter` gives integers, capacities are positive, `NoRequest` is no
request; `Patterns` are sequences of sets of names, bounds are natural numbers; and
two about the contract tests, `ScriptsAssumption` and `RunsAssumption`, which are
explained there. TLC evaluates each of them for the constants of a run.

**The sorting queue** (`MessageSortingQueue_proofs`). Any number of
requests, any counters, any channel size. The theorems are `TypeCorrect`, `NoGap`
(`NeverSkips`), `InOrder` (`DeliveredInOrder`), `Conservation`
(`OnlyCloseLoses`), `NoneReady` (`NoReadyMessageDeferred`) and `Refinement`
(the safety part of `OrderedDelivery`). They rest on the inductive invariant `IInv`:

* `TypeInv`, which adds `LockInv` to the types: whoever is in the middle of
  `Accept` holds the lock, and has a message in hand unless `Close` has interrupted
  it; one that was interrupted keeps the lock for ever, so there is one at most.
  Without it a send might append no message, and `Close` might cost several.
* `CounterInv`: `lastCounter` is the counter of the last message sent, or 0, unless a
  call was interrupted. With
  it, the guards `HasGap` and `HeadComesNext` speak about what was sent, which gives
  `NeverSkips` for all counters.
* `SortedByCounter(deferred)`: the first deferred message has the least number, so
  that looking at the head only, as the loop does, finds a message that is ready.
* `OnlyCloseLoses`: with unique counters, no message in hand has a number
  that was sent before.
* `DeliveredInOrder` and `NoReadyMessageDeferred`, which are inductive together
  with the others: a message taken has a counter of at most `lastCounter + 1`; all
  counters up to `lastCounter` belong to messages that were sent (`NotSent`), so it
  is the next one. The loop leaves only when the head has a gap before it, and then
  by sortedness so has every other one.

`Refinement` assumes unique, positive counters, as `docs/service_spec.md` asks of
the service, and maps `Receive` to `Deliver`, the start of `Accept` to `Submit`,
`CloseChannel` to `Close`, everything else to a stutter.

**The filter** (`TestSelection_proofs`). `ChosenPasses` and `PassesOnlyChosen`
relate what the code computes to the rules of the documentation, for all lists of
patterns and all ids. `Reached` (`ChosenAreReached`) and `NotReached`
(`OthersAreNot`) follow for every run, from an invariant that says that the
current scope and each of its parents has passed the filter.

**The scopes** (`TestScope_proofs`). Any names, any filter, any depth of nesting,
number of errors and number of cleanups. The theorems are `TypeCorrect`, `Failures`
(`FailuresExact`), `OneResult` (`OneResultEach`), `PanicsReported`
(`CleanupPanicReported`) and `Cleanups` (`CleanedUpInReverse`). `StepKinds` first
sorts the steps into six kinds: those that change the innermost scope only, those
by which it ends by itself, and `Run`, `Skip`, `CleanupPanics`, `Finish`. The
invariants are:

* `FrameInv`, of each scope: it has failed if and only if it has an error, and the
  cleanups that were run are the last ones of those deferred, in reverse. This is
  why both recoveries of `T.run` must leave an error behind.
* `StackInv`: each scope is a subtest of the one below it, and only the innermost
  one can be in its cleanups. So the scope that a panic of a cleanup ends next has
  no result yet.
* `OpenInv`: no scope on the stack has an outcome. So a scope gets its outcome once.
* `RecordedInv`: no scope that still runs is within one that has its result. It is
  what `OneResultEach` needs to be inductive: a new result then comes after those
  of its subtests and is not the second of its scope.

That each subtest has a name of its own is a guard of `Run`; the harness's own tests
keep to it.

**The SSE client** (`SSEClient_proofs`). Any callbacks, kinds and capacities. The
theorems are `TypeCorrect`, `IgnoredErrors` (`IgnoresNextErrorOnly`), `EndToEndOrder`
(`SeenInOrder`) and `EndToEndConservation` (`OnlyCloseDrops`). Each step of this
module is a step of the queue or leaves it alone (`StepsOfQueue`), so the queue's
`IInv` holds here as well and is not proved again: the proofs cite those of
`MessageSortingQueue_proofs` through an instance. On top of it:

* `FlagInv`: the flag `ignoreNextError` is set if and only if `IgnoreErrorHere` was
  called since the last item was taken.
* `OutInv`: what the test has taken, with what waits in `outputCh`, has no item
  twice, and is what was rejected or received from the queue, but for the one in
  the consumer's hand.
* `OrderInv`: the numbers put out are those from 1 to the number of messages
  received, but for the one in hand. Together with the queue's `DeliveredInOrder`
  this makes the test's order that of the numbers, in spite of two channels and
  of errors that overtake.
* `ClosedInv`: the queue is closed by the teardown only. So what the queue may lose by
  that (its `OnlyCloseLoses`) is lost after the test.

**The endpoints** (`MockEndpoints_proofs`). Any sets of endpoints and requests,
any size of `newConns`. The theorems are `TypeCorrect`, `Routing`
(`ReachesItsEndpoint`), `LateRequests` (`LateRequestsRejected`) and `Reports`
(`ServedAreReported`). `ManagerInv` and `EndpointInv` say that ids count the
endpoints, so no two have the same one, and that the map leads to open endpoints
only, each by its own id: without the count, a late request could meet a new
endpoint. `RequestInv` says what a request may rely on between its lookup and the
handler; `ReportInv`, that what is reported at an endpoint, taken or waiting, is
each request that it has served, once, but for those that found `newConns` full.

**The streams** (`StreamServer_proofs`). Any number of connections, data and breaks,
any channel size. The theorems are `TypeCorrect`, `Received` (`ReceivedIsPrefix`) and
`Complete` (`EndsAfterAll`). `ConnInv` says, of each connection, that what the client
has, what is on the wire and what waits in the channel are, one after another, what
was sent (`ChannelFacts`, `OutputFacts`), and what follows when the handler has
ended (`EndFacts`); `DrainedInv`, that a client sees the end only of an empty wire.
`Refinement` (of the safety part of `OrderedStream`) maps `PutChunk` to `Put`, `SeeEnd`
to `End` or `Refuse`, the other steps of the client and `Close` to those of the same
names, and all that handlers, channels and Contexts do to a stutter. `ReadingPoint` is
why: what the client reads next is the item of `sent` after those that it has
received, and if the handler has ended and the wire is empty, that item is the
break. `ReportInv` says that the test sends only on connections that were reported to
it, so that a connection that is refused has nothing on it.

**The run of the program** (`HarnessRun_proofs`). Any number of tests and commands,
any services and users of the port. The theorems are `TypeCorrect`, `ExitCode`
(`ExitCodeTells`), `Listening` (`ServerListens`) and `ClientsAreClosed`
(`NamedAreDeleted`). `SuiteInv` says that the clients that are named, usable and not
deleted are at most that of the test at hand, and that a test that was denied
something, or has a useless URL and is over, has failed. `ResultsInv` carries this
over to the results, and so to the exit status; `ListenerInv` says where the two
goroutines of the start-up may be at the same time.

**The contract tests** (`ContractTest_proofs`). Any scripts that meet the assumptions,
any number of requests, all capabilities and habits, every interleaving of the test
and the client. The theorems are `TypeCorrect`, `Conforming`, which states
`ConformingPasses` (of a client that makes the choices named in section 3) for all 109
scripts, and `Detecting`, which states `CatchesFaults` for
all scripts and faults.

The scripts are fixed data, and each is short. What makes them hard is not the data
but the order: when does the client connect again, is the error at the end of a
stream reported before the test says that it expects it, are two chunks read
together, does the client time out while the test is still sleeping. `Conforming`
says that no order makes a good client fail, `Detecting` that none hides a fault, but
for the exceptions that the properties name.

A script is of one of four kinds (`RunsAssumption`). In 106 of them a stream ends
when the test breaks it or has the client restarted, and for no other reason
(`Streaming`). If such a script passes with a client that is always done before the
test takes its next step (`RunPasses` of `ContractPlan`), then it is passed by every
client of the same habits and the same fault, if any, that is in time; and if it does
not pass with it, it is not passed by any such client, in time or not. That run is a
single one for each script and client, and its steps can be counted out; this is the
second part of `RunsAssumption`, and TLC evaluates it for the scripts of `RunTestSuite`,
with all their capabilities, habits and faults, when it starts: the run passes without
a fault, but for the two clients that `ConformingPasses` excepts, which report a restart
as an error or send no `Accept` header, and it does not pass with a fault that the
script is about, but for the two that are `Indistinct`. It also asks that the run is
decided (`RunDecides`): if it gets stuck, then in a step that fails, and not in one that
would wait for ever or do what the plan has no place for. The theorems do the rest:
all interleavings, clients that are late, and no bound on the requests but that the
plan has room for its own (`MaxRequests`). `ScriptsAssumption` says that scripts are
well-formed (texts are sequences of tokens; a break comes after an await), and is
evaluated as well.

The other three kinds have no such plan, because the client, too, takes steps there
that the test can see, but they are simple enough for an invariant each, in which
the steps of the script are the control points. `KindsInv` combines them for clients
that conform and are in time:

* `Halts`, for the status 204: the client is sent away once, and the test has slept
  for long enough before it counts the requests.
* `GoesNowhere`, for the redirect that cannot be followed: the client has reported
  that it could not connect, unless it has yet to try.
* `KeepsTime`, for the read timeout: the client reads the event first and then times
  out again and again, for the first time while the test sleeps. What it reads is a
  matter of data again, so `RunsAssumption` asks that it is one event, and the one
  that the test requires (`SoleReport`); and the client must have room for a second
  request, or the test could not see it connect again.

`TypeCorrect` rests on `TypeInv`: `SetupTyped`, `TestTyped`, `ServerTyped` and
`ClientTyped`, which add to the types that there is a wire for each request, that no
connection has a number beyond them, that a test which has awaited one has one, and
that a client that reads has a connection to read. They hold for clients with a
fault as well.

`FaultsInv` is their counterpart for the faults of clients that do not get to where
the plan is. It says that a test which passes has taken all of its steps, and

* `StaysPut`: a client that never reconnects, ignores a restart or has no read timeout
  has one connection at most, and the test awaits no second one (`AwaitsTwice`);
* a client that does not follow a redirect gives the test no connection, and one that
  follows the redirect to nowhere for ever reports nothing;
* `ComesAgain`: a client that ignores the status 204, and retries in time, has sent two
  requests before the test counts them.

`PlanInv` is the invariant behind both theorems for the first kind (`IsPlanned`), for
clients with or without a fault. It says of a running test that has not failed that
the plan passes its steps so far and that the test is `OnPlan`: the state *follows* that
of the plan before the next step. And it says that the plan passes if the test has,
and does not if the test has failed with a client that is in time. `Follows` has three
cases, for the ways in which a client may be late:

* `ReadsOn`: it is reading the plan's connection. What it has yet to read would bring
  its parser to that of the plan (`Seen`), and what it has reported, with what it
  will then report, is what the plan has to be taken (`ToTake`).
* `ReadsRest`: the connection is broken, or the client is told to restart, and the
  plan has connected again already. The client has the rest of the old one to read
  and its end to report. A client that is told to restart may do so with the rest
  unread, so there is none: the plan lets a test restart a client only once it has
  *heard* all that was sent, that is, there was a report for each text and the test
  took it before it went on (`AllRead`, `NothingUnread`). The same holds before a test
  has the client listen for another type of events.
* `IsBetween`: it has seen the end and is waiting, or about to connect.

A step of the client keeps the state of the plan where it is, and changes one case
into another. A step of the test takes the plan one step on if the plan passes it
(`Advances`), and otherwise fails the test (`Derails`). The one thing that the two orders
do differently is an error that is ignored: the plan has it before the step in
question, the test takes it in that step, so `OnPlan` allows the plan's state with the
error dropped (`Forgiven`). Where the test waits for something in vain (`InTime`), a
client that is in time has nothing more to do, so the plan does not have it, either; a
client that is late may fail a test that the plan passes, of which neither theorem
speaks.

The heart of the argument is that a stream may be cut anywhere: reading two texts
one after another is reading them together, and what is reported does not depend on
what was reported before (`ReadsParts`, `Continues`, `ReportedParts`). These are facts
about recursive functions, `TextRead` and `FlattenSeq`, for texts of any length. The
library's theorems about induction and recursion take an operator as a parameter
and cannot be used, so the module has its own, in terms of sets and functions:
`Induction` is about a set of natural numbers, `Recursion` says that a function that
is defined from 0 up, step by step, exists, and `SameSteps` that there is only one.

That a stream may be cut anywhere holds with most of the faults, too, but not with those
that are about the limits of chunks (`Sensitive`): such a client reads one text after
another, but not the two together as if they were one. A client that overlooks something
at the end of a chunk is off the plan once it has read several chunks at once
(`joined`), which is where `CatchesFaults` excepts it. A client that swaps the events of
one read is not: there the plan must give it no more than one chunk to read at a time,
and have the test take the report before it sends the next (`heard`). `RunDecides` asks
that for the scripts about this fault.

**Only model-checked**: all liveness properties, and the liveness halves of the
refinements of `OrderedDelivery` and `OrderedStream`, which are out of reach of this
prover. Every safety invariant that a run checks is a theorem.

## 5. What is not modelled, and why

* Logging (`framework/logger.go`, `ldtest/test_logger.go`, `error_formatting.go`):
  formatting and output. A call of `CapturingLogger` appends or copies under one lock
  in a single step, and no decision of the program reads what was logged.
* The downloader, a shell script that is not part of the program.
* `servicedef`, but for the parameters that the scripts set and the commands.
* The parsing of regular expressions and options, the text of messages, JSON and
  HTTP headers: the properties do not tell them apart.
* The HTTP library and the client under test: environment, reduced to what the
  harness can see.
* A test service that breaks down or refuses requests in the middle of a contract
  test: `ContractTest` has one that does what it is asked, `ServiceEntity` one that
  need not, with the body of the test as a single step.

## 6. Plan

The order of messages is what every contract test relies on, so it came first:
the queue with its promise and proofs, `SSEClient`, `MockEndpoints`, `Filter` and
`TestSelection` with proofs, `TestScope` with proofs, `StreamServer`. Then the
program around them, `ServiceEntity` and `HarnessRun`; the contract tests on top,
`EventStream`, `ContractScripts` and `ContractTest`; then the proofs about
`HarnessRun`, `MockEndpoints`, `StreamServer` and `SSEClient`; and last `OrderedStream`
with its refinement, `ContractPlan` and the proofs about the contract tests.

What could follow:

1. `StreamServer` as a part of `ContractTest`, in place of `wire` and `broken`, by
   way of `OrderedStream`.
2. A promise of `SSEClient` to the test, to be refined as `OrderedStream` is.
3. The capture of a test's log, if a decision should come to depend on it.
