---------------------------- MODULE ContractPlan ----------------------------
(***************************************************************************)
(* A contract test with a client that does what it does at once: before    *)
(* the test takes a step, it has connected, read and reported all there    *)
(* is, one chunk in each read.  There is one such run for a script and a   *)
(* client, with a state for each step.                                     *)
(*                                                                         *)
(* Whether this run passes decides every other one, whatever the client    *)
(* puts off and in whichever order things happen: ContractTest_proofs.     *)
(***************************************************************************)
EXTENDS ContractTest

(* The scripts with a stream that ends when the test breaks it or has the  *)
(* client restarted, and for no other reason.                              *)
Streaming(s) ==
  /\ s.server \in {"stream", "redirect"}
  /\ ~s.params.readTimeout
  /\ \A i \in 1 .. Len(s.steps) : s.steps[i].op \notin {"sleep", "countRequests"}

(* Texts, each in one read.                                                *)
ReadOne(p, text) ==
  LET q == ChunkRead([p EXCEPT !.out = <<>>], text) IN [q EXCEPT !.out = p.out \o @]
ReadEach(p, texts) ==
  LET after[i \in 0 .. Len(texts)] == IF i = 0 THEN p ELSE ReadOne(after[i - 1], texts[i])
  IN  after[Len(texts)]

(* The state of the run: the parser after all that was sent, the reports   *)
(* that the test has not taken, ignoreNextError, the requests, the last    *)
(* connection that the test got, what the client listens for, and whether  *)
(* all that was sent was heard: there was a report to take for each text,  *)
(* and the test took it before it sent the next.                           *)
Begin(u) ==
  [parser |-> NewParser(u.fault, FirstID(u)), pending |-> <<>>, ignore |-> FALSE,
   requests |-> <<RequestOf(u, FirstID(u), FALSE)>>, stream |-> 0,
   types |-> {<<"message">>}, heard |-> TRUE]

(* The test has the connection that the client is reading.                 *)
Together(e) == e.stream = Len(e.requests)

(* Nothing that was sent is left for the client to read.                   *)
AllRead(e) == e.heard /\ e.pending = <<>>

Sent(u, e, texts) ==
  LET q == ReadEach(e.parser, texts)
      reports == ReportedBy(u, e.types, q.out)
  IN  [e EXCEPT !.parser = [q EXCEPT !.out = <<>>],
                !.heard = AllRead(e) /\ Len(texts) = 1 /\ reports # <<>>,
                !.pending = @ \o reports]

(* The stream ends, and the client connects again.                         *)
CanEnd(u, e) ==
  /\ Together(e)
  /\ Len(e.requests) < MaxRequests
  /\ Scripts[u.script].params.quick \/ u.retriesSoon
Broken(u, e) ==
  [e EXCEPT !.parser = Reopened(u, LeftBy(u, @)), !.heard = FALSE,
            !.requests = Append(@, RequestOf(u, LeftBy(u, e.parser).lastID, TRUE)),
            !.pending = @ \o IF u.reportsEnd THEN <<Error>> ELSE <<>>]

(* The error that is to be ignored is dropped.                             *)
Forgiven(e) ==
  IF e.ignore /\ e.pending # <<>> /\ Head(e.pending).kind = "error"
    THEN [e EXCEPT !.pending = Tail(@), !.ignore = FALSE]
    ELSE e

HasMessage(e, kind, accepted) ==
  LET f == Forgiven(e) IN
  /\ f.pending # <<>>
  /\ Head(f.pending).kind = kind
  /\ Matches(Head(f.pending), accepted)
Taken(e) == [Forgiven(e) EXCEPT !.pending = Tail(@), !.ignore = FALSE]

(* The kind of message that a step requires, if it does.                   *)
Required(u, step) ==
  CASE step.op \in MessageKinds -> step.op
    [] step.op = "commentIfAble" /\ "comments" \in u.capabilities -> "comment"
    [] OTHER -> "none"

(* What a step needs, in order not to fail or wait for ever.               *)
Passes(u, e, step) ==
  CASE Required(u, step) # "none" -> HasMessage(e, Required(u, step), step.arg)
    [] step.op = "await" -> ~Together(e)
    [] step.op = "request" -> e.stream > 0 /\ Matches(e.requests[e.stream], step.arg)
    [] step.op \in {"send", "sendDelayed"} -> Together(e)
    [] step.op = "break" -> CanEnd(u, e)
    [] step.op = "restart" -> CanEnd(u, e) /\ AllRead(e) /\ "restart" \in u.capabilities
    [] step.op = "listen" -> AllRead(e)
    [] OTHER -> TRUE

(* If it needs something that the test looks at, the test fails without.   *)
Fails(u, e, step) ==
  /\ ~Passes(u, e, step)
  /\ \/ Required(u, step) # "none" \/ step.op = "await"
     \/ step.op = "request" /\ e.stream > 0

After(u, e, step) ==
  CASE Required(u, step) # "none" -> Taken(e)
    [] step.op = "await" -> [e EXCEPT !.stream = @ + 1]
    [] step.op \in {"send", "sendDelayed"} -> Sent(u, e, step.arg)
    [] step.op \in {"break", "restart"} -> Broken(u, e)
    [] step.op = "ignoreError" -> [e EXCEPT !.ignore = TRUE]
    [] step.op = "listen" /\ "event-type-listeners" \in u.capabilities ->
         [e EXCEPT !.types = @ \cup {step.arg}]
    [] OTHER -> e

(* The states of the run, from that before the first step.                 *)
Plan(u) ==
  LET steps == Scripts[u.script].steps
      plan[k \in 0 .. Len(steps)] == IF k = 0 THEN Begin(u) ELSE After(u, plan[k - 1], steps[k])
  IN  plan

PassesStep(u, k) == Passes(u, Plan(u)[k - 1], Scripts[u.script].steps[k])
RunPasses(u) == \A k \in 1 .. Len(Scripts[u.script].steps) : PassesStep(u, k)

(* The run passes its steps, or one of them fails after others that were   *)
(* passed.  A client that swaps what it reads together gets no more than   *)
(* one chunk to read.                                                      *)
RunDecides(u) ==
  \A k \in 1 .. Len(Scripts[u.script].steps) :
    (\A j \in 1 .. k - 1 : PassesStep(u, j)) =>
      \/ PassesStep(u, k) /\ (u.fault = "swapsEvents" => Plan(u)[k].heard)
      \/ Fails(u, Plan(u)[k - 1], Scripts[u.script].steps[k])

-----------------------------------------------------------------------------
(***************************************************************************)
(* The scripts in which the client does something that the test can tell.  *)
(***************************************************************************)

(* The client is to be sent away for good, and the requests are counted    *)
(* after some time.                                                        *)
Halting(s) ==
  /\ s.server = "204"
  /\ \A i \in 1 .. Len(s.steps) :
       \/ s.steps[i].op = "sleep"
       \/ /\ s.steps[i].op = "countRequests" /\ s.steps[i].arg = 1
          /\ \E j \in 1 .. i - 1 : s.steps[j].op = "sleep"

(* The client is to report that it cannot connect.                         *)
GoingNowhere(s) ==
  /\ s.server = "redirectNowhere"
  /\ Len(s.steps) = 1 /\ s.steps[1].op = "error" /\ Matches(Error, s.steps[1].arg)

(* The client is to report an event and then, as the stream stays silent,  *)
(* an error, and to connect again; it goes on doing so.                    *)
TimingOut(s) ==
  /\ s.server = "stream" /\ s.params.readTimeout /\ s.params.quick
  /\ [i \in 1 .. Len(s.steps) |-> s.steps[i].op]
       = <<"await", "send", "sleep", "event", "error", "await">>
  /\ Len(s.steps[2].arg) = 1 /\ Matches(Error, s.steps[5].arg)
  /\ MaxRequests > 1

SoleReport(u) ==
  LET its == Scripts[u.script] IN
  ReportedBy(u, {<<"message">>},
             TextRead(NewParser("none", its.params.lastID), its.steps[2].arg[1]).out)

(* A client with one of these faults never has a second connection, or not *)
(* the one that it is sent to; then it does not matter what it reads.      *)
Staying == {"neverReconnects", "ignoresRestart", "noReadTimeout"}
AwaitsTwice(s) ==
  \E i, j \in 1 .. Len(s.steps) : i # j /\ s.steps[i].op = "await" /\ s.steps[j].op = "await"
Shows(s, fault) ==
  CASE fault = "staysAfterRedirect" -> s.server = "redirect" /\ Uses(s, "await")
    [] fault = "loopsOnRedirect" -> GoingNowhere(s)
    [] fault = "retriesAfter204" -> Halting(s) /\ Uses(s, "countRequests") /\ MaxRequests > 1
    [] fault = "noReadTimeout" -> TimingOut(s)
    [] OTHER -> /\ Streaming(s)
                /\ fault \in Staying => s.server = "stream" /\ AwaitsTwice(s)
                /\ fault = "ignoresRestart" => ~Uses(s, "break")

(* Each script is of one of these kinds; and whatever the client, if the   *)
(* test is not skipped for it, the script asks for what it has offered.    *)
(* The run of ContractPlan passes without a fault, but for a client that   *)
(* reports a restart as an error or sends no Accept header; and it does    *)
(* not with a fault that the script is to show.  The event before a        *)
(* silence is the one that the test requires.                              *)
ASSUME RunsAssumption ==
  \A s \in DOMAIN Scripts :
    /\ \/ Streaming(Scripts[s]) \/ Halting(Scripts[s])
       \/ GoingNowhere(Scripts[s]) \/ TimingOut(Scripts[s])
    /\ Asks(Scripts[s].params) \subseteq Scripts[s].needs
    /\ \A fault \in Scripts[s].purpose : Shows(Scripts[s], fault)
    /\ \A u \in Setups(s) :
         Scripts[s].needs \subseteq u.capabilities =>
           /\ Streaming(Scripts[s]) /\ u.fault \notin Staying \cup {"staysAfterRedirect"} =>
                /\ RunDecides(u)
                /\ IF u.fault = "none" THEN RunPasses(u) \/ RestartReported(u) \/ NoAccept(u)
                   ELSE ~RunPasses(u) \/ Indistinct(u)
           /\ TimingOut(Scripts[s]) /\ u.fault = "none" =>
                \E r \in Range(SoleReport(u)) :
                  /\ SoleReport(u) = <<r>> /\ r.kind = "event"
                  /\ Matches(r, Scripts[s].steps[4].arg)
=============================================================================
