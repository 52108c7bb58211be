----------------------------- MODULE HarnessRun -----------------------------
(***************************************************************************)
(* One run of the program: main.go and params.go, and what they call in    *)
(* framework/harness: NewTestHarness, which asks the test service for its  *)
(* status until it answers (test_service.go) and starts the HTTP listener  *)
(* and waits for it (harness.go), and StopService.                         *)
(*                                                                         *)
(* The main goroutine runs beside the goroutine that listens, the test     *)
(* service, which may start late, break down or stop answering, and a      *)
(* program that may have the port already.  While the test suite runs,     *)
(* its steps are those of ServiceEntity.                                   *)
(***************************************************************************)
EXTENDS ServiceEntity

CONSTANTS
  PortUsers,  (* what may have the port when the run begins: "nobody", a   *)
              (* server that answers HEAD requests "withOK", or one that   *)
              (* answers them with another status, "withError"             *)
  Services    (* what the service may be when the run begins               *)

ASSUME PortUsersAssumption == PortUsers \subseteq {"nobody", "withOK", "withError"}
ASSUME ServicesAssumption == Services \subseteq {"down", "up", "hung"}

VARIABLES
  main,      (* where the main goroutine is                                *)
  exitCode,  (* the status that the process ended with, -1 before that     *)
  stopServiceAtEnd,
             (* params.stopServiceAtEnd                                    *)
  overdue,   (* whether the deadline of the current wait has passed        *)
  listener,  (* the goroutine that runs ListenAndServe                     *)
  results,   (* results of the test suite                                  *)
  portUser,  (* what has had the port since before the run                 *)
  answer     (* what it says on its status resource                        *)

harnessVars == <<stopServiceAtEnd, listener, results>>
outsideVars == <<portUser, service, answer, suiteVars>>
vars == <<main, exitCode, overdue, harnessVars, outsideVars>>

Answers == {"metadata", "notJSON", "notOK"}

TypeOK ==
  /\ main \in {"reading", "querying", "asking", "sleeping", "waiting",
               "probing", "testing", "tested", "ended"}
  /\ exitCode \in {-1, 0, 1, 2}
  /\ main = "ended" <=> exitCode # -1
  /\ stopServiceAtEnd \in BOOLEAN
  /\ overdue \in BOOLEAN
  /\ listener \in {"none", "starting", "listening"}
  /\ results \in {"none", "passed", "failed"}
  /\ portUser \in PortUsers
  /\ SuiteTypeOK
  /\ answer \in Answers

Init ==
  /\ main = "reading"
  /\ exitCode = -1
  /\ stopServiceAtEnd \in BOOLEAN
  /\ overdue = FALSE
  /\ listener = "none"
  /\ results = "none"
  /\ portUser \in PortUsers
  /\ service \in Services
  /\ SuiteInit
  /\ answer \in Answers

ExitOnlyCode(status) == exitCode' = status /\ UNCHANGED main
Exit(status) == main' = "ended" /\ exitCode' = status
GoTo(place) == main' = place /\ UNCHANGED exitCode

(* A panic that nothing recovers ends the process, whatever the goroutine. *)
Crash == Exit(2)
-----------------------------------------------------------------------------
(***************************************************************************)
(* commandParams.Read: -help ends the run, so does an option that is not   *)
(* known or not valid, or that there is no -url.                           *)
(***************************************************************************)
Read ==
  /\ main = "reading"
  /\ GoTo("querying") \/ \E status \in {0, 1, 2} : Exit(status)
  /\ UNCHANGED <<overdue, harnessVars, outsideVars>>

(***************************************************************************)
(* queryTestServiceInfo.                                                   *)
(***************************************************************************)
Get ==
  /\ main = "querying"
  /\ GoTo("asking")
  /\ UNCHANGED <<overdue, harnessVars, outsideVars>>

(* A first answer decides.  With metadata, startServer is called.          *)
GetAnswered ==
  /\ main = "asking"
  /\ service = "up"
  /\ IF answer = "metadata"
       THEN GoTo("waiting") /\ listener' = "starting" /\ overdue' = FALSE
       ELSE Exit(1) /\ UNCHANGED <<listener, overdue>>
  /\ UNCHANGED <<stopServiceAtEnd, results, outsideVars>>

GetFailsAgain ==
  /\ main = "asking"
  /\ service \in {"down", "stopped"}
  /\ GoTo("sleeping")
  /\ UNCHANGED <<overdue, harnessVars, outsideVars>>

(* No connection: wait and try again until the deadline.                   *)
GetFails ==
  /\ main = "asking"
  /\ service \in {"down", "stopped"}
  /\ IF overdue THEN Exit(1) ELSE GoTo("sleeping")
  /\ UNCHANGED <<overdue, harnessVars, outsideVars>>

WakeUp ==
  /\ main = "sleeping"
  /\ GoTo("querying")
  /\ UNCHANGED <<overdue, harnessVars, outsideVars>>

DeadlinePasses ==
  /\ main \in {"querying", "asking", "sleeping", "waiting", "probing"}
  /\ overdue' = TRUE
  /\ UNCHANGED <<main, exitCode, harnessVars, outsideVars>>
-----------------------------------------------------------------------------
(***************************************************************************)
(* startServer.                                                            *)
(***************************************************************************)

(* The goroutine: the listener is up, or the port is taken.                *)
Listen ==
  /\ main # "ended"
  /\ listener = "starting"
  /\ IF portUser = "nobody"
       THEN listener' = "listening" /\ UNCHANGED <<main, exitCode>>
       ELSE Crash /\ UNCHANGED listener
  /\ UNCHANGED <<stopServiceAtEnd, overdue, results, outsideVars>>

(* The main goroutine: at each tick a HEAD request, at last the deadline.  *)
(* If both have come, `select' may take either.                            *)
Tick ==
  /\ main = "waiting"
  /\ GoTo("probing")
  /\ UNCHANGED <<overdue, harnessVars, outsideVars>>

GiveUp ==
  /\ main = "waiting"
  /\ overdue
  /\ Exit(1)
  /\ UNCHANGED <<overdue, harnessVars, outsideVars>>

HeadAnsweredAnyStatus ==
  /\ main = "probing"
  /\ listener = "listening" \/ portUser # "nobody"
  /\ GoTo("testing")
  /\ UNCHANGED <<overdue, harnessVars, outsideVars>>
HeadAnswered ==
  /\ main = "probing"
  /\ \/ (listener = "listening" \/ portUser = "withOK") /\ GoTo("testing")
     \/ portUser = "withError" /\ GoTo("waiting")
  /\ UNCHANGED <<overdue, harnessVars, outsideVars>>

(* No connection: the response is nil, and its Body is asked for.          *)
HeadFails ==
  /\ main = "probing"
  /\ listener # "listening" /\ portUser = "nobody"
  /\ Crash
  /\ UNCHANGED <<overdue, harnessVars, outsideVars>>
-----------------------------------------------------------------------------
(***************************************************************************)
(* The rest of main.                                                       *)
(***************************************************************************)

(* RunTestSuite: one test after another.                                   *)
RunTest ==
  /\ main = "testing"
  /\ TestStep
  /\ UNCHANGED <<main, exitCode, overdue, harnessVars, portUser, answer>>

(* Its results: no failure is all that counts (Results.OK).                *)
SuiteReturns ==
  /\ main = "testing"
  /\ test = "idle"
  /\ GoTo("tested")
  /\ results' = IF failed = {} THEN "passed" ELSE "failed"
  /\ UNCHANGED <<stopServiceAtEnd, overdue, listener, outsideVars>>

ExitWith(status) ==
  Exit(status) /\ UNCHANGED <<overdue, harnessVars, portUser, answer, suiteVars>>

(* The service is told to exit if that was asked for; it may refuse, and   *)
(* what it says does not matter.  Then the process ends.                   *)
StopService ==
  /\ main = "tested"
  /\ stopServiceAtEnd => service # "hung"
  /\ \/ stopServiceAtEnd /\ service = "up" /\ service' = "stopped"
     \/ UNCHANGED service
  /\ ExitWith(IF results = "passed" THEN 0 ELSE 1)

(* The service on its own.                                                 *)
Outside ==
  /\ main # "ended"
  /\ ServiceStarts \/ ServiceHangs \/ ServiceBreaksDown
  /\ UNCHANGED <<main, exitCode, overdue, harnessVars, portUser, answer>>
-----------------------------------------------------------------------------
MainStep ==
  \/ Read \/ Get \/ GetAnswered \/ GetFails \/ WakeUp
  \/ Tick \/ GiveUp \/ HeadAnswered \/ HeadFails
  \/ RunTest \/ SuiteReturns \/ StopService

Next == MainStep \/ DeadlinePasses \/ Listen \/ Outside

Spec == Init /\ [][Next]_vars

(* The goroutines run when they can, and time passes; the body of a test   *)
(* ends (TestEnds of ContractTest).  Nothing is assumed of the service.    *)
FairSpec ==
  Spec /\ WF_vars(MainStep) /\ WF_vars(Listen) /\ WF_vars(DeadlinePasses)
-----------------------------------------------------------------------------
(***************************************************************************)
(* Properties.                                                             *)
(***************************************************************************)

(* What CI goes by: the run ends with 0 only if the test suite has run and *)
(* has passed, the service having done all that was asked of it, or if     *)
(* nothing but -help was asked for; and always then, whatever happened to  *)
(* the service, or when it was told to stop, unless the listener fails     *)
(* late because another server has the port.                               *)
ExitCodeTells ==
  /\ exitCode = 0 => \/ results = "passed" /\ denied = {} /\ unusable = {}
                     \/ results = "none" /\ listener = "none"
  /\ main = "ended" /\ results = "passed" => exitCode = 0 \/ portUser = "withOK"

(* No test runs before the listener is up, unless another server with the  *)
(* same port answers the HEAD request in its place (harness.go:133).       *)
ServerListens ==
  main \in {"testing", "tested"} => listener = "listening" \/ portUser = "withOK"

(* harness.go:119: `Wait till the server is definitely listening for       *)
(* requests before we run any tests'.  While the listener is not up yet,   *)
(* the program waits: on a free port it ends then only by its deadline.    *)
WaitsForListener ==
  main = "ended" /\ listener = "starting" /\ portUser = "nobody"
    => exitCode = 1 /\ overdue

(* A run comes to its end, unless the service takes a request and never    *)
(* answers it: the HTTP client has no timeout, neither at start-up, where  *)
(* the deadline is only looked at between requests, nor when a client is   *)
(* created, commanded or closed (test_service.go:47, 119, 152, 192).       *)
RunEnds == main = "querying" ~> main = "ended" \/ service = "hung"
=============================================================================
