-------------------------- MODULE HarnessRun_proofs --------------------------
(***************************************************************************)
(* Proofs about HarnessRun, for any number of tests and of commands, and   *)
(* for every state of the service and of the port when the run begins.     *)
(***************************************************************************)
EXTENDS HarnessRun, TLAPS

(***************************************************************************)
(* The test suite.                                                         *)
(***************************************************************************)

(* The test whose client is known and is not closed yet.                   *)
Pending == IF test \in {"body", "commanding", "closing"} THEN {current} ELSE {}

(* A client that the service named was closed, or will be; a test in which *)
(* the service did not do what it was asked for has failed, or will fail,  *)
(* when the cleanup makes nothing of the URL.                              *)
SuiteInv ==
  /\ SuiteTypeOK
  /\ test # "idle" => current \in Tests
  /\ named \ unusable \subseteq deleted \cup Pending
  /\ denied \subseteq failed
  /\ unusable \subseteq failed \cup Pending

(* The members of the set in SuiteTypeOK, one by one.                      *)
LEMMA SuiteTypes ==
  SuiteTypeOK <=>
    /\ service \in {"down", "up", "hung", "stopped"}
    /\ test \in {"idle", "creating", "body", "commanding", "closing"}
    /\ current \in 0 .. MaxTests
    /\ commands \in 0 .. MaxCommands
    /\ active \subseteq Tests /\ failed \subseteq Tests /\ named \subseteq Tests
    /\ unusable \subseteq Tests /\ deleted \subseteq Tests /\ denied \subseteq Tests
BY DEF SuiteTypeOK

LEMMA SuiteInitially ==
  SuiteInit /\ service \in {"down", "up", "hung"} => SuiteInv
BY SuiteTypes, SuiteBoundsAssumption DEF SuiteInit, SuiteInv, Pending

LEMMA SuiteSteps ==
  ASSUME SuiteInv, TestStep
  PROVE  SuiteInv'
<1> USE SuiteTypes, SuiteBoundsAssumption DEF SuiteInv, Pending, Tests, historyVars
<1>0. SuiteTypeOK' <=>
        /\ service' \in {"down", "up", "hung", "stopped"}
        /\ test' \in {"idle", "creating", "body", "commanding", "closing"}
        /\ current' \in 0 .. MaxTests
        /\ commands' \in 0 .. MaxCommands
        /\ active' \subseteq Tests /\ failed' \subseteq Tests /\ named' \subseteq Tests
        /\ unusable' \subseteq Tests /\ deleted' \subseteq Tests /\ denied' \subseteq Tests
  BY DEF SuiteTypeOK
<1>1. CASE Create
  BY <1>0, <1>1 DEF Create
<1>2. CASE Created
  BY <1>0, <1>2 DEF Created
<1>3. CASE CreationFails
  BY <1>0, <1>3 DEF CreationFails, Fails
<1>4. CASE SendCommand
  BY <1>0, <1>4 DEF SendCommand
<1>5. CASE CommandDone
  BY <1>0, <1>5 DEF CommandDone
<1>6. CASE CommandFails
  BY <1>0, <1>6 DEF CommandFails, Fails
<1>7. CASE BodyEnds
  BY <1>0, <1>7 DEF BodyEnds, Fails
<1>8. CASE Close
  BY <1>0, <1>8 DEF Close
<1>9. CASE ClosePanics
  BY <1>0, <1>9 DEF ClosePanics, Fails
<1> QED
  BY <1>1, <1>2, <1>3, <1>4, <1>5, <1>6, <1>7, <1>8, <1>9 DEF TestStep

LEMMA OutsideSteps ==
  ASSUME SuiteInv, ServiceStarts \/ ServiceHangs \/ ServiceBreaksDown
  PROVE  SuiteInv'
<1>1. SuiteTypeOK'
  BY SuiteTypes DEF SuiteInv, SuiteTypeOK, ServiceStarts, ServiceHangs, ServiceBreaksDown,
                    suiteVars, historyVars, Tests
<1>2. UNCHANGED <<test, current, commands, failed, historyVars>>
  BY DEF ServiceStarts, ServiceHangs, ServiceBreaksDown, suiteVars
<1> QED
  BY <1>1, <1>2 DEF SuiteInv, Pending, historyVars, Tests

LEMMA SuiteUnchanged ==
  ASSUME SuiteInv, UNCHANGED suiteVars, service' \in {service, "stopped"}
  PROVE  SuiteInv'
<1>1. SuiteTypeOK'
  BY SuiteTypes DEF SuiteTypeOK, SuiteInv, suiteVars, historyVars, Tests
<1> QED
  BY <1>1 DEF SuiteInv, Pending, suiteVars, historyVars, Tests
-----------------------------------------------------------------------------
(***************************************************************************)
(* The main goroutine.                                                     *)
(***************************************************************************)

(* There are results only when the suite has run, and they are good only   *)
(* if nothing went wrong with the service.                                 *)
ResultsInv ==
  /\ results # "none" => main \in {"tested", "ended"}
  /\ results = "passed" => denied = {} /\ unusable = {}

(* Up to the answer of the service, nothing listens.                       *)
ListenerInv == main \in {"reading", "querying", "asking", "sleeping"} => listener = "none"

IInv ==
  /\ TypeOK
  /\ SuiteInv
  /\ ResultsInv
  /\ ListenerInv
  /\ ServerListens
  /\ ExitCodeTells

LEMMA Initially == Init => IInv
<1> SUFFICES ASSUME Init PROVE IInv
  OBVIOUS
<1>1. service \in {"down", "up", "hung"}
  BY ServicesAssumption DEF Init
<1>2. SuiteInv
  BY <1>1, SuiteInitially DEF Init
<1> QED
  BY <1>2 DEF Init, IInv, TypeOK, SuiteInv, ResultsInv, ListenerInv, ServerListens,
              ExitCodeTells

(* A step of the main goroutine up to the test suite, or of the listener:  *)
(* it leaves the service and the suite alone.                              *)
LEMMA StartUpSteps ==
  ASSUME IInv,
         \/ Read \/ Get \/ GetAnswered \/ GetFails \/ WakeUp \/ DeadlinePasses
         \/ Listen \/ Tick \/ GiveUp \/ HeadAnswered \/ HeadFails
  PROVE  IInv'
<1> USE DEF IInv, TypeOK, ResultsInv, ListenerInv, ServerListens, ExitCodeTells,
            Exit, GoTo, harnessVars, outsideVars
<1>1. UNCHANGED outsideVars
  BY DEF Read, Get, GetAnswered, GetFails, WakeUp, DeadlinePasses,
         Listen, Tick, GiveUp, HeadAnswered, HeadFails
<1>2. SuiteInv' /\ UNCHANGED <<denied, unusable>>
  BY <1>1, SuiteUnchanged DEF suiteVars, historyVars
<1>3. SuiteTypeOK'
  BY <1>2 DEF SuiteInv
<1>4. CASE Read
  BY <1>2, <1>3, <1>4 DEF Read
<1>5. CASE Get
  BY <1>2, <1>3, <1>5 DEF Get
<1>6. CASE GetAnswered
  <2>1. /\ main = "asking" /\ exitCode = -1 /\ listener = "none" /\ results = "none"
        /\ UNCHANGED <<stopServiceAtEnd, results, portUser, answer>>
    BY <1>6 DEF GetAnswered
  <2>2. CASE answer = "metadata"
    <3>1. main' = "waiting" /\ exitCode' = -1 /\ listener' = "starting"
      BY <1>6, <2>1, <2>2 DEF GetAnswered
    <3>2. overdue' \in BOOLEAN
      BY <1>6, <2>2 DEF GetAnswered
    <3> QED
      BY <1>2, <1>3, <2>1, <3>1, <3>2
  <2>3. CASE answer # "metadata"
    <3>1. main' = "ended" /\ exitCode' = 1 /\ UNCHANGED <<listener, overdue>>
      BY <1>6, <2>3 DEF GetAnswered
    <3> QED
      BY <1>2, <1>3, <2>1, <3>1
  <2> QED
    BY <2>2, <2>3
<1>7. CASE GetFails
  BY <1>2, <1>3, <1>7 DEF GetFails
<1>8. CASE WakeUp
  BY <1>2, <1>3, <1>8 DEF WakeUp
<1>9. CASE DeadlinePasses
  BY <1>2, <1>3, <1>9 DEF DeadlinePasses
<1>10. CASE Listen
  BY <1>2, <1>3, <1>10 DEF Listen, Crash
<1>11. CASE Tick
  BY <1>2, <1>3, <1>11 DEF Tick
<1>12. CASE GiveUp
  BY <1>2, <1>3, <1>12 DEF GiveUp
<1>13. CASE HeadAnswered
  BY <1>2, <1>3, <1>13 DEF HeadAnswered
<1>14. CASE HeadFails
  BY <1>2, <1>3, <1>14 DEF HeadFails, Crash
<1> QED
  BY <1>4, <1>5, <1>6, <1>7, <1>8, <1>9, <1>10, <1>11, <1>12, <1>13, <1>14

LEMMA SuiteReturnsStep ==
  ASSUME IInv, SuiteReturns
  PROVE  IInv'
<1> USE DEF IInv
<1>1. SuiteInv' /\ UNCHANGED <<denied, unusable, portUser, listener, exitCode>>
  BY SuiteUnchanged DEF SuiteReturns, outsideVars, suiteVars, historyVars, GoTo
<1>2. failed = {} => denied = {} /\ unusable = {}
  BY DEF SuiteReturns, SuiteInv, Pending
<1>3. main = "testing" /\ main' = "tested"
      /\ results' = IF failed = {} THEN "passed" ELSE "failed"
  BY DEF SuiteReturns, GoTo
<1>4. TypeOK'
  BY <1>1, <1>3 DEF TypeOK, SuiteReturns, SuiteInv, outsideVars
<1>5. exitCode' = -1
  BY <1>1, <1>3 DEF TypeOK
<1> QED
  BY <1>1, <1>2, <1>3, <1>4, <1>5 DEF ResultsInv, ListenerInv, ServerListens, ExitCodeTells

LEMMA StopServiceStep ==
  ASSUME IInv, StopService
  PROVE  IInv'
<1> USE DEF IInv
<1>1. SuiteInv'
  BY SuiteUnchanged DEF StopService, ExitWith
<1>2. UNCHANGED <<denied, unusable, listener, results, portUser>>
  BY DEF StopService, ExitWith, harnessVars, suiteVars, historyVars
<1>3. main' = "ended" /\ exitCode' = IF results = "passed" THEN 0 ELSE 1
  BY DEF StopService, ExitWith, Exit
<1>4. TypeOK'
  BY <1>1, <1>3 DEF TypeOK, StopService, ExitWith, harnessVars, SuiteInv
<1> QED
  BY <1>1, <1>2, <1>3, <1>4 DEF ResultsInv, ListenerInv, ServerListens, ExitCodeTells

(* A step of the suite, or of the service: the results stand.              *)
LEMMA RunTestStep ==
  ASSUME IInv, RunTest
  PROVE  IInv'
<1> USE DEF IInv
<1>1. SuiteInv'
  BY SuiteSteps DEF RunTest
<1>2. results = "none" /\ exitCode = -1
  BY DEF RunTest, ResultsInv, TypeOK
<1>3. UNCHANGED <<main, exitCode, listener, results, portUser>>
  BY DEF RunTest, harnessVars
<1>4. TypeOK'
  BY <1>1 DEF TypeOK, RunTest, harnessVars, SuiteInv
<1> QED
  BY <1>1, <1>2, <1>3, <1>4 DEF ResultsInv, ListenerInv, ServerListens, ExitCodeTells, TypeOK

LEMMA OutsideStep ==
  ASSUME IInv, Outside
  PROVE  IInv'
<1> USE DEF IInv
<1>1. SuiteInv'
  BY OutsideSteps DEF Outside
<1>2. UNCHANGED <<main, exitCode, listener, results, portUser, denied, unusable>>
  BY DEF Outside, harnessVars, ServiceStarts, ServiceHangs, ServiceBreaksDown,
         suiteVars, historyVars
<1>3. TypeOK'
  BY <1>1 DEF TypeOK, Outside, harnessVars, SuiteInv
<1> QED
  BY <1>1, <1>2, <1>3 DEF ResultsInv, ListenerInv, ServerListens, ExitCodeTells

LEMMA Inductive == IInv /\ [Next]_vars => IInv'
<1> SUFFICES ASSUME IInv, [Next]_vars PROVE IInv'
  OBVIOUS
<1>1. CASE UNCHANGED vars
  <2>1. SuiteInv'
    BY <1>1, SuiteUnchanged DEF IInv, vars, outsideVars
  <2> QED
    BY <1>1, <2>1 DEF IInv, vars, harnessVars, outsideVars, suiteVars, historyVars, TypeOK,
                      SuiteInv, ResultsInv, ListenerInv, ServerListens, ExitCodeTells
<1> QED
  BY <1>1, StartUpSteps, SuiteReturnsStep, StopServiceStep, RunTestStep, OutsideStep
     DEF Next, MainStep

LEMMA Invariant == Spec => []IInv
BY Initially, Inductive, PTL DEF Spec
-----------------------------------------------------------------------------
(***************************************************************************)
(* Theorems.                                                               *)
(***************************************************************************)

(* The variables of a run of main.go have their types; in particular the   *)
(* process has a status exactly when it has ended.                         *)
THEOREM TypeCorrect == Spec => []TypeOK
<1>1. IInv => TypeOK
  BY DEF IInv
<1> QED
  BY <1>1, Invariant, PTL

(* main.go: a run ends with 0 only if the suite has passed, and then       *)
(* nothing that the service was asked for has gone wrong.                  *)
THEOREM ExitCode == Spec => []ExitCodeTells
<1>1. IInv => ExitCodeTells
  BY DEF IInv
<1> QED
  BY <1>1, Invariant, PTL

(* harness.go, startServer: no test runs before a server answers on the    *)
(* port, and it is the harness's own unless another one answered with 200. *)
THEOREM Listening == Spec => []ServerListens
<1>1. IInv => ServerListens
  BY DEF IInv
<1> QED
  BY <1>1, Invariant, PTL

(* NewSSEClient and TestServiceEntity.Close: between two tests, the        *)
(* service has been asked to close every client whose URL it gave.         *)
THEOREM ClientsAreClosed == Spec => []NamedAreDeleted
<1>1. IInv => NamedAreDeleted
  BY DEF IInv, SuiteInv, Pending, NamedAreDeleted
<1> QED
  BY <1>1, Invariant, PTL
=============================================================================
