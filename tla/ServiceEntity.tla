---------------------------- MODULE ServiceEntity ----------------------------
(***************************************************************************)
(* framework/harness/test_service.go, TestServiceEntity: the SSE clients   *)
(* that the tests of a run create in the test service, command and close,  *)
(* as ssetests/testapi_sse_client.go does it, one test after another.      *)
(*                                                                         *)
(* The service may refuse a request, lose the answer to it, answer it in   *)
(* a way that the harness has no use for, not answer it at all, break      *)
(* down, and start again with no clients.  A test creates one client, so   *)
(* the client of a test has the test's number.                             *)
(***************************************************************************)
EXTENDS Integers

CONSTANTS
  MaxTests,    (* bound: tests that create a client                        *)
  MaxCommands  (* bound: commands in a test                                *)

ASSUME SuiteBoundsAssumption == MaxTests \in Nat /\ MaxCommands \in Nat

VARIABLES
  service,   (* the test service: "hung" if it takes requests but answers  *)
             (* none, "stopped" if it was told to exit                     *)
  active,    (* the clients that run in it                                 *)
  test,      (* where the test is: "idle" between tests                    *)
  current,   (* its number                                                 *)
  commands,  (* how many commands it has sent                              *)
  failed,    (* the tests that have failed                                 *)
  named,     (* the clients whose URL the harness has been told            *)
  unusable,  (* those of them whose URL cannot be parsed                   *)
  deleted,   (* the clients for which a DELETE request was sent            *)
  denied     (* the tests in which a creation or a command went wrong      *)

historyVars == <<named, unusable, deleted, denied>>
suiteVars == <<active, test, current, commands, failed, historyVars>>

Tests == 1 .. MaxTests

SuiteTypeOK ==
  /\ service \in {"down", "up", "hung", "stopped"}
  /\ test \in {"idle", "creating", "body", "commanding", "closing"}
  /\ current \in 0 .. MaxTests
  /\ commands \in 0 .. MaxCommands
  /\ {active, failed, named, unusable, deleted, denied} \subseteq SUBSET Tests

SuiteInit ==
  /\ test = "idle"
  /\ current = 0 /\ commands = 0
  /\ active = {} /\ failed = {}
  /\ named = {} /\ unusable = {} /\ deleted = {} /\ denied = {}

Fails == failed' = failed \cup {current}
-----------------------------------------------------------------------------
(***************************************************************************)
(* NewTestServiceEntity.                                                   *)
(***************************************************************************)
Create ==
  /\ test = "idle"
  /\ current < MaxTests
  /\ current' = current + 1
  /\ commands' = 0
  /\ test' = "creating"
  /\ UNCHANGED <<service, active, failed, historyVars>>

(* Any status 2xx, with a Location; it may be none that a request can be   *)
(* made of.                                                                *)
Created ==
  /\ test = "creating"
  /\ service = "up"
  /\ active' = active \cup {current}
  /\ named' = named \cup {current}
  /\ unusable' \in {unusable, unusable \cup {current}}
  /\ test' = "body"
  /\ UNCHANGED <<service, current, commands, failed, deleted, denied>>

(* Another status; no Location, though the client may be running; or no    *)
(* answer because the connection breaks.  require.NoError ends the test,   *)
(* before it has deferred the call of Close.                               *)
CreationFailsQuietly ==
  /\ test = "creating"
  /\ service # "hung"
  /\ active' \in IF service = "up" THEN {active, active \cup {current}} ELSE {active}
  /\ denied' = denied \cup {current}
  /\ test' = "idle"
  /\ UNCHANGED <<service, current, commands, failed, named, unusable, deleted>>
CreationFails ==
  /\ test = "creating"
  /\ service # "hung"
  /\ active' \in IF service = "up" THEN {active, active \cup {current}} ELSE {active}
  /\ denied' = denied \cup {current}
  /\ Fails
  /\ test' = "idle"
  /\ UNCHANGED <<service, current, commands, named, unusable, deleted>>
-----------------------------------------------------------------------------
(***************************************************************************)
(* SendCommand and SendCommandWithParams, called by Restart and            *)
(* BePreparedToReceiveEventType.                                           *)
(***************************************************************************)
SendCommand ==
  /\ test = "body"
  /\ commands < MaxCommands
  /\ commands' = commands + 1
  /\ test' = "commanding"
  /\ UNCHANGED <<service, active, current, failed, historyVars>>

(* A status below 300.                                                     *)
CommandDone ==
  /\ test = "commanding"
  /\ service = "up"
  /\ current \in active \ unusable
  /\ test' = "body"
  /\ UNCHANGED <<service, active, current, commands, failed, historyVars>>

CommandFailsTestSkipsCleanup ==
  /\ test = "commanding"
  /\ service # "hung" \/ current \in unusable
  /\ Fails
  /\ denied' = denied \cup {current}
  /\ test' = "idle"
  /\ UNCHANGED <<service, active, current, commands, named, unusable, deleted>>

(* Another status, an I/O error, or a URL that cannot be parsed: the test  *)
(* ends, and its deferred calls are made.                                  *)
CommandFails ==
  /\ test = "commanding"
  /\ service # "hung" \/ current \in unusable
  /\ Fails
  /\ denied' = denied \cup {current}
  /\ test' = "closing"
  /\ UNCHANGED <<service, active, current, commands, named, unusable, deleted>>

(* The rest of the test passes or fails.                                   *)
BodyEnds ==
  /\ test = "body"
  /\ test' = "closing"
  /\ Fails \/ UNCHANGED failed
  /\ UNCHANGED <<service, active, current, commands, historyVars>>
-----------------------------------------------------------------------------
(***************************************************************************)
(* Close, which NewSSEClient has deferred.  The test waits for the answer, *)
(* and forgets it, as it does an I/O error.                                *)
(***************************************************************************)
Close ==
  /\ test = "closing"
  /\ current \notin unusable
  /\ service # "hung"
  /\ deleted' = deleted \cup {current}
  /\ active' \in IF service = "up" THEN {active, active \ {current}} ELSE {active}
  /\ test' = "idle"
  /\ UNCHANGED <<service, current, commands, failed, named, unusable, denied>>

(* The error of http.NewRequest is dropped and the request is nil, so the  *)
(* call panics, which fails the scope around the test: see CleanupPanics   *)
(* of TestScope.                                                           *)
ClosePanics ==
  /\ test = "closing"
  /\ current \in unusable
  /\ Fails
  /\ test' = "idle"
  /\ UNCHANGED <<service, active, current, commands, historyVars>>
-----------------------------------------------------------------------------
(* The service on its own: it starts, it stops answering, and it breaks    *)
(* down with its clients.                                                  *)
ServiceStarts ==
  /\ service = "down"
  /\ service' = "up"
  /\ UNCHANGED suiteVars

ServiceHangs ==
  /\ service = "up"
  /\ service' = "hung"
  /\ UNCHANGED suiteVars

ServiceBreaksDown ==
  /\ service \in {"up", "hung"}
  /\ service' = "down"
  /\ active' = {}
  /\ UNCHANGED <<test, current, commands, failed, historyVars>>

TestStep ==
  \/ Create \/ Created \/ CreationFails
  \/ SendCommand \/ CommandDone \/ CommandFails
  \/ BodyEnds \/ Close \/ ClosePanics
-----------------------------------------------------------------------------
(***************************************************************************)
(* Properties.                                                             *)
(***************************************************************************)

(* The service is asked to close every client that it has named, before    *)
(* the next test begins and before the end of the run, whatever goes wrong *)
(* in the test or in the service; but not if the URL cannot be parsed      *)
(* (test_service.go:151).                                                  *)
NamedAreDeleted == test = "idle" => named \ unusable \subseteq deleted
=============================================================================
