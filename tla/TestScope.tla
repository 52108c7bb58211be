------------------------------ MODULE TestScope ------------------------------
(***************************************************************************)
(* framework/ldtest/test_scope.go: test scopes, nested as the calls of     *)
(* T.Run are.  Test code runs in the innermost scope.  A scope ends when   *)
(* its action returns or panics; Go then unwinds to the deferred function  *)
(* of T.run, which records the result and runs the cleanups.  A cleanup    *)
(* may panic but does not call Errorf or FailNow: none in the program does.*)
(***************************************************************************)
EXTENDS Integers, SequencesExt

CONSTANTS
  Names,        (* the names of subtests                                   *)
  Selected,     (* the ids for which the filter answers true               *)
  MaxDepth,     (* bound: how deep scopes are nested                       *)
  MaxErrors,    (* bound: calls of Errorf in a scope                       *)
  MaxCleanups   (* bound: calls of Defer in a scope                        *)

ASSUME BoundsAssumption ==
  MaxDepth \in Nat /\ MaxErrors \in Nat /\ MaxCleanups \in Nat

VARIABLES
  stack,       (* the scopes that have been entered and not left           *)
  tests,       (* env.results.Tests                                        *)
  failures,    (* env.results.Failures                                     *)
  outcome      (* how each scope that was left, or not entered, ended      *)

results == <<tests, failures>>
vars == <<stack, results, outcome>>

Outcomes == {"finished", "skipped", "excluded", "abandoned"}
Frames ==
  [id : Seq(Names), failed : BOOLEAN, errors : Nat,
   cleanups : Nat,   (* how many of them are still to be run               *)
   cleaning : BOOLEAN,
   deferred : Nat,   (* how often Defer was called                         *)
   ran : Seq(Nat)]   (* the cleanups that were run, in order               *)
TestResults == [id : Seq(Names), errors : Nat]

TypeOK ==
  /\ stack \in Seq(Frames)
  /\ \A i \in 1 .. Len(stack) : Len(stack[i].id) = i - 1
  /\ tests \in Seq(TestResults) /\ failures \in Seq(TestResults)
  /\ DOMAIN outcome \subseteq Seq(Names) /\ Range(outcome) \subseteq Outcomes

NewT(id) ==
  [id |-> id, failed |-> FALSE, errors |-> 0, cleanups |-> 0,
   cleaning |-> FALSE, deferred |-> 0, ran |-> <<>>]

T == Last(stack)
Running == stack # <<>> /\ ~T.cleaning
Cleaning == stack # <<>> /\ T.cleaning

(* ldtest.Run: the root scope has the empty id, and no filter is asked.    *)
Init ==
  /\ stack = <<NewT(<<>>)>>
  /\ tests = <<>> /\ failures = <<>>
  /\ outcome = [id \in {} |-> "finished"]
-----------------------------------------------------------------------------
Ended(id, how) ==
  outcome' = [i \in DOMAIN outcome \cup {id} |-> IF i = id THEN how ELSE outcome[i]]
Becomes(t) == stack' = Append(Front(stack), t)

(* T.Run.  A subtest is given a name of its own.                           *)
Run(name) ==
  LET id == Append(T.id, name) IN
  /\ Running
  /\ Len(stack) <= MaxDepth
  /\ id \notin DOMAIN outcome
  /\ \/ id \in Selected
        /\ stack' = Append(stack, NewT(id))
        /\ UNCHANGED outcome
     \/ id \notin Selected
        /\ Ended(id, "excluded")
        /\ UNCHANGED stack
  /\ UNCHANGED results

(* T.Defer.                                                                *)
Defer ==
  /\ Running
  /\ T.deferred < MaxCleanups
  /\ Becomes([T EXCEPT !.cleanups = @ + 1, !.deferred = @ + 1])
  /\ UNCHANGED <<results, outcome>>

(* T.Errorf.                                                               *)
Errorf ==
  /\ Running
  /\ T.errors < MaxErrors
  /\ Becomes([T EXCEPT !.failed = TRUE, !.errors = @ + 1])
  /\ UNCHANGED <<results, outcome>>

(* The deferred function of T.run, up to the cleanups: t, with the scopes  *)
(* below it, records its result.                                           *)
Record(below, t) ==
  LET result == [id |-> t.id, errors |-> t.errors]
  IN  /\ tests' = Append(tests, result)
      /\ failures' = IF t.failed THEN Append(failures, result) ELSE failures
      /\ stack' = Append(below, [t EXCEPT !.cleaning = TRUE])

(* What it does before that if it recovers from a panic of t itself, or    *)
(* from another one.                                                       *)
RecoverOwnSilently(t) == [t EXCEPT !.failed = TRUE]
RecoverOwn(t) ==
  [t EXCEPT !.failed = TRUE, !.errors = IF @ = 0 THEN 1 ELSE @]
RecoverOtherSilently(t) == [t EXCEPT !.errors = @ + 1]
RecoverOther(t) == [t EXCEPT !.failed = TRUE, !.errors = @ + 1]

(* The action of the scope returns.                                        *)
Return ==
  /\ Running
  /\ Record(Front(stack), T)
  /\ UNCHANGED outcome

(* T.FailNow.                                                              *)
FailNow ==
  /\ Running
  /\ Record(Front(stack), RecoverOwn(T))
  /\ UNCHANGED outcome

(* Test code panics with anything else.                                    *)
Panic ==
  /\ Running
  /\ Record(Front(stack), RecoverOther(T))
  /\ UNCHANGED outcome

(* T.Skip: the deferred function returns before it records or cleans up.   *)
Skip ==
  /\ Running
  /\ stack' = Front(stack)
  /\ Ended(T.id, "skipped")
  /\ UNCHANGED results

(* The loop over the cleanups, from the last.                              *)
RunCleanupFirstIn ==
  /\ Cleaning
  /\ T.cleanups > 0
  /\ Becomes([T EXCEPT !.cleanups = @ - 1,
                       !.ran = Append(@, T.deferred - T.cleanups + 1)])
  /\ UNCHANGED <<results, outcome>>
RunCleanupPastFirst ==
  /\ Cleaning
  /\ Becomes([T EXCEPT !.cleanups = @ - 1, !.ran = Append(@, T.cleanups)])
  /\ UNCHANGED <<results, outcome>>
RunCleanup ==
  /\ Cleaning
  /\ T.cleanups > 0
  /\ Becomes([T EXCEPT !.cleanups = @ - 1, !.ran = Append(@, T.cleanups)])
  /\ UNCHANGED <<results, outcome>>

(* A cleanup panics: the loop is left, and the panic ends the action of    *)
(* the scope around it, or the program if there is none.                   *)
CleanupPanicsRecordAgain ==
  /\ Cleaning
  /\ T.cleanups > 0
  /\ Ended(T.id, "abandoned")
  /\ Record(Front(stack), RecoverOther(T))
CleanupPanics ==
  /\ Cleaning
  /\ T.cleanups > 0
  /\ Ended(T.id, "abandoned")
  /\ IF Len(stack) > 1
       THEN Record(Front(Front(stack)), RecoverOther(Last(Front(stack))))
       ELSE stack' = <<>> /\ UNCHANGED results

(* T.run returns.                                                          *)
Finish ==
  /\ Cleaning
  /\ T.cleanups = 0
  /\ stack' = Front(stack)
  /\ Ended(T.id, "finished")
  /\ UNCHANGED results

Next ==
  \/ \E name \in Names : Run(name)
  \/ Defer \/ Errorf
  \/ Return \/ FailNow \/ Panic \/ Skip
  \/ RunCleanup \/ CleanupPanics \/ Finish

Spec == Init /\ [][Next]_vars
-----------------------------------------------------------------------------
EndedAs(how) == {id \in DOMAIN outcome : outcome[id] = how}
Failed == {r.id : r \in Range(failures)}
Recorded == {r.id : r \in Range(tests)}

(* The scopes that a step leaves.                                          *)
Left == {t \in Range(stack) : t.id \in DOMAIN outcome'}

(* When a scope is left in order, all that was deferred in it has been run *)
(* once, the latest first: what a test made last is torn down before what  *)
(* it was made from (test_scope.go:84-86).                                 *)
CleanedUpInReverse ==
  [][\A t \in Left :
       outcome'[t.id] = "finished"
         => t.ran = Reverse([n \in 1 .. t.deferred |-> n])]_vars

(* The report lists as failed exactly the results that say why: no failure *)
(* is without a message, no result with a message counts as passed.        *)
FailuresExact == 
  Range(failures) = {r \in Range(tests) : r.errors > 0}

(* Each scope that was entered has one result, recorded after those of its *)
(* subtests, unless it is still running or was skipped.                    *)
OneResultEach ==
  /\ \A i, j \in 1 .. Len(tests) :
       i < j => ~IsPrefix(tests[i].id, tests[j].id)
  /\ Recorded = {t.id : t \in {t \in Range(stack) : t.cleaning}}
                  \cup EndedAs("finished") \cup EndedAs("abandoned")

(* A panic of a cleanup comes too late for the result of its scope, but it *)
(* is never lost: it fails the scope around.                               *)
CleanupPanicReported ==
  \A id \in EndedAs("abandoned") \ {<<>>} : Front(id) \in Failed

(* The comment on T.Defer: a cleanup "is guaranteed to be called when this *)
(* test scope exits for any reason".  (Of the cleanups of an abandoned     *)
(* scope, the one that panicked is the last that was called.)              *)
DeferredAreCalled ==
  [][\A t \in Left :
       IF outcome'[t.id] = "abandoned"
         THEN t.cleanups = 1
         ELSE Len(t.ran) = t.deferred]_vars
=============================================================================
