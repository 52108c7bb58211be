---------------------------- MODULE TestSelection ----------------------------
(***************************************************************************)
(* params.go and framework/ldtest: the command line sets the filters, and  *)
(* the test run asks them at each scope, from the root down, whether to    *)
(* enter it.  A test that the options choose runs only if none of its      *)
(* parents is turned away first.                                           *)
(***************************************************************************)
EXTENDS Filter, FiniteSets, SequencesExt

CONSTANTS
  Names,        (* the names of tests                                      *)
  Patterns,     (* the patterns that may be given                          *)
  MaxPatterns,  (* bound: how many patterns each option is given           *)
  MaxDepth      (* bound: how deep the tests are nested                    *)

ASSUME PatternsAssumption == Patterns \subseteq Seq(SUBSET Names)
ASSUME BoundsAssumption == MaxPatterns \in Nat /\ MaxDepth \in Nat

VARIABLES
  filters,  (* params.filters                                              *)
  running,  (* whether the command line was read                           *)
  id        (* the test scope that is being run                            *)

vars == <<filters, running, id>>

TypeOK ==
  /\ filters \in [{"MustMatch", "MustNotMatch"} -> Seq(Patterns)]
  /\ running \in BOOLEAN
  /\ id \in Seq(Names) /\ Len(id) <= MaxDepth

Init ==
  /\ filters = [o \in {"MustMatch", "MustNotMatch"} |-> <<>>]
  /\ running = FALSE
  /\ id = <<>>

(* An option -run or -skip: TestIDPatternList.Set adds a pattern.          *)
Set(option, p) ==
  /\ ~running
  /\ Len(filters[option]) < MaxPatterns
  /\ filters' = [filters EXCEPT ![option] = Append(@, p)]
  /\ UNCHANGED <<running, id>>

(* ldtest.Run: the root scope is not asked for.                            *)
RunTestSuite ==
  /\ ~running
  /\ running' = TRUE
  /\ UNCHANGED <<filters, id>>

(* T.Run: a subtest is entered if the filters let it.                      *)
Run(name) ==
  /\ running
  /\ Len(id) < MaxDepth
  /\ Match(filters, Append(id, name))
  /\ id' = Append(id, name)
  /\ UNCHANGED <<filters, running>>

Next ==
  \/ \E o \in {"MustMatch", "MustNotMatch"}, p \in Patterns : Set(o, p)
  \/ RunTestSuite
  \/ \E name \in Names : Run(name)

Spec == Init /\ [][Next]_vars
-----------------------------------------------------------------------------
IDs == UNION {[1 .. n -> Names] : n \in 0 .. MaxDepth}

(* Every test that the options choose by the rules of docs/running.md is   *)
(* reached: from a scope on the way to it, the next scope is entered.      *)
ChosenAreReached ==
  running =>
    \A t \in IDs :
      Chosen(filters, t) /\ IsStrictPrefix(id, t)
        => Match(filters, SubSeq(t, 1, Len(id) + 1))

(* No other test is entered: what runs is chosen, or it is on the way to   *)
(* tests that a pattern of -run may specify; and it is not chosen to be    *)
(* skipped, nor is a scope it is in.                                       *)
OthersAreNot ==
  id # <<>> =>
    /\ ~Selects(filters.MustNotMatch, id)
    /\ \/ Chosen(filters, id)
       \/ \E k \in 1 .. Len(filters.MustMatch) :
            LET p == filters.MustMatch[k]
            IN  Len(p) > Len(id) /\ Specifies(SubSeq(p, 1, Len(id)), id)
=============================================================================
