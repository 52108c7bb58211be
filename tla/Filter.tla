------------------------------- MODULE Filter -------------------------------
(***************************************************************************)
(* framework/ldtest/filter.go: which tests the command line selects.       *)
(*                                                                         *)
(* A test is named by the sequence of the names of its scopes.  A pattern  *)
(* has one regular expression per scope; what matters of a regular         *)
(* expression is the set of names that it matches, so a pattern is a       *)
(* sequence of sets of names.                                              *)
(***************************************************************************)
EXTENDS Integers, Sequences

(* TestIDPattern.Match.  A pattern shorter than the id matches on what it  *)
(* has; a longer one only if the id may be that of a parent.               *)
MatchExactDepth(p, id, includeParents) ==
  /\ Len(p) <= Len(id) \/ includeParents
  /\ \A i \in 1 .. Len(id) : i <= Len(p) /\ id[i] \in p[i]
PatternMatch(p, id, includeParents) ==
  /\ Len(p) <= Len(id) \/ includeParents
  /\ \A i \in 1 .. Len(id) : i <= Len(p) => id[i] \in p[i]

(* TestIDPatternList.                                                      *)
IsDefined(l) == Len(l) # 0
AnyMatch(l, id, includeParents) ==
  \E k \in 1 .. Len(l) : PatternMatch(l[k], id, includeParents)

(* RegexFilters.Match.                                                     *)
MatchRunFirst(filters, id) ==
  \/ IsDefined(filters.MustMatch) /\ AnyMatch(filters.MustMatch, id, TRUE)
  \/ ~IsDefined(filters.MustMatch) /\ ~AnyMatch(filters.MustNotMatch, id, FALSE)
Match(filters, id) ==
  /\ IsDefined(filters.MustMatch) => AnyMatch(filters.MustMatch, id, TRUE)
  /\ ~AnyMatch(filters.MustNotMatch, id, FALSE)
-----------------------------------------------------------------------------
(***************************************************************************)
(* What docs/running.md says, lines 13-23.                                 *)
(***************************************************************************)

(* A pattern specifies a test when it matches its full path.               *)
Specifies(p, id) ==
  Len(p) = Len(id) /\ \A i \in 1 .. Len(p) : id[i] \in p[i]

Parents(id) == {SubSeq(id, 1, n) : n \in 0 .. Len(id)}

(* A list of patterns selects the tests that they specify and all their    *)
(* subtests.                                                               *)
Selects(l, id) ==
  \E k \in 1 .. Len(l) : \E t \in Parents(id) : Specifies(l[k], t)

(* The tests that the two options leave to be run.                         *)
Chosen(filters, id) ==
  /\ IsDefined(filters.MustMatch) => Selects(filters.MustMatch, id)
  /\ ~Selects(filters.MustNotMatch, id)
=============================================================================
