------------------------ MODULE TestSelection_proofs ------------------------
(***************************************************************************)
(* Which tests run, for all names, patterns and depths: the definition of  *)
(* the filters in filter.go against the rules in docs/running.md.          *)
(***************************************************************************)
EXTENDS TestSelection, SequenceTheorems, TLAPS

Pattern == Seq(SUBSET Names)

(* The first scopes of a test have the names they have in it.              *)
LEMMA FirstScopes ==
  ASSUME NEW S, NEW s \in Seq(S), NEW n \in 0 .. Len(s)
  PROVE  /\ SubSeq(s, 1, n) \in Seq(S)
         /\ Len(SubSeq(s, 1, n)) = n
         /\ \A i \in 1 .. n : SubSeq(s, 1, n)[i] = s[i]
OBVIOUS

(* A pattern that matches a test, or a parent of something it specifies,   *)
(* matches in the same sense the scopes around it (filter.go:24-38).       *)
LEMMA ParentsMatch ==
  ASSUME NEW p \in Pattern, NEW t \in Seq(Names), NEW n \in 0 .. Len(t),
         PatternMatch(p, t, TRUE)
  PROVE  PatternMatch(p, SubSeq(t, 1, n), TRUE)
BY FirstScopes DEF PatternMatch, Pattern

(* A pattern that matches a test in full matches all that is in it.        *)
LEMMA SubtestsMatch ==
  ASSUME NEW p \in Pattern, NEW t \in Seq(Names), NEW n \in 0 .. Len(t),
         PatternMatch(p, SubSeq(t, 1, n), FALSE)
  PROVE  PatternMatch(p, t, FALSE)
BY FirstScopes DEF PatternMatch, Pattern

(* In full, the code matches what the documentation says a pattern selects:*)
(* the tests it specifies and all their subtests.                          *)
LEMMA FullMatch ==
  ASSUME NEW p \in Pattern, NEW t \in Seq(Names)
  PROVE  PatternMatch(p, t, FALSE) <=> \E s \in Parents(t) : Specifies(p, s)
<1>1. ASSUME PatternMatch(p, t, FALSE)
      PROVE  \E s \in Parents(t) : Specifies(p, s)
  <2>1. Len(p) \in 0 .. Len(t)
    BY <1>1 DEF PatternMatch, Pattern
  <2>2. Specifies(p, SubSeq(t, 1, Len(p)))
    BY <1>1, <2>1, FirstScopes DEF PatternMatch, Specifies, Pattern
  <2> QED
    BY <2>1, <2>2 DEF Parents
<1>2. ASSUME NEW n \in 0 .. Len(t), Specifies(p, SubSeq(t, 1, n))
      PROVE  PatternMatch(p, t, FALSE)
  BY <1>2, FirstScopes DEF PatternMatch, Specifies, Pattern
<1> QED
  BY <1>1, <1>2 DEF Parents

(* With parents, it matches these and the tests on the way to them.        *)
LEMMA MatchWithParents ==
  ASSUME NEW p \in Pattern, NEW t \in Seq(Names)
  PROVE  PatternMatch(p, t, TRUE)
           <=> \/ PatternMatch(p, t, FALSE)
               \/ Len(p) > Len(t) /\ Specifies(SubSeq(p, 1, Len(t)), t)
<1>0. Len(p) \in Nat /\ Len(t) \in Nat
  BY DEF Pattern
<1>1. CASE Len(p) <= Len(t)
  BY <1>1 DEF PatternMatch, Pattern
<1>2. CASE Len(p) > Len(t)
  <2>1. /\ Len(SubSeq(p, 1, Len(t))) = Len(t)
        /\ \A i \in 1 .. Len(t) : SubSeq(p, 1, Len(t))[i] = p[i]
    BY <1>2, FirstScopes DEF Pattern
  <2> QED
    BY <1>2, <2>1 DEF PatternMatch, Specifies, Pattern
<1>3. Len(p) <= Len(t) \/ Len(p) > Len(t)
  BY <1>0
<1> QED
  BY <1>1, <1>2, <1>3
-----------------------------------------------------------------------------
Filters ==
  [{"MustMatch", "MustNotMatch"} -> Seq(Pattern)]

(* If the options choose a test, the filters let the run enter every scope *)
(* on the way to it, and the test itself.                                  *)
THEOREM ChosenPasses ==
  ASSUME NEW f \in Filters, NEW t \in Seq(Names), NEW n \in 0 .. Len(t),
         Chosen(f, t)
  PROVE  Match(f, SubSeq(t, 1, n))
<1> DEFINE s == SubSeq(t, 1, n)
<1>0. f.MustMatch \in Seq(Pattern) /\ f.MustNotMatch \in Seq(Pattern)
  BY DEF Filters
<1>1. s \in Seq(Names)
  BY FirstScopes
<1>2. IsDefined(f.MustMatch) => AnyMatch(f.MustMatch, s, TRUE)
  <2> SUFFICES ASSUME IsDefined(f.MustMatch)
               PROVE  AnyMatch(f.MustMatch, s, TRUE)
    OBVIOUS
  <2>1. PICK k \in 1 .. Len(f.MustMatch) :
          \E u \in Parents(t) : Specifies(f.MustMatch[k], u)
    BY DEF Chosen, Selects
  <2>2. f.MustMatch[k] \in Pattern
    BY <1>0
  <2>3. PatternMatch(f.MustMatch[k], t, TRUE)
    BY <2>1, <2>2, FullMatch, MatchWithParents
  <2>4. PatternMatch(f.MustMatch[k], s, TRUE)
    BY <2>2, <2>3, ParentsMatch
  <2> QED
    BY <2>4 DEF AnyMatch
<1>3. ASSUME NEW k \in 1 .. Len(f.MustNotMatch),
             PatternMatch(f.MustNotMatch[k], s, FALSE)
      PROVE  FALSE
  <2>1. f.MustNotMatch[k] \in Pattern
    BY <1>0
  <2>2. PatternMatch(f.MustNotMatch[k], t, FALSE)
    BY <1>3, <2>1, SubtestsMatch
  <2>3. \E u \in Parents(t) : Specifies(f.MustNotMatch[k], u)
    BY <2>1, <2>2, FullMatch
  <2> QED
    BY <2>3 DEF Chosen, Selects
<1> QED
  BY <1>2, <1>3 DEF Match, AnyMatch

(* A scope that the filters let the run enter is chosen, or on the way to  *)
(* what a pattern specifies; and it is in no scope to be skipped.          *)
THEOREM PassesOnlyChosen ==
  ASSUME NEW f \in Filters, NEW t \in Seq(Names), Match(f, t)
  PROVE  /\ ~Selects(f.MustNotMatch, t)
         /\ \/ Chosen(f, t)
            \/ \E k \in 1 .. Len(f.MustMatch) :
                 LET p == f.MustMatch[k]
                 IN  Len(p) > Len(t) /\ Specifies(SubSeq(p, 1, Len(t)), t)
<1>0. f.MustMatch \in Seq(Pattern) /\ f.MustNotMatch \in Seq(Pattern)
  BY DEF Filters
<1>1. ~Selects(f.MustNotMatch, t)
  <2> SUFFICES ASSUME NEW k \in 1 .. Len(f.MustNotMatch),
                      \E u \in Parents(t) : Specifies(f.MustNotMatch[k], u)
               PROVE  FALSE
    BY DEF Selects
  <2>0. f.MustNotMatch[k] \in Pattern
    BY <1>0
  <2>1. PatternMatch(f.MustNotMatch[k], t, FALSE)
    BY <2>0, FullMatch
  <2> QED
    BY <2>1 DEF Match, AnyMatch
<1>2. CASE ~IsDefined(f.MustMatch)
  BY <1>1, <1>2 DEF Chosen
<1>3. CASE IsDefined(f.MustMatch)
  <2>1. PICK k \in 1 .. Len(f.MustMatch) : PatternMatch(f.MustMatch[k], t, TRUE)
    BY <1>3 DEF Match, AnyMatch
  <2>2. f.MustMatch[k] \in Pattern
    BY <1>0
  <2>3. CASE PatternMatch(f.MustMatch[k], t, FALSE)
    <3>1. \E u \in Parents(t) : Specifies(f.MustMatch[k], u)
      BY <2>2, <2>3, FullMatch
    <3> QED
      BY <3>1, <1>1 DEF Chosen, Selects
  <2>4. CASE ~PatternMatch(f.MustMatch[k], t, FALSE)
    BY <1>1, <2>1, <2>2, <2>4, MatchWithParents
  <2> QED
    BY <2>3, <2>4
<1> QED
  BY <1>1, <1>2, <1>3
-----------------------------------------------------------------------------
(* The inductive invariant: the command line is read before the run begins,*)
(* and the scope that is being run was let in.                             *)
Inv ==
  /\ TypeOK
  /\ ~running => id = <<>>
  /\ id # <<>> => Match(filters, id)

LEMMA FiltersType == TypeOK => filters \in Filters
BY PatternsAssumption DEF TypeOK, Filters, Pattern

LEMMA InvInit == Init => Inv
<1> SUFFICES ASSUME Init PROVE Inv
  OBVIOUS
<1>1. <<>> \in Seq(Patterns) /\ <<>> \in Seq(Names) /\ Len(<<>>) = 0
  OBVIOUS
<1>2. filters \in [{"MustMatch", "MustNotMatch"} -> Seq(Patterns)]
  BY <1>1 DEF Init
<1>3. running \in BOOLEAN /\ id \in Seq(Names) /\ Len(id) = 0
  BY <1>1, Zenon DEF Init
<1>4. TypeOK
  BY <1>2, <1>3, BoundsAssumption DEF TypeOK
<1> QED
  BY <1>4 DEF Init, Inv

LEMMA InvNext == Inv /\ [Next]_vars => Inv'
<1> SUFFICES ASSUME Inv, [Next]_vars PROVE Inv'
  OBVIOUS
<1> USE DEF Inv
<1>1. ASSUME NEW o \in {"MustMatch", "MustNotMatch"}, NEW p \in Patterns, Set(o, p)
      PROVE  Inv'
  <2>1. filters' \in [{"MustMatch", "MustNotMatch"} -> Seq(Patterns)]
    BY <1>1 DEF Set, TypeOK
  <2> QED
    BY <1>1, <2>1 DEF Set, TypeOK
<1>2. CASE RunTestSuite
  BY <1>2 DEF RunTestSuite, TypeOK
<1>3. ASSUME NEW name \in Names, Run(name)
      PROVE  Inv'
  BY <1>3, BoundsAssumption DEF Run, TypeOK
<1>4. CASE UNCHANGED vars
  BY <1>4 DEF vars, TypeOK
<1> QED
  BY <1>1, <1>2, <1>3, <1>4 DEF Next

(* The options and the scope being run are of their types in all runs.     *)
THEOREM TypeCorrect == Spec => []TypeOK
<1>1. Inv => TypeOK
  BY DEF Inv
<1> QED
  BY <1>1, InvInit, InvNext, PTL DEF Spec

(* The promise of docs/running.md:13-23 to those who choose tests: what    *)
(* they choose is reached.                                                 *)
THEOREM Reached == Spec => []ChosenAreReached
<1>1. Inv => ChosenAreReached
  <2> SUFFICES ASSUME Inv, NEW t \in IDs, Chosen(filters, t), IsStrictPrefix(id, t)
               PROVE  Match(filters, SubSeq(t, 1, Len(id) + 1))
    BY DEF ChosenAreReached
  <2>1. t \in Seq(Names)
    BY BoundsAssumption DEF IDs
  <2>2. Len(id) < Len(t) /\ Len(id) \in Nat
    BY <2>1 DEF IsStrictPrefix, IsPrefix, Inv, TypeOK
  <2>3. Len(id) + 1 \in 0 .. Len(t)
    BY <2>1, <2>2
  <2> QED
    BY <2>1, <2>3, FiltersType, ChosenPasses DEF Inv
<1> QED
  BY <1>1, InvInit, InvNext, PTL DEF Spec

(* And what they do not choose is not run, but for the way to it.          *)
THEOREM NotReached == Spec => []OthersAreNot
<1>1. Inv => OthersAreNot
  <2> SUFFICES ASSUME Inv, id # <<>>
               PROVE  /\ ~Selects(filters.MustNotMatch, id)
                      /\ \/ Chosen(filters, id)
                         \/ \E k \in 1 .. Len(filters.MustMatch) :
                              LET p == filters.MustMatch[k]
                              IN  Len(p) > Len(id) /\ Specifies(SubSeq(p, 1, Len(id)), id)
    BY DEF OthersAreNot
  <2>1. id \in Seq(Names) /\ Match(filters, id)
    BY DEF Inv, TypeOK
  <2> QED
    BY <2>1, FiltersType, PassesOnlyChosen DEF Inv
<1> QED
  BY <1>1, InvInit, InvNext, PTL DEF Spec
=============================================================================
