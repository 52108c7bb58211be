-------------------------- MODULE TestScope_proofs --------------------------
(***************************************************************************)
(* Proofs about TestScope, for every set of names, every filter and every  *)
(* bound on nesting, errors and cleanups.                                  *)
(***************************************************************************)
EXTENDS TestScope, TLAPS

(***************************************************************************)
(* Sequences.                                                              *)
(***************************************************************************)

LEMMA InitialSegment ==
  ASSUME NEW S, NEW s \in Seq(S), NEW n \in 0 .. Len(s)
  PROVE  /\ SubSeq(s, 1, n) \in Seq(S)
         /\ Len(SubSeq(s, 1, n)) = n
         /\ \A i \in 1 .. n : SubSeq(s, 1, n)[i] = s[i]
OBVIOUS

LEMMA FrontFacts ==
  ASSUME NEW S, NEW s \in Seq(S), s # <<>>
  PROVE  /\ Front(s) \in Seq(S)
         /\ Len(s) \in Nat \ {0}
         /\ Len(Front(s)) = Len(s) - 1
         /\ \A i \in 1 .. Len(s) - 1 : Front(s)[i] = s[i]
         /\ Last(s) = s[Len(s)]
         /\ Last(s) \in S
<1>1. Len(s) \in Nat \ {0}
  OBVIOUS
<1>2. s[Len(s)] \in S
  BY <1>1
<1>3. /\ SubSeq(s, 1, Len(s) - 1) \in Seq(S)
      /\ Len(SubSeq(s, 1, Len(s) - 1)) = Len(s) - 1
      /\ \A i \in 1 .. Len(s) - 1 : SubSeq(s, 1, Len(s) - 1)[i] = s[i]
  <2>1. Len(s) - 1 \in 0 .. Len(s)
    BY <1>1
  <2> QED
    BY <2>1, InitialSegment
<1> QED
  BY <1>1, <1>2, <1>3 DEF Front, Last

LEMMA AppendFacts ==
  ASSUME NEW S, NEW s \in Seq(S), NEW e \in S
  PROVE  /\ Append(s, e) \in Seq(S)
         /\ Append(s, e) # <<>>
         /\ Len(Append(s, e)) = Len(s) + 1
         /\ \A i \in 1 .. Len(s) : Append(s, e)[i] = s[i]
         /\ Append(s, e)[Len(s) + 1] = e
OBVIOUS

LEMMA RangeAppend ==
  ASSUME NEW S, NEW s \in Seq(S), NEW e \in S
  PROVE  Range(Append(s, e)) = Range(s) \cup {e}
<1>1. ASSUME NEW x \in Range(Append(s, e)) PROVE x \in Range(s) \cup {e}
  BY AppendFacts DEF Range
<1>2. ASSUME NEW x \in Range(s) PROVE x \in Range(Append(s, e))
  BY AppendFacts DEF Range
<1>3. e \in Range(Append(s, e))
  BY AppendFacts DEF Range
<1> QED
  BY <1>1, <1>2, <1>3

(* What Ended does to the outcomes.                                        *)
LEMMA EndedFacts ==
  ASSUME NEW id, NEW how, Ended(id, how)
  PROVE  /\ DOMAIN outcome' = DOMAIN outcome \cup {id}
         /\ outcome'[id] = how
         /\ \A x \in DOMAIN outcome : x # id => outcome'[x] = outcome[x]
BY DEF Ended
-----------------------------------------------------------------------------
(***************************************************************************)
(* The innermost scope.                                                    *)
(***************************************************************************)

(* A scope has failed if and only if it has an error; its cleanups have    *)
(* been run from the last one, and none before the scope has ended.        *)
FrameInv(t) ==
  /\ t.failed <=> t.errors > 0
  /\ t.cleanups + Len(t.ran) = t.deferred
  /\ \A k \in 1 .. Len(t.ran) : t.ran[k] = t.deferred + 1 - k
  /\ ~t.cleaning => t.ran = <<>>

GoodFrame(t) == t \in Frames /\ FrameInv(t)

LEMMA NewFrame ==
  ASSUME NEW id \in Seq(Names)
  PROVE  GoodFrame(NewT(id)) /\ NewT(id).id = id /\ ~NewT(id).cleaning
BY DEF GoodFrame, FrameInv, NewT, Frames

(* What can be assigned to the fields of a scope.                          *)
LEMMA FrameUpdates ==
  ASSUME NEW t \in Frames, NEW m \in Nat, NEW n \in Nat, NEW s \in Seq(Nat)
  PROVE  /\ [t EXCEPT !.cleanups = m, !.deferred = n] \in Frames
         /\ [t EXCEPT !.cleanups = m, !.ran = s] \in Frames
         /\ [t EXCEPT !.failed = TRUE, !.errors = m] \in Frames
         /\ [t EXCEPT !.cleaning = TRUE] \in Frames
BY DEF Frames

LEMMA FrameFields ==
  ASSUME NEW t, GoodFrame(t)
  PROVE  /\ t \in Frames
         /\ t.id \in Seq(Names)
         /\ t.errors \in Nat /\ t.cleanups \in Nat /\ t.deferred \in Nat
         /\ t.ran \in Seq(Nat) /\ Len(t.ran) \in Nat
         /\ t.cleanups + Len(t.ran) = t.deferred
BY DEF GoodFrame, FrameInv, Frames

(* Defer.                                                                  *)
LEMMA DeferFrame ==
  ASSUME NEW t, GoodFrame(t), ~t.cleaning, NEW u,
         u = [t EXCEPT !.cleanups = @ + 1, !.deferred = @ + 1]
  PROVE  GoodFrame(u) /\ u.cleaning = t.cleaning /\ u.id = t.id
<1>1. t.cleanups + 1 \in Nat /\ t.deferred + 1 \in Nat
  BY FrameFields
<1>2. u \in Frames
  BY <1>1, FrameFields, FrameUpdates
<1>3. /\ u.id = t.id /\ u.failed = t.failed /\ u.errors = t.errors
      /\ u.cleanups = t.cleanups + 1 /\ u.deferred = t.deferred + 1
      /\ u.cleaning = t.cleaning /\ u.ran = t.ran
  BY FrameFields DEF Frames
<1>4. t.ran = <<>> /\ Len(t.ran) = 0
  BY DEF GoodFrame, FrameInv
<1> QED
  BY <1>2, <1>3, <1>4, FrameFields DEF GoodFrame, FrameInv

(* Errorf, and both recoveries: failed is set with at least one error.     *)
LEMMA FailFrame ==
  ASSUME NEW t, GoodFrame(t), ~t.cleaning, NEW n \in Nat \ {0}, NEW u,
         u = [t EXCEPT !.failed = TRUE, !.errors = n]
  PROVE  GoodFrame(u) /\ u.cleaning = t.cleaning /\ u.id = t.id /\ u.failed
<1>1. u \in Frames
  BY FrameFields, FrameUpdates
<1>2. /\ u.id = t.id /\ u.failed /\ u.errors = n
      /\ u.cleanups = t.cleanups /\ u.deferred = t.deferred
      /\ u.cleaning = t.cleaning /\ u.ran = t.ran
  BY FrameFields DEF Frames
<1> QED
  BY <1>1, <1>2, FrameFields DEF GoodFrame, FrameInv

LEMMA RecoveredFrames ==
  ASSUME NEW t, GoodFrame(t), ~t.cleaning
  PROVE  \A u \in {RecoverOwn(t), RecoverOther(t)} :
           GoodFrame(u) /\ u.cleaning = t.cleaning /\ u.id = t.id /\ u.failed
<1>1. t.errors + 1 \in Nat \ {0}
      /\ (IF t.errors = 0 THEN 1 ELSE t.errors) \in Nat \ {0}
  BY FrameFields
<1> QED
  BY <1>1, FailFrame DEF RecoverOwn, RecoverOther

(* The beginning of the deferred function.                                 *)
LEMMA EndingFrame ==
  ASSUME NEW t, GoodFrame(t), NEW u, u = [t EXCEPT !.cleaning = TRUE]
  PROVE  GoodFrame(u) /\ u.cleaning /\ u.id = t.id
<1>1. u \in Frames
  BY FrameFields, FrameUpdates
<1>2. /\ u.id = t.id /\ u.failed = t.failed /\ u.errors = t.errors
      /\ u.cleanups = t.cleanups /\ u.deferred = t.deferred
      /\ u.cleaning /\ u.ran = t.ran
  BY FrameFields DEF Frames
<1> QED
  BY <1>1, <1>2, FrameFields DEF GoodFrame, FrameInv

(* RunCleanup.                                                             *)
LEMMA CleaningFrame ==
  ASSUME NEW t, GoodFrame(t), t.cleaning, t.cleanups > 0, NEW u,
         u = [t EXCEPT !.cleanups = @ - 1, !.ran = Append(@, t.cleanups)]
  PROVE  GoodFrame(u) /\ u.cleaning = t.cleaning /\ u.id = t.id
<1> DEFINE m == t.cleanups - 1
           s == Append(t.ran, t.cleanups)
<1>1. m \in Nat /\ s \in Seq(Nat)
  BY FrameFields
<1>0. u = [t EXCEPT !.cleanups = m, !.ran = s]
  OBVIOUS
<1> HIDE DEF m, s
<1>2. u \in Frames
  <2>1. t \in Frames
    BY FrameFields
  <2> QED
    BY ONLY <2>1, <1>0, <1>1, FrameUpdates
<1>3. /\ u.id = t.id /\ u.failed = t.failed /\ u.errors = t.errors
      /\ u.cleanups = t.cleanups - 1 /\ u.deferred = t.deferred
      /\ u.cleaning = t.cleaning /\ u.ran = Append(t.ran, t.cleanups)
  <2>1. /\ u.id = t.id /\ u.failed = t.failed /\ u.errors = t.errors
        /\ u.cleanups = m /\ u.deferred = t.deferred
        /\ u.cleaning = t.cleaning /\ u.ran = s
    <3>1. t \in Frames
      BY FrameFields
    <3> QED
      BY ONLY <3>1, <1>0 DEF Frames
  <2> QED
    BY <2>1 DEF m, s
<1>4. Len(u.ran) = Len(t.ran) + 1
  BY <1>3, FrameFields
<1>5. \A k \in 1 .. Len(t.ran) : u.ran[k] = t.ran[k]
  BY <1>3, FrameFields, AppendFacts
<1>6. u.ran[Len(t.ran) + 1] = t.cleanups
  BY <1>3, FrameFields, AppendFacts
<1>7. \A k \in 1 .. Len(t.ran) : t.ran[k] = t.deferred + 1 - k
  BY DEF GoodFrame, FrameInv
<1>8. \A k \in 1 .. Len(u.ran) : u.ran[k] = u.deferred + 1 - k
  <2> SUFFICES ASSUME NEW k \in 1 .. Len(t.ran) + 1 PROVE u.ran[k] = t.deferred + 1 - k
    BY <1>3, <1>4
  <2>0. Len(t.ran) \in Nat
    BY FrameFields
  <2>1. CASE k = Len(t.ran) + 1
    BY <2>1, <1>6, FrameFields
  <2>2. CASE k # Len(t.ran) + 1
    <3>1. k \in 1 .. Len(t.ran)
      BY ONLY <2>0, <2>2, k \in 1 .. Len(t.ran) + 1
    <3> QED
      BY <3>1, <1>5, <1>7
  <2> QED
    BY <2>1, <2>2
<1>9. GoodFrame(u)
  BY <1>2, <1>3, <1>4, <1>8, FrameFields DEF GoodFrame, FrameInv
<1> QED
  BY <1>3, <1>9
-----------------------------------------------------------------------------
(***************************************************************************)
(* The stack.                                                              *)
(***************************************************************************)

(* Each scope is a subtest of the one below it, and only the innermost one *)
(* can be running its cleanups.                                            *)
StackInv(s) ==
  /\ s \in Seq(Frames)
  /\ \A i \in 1 .. Len(s) : GoodFrame(s[i]) /\ Len(s[i].id) = i - 1
  /\ \A i \in 1 .. Len(s) - 1 : ~s[i].cleaning /\ Front(s[i+1].id) = s[i].id

LEMMA TopFrame ==
  ASSUME NEW s, StackInv(s), s # <<>>
  PROVE  /\ GoodFrame(Last(s)) /\ Last(s) \in Frames
         /\ Len(Last(s).id) = Len(s) - 1 /\ Last(s).id \in Seq(Names)
         /\ Len(s) \in Nat \ {0}
<1>1. s \in Seq(Frames)
  BY DEF StackInv
<1>2. Last(s) = s[Len(s)] /\ Len(s) \in 1 .. Len(s) /\ Len(s) \in Nat \ {0}
  <2>1. Len(s) \in Nat \ {0}
    BY <1>1
  <2> QED
    BY <2>1 DEF Last
<1>3. GoodFrame(Last(s)) /\ Len(Last(s).id) = Len(s) - 1
  BY <1>2 DEF StackInv
<1> QED
  BY <1>2, <1>3, FrameFields

LEMMA PopStack ==
  ASSUME NEW s, StackInv(s), s # <<>>
  PROVE  StackInv(Front(s)) /\ (Front(s) # <<>> => ~Last(Front(s)).cleaning
                                    /\ Front(Last(s).id) = Last(Front(s)).id)
<1>1. s \in Seq(Frames)
  BY DEF StackInv
<1>2. /\ Front(s) \in Seq(Frames) /\ Len(Front(s)) = Len(s) - 1
      /\ \A i \in 1 .. Len(s) - 1 : Front(s)[i] = s[i]
      /\ Len(s) \in Nat \ {0} /\ Last(s) = s[Len(s)]
  BY <1>1, FrontFacts
<1>3. StackInv(Front(s))
  <2>1. \A i \in 1 .. Len(Front(s)) :
          GoodFrame(Front(s)[i]) /\ Len(Front(s)[i].id) = i - 1
    BY <1>2 DEF StackInv
  <2>2. \A i \in 1 .. Len(Front(s)) - 1 :
          /\ ~Front(s)[i].cleaning
          /\ Front(Front(s)[i+1].id) = Front(s)[i].id
    <3> TAKE i \in 1 .. Len(Front(s)) - 1
    <3>1. i \in 1 .. Len(s) - 1 /\ i + 1 \in 1 .. Len(s) - 1
      BY <1>2
    <3> QED
      BY <3>1, <1>2 DEF StackInv
  <2> QED
    BY <1>2, <2>1, <2>2 DEF StackInv
<1>4. ASSUME Front(s) # <<>>
      PROVE  ~Last(Front(s)).cleaning /\ Front(Last(s).id) = Last(Front(s)).id
  <2>1. Last(Front(s)) = Front(s)[Len(s) - 1] /\ Len(s) - 1 \in 1 .. Len(s) - 1
    <3>1. Len(Front(s)) \in Nat \ {0}
      BY <1>2, <1>4
    <3> QED
      BY <3>1, <1>2 DEF Last
  <2>2. Last(Front(s)) = s[Len(s) - 1] /\ (Len(s) - 1) + 1 = Len(s)
    BY <2>1, <1>2
  <2>3. ~s[Len(s) - 1].cleaning /\ Front(s[(Len(s) - 1) + 1].id) = s[Len(s) - 1].id
    BY <2>1 DEF StackInv
  <2> QED
    BY <1>2, <2>2, <2>3
<1> QED
  BY <1>3, <1>4

LEMMA PushStack ==
  ASSUME NEW s, StackInv(s), NEW t, GoodFrame(t), Len(t.id) = Len(s),
         s # <<>> => ~Last(s).cleaning /\ Front(t.id) = Last(s).id
  PROVE  StackInv(Append(s, t))
<1>1. s \in Seq(Frames) /\ t \in Frames /\ Len(s) \in Nat
  BY FrameFields DEF StackInv
<1>2. /\ Append(s, t) \in Seq(Frames) /\ Len(Append(s, t)) = Len(s) + 1
      /\ \A i \in 1 .. Len(s) : Append(s, t)[i] = s[i]
      /\ Append(s, t)[Len(s) + 1] = t
  BY <1>1, AppendFacts
<1>3. \A i \in 1 .. Len(s) + 1 :
        GoodFrame(Append(s, t)[i]) /\ Len(Append(s, t)[i].id) = i - 1
  <2> TAKE i \in 1 .. Len(s) + 1
  <2>1. CASE i \in 1 .. Len(s)
    BY <2>1, <1>2 DEF StackInv
  <2>2. CASE i = Len(s) + 1
    BY <2>2, <1>1, <1>2
  <2> QED
    BY <1>1, <2>1, <2>2
<1>4. \A i \in 1 .. Len(s) :
        /\ ~Append(s, t)[i].cleaning
        /\ Front(Append(s, t)[i+1].id) = Append(s, t)[i].id
  <2> TAKE i \in 1 .. Len(s)
  <2>1. CASE i + 1 \in 1 .. Len(s)
    <3>1. i \in 1 .. Len(s) - 1
      BY <2>1, <1>1
    <3> QED
      BY <2>1, <3>1, <1>2 DEF StackInv
  <2>2. CASE i = Len(s)
    <3>1. s # <<>> /\ Last(s) = s[i]
      BY <2>2, <1>1 DEF Last
    <3> QED
      BY <2>2, <3>1, <1>2
  <2> QED
    BY <1>1, <2>1, <2>2
<1>5. Len(Append(s, t)) - 1 = Len(s)
  BY <1>1, <1>2
<1> QED
  BY <1>2, <1>3, <1>4, <1>5 DEF StackInv

LEMMA ReplaceTop ==
  ASSUME NEW s, StackInv(s), s # <<>>, NEW t, GoodFrame(t), t.id = Last(s).id
  PROVE  StackInv(Append(Front(s), t))
<1>1. s \in Seq(Frames) /\ Len(Front(s)) = Len(s) - 1
  BY FrontFacts DEF StackInv
<1>2. Len(t.id) = Len(Front(s))
  BY <1>1, TopFrame
<1> QED
  BY <1>2, PopStack, PushStack
-----------------------------------------------------------------------------
(***************************************************************************)
(* The steps.                                                              *)
(***************************************************************************)

(* A step that changes the innermost scope only.                           *)
Edited ==
  /\ stack # <<>>
  /\ \E u \in Frames :
       GoodFrame(u) /\ u.id = T.id /\ u.cleaning = T.cleaning /\ Becomes(u)
  /\ UNCHANGED <<results, outcome>>

(* A step by which it ends, by itself.                                     *)
Reported ==
  /\ Running
  /\ \E u \in Frames :
       GoodFrame(u) /\ ~u.cleaning /\ u.id = T.id /\ Record(Front(stack), u)
  /\ UNCHANGED outcome

LEMMA StepKinds ==
  ASSUME StackInv(stack), Next
  PROVE  \/ \E name \in Names : Run(name)
         \/ Edited \/ Reported \/ Skip \/ CleanupPanics \/ Finish
<1>1. ASSUME stack # <<>> PROVE GoodFrame(T) /\ T \in Frames
  BY <1>1, TopFrame DEF T
<1>2. ASSUME Defer PROVE Edited
  <2> DEFINE u == [T EXCEPT !.cleanups = @ + 1, !.deferred = @ + 1]
  <2>1. GoodFrame(T) /\ ~T.cleaning
    BY <1>1, <1>2, FrameFields DEF Defer, Running, Cleaning
  <2>2. GoodFrame(u) /\ u.cleaning = T.cleaning /\ u.id = T.id
    BY <2>1, DeferFrame
  <2>3. Becomes(u) /\ stack # <<>> /\ UNCHANGED <<results, outcome>>
    BY <1>2 DEF Defer, Running, Cleaning
  <2> HIDE DEF u
  <2> QED
    BY <2>2, <2>3 DEF Edited, GoodFrame
<1>3. ASSUME Errorf PROVE Edited
  <2> DEFINE u == [T EXCEPT !.failed = TRUE, !.errors = @ + 1]
  <2>1. GoodFrame(T) /\ ~T.cleaning /\ T.errors + 1 \in Nat \ {0}
    BY <1>1, <1>3, FrameFields DEF Errorf, Running, Cleaning
  <2>2. GoodFrame(u) /\ u.cleaning = T.cleaning /\ u.id = T.id
    BY <2>1, FailFrame
  <2>3. Becomes(u) /\ stack # <<>> /\ UNCHANGED <<results, outcome>>
    BY <1>3 DEF Errorf, Running, Cleaning
  <2> HIDE DEF u
  <2> QED
    BY <2>2, <2>3 DEF Edited, GoodFrame
<1>4. ASSUME RunCleanup PROVE Edited
  <2> DEFINE u == [T EXCEPT !.cleanups = @ - 1, !.ran = Append(@, T.cleanups)]
  <2>1. GoodFrame(T) /\ T.cleaning /\ T.cleanups > 0
    BY <1>1, <1>4, FrameFields DEF RunCleanup, Running, Cleaning
  <2>2. GoodFrame(u) /\ u.cleaning = T.cleaning /\ u.id = T.id
    BY <2>1, CleaningFrame
  <2>3. Becomes(u) /\ stack # <<>> /\ UNCHANGED <<results, outcome>>
    BY <1>4 DEF RunCleanup, Running, Cleaning
  <2> HIDE DEF u
  <2> QED
    BY <2>2, <2>3 DEF Edited, GoodFrame
<1>5. ASSUME Return PROVE Reported
  BY <1>1, <1>5 DEF Return, Reported, Running
<1>6. ASSUME FailNow PROVE Reported
  BY <1>1, <1>6, RecoveredFrames, FrameFields DEF FailNow, Reported, Running
<1>7. ASSUME Panic PROVE Reported
  BY <1>1, <1>7, RecoveredFrames, FrameFields DEF Panic, Reported, Running
<1> QED
  BY <1>2, <1>3, <1>4, <1>5, <1>6, <1>7 DEF Next

(* What Record does, for a stack s whose innermost scope, changed to u,    *)
(* ends.                                                                   *)
LEMMA RecordFacts ==
  ASSUME NEW s, StackInv(s), s # <<>>, NEW u, GoodFrame(u), u.id = Last(s).id,
         tests \in Seq(TestResults), failures \in Seq(TestResults),
         Record(Front(s), u)
  PROVE  /\ StackInv(stack')
         /\ Len(stack') = Len(s)
         /\ \A i \in 1 .. Len(s) - 1 : stack'[i] = s[i]
         /\ stack'[Len(s)].id = u.id /\ stack'[Len(s)].cleaning
         /\ LET r == [id |-> u.id, errors |-> u.errors]
            IN  /\ r \in TestResults
                /\ tests' = Append(tests, r)
                /\ failures' = IF u.failed THEN Append(failures, r) ELSE failures
<1> DEFINE v == [u EXCEPT !.cleaning = TRUE]
<1>1. GoodFrame(v) /\ v.cleaning /\ v.id = u.id
  BY EndingFrame
<1>2. stack' = Append(Front(s), v)
  BY DEF Record
<1> HIDE DEF v
<1>3. StackInv(stack')
  BY <1>1, <1>2, ReplaceTop
<1>4. /\ Front(s) \in Seq(Frames) /\ Len(Front(s)) = Len(s) - 1
      /\ Len(s) \in Nat \ {0} /\ v \in Frames
      /\ \A i \in 1 .. Len(s) - 1 : Front(s)[i] = s[i]
  BY <1>1, FrontFacts DEF StackInv, GoodFrame
<1>5. /\ Len(stack') = Len(s) /\ stack'[Len(s)] = v
      /\ \A i \in 1 .. Len(s) - 1 : stack'[i] = s[i]
  BY <1>2, <1>4, AppendFacts
<1>6. [id |-> u.id, errors |-> u.errors] \in TestResults
  BY FrameFields DEF TestResults
<1> QED
  BY <1>1, <1>3, <1>5, <1>6 DEF Record

(* What becomes of the stack in the other steps.                           *)
LEMMA EditFacts ==
  ASSUME StackInv(stack), Edited
  PROVE  /\ StackInv(stack') /\ stack' # <<>>
         /\ Len(stack') = Len(stack)
         /\ \A i \in 1 .. Len(stack) :
              stack'[i].id = stack[i].id /\ stack'[i].cleaning = stack[i].cleaning
<1>1. PICK u \in Frames : GoodFrame(u) /\ u.id = T.id /\ u.cleaning = T.cleaning
                            /\ Becomes(u)
  BY DEF Edited
<1>2. stack # <<>> /\ T = Last(stack) /\ stack' = Append(Front(stack), u)
  BY <1>1 DEF Edited, Becomes, T
<1>3. StackInv(stack')
  BY <1>1, <1>2, ReplaceTop
<1>4. /\ Front(stack) \in Seq(Frames) /\ Len(Front(stack)) = Len(stack) - 1
      /\ Len(stack) \in Nat \ {0} /\ Last(stack) = stack[Len(stack)]
      /\ \A i \in 1 .. Len(stack) - 1 : Front(stack)[i] = stack[i]
  BY <1>2, FrontFacts DEF StackInv
<1>5. /\ stack' # <<>> /\ Len(stack') = Len(stack) /\ stack'[Len(stack)] = u
      /\ \A i \in 1 .. Len(stack) - 1 : stack'[i] = stack[i]
  BY <1>2, <1>4, AppendFacts
<1>6. \A i \in 1 .. Len(stack) :
         stack'[i].id = stack[i].id /\ stack'[i].cleaning = stack[i].cleaning
  <2> TAKE i \in 1 .. Len(stack)
  <2>1. CASE i = Len(stack)
    BY <2>1, <1>1, <1>2, <1>4, <1>5
  <2>2. CASE i # Len(stack)
    <3>1. i \in 1 .. Len(stack) - 1
      BY <2>2, <1>4
    <3> QED
      BY <3>1, <1>5
  <2> QED
    BY <2>1, <2>2
<1> QED
  BY <1>3, <1>5, <1>6

(* T.Run enters a new scope or leaves it out.                              *)
LEMMA RunFacts ==
  ASSUME StackInv(stack), NEW name \in Names, Run(name)
  PROVE  /\ stack # <<>> /\ ~T.cleaning /\ UNCHANGED results
         /\ LET id == Append(T.id, name)
            IN  /\ id \in Seq(Names) /\ Len(id) = Len(stack)
                /\ id \notin DOMAIN outcome
                /\ \/ /\ StackInv(stack') /\ stack' # <<>>
                      /\ Len(stack') = Len(stack) + 1
                      /\ \A i \in 1 .. Len(stack) : stack'[i] = stack[i]
                      /\ stack'[Len(stack) + 1].id = id
                      /\ ~stack'[Len(stack) + 1].cleaning
                      /\ UNCHANGED outcome
                   \/ UNCHANGED stack /\ Ended(id, "excluded")
<1> DEFINE id == Append(T.id, name)
<1>1. /\ stack # <<>> /\ ~T.cleaning /\ UNCHANGED results
      /\ id \notin DOMAIN outcome
      /\ \/ stack' = Append(stack, NewT(id)) /\ UNCHANGED outcome
         \/ UNCHANGED stack /\ Ended(id, "excluded")
  BY DEF Run, Running
<1>2. /\ T.id \in Seq(Names) /\ Len(T.id) = Len(stack) - 1
      /\ Len(stack) \in Nat \ {0} /\ T = Last(stack)
  BY <1>1, TopFrame DEF T
<1>3. id \in Seq(Names) /\ Len(id) = Len(T.id) + 1
  BY <1>2
<1>4. Front(id) = T.id
  <2>0. id # <<>>
    BY <1>2, AppendFacts
  <2>1. Len(id) - 1 = Len(T.id) /\ Len(T.id) \in Nat
    BY <1>2, <1>3
  <2>2. Front(id) \in Seq(Names) /\ Len(Front(id)) = Len(T.id)
        /\ \A i \in 1 .. Len(T.id) : Front(id)[i] = id[i]
    BY <1>3, <2>0, <2>1, FrontFacts
  <2>3. \A i \in 1 .. Len(T.id) : id[i] = T.id[i]
    BY <1>2, AppendFacts
  <2> QED
    BY <1>2, <2>1, <2>2, <2>3
<1> HIDE DEF id
<1>5. Len(id) = Len(stack)
  BY <1>2, <1>3
<1>6. GoodFrame(NewT(id)) /\ NewT(id).id = id /\ ~NewT(id).cleaning
  BY <1>3, NewFrame
<1>7. CASE stack' = Append(stack, NewT(id)) /\ UNCHANGED outcome
  <2>1. StackInv(stack')
    BY <1>1, <1>2, <1>4, <1>5, <1>6, <1>7, PushStack
  <2>2. /\ stack' # <<>> /\ Len(stack') = Len(stack) + 1
        /\ \A i \in 1 .. Len(stack) : stack'[i] = stack[i]
        /\ stack'[Len(stack) + 1] = NewT(id)
    BY <1>6, <1>7, AppendFacts DEF StackInv, GoodFrame
  <2> QED
    BY <1>1, <1>3, <1>5, <1>6, <1>7, <2>1, <2>2 DEF id
<1> QED
  BY <1>1, <1>3, <1>5, <1>7 DEF id

(* A scope is left.                                                        *)
LEMMA LeaveFacts ==
  ASSUME StackInv(stack), stack # <<>>, NEW s, s = Front(stack)
  PROVE  /\ StackInv(s) /\ Len(s) = Len(stack) - 1
         /\ \A i \in 1 .. Len(s) : s[i] = stack[i] /\ stack[i].id # T.id
         /\ s # <<>> => ~Last(s).cleaning /\ Front(T.id) = Last(s).id
         /\ T = stack[Len(stack)] /\ Len(stack) \in Nat \ {0}
<1>1. /\ Len(s) = Len(stack) - 1 /\ Len(stack) \in Nat \ {0}
      /\ \A i \in 1 .. Len(stack) - 1 : s[i] = stack[i]
      /\ T = stack[Len(stack)]
  BY FrontFacts DEF StackInv, T
<1>2. \A i \in 1 .. Len(stack) : Len(stack[i].id) = i - 1
  BY DEF StackInv
<1>3. ASSUME NEW i \in 1 .. Len(s) PROVE stack[i].id # T.id
  <2>0. i \in 1 .. Len(stack) /\ Len(stack) \in 1 .. Len(stack)
    BY <1>1
  <2>1. Len(stack[i].id) = i - 1 /\ Len(T.id) = Len(stack) - 1
    BY <1>1, <1>2, <2>0
  <2> QED
    BY <1>1, <2>1
<1> QED
  BY <1>1, <1>3, PopStack DEF T

(* A cleanup panics: either the program ends, or the scope around it does, *)
(* as failed.                                                              *)
LEMMA PanicFacts ==
  ASSUME StackInv(stack), CleanupPanics
  PROVE  /\ stack # <<>> /\ T.cleaning /\ Ended(T.id, "abandoned")
         /\ \/ stack' = <<>> /\ UNCHANGED results /\ T.id = <<>>
            \/ \E s \in Seq(Frames), u \in Frames :
                 /\ s = Front(stack) /\ s # <<>>
                 /\ GoodFrame(u) /\ ~u.cleaning /\ u.id = Last(s).id /\ u.failed
                 /\ Record(Front(s), u)
<1>1. stack # <<>> /\ T.cleaning /\ Ended(T.id, "abandoned")
  BY DEF CleanupPanics, Cleaning
<1>2. Len(stack) \in Nat \ {0} /\ Len(T.id) = Len(stack) - 1 /\ T.id \in Seq(Names)
  BY <1>1, TopFrame DEF T
<1>3. CASE Len(stack) > 1
  <2> DEFINE s == Front(stack)
             u == RecoverOther(Last(s))
  <2>1. StackInv(s) /\ Len(s) = Len(stack) - 1 /\ s \in Seq(Frames)
    BY <1>1, LeaveFacts DEF StackInv
  <2>2. s # <<>>
    BY <1>2, <1>3, <2>1
  <2>3. ~Last(s).cleaning /\ GoodFrame(Last(s))
    BY <1>1, <2>1, <2>2, LeaveFacts, TopFrame
  <2>4. GoodFrame(u) /\ ~u.cleaning /\ u.id = Last(s).id /\ u.failed
    BY <2>3, RecoveredFrames
  <2>5. Record(Front(s), u)
    BY <1>3 DEF CleanupPanics
  <2> HIDE DEF u
  <2>6. u \in Frames
    BY <2>4 DEF GoodFrame
  <2> QED
    BY <1>1, <2>1, <2>2, <2>4, <2>5, <2>6
<1>4. CASE ~(Len(stack) > 1)
  <2>1. T.id = <<>>
    BY <1>2, <1>4
  <2> QED
    BY <1>1, <1>4, <2>1 DEF CleanupPanics
<1> QED
  BY <1>3, <1>4
-----------------------------------------------------------------------------
(***************************************************************************)
(* Types, and the scopes on the stack have not been left.                  *)
(***************************************************************************)
OpenInv == \A i \in 1 .. Len(stack) : stack[i].id \notin DOMAIN outcome

ResultTypes == tests \in Seq(TestResults) /\ failures \in Seq(TestResults)
OutcomeType == DOMAIN outcome \subseteq Seq(Names) /\ Range(outcome) \subseteq Outcomes

BaseInv == StackInv(stack) /\ ResultTypes /\ OutcomeType /\ OpenInv

LEMMA BaseInvTypes == BaseInv => TypeOK
BY DEF BaseInv, StackInv, ResultTypes, OutcomeType, TypeOK

LEMMA EndedType ==
  ASSUME OutcomeType, NEW id \in Seq(Names), NEW how \in Outcomes, Ended(id, how)
  PROVE  OutcomeType'
<1>1. DOMAIN outcome' = DOMAIN outcome \cup {id} /\ outcome'[id] = how
      /\ \A x \in DOMAIN outcome : x # id => outcome'[x] = outcome[x]
  BY EndedFacts
<1>2. \A x \in DOMAIN outcome : outcome[x] \in Outcomes
  BY DEF OutcomeType, Range
<1>3. ASSUME NEW x \in DOMAIN outcome' PROVE outcome'[x] \in Outcomes
  BY <1>1, <1>2
<1> QED
  BY <1>1, <1>3 DEF OutcomeType, Range

LEMMA RecordTypes ==
  ASSUME ResultTypes, NEW r \in TestResults, NEW f, tests' = Append(tests, r),
         failures' = IF f THEN Append(failures, r) ELSE failures
  PROVE  ResultTypes'
BY DEF ResultTypes

LEMMA BaseInvInit == Init => BaseInv
<1> SUFFICES ASSUME Init PROVE BaseInv
  OBVIOUS
<1>1. GoodFrame(NewT(<<>>)) /\ NewT(<<>>).id = <<>> /\ NewT(<<>>) \in Frames
  <2>1. <<>> \in Seq(Names)
    OBVIOUS
  <2> QED
    BY <2>1, NewFrame DEF GoodFrame
<1>2. StackInv(stack)
  <2>1. stack = <<NewT(<<>>)>>
    BY DEF Init
  <2> HIDE DEF NewT
  <2> QED
    BY <1>1, <2>1 DEF StackInv
<1>3. ResultTypes
  BY DEF Init, ResultTypes
<1>4. DOMAIN outcome = {}
  BY DEF Init
<1> QED
  BY <1>2, <1>3, <1>4 DEF BaseInv, OutcomeType, OpenInv, Range

LEMMA BaseInvStep == BaseInv /\ [Next]_vars => BaseInv'
<1> SUFFICES ASSUME BaseInv, [Next]_vars PROVE BaseInv'
  OBVIOUS
<1>0. StackInv(stack) /\ ResultTypes /\ OutcomeType /\ OpenInv
  BY DEF BaseInv
<1>l. \A i \in 1 .. Len(stack) : Len(stack[i].id) = i - 1
  BY <1>0 DEF StackInv
<1>1. ASSUME NEW name \in Names, Run(name) PROVE BaseInv'
  <2> DEFINE id == Append(T.id, name)
  <2>1. /\ UNCHANGED results /\ id \in Seq(Names) /\ Len(id) = Len(stack)
        /\ id \notin DOMAIN outcome
    BY <1>0, <1>1, RunFacts
  <2>2. ResultTypes'
    BY <1>0, <2>1 DEF ResultTypes, results
  <2>3. CASE /\ StackInv(stack')
             /\ Len(stack') = Len(stack) + 1
             /\ \A i \in 1 .. Len(stack) : stack'[i] = stack[i]
             /\ stack'[Len(stack) + 1].id = id
             /\ UNCHANGED outcome
    <3>1. OutcomeType'
      BY <1>0, <2>3 DEF OutcomeType
    <3> HIDE DEF id
    <3>2. ASSUME NEW i \in 1 .. Len(stack') PROVE stack'[i].id \notin DOMAIN outcome'
      <4>0. Len(stack) \in Nat
        BY <1>0 DEF StackInv
      <4>1. i \in 1 .. Len(stack) \/ i = Len(stack) + 1
        BY <2>3, <4>0
      <4> QED
        BY <1>0, <2>1, <2>3, <4>1 DEF OpenInv
    <3> QED
      BY <2>2, <2>3, <3>1, <3>2 DEF BaseInv, OpenInv
  <2>4. CASE UNCHANGED stack /\ Ended(id, "excluded")
    <3>1. "excluded" \in Outcomes
      BY DEF Outcomes
    <3> HIDE DEF id
    <3>2. OutcomeType'
      BY <1>0, <2>1, <2>4, <3>1, EndedType
    <3>3. DOMAIN outcome' = DOMAIN outcome \cup {id}
      BY <2>4, EndedFacts
    <3>4. ASSUME NEW i \in 1 .. Len(stack) PROVE stack[i].id # id
      <4>1. Len(stack[i].id) = i - 1 /\ Len(id) = Len(stack) /\ Len(stack) \in Nat
        BY <1>0, <1>l, <2>1 DEF StackInv
      <4> QED
        BY <4>1
    <3>5. OpenInv'
      BY <1>0, <2>4, <3>3, <3>4 DEF OpenInv
    <3> QED
      BY <1>0, <2>2, <2>4, <3>2, <3>5 DEF BaseInv
  <2> QED
    BY <1>0, <1>1, <2>3, <2>4, RunFacts
<1>2. ASSUME Edited PROVE BaseInv'
  <2>1. UNCHANGED <<results, outcome>>
    BY <1>2 DEF Edited
  <2>2. ResultTypes' /\ OutcomeType'
    BY <1>0, <2>1 DEF ResultTypes, OutcomeType, results
  <2>3. OpenInv'
    BY <1>0, <1>2, <2>1, EditFacts DEF OpenInv
  <2> QED
    BY <1>0, <1>2, <2>2, <2>3, EditFacts DEF BaseInv
<1>3. ASSUME Reported PROVE BaseInv'
  <2>1. PICK u \in Frames : GoodFrame(u) /\ ~u.cleaning /\ u.id = T.id
                              /\ Record(Front(stack), u)
    BY <1>3 DEF Reported
  <2>2. stack # <<>> /\ UNCHANGED outcome /\ T = Last(stack) /\ T = stack[Len(stack)]
    BY <1>3 DEF Reported, Running, T, Last
  <2>3. /\ StackInv(stack') /\ Len(stack') = Len(stack)
        /\ \A i \in 1 .. Len(stack) - 1 : stack'[i] = stack[i]
        /\ stack'[Len(stack)].id = u.id
        /\ ResultTypes'
    BY <1>0, <2>1, <2>2, RecordFacts, RecordTypes DEF ResultTypes
  <2>4. ASSUME NEW i \in 1 .. Len(stack) PROVE stack'[i].id = stack[i].id
    <3>1. i \in 1 .. Len(stack) - 1 \/ i = Len(stack)
      BY <1>0 DEF StackInv
    <3> QED
      BY <2>1, <2>2, <2>3, <3>1
  <2> QED
    BY <1>0, <2>2, <2>3, <2>4 DEF BaseInv, OpenInv, OutcomeType
<1>4. ASSUME stack # <<>>, NEW how \in Outcomes, Ended(T.id, how)
      PROVE  /\ OutcomeType'
             /\ \A i \in 1 .. Len(stack) - 1 : stack[i].id \notin DOMAIN outcome'
  <2>1. T.id \in Seq(Names)
    BY <1>0, <1>4, TopFrame DEF T
  <2>2. DOMAIN outcome' = DOMAIN outcome \cup {T.id}
    BY <1>4, EndedFacts
  <2>3. ASSUME NEW i \in 1 .. Len(stack) - 1
        PROVE  stack[i].id # T.id /\ i \in 1 .. Len(stack)
    BY <1>0, <1>4, LeaveFacts
  <2> QED
    BY <1>0, <1>4, <2>1, <2>2, <2>3, EndedType DEF OpenInv
<1>5. ASSUME stack # <<>>, stack' = Front(stack), UNCHANGED results,
             NEW how \in Outcomes, Ended(T.id, how)
      PROVE  BaseInv'
  <2>1. /\ StackInv(stack') /\ Len(stack') = Len(stack) - 1
        /\ \A i \in 1 .. Len(stack') : stack'[i] = stack[i]
    BY <1>0, <1>5, LeaveFacts
  <2>2. ResultTypes'
    BY <1>0, <1>5 DEF ResultTypes, results
  <2> QED
    BY <1>4, <1>5, <2>1, <2>2 DEF BaseInv, OpenInv
<1>6. ASSUME Skip PROVE BaseInv'
  BY <1>5, <1>6 DEF Skip, Running, Outcomes
<1>7. ASSUME Finish PROVE BaseInv'
  BY <1>5, <1>7 DEF Finish, Cleaning, Outcomes
<1>8. ASSUME CleanupPanics PROVE BaseInv'
  <2>1. stack # <<>> /\ Ended(T.id, "abandoned") /\ "abandoned" \in Outcomes
    BY <1>0, <1>8, PanicFacts DEF Outcomes
  <2>2. /\ OutcomeType'
        /\ \A i \in 1 .. Len(stack) - 1 : stack[i].id \notin DOMAIN outcome'
    BY <1>4, <2>1
  <2>3. CASE stack' = <<>> /\ UNCHANGED results
    BY <1>0, <2>2, <2>3 DEF BaseInv, StackInv, OpenInv, ResultTypes, results
  <2>4. CASE \E s \in Seq(Frames), u \in Frames :
               /\ s = Front(stack) /\ s # <<>>
               /\ GoodFrame(u) /\ ~u.cleaning /\ u.id = Last(s).id /\ u.failed
               /\ Record(Front(s), u)
    <3>1. PICK s \in Seq(Frames), u \in Frames :
               /\ s = Front(stack) /\ s # <<>>
               /\ GoodFrame(u) /\ ~u.cleaning /\ u.id = Last(s).id /\ u.failed
               /\ Record(Front(s), u)
      BY <2>4
    <3>2. /\ StackInv(s) /\ Len(s) = Len(stack) - 1 /\ Len(s) \in Nat
          /\ \A i \in 1 .. Len(s) : s[i] = stack[i]
      BY <1>0, <2>1, <3>1, LeaveFacts
    <3>3. /\ StackInv(stack') /\ Len(stack') = Len(s)
          /\ \A i \in 1 .. Len(s) - 1 : stack'[i] = s[i]
          /\ stack'[Len(s)].id = u.id
          /\ ResultTypes'
      BY <1>0, <3>1, <3>2, RecordFacts, RecordTypes DEF ResultTypes
    <3>4. ASSUME NEW i \in 1 .. Len(s) PROVE stack'[i].id = stack[i].id
      <4>1. i \in 1 .. Len(s) - 1 \/ i = Len(s)
        BY <3>2
      <4>2. Last(s) = s[Len(s)]
        BY DEF Last
      <4> QED
        BY <3>1, <3>2, <3>3, <4>1, <4>2
    <3> QED
      BY <2>2, <3>2, <3>3, <3>4 DEF BaseInv, OpenInv
  <2> QED
    BY <1>0, <1>8, <2>3, <2>4, PanicFacts
<1>9. ASSUME UNCHANGED vars PROVE BaseInv'
  BY <1>0, <1>9 DEF BaseInv, OpenInv, ResultTypes, OutcomeType, StackInv, vars, results
<1> QED
  BY <1>0, <1>1, <1>2, <1>3, <1>6, <1>7, <1>8, <1>9, StepKinds

(* The report and the stack of scopes are of their types in every run.     *)
THEOREM TypeCorrect == Spec => []TypeOK
BY BaseInvInit, BaseInvStep, BaseInvTypes, PTL DEF Spec
-----------------------------------------------------------------------------
(***************************************************************************)
(* What the steps do to the report.                                        *)
(***************************************************************************)

Result(u) == [id |-> u.id, errors |-> u.errors]

(* Either the report stays as it is, or the result of one scope, u, is     *)
(* added, and to the failures if u has failed.                             *)
LEMMA ReportStep ==
  ASSUME BaseInv, [Next]_vars
  PROVE  \/ UNCHANGED results
         \/ \E u \in Frames :
              /\ GoodFrame(u) /\ Result(u) \in TestResults
              /\ tests' = Append(tests, Result(u))
              /\ failures' = IF u.failed THEN Append(failures, Result(u)) ELSE failures
<1>0. StackInv(stack) /\ tests \in Seq(TestResults) /\ failures \in Seq(TestResults)
  BY DEF BaseInv, ResultTypes
<1>1. ASSUME Reported PROVE \E u \in Frames : 
              /\ GoodFrame(u) /\ Result(u) \in TestResults
              /\ tests' = Append(tests, Result(u))
              /\ failures' = IF u.failed THEN Append(failures, Result(u)) ELSE failures
  <2>1. PICK u \in Frames : GoodFrame(u) /\ u.id = Last(stack).id
                              /\ Record(Front(stack), u)
    BY <1>1 DEF Reported, T
  <2>2. stack # <<>>
    BY <1>1 DEF Reported, Running
  <2> QED
    BY <1>0, <2>1, <2>2, RecordFacts DEF Result
<1>2. ASSUME CleanupPanics, ~UNCHANGED results PROVE \E u \in Frames : 
              /\ GoodFrame(u) /\ Result(u) \in TestResults
              /\ tests' = Append(tests, Result(u))
              /\ failures' = IF u.failed THEN Append(failures, Result(u)) ELSE failures
  <2>1. PICK s \in Seq(Frames), u \in Frames :
               /\ s = Front(stack) /\ s # <<>>
               /\ GoodFrame(u) /\ u.id = Last(s).id
               /\ Record(Front(s), u)
    BY <1>0, <1>2, PanicFacts
  <2>2. StackInv(s)
    BY <1>0, <1>2, <2>1, PanicFacts, LeaveFacts
  <2> QED
    BY <1>0, <2>1, <2>2, RecordFacts DEF Result
<1>3. ASSUME NEW name \in Names, Run(name) PROVE UNCHANGED results
  BY <1>3 DEF Run
<1> QED
  BY <1>0, <1>1, <1>2, <1>3, StepKinds DEF Edited, Skip, Finish, vars

LEMMA FailuresExactInit == Init => FailuresExact
BY DEF Init, FailuresExact, Range

LEMMA FailuresExactStep ==
  BaseInv /\ FailuresExact /\ [Next]_vars => FailuresExact'
<1> SUFFICES ASSUME BaseInv, FailuresExact, [Next]_vars PROVE FailuresExact'
  OBVIOUS
<1>1. CASE UNCHANGED results
  BY <1>1 DEF FailuresExact, results
<1>2. ASSUME NEW u \in Frames,
             GoodFrame(u), Result(u) \in TestResults,
             tests' = Append(tests, Result(u)),
             failures' = IF u.failed THEN Append(failures, Result(u)) ELSE failures
      PROVE  FailuresExact'
  <2>1. tests \in Seq(TestResults) /\ failures \in Seq(TestResults)
    BY DEF BaseInv, ResultTypes
  <2>2. Range(tests') = Range(tests) \cup {Result(u)}
    BY <1>2, <2>1, RangeAppend
  <2>3. Result(u).errors = u.errors /\ (u.failed <=> u.errors > 0)
    BY <1>2 DEF Result, GoodFrame, FrameInv
  <2>4. CASE u.failed
    <3>1. Range(failures') = Range(failures) \cup {Result(u)}
      BY <1>2, <2>1, <2>4, RangeAppend
    <3> QED
      BY <2>2, <2>3, <2>4, <3>1 DEF FailuresExact
  <2>5. CASE ~u.failed
    <3>1. Range(failures') = Range(failures)
      BY <1>2, <2>5
    <3> QED
      BY <2>2, <2>3, <2>5, <3>1 DEF FailuresExact
  <2> QED
    BY <2>4, <2>5
<1> QED
  BY <1>1, <1>2, ReportStep

(* The failures of the report are exactly its results with an error, in    *)
(* whatever order scopes fail, panic, skip and clean up.                   *)
THEOREM Failures == Spec => []FailuresExact
BY BaseInvInit, BaseInvStep, FailuresExactInit, FailuresExactStep, PTL DEF Spec

(* A scope that is finished has run all its cleanups, the last one first:  *)
(* of the steps, only Finish finishes a scope that is on the stack.        *)
THEOREM Cleanups == Spec => CleanedUpInReverse
<1> DEFINE A == \A t \in Left :
                  outcome'[t.id] = "finished"
                    => t.ran = Reverse([n \in 1 .. t.deferred |-> n])
<1>1. BaseInv /\ [Next]_vars => A
  <2> SUFFICES ASSUME BaseInv, [Next]_vars, NEW t \in Left, outcome'[t.id] = "finished"
               PROVE  t.ran = Reverse([n \in 1 .. t.deferred |-> n])
    OBVIOUS
  <2>0. StackInv(stack) /\ OpenInv /\ stack \in Seq(Frames)
    BY DEF BaseInv, StackInv
  <2>1. PICK i \in 1 .. Len(stack) : t = stack[i]
    BY <2>0 DEF Left, Range
  <2>2. t.id \in DOMAIN outcome' /\ t.id \notin DOMAIN outcome
    BY <2>0, <2>1 DEF Left, OpenInv
  <2>3. ASSUME Finish PROVE t = T /\ T.cleanups = 0 /\ GoodFrame(T)
    <3>1. stack # <<>> /\ Ended(T.id, "finished") /\ T.cleanups = 0
      BY <2>3 DEF Finish, Cleaning
    <3>2. t.id = T.id
      <4>1. DOMAIN outcome' = DOMAIN outcome \cup {T.id}
        BY <3>1, EndedFacts
      <4> QED
        BY <2>2, <4>1
    <3>3. i = Len(stack)
      BY <2>0, <2>1, <3>1, <3>2, LeaveFacts
    <3> QED
      BY <2>0, <2>1, <3>1, <3>3, TopFrame DEF T, Last
  <2>4. Finish
    <3>1. ASSUME NEW name \in Names, Run(name) PROVE FALSE
      <4>1. Ended(Append(T.id, name), "excluded")
        BY <2>0, <2>2, <3>1, RunFacts
      <4> DEFINE id == Append(T.id, name)
      <4> HIDE DEF id
      <4>2. DOMAIN outcome' = DOMAIN outcome \cup {id} /\ outcome'[id] = "excluded"
        BY <4>1, EndedFacts DEF id
      <4> QED
        BY <2>2, <4>2
    <3>2. ASSUME NEW how, how # "finished", Ended(T.id, how) PROVE FALSE
      BY <2>2, <3>2, EndedFacts
    <3> QED
      BY <2>0, <2>2, <3>1, <3>2, StepKinds DEF Edited, Reported, Skip, CleanupPanics, vars
  <2>5. /\ t.ran \in Seq(Nat) /\ t.deferred \in Nat /\ Len(t.ran) = t.deferred
        /\ \A k \in 1 .. Len(t.ran) : t.ran[k] = t.deferred + 1 - k
    BY <2>3, <2>4, FrameFields DEF GoodFrame, FrameInv
  <2> DEFINE s == [n \in 1 .. t.deferred |-> n]
  <2>6. s \in Seq(Nat) /\ Len(s) = t.deferred
    BY <2>5
  <2>7. ASSUME NEW k \in 1 .. t.deferred
        PROVE  s[(Len(s) - k) + 1] = t.deferred + 1 - k
    <3>1. (Len(s) - k) + 1 = t.deferred + 1 - k
      BY <2>5, <2>6
    <3>2. t.deferred + 1 - k \in 1 .. t.deferred
      BY <2>5
    <3> QED
      BY <3>1, <3>2
  <2>8. Reverse(s) = [k \in 1 .. t.deferred |-> t.deferred + 1 - k]
    <3> HIDE DEF s
    <3> QED
      BY <2>6, <2>7 DEF Reverse
  <2>9. t.ran = [k \in 1 .. t.deferred |-> t.deferred + 1 - k]
    <3>1. t.ran = [k \in 1 .. t.deferred |-> t.ran[k]]
      BY <2>5
    <3>2. \A k \in 1 .. t.deferred : t.ran[k] = t.deferred + 1 - k
      BY <2>5
    <3> QED
      BY <3>1, <3>2, Zenon
  <2> QED
    BY <2>8, <2>9
<1>2. BaseInv /\ [Next]_vars => [A]_vars
  BY <1>1
<1> QED
  BY <1>2, BaseInvInit, BaseInvStep, PTL DEF Spec, CleanedUpInReverse
-----------------------------------------------------------------------------
(***************************************************************************)
(* One result for each scope.                                              *)
(***************************************************************************)

LEMMA PrefixAppend ==
  ASSUME NEW S, NEW p \in Seq(S), NEW q \in Seq(S), NEW e \in S,
         IsPrefix(p, Append(q, e))
  PROVE  IsPrefix(p, q) \/ p = Append(q, e)
<1> DEFINE a == Append(q, e)
<1>1. /\ a \in Seq(S) /\ Len(a) = Len(q) + 1 /\ Len(q) \in Nat /\ Len(p) \in Nat
      /\ \A i \in 1 .. Len(q) : a[i] = q[i]
  BY AppendFacts
<1> HIDE DEF a
<1>2. Len(p) <= Len(a) /\ SubSeq(p, 1, Len(p)) = SubSeq(a, 1, Len(p))
  BY DEF IsPrefix, a
<1>3. Len(p) \in 0 .. Len(p) /\ Len(p) \in 0 .. Len(a)
  BY <1>1, <1>2
<1>4. \A i \in 1 .. Len(p) : p[i] = a[i]
  BY <1>1, <1>2, <1>3, InitialSegment
<1>5. CASE Len(p) <= Len(q)
  <2>1. Len(p) \in 0 .. Len(q)
    BY <1>1, <1>5
  <2>2. \A i \in 1 .. Len(p) : p[i] = q[i]
    BY <1>1, <1>4, <1>5
  <2>3. SubSeq(p, 1, Len(p)) = SubSeq(q, 1, Len(p))
    <3>1. /\ SubSeq(p, 1, Len(p)) \in Seq(S) /\ Len(SubSeq(p, 1, Len(p))) = Len(p)
          /\ \A i \in 1 .. Len(p) : SubSeq(p, 1, Len(p))[i] = p[i]
      BY <1>3, InitialSegment
    <3>2. /\ SubSeq(q, 1, Len(p)) \in Seq(S) /\ Len(SubSeq(q, 1, Len(p))) = Len(p)
          /\ \A i \in 1 .. Len(p) : SubSeq(q, 1, Len(p))[i] = q[i]
      BY <2>1, InitialSegment
    <3> QED
      BY <2>2, <3>1, <3>2
  <2> QED
    BY <1>5, <2>3 DEF IsPrefix
<1>6. CASE ~(Len(p) <= Len(q))
  <2>1. Len(p) = Len(a)
    BY <1>1, <1>2, <1>6
  <2>2. p = a
    BY <1>1, <1>4, <2>1
  <2> QED
    BY <2>2 DEF a
<1> QED
  BY <1>5, <1>6

LEMMA EndedAsFacts ==
  ASSUME NEW id, NEW how, id \notin DOMAIN outcome, Ended(id, how), NEW w
  PROVE  EndedAs(w)' = IF w = how THEN EndedAs(w) \cup {id} ELSE EndedAs(w)
<1>1. /\ DOMAIN outcome' = DOMAIN outcome \cup {id} /\ outcome'[id] = how
      /\ \A x \in DOMAIN outcome : outcome'[x] = outcome[x]
  BY EndedFacts
<1> QED
  BY <1>1 DEF EndedAs

(* The scopes of s that run their cleanups.                                *)
CleaningIn(s) == {t.id : t \in {t \in Range(s) : t.cleaning}}

LEMMA CleaningIsLast ==
  ASSUME NEW s, StackInv(s)
  PROVE  /\ s # <<>> /\ Last(s).cleaning => CleaningIn(s) = {Last(s).id}
         /\ s = <<>> \/ ~Last(s).cleaning => CleaningIn(s) = {}
<1>0. s \in Seq(Frames) /\ Len(s) \in Nat
  BY DEF StackInv
<1>1. \A i \in 1 .. Len(s) - 1 : ~s[i].cleaning
  BY DEF StackInv
<1>2. ASSUME NEW i \in 1 .. Len(s), s[i].cleaning
      PROVE  s # <<>> /\ s[i] = Last(s)
  <2>1. i = Len(s)
    BY <1>0, <1>1, <1>2
  <2> QED
    BY <1>0, <2>1 DEF Last
<1>3. s # <<>> => Last(s) \in Range(s)
  BY <1>0 DEF Last, Range
<1>4. ASSUME NEW t \in Range(s), t.cleaning PROVE s # <<>> /\ t = Last(s)
  BY <1>0, <1>2, <1>4 DEF Range
<1> QED
  BY <1>3, <1>4 DEF CleaningIn

(* The two parts of OneResultEach.                                         *)
InOrder == \A i, j \in 1 .. Len(tests) : i < j => ~IsPrefix(tests[i].id, tests[j].id)
Complete == Recorded = CleaningIn(stack) \cup EndedAs("finished") \cup EndedAs("abandoned")

(* A result is never recorded for a scope around one that still runs.      *)
RecordedInv ==
  \A i \in 1 .. Len(tests), k \in 1 .. Len(stack) :
    IsPrefix(tests[i].id, stack[k].id) => stack[k].cleaning

ResultInv == InOrder /\ Complete /\ RecordedInv /\ CleanupPanicReported

LEMMA ResultInvParts == ResultInv => OneResultEach
BY DEF ResultInv, InOrder, Complete, CleaningIn, OneResultEach

LEMMA ResultInvInit == Init => ResultInv
<1> SUFFICES ASSUME Init PROVE ResultInv
  OBVIOUS
<1>1. tests = <<>> /\ DOMAIN outcome = {} /\ stack = <<NewT(<<>>)>>
  BY DEF Init
<1>2. Recorded = {} /\ EndedAs("finished") = {} /\ EndedAs("abandoned") = {}
  BY <1>1 DEF Recorded, EndedAs, Range
<1>3. CleaningIn(stack) = {}
  BY <1>1 DEF CleaningIn, Range, NewT
<1> QED
  BY <1>1, <1>2, <1>3
     DEF ResultInv, InOrder, Complete, RecordedInv, CleanupPanicReported

(* The result of the scope at n is added; those above it have been left.   *)
LEMMA AddResult ==
  ASSUME BaseInv, InOrder, RecordedInv,
         NEW n \in 1 .. Len(stack), ~stack[n].cleaning,
         NEW r \in TestResults, r.id = stack[n].id, tests' = Append(tests, r),
         StackInv(stack'), Len(stack') = n, stack'[n].id = r.id, stack'[n].cleaning,
         \A k \in 1 .. n - 1 : stack'[k] = stack[k]
  PROVE  /\ InOrder' /\ RecordedInv'
         /\ Recorded' = Recorded \cup {r.id}
         /\ CleaningIn(stack') = {r.id}
<1>0. tests \in Seq(TestResults) /\ Len(tests) \in Nat /\ Len(stack) \in Nat
  <2>1. StackInv(stack) /\ ResultTypes
    BY DEF BaseInv
  <2>2. stack \in Seq(Frames) /\ tests \in Seq(TestResults)
    BY <2>1 DEF StackInv, ResultTypes
  <2> QED
    BY ONLY <2>2
<1>1. /\ Len(tests') = Len(tests) + 1 /\ tests'[Len(tests) + 1] = r
      /\ \A i \in 1 .. Len(tests) : tests'[i] = tests[i]
  BY <1>0, AppendFacts
<1>2. \A i \in 1 .. Len(tests') : i \in 1 .. Len(tests) \/ i = Len(tests) + 1
  BY <1>0, <1>1
<1>3. InOrder'
  <2> SUFFICES ASSUME NEW i \in 1 .. Len(tests'), NEW j \in 1 .. Len(tests'), i < j
               PROVE  ~IsPrefix(tests'[i].id, tests'[j].id)
    BY DEF InOrder
  <2>1. i \in 1 .. Len(tests)
    BY <1>0, <1>1
  <2>2. CASE j \in 1 .. Len(tests)
    BY <1>1, <2>1, <2>2 DEF InOrder
  <2>3. CASE j = Len(tests) + 1
    BY <1>1, <2>1, <2>3 DEF RecordedInv
  <2> QED
    BY <1>2, <2>2, <2>3
<1>4. RecordedInv'
  <2> SUFFICES ASSUME NEW i \in 1 .. Len(tests'), NEW k \in 1 .. Len(stack'),
                      IsPrefix(tests'[i].id, stack'[k].id)
               PROVE  stack'[k].cleaning
    BY DEF RecordedInv
  <2>1. CASE k = n
    BY <2>1
  <2>2. CASE k # n
    <3>1. k \in 1 .. n - 1 /\ k \in 1 .. Len(stack) /\ k < n
      BY <1>0, <2>2
    <3>2. stack'[k] = stack[k]
      BY <3>1
    <3>3. CASE i \in 1 .. Len(tests)
      BY <1>1, <3>1, <3>2, <3>3 DEF RecordedInv
    <3>4. CASE i = Len(tests) + 1
      <4>1. Len(r.id) = n - 1 /\ Len(stack[k].id) = k - 1
        BY <3>1 DEF BaseInv, StackInv
      <4>2. Len(r.id) <= Len(stack[k].id)
        BY <1>1, <3>2, <3>4 DEF IsPrefix
      <4> QED
        BY <3>1, <4>1, <4>2
    <3> QED
      BY <1>2, <3>3, <3>4
  <2> QED
    BY <2>1, <2>2
<1>5. Recorded' = Recorded \cup {r.id}
  <2>1. Range(tests') = Range(tests) \cup {r}
    BY <1>0, RangeAppend
  <2> QED
    BY <2>1 DEF Recorded
<1>6. CleaningIn(stack') = {r.id}
  <2>1. stack' # <<>> /\ Last(stack') = stack'[n]
    BY <1>0, TopFrame DEF Last
  <2> QED
    BY <2>1, CleaningIsLast
<1> QED
  BY <1>3, <1>4, <1>5, <1>6

(* A step that leaves the report alone, and no scope that has a result.    *)
LEMMA SameReport ==
  ASSUME ResultInv, UNCHANGED results, RecordedInv',
         \A how \in {"finished", "abandoned"} : EndedAs(how)' = EndedAs(how),
         CleaningIn(stack') = CleaningIn(stack)
  PROVE  ResultInv'
<1>1. InOrder' /\ Recorded' = Recorded /\ Failed' = Failed
  BY DEF ResultInv, InOrder, Recorded, Failed, results
<1> QED
  BY <1>1 DEF ResultInv, Complete, CleanupPanicReported

(* T.Run: the results are those of other scopes, and not of those around   *)
(* the new one, which are still running.                                   *)
LEMMA RunResult ==
  ASSUME BaseInv, ResultInv, NEW name \in Names, Run(name)
  PROVE  ResultInv'
<1> DEFINE id == Append(T.id, name)
<1>0. StackInv(stack) /\ ResultTypes
  BY DEF BaseInv
<1>1. /\ stack # <<>> /\ ~T.cleaning /\ UNCHANGED results
      /\ id \in Seq(Names) /\ id \notin DOMAIN outcome
  BY <1>0, RunFacts
<1>2. T = stack[Len(stack)] /\ T = Last(stack) /\ Len(stack) \in Nat \ {0}
  BY <1>0, <1>1, LeaveFacts DEF T
<1>3. T.id \in Seq(Names)
  BY <1>0, <1>1, TopFrame DEF T
<1>4. CleaningIn(stack) = {}
  BY <1>0, <1>1, <1>2, CleaningIsLast
<1>5. ASSUME NEW i \in 1 .. Len(tests) PROVE ~IsPrefix(tests[i].id, id)
  <2>1. tests[i] \in TestResults
    BY <1>0 DEF ResultTypes
  <2>2. tests[i].id \in Seq(Names)
    BY <2>1 DEF TestResults
  <2>3. ~IsPrefix(tests[i].id, T.id)
    <3>1. Len(stack) \in 1 .. Len(stack)
      BY <1>2
    <3>2. IsPrefix(tests[i].id, stack[Len(stack)].id) => stack[Len(stack)].cleaning
      BY <3>1 DEF ResultInv, RecordedInv
    <3> QED
      BY <1>1, <1>2, <3>2
  <2>4. tests[i].id # id
    <3>1. tests[i].id \in Recorded
      <4>1. tests[i] \in Range(tests)
        BY DEF Range, ResultTypes
      <4> QED
        BY <4>1 DEF Recorded
    <3>2. tests[i].id \in DOMAIN outcome
      BY <3>1, <1>4 DEF ResultInv, Complete, EndedAs
    <3> QED
      BY <1>1, <3>2
  <2> QED
    BY <1>3, <2>2, <2>3, <2>4, PrefixAppend
<1>6. CASE /\ StackInv(stack') /\ stack' # <<>>
           /\ Len(stack') = Len(stack) + 1
           /\ \A i \in 1 .. Len(stack) : stack'[i] = stack[i]
           /\ stack'[Len(stack) + 1].id = id
           /\ ~stack'[Len(stack) + 1].cleaning
           /\ UNCHANGED outcome
  <2> HIDE DEF id
  <2>1. CleaningIn(stack') = {}
    <3>1. Last(stack') = stack'[Len(stack) + 1]
      BY <1>6 DEF Last
    <3> QED
      BY <1>6, <3>1, CleaningIsLast
  <2>2. RecordedInv'
    <3> SUFFICES ASSUME NEW i \in 1 .. Len(tests), NEW k \in 1 .. Len(stack) + 1,
                        IsPrefix(tests[i].id, stack'[k].id)
                 PROVE  stack'[k].cleaning
      BY <1>1, <1>6 DEF RecordedInv, results
    <3>1. CASE k \in 1 .. Len(stack)
      BY <1>6, <3>1 DEF ResultInv, RecordedInv
    <3>2. CASE k = Len(stack) + 1
      BY <1>5, <1>6, <3>2
    <3> QED
      BY <1>2, <3>1, <3>2
  <2>3. \A how \in {"finished", "abandoned"} : EndedAs(how)' = EndedAs(how)
    BY <1>6 DEF EndedAs
  <2> QED
    BY <1>1, <1>4, <2>1, <2>2, <2>3, SameReport
<1>7. CASE UNCHANGED stack /\ Ended(id, "excluded")
  <2> HIDE DEF id
  <2>1. \A how \in {"finished", "abandoned"} : EndedAs(how)' = EndedAs(how)
    BY <1>1, <1>7, EndedAsFacts
  <2>2. RecordedInv'
    BY <1>1, <1>7 DEF ResultInv, RecordedInv, results
  <2> QED
    BY <1>1, <1>7, <2>1, <2>2, SameReport
<1> QED
  BY <1>0, <1>6, <1>7, RunFacts

(* A scope is left: it was cleaning up if it finishes, and not if it is    *)
(* skipped.                                                                *)
LEMMA LeaveResult ==
  ASSUME BaseInv, ResultInv, stack # <<>>, stack' = Front(stack), UNCHANGED results,
         NEW how, Ended(T.id, how),
         \/ how = "finished" /\ T.cleaning
         \/ how = "skipped" /\ ~T.cleaning
  PROVE  ResultInv'
<1>0. StackInv(stack) /\ OpenInv
  BY DEF BaseInv
<1>1. /\ StackInv(stack') /\ Len(stack') = Len(stack) - 1
      /\ \A i \in 1 .. Len(stack') : stack'[i] = stack[i]
      /\ stack' # <<>> => ~Last(stack').cleaning
      /\ T = stack[Len(stack)] /\ Len(stack) \in Nat \ {0}
  BY <1>0, LeaveFacts
<1>2. CleaningIn(stack') = {}
  BY <1>1, CleaningIsLast
<1>3. /\ T.cleaning => CleaningIn(stack) = {T.id}
      /\ ~T.cleaning => CleaningIn(stack) = {}
  BY <1>0, CleaningIsLast DEF T
<1>4. T.id \notin DOMAIN outcome
  BY <1>0, <1>1 DEF OpenInv
<1>5. /\ EndedAs("abandoned")' = EndedAs("abandoned")
      /\ EndedAs("finished")' = IF how = "finished" THEN EndedAs("finished") \cup {T.id}
                                                    ELSE EndedAs("finished")
  BY <1>4, EndedAsFacts
<1>6. RecordedInv'
  BY <1>1 DEF ResultInv, RecordedInv, results
<1>7. InOrder' /\ Recorded' = Recorded /\ Failed' = Failed
  BY DEF ResultInv, InOrder, Recorded, Failed, results
<1>8. Complete'
  BY <1>2, <1>3, <1>5, <1>7 DEF ResultInv, Complete
<1> QED
  BY <1>5, <1>6, <1>7, <1>8 DEF ResultInv, CleanupPanicReported

(* The innermost scope ends by itself.                                     *)
LEMMA ReportedResult ==
  ASSUME BaseInv, ResultInv, Reported
  PROVE  ResultInv'
<1>0. StackInv(stack) /\ tests \in Seq(TestResults) /\ failures \in Seq(TestResults)
  BY DEF BaseInv, ResultTypes
<1>1. PICK u \in Frames : GoodFrame(u) /\ u.id = T.id /\ Record(Front(stack), u)
  BY DEF Reported
<1>2. stack # <<>> /\ ~T.cleaning /\ UNCHANGED outcome
  BY DEF Reported, Running
<1>3. T = Last(stack) /\ T = stack[Len(stack)] /\ Len(stack) \in 1 .. Len(stack)
  <2>1. T = stack[Len(stack)] /\ Len(stack) \in Nat \ {0}
    BY <1>0, <1>2, LeaveFacts
  <2> QED
    BY <2>1 DEF T
<1>4. /\ StackInv(stack') /\ Len(stack') = Len(stack)
      /\ \A i \in 1 .. Len(stack) - 1 : stack'[i] = stack[i]
      /\ stack'[Len(stack)].id = u.id /\ stack'[Len(stack)].cleaning
      /\ Result(u) \in TestResults /\ tests' = Append(tests, Result(u))
      /\ failures' = IF u.failed THEN Append(failures, Result(u)) ELSE failures
  BY <1>0, <1>1, <1>2, <1>3, RecordFacts DEF Result
<1>5. Result(u).id = u.id
  BY DEF Result
<1>6. /\ InOrder' /\ RecordedInv'
      /\ Recorded' = Recorded \cup {u.id} /\ CleaningIn(stack') = {u.id}
  <2> DEFINE r == Result(u)
  <2> HIDE DEF r
  <2>1. r.id = stack[Len(stack)].id /\ r.id = u.id /\ r \in TestResults
    BY <1>1, <1>3, <1>4, <1>5 DEF r
  <2>2. stack'[Len(stack)].id = r.id /\ tests' = Append(tests, r)
    BY <1>4, <1>5 DEF r
  <2> QED
    BY <1>2, <1>3, <1>4, <2>1, <2>2, AddResult DEF ResultInv
<1>7. CleaningIn(stack) = {}
  BY <1>0, <1>2, <1>3, CleaningIsLast
<1>8. \A how : EndedAs(how)' = EndedAs(how)
  BY <1>2 DEF EndedAs
<1>9. Complete'
  BY <1>6, <1>7, <1>8 DEF ResultInv, Complete
<1>10. Failed \subseteq Failed'
  BY <1>0, <1>4, RangeAppend DEF Failed
<1> QED
  BY <1>6, <1>8, <1>9, <1>10 DEF ResultInv, CleanupPanicReported

(* A cleanup of the innermost scope panics.                                *)
LEMMA PanicResult ==
  ASSUME BaseInv, ResultInv, CleanupPanics
  PROVE  ResultInv'
<1>0. /\ StackInv(stack) /\ OpenInv
      /\ tests \in Seq(TestResults) /\ failures \in Seq(TestResults)
  BY DEF BaseInv, ResultTypes
<1>1. stack # <<>> /\ T.cleaning /\ Ended(T.id, "abandoned")
  BY <1>0, PanicFacts
<1>2. T = stack[Len(stack)] /\ T = Last(stack) /\ Len(stack) \in Nat \ {0}
  BY <1>0, <1>1, LeaveFacts DEF T
<1>3. CleaningIn(stack) = {T.id}
  BY <1>0, <1>1, <1>2, CleaningIsLast
<1>4. /\ EndedAs("abandoned")' = EndedAs("abandoned") \cup {T.id}
      /\ EndedAs("finished")' = EndedAs("finished")
  <2>1. Len(stack) \in 1 .. Len(stack)
    BY <1>2
  <2>2. T.id \notin DOMAIN outcome
    BY <1>0, <1>2, <2>1 DEF OpenInv
  <2> QED
    BY <1>1, <2>2, EndedAsFacts
<1>5. CASE stack' = <<>> /\ UNCHANGED results /\ T.id = <<>>
  <2>1. InOrder' /\ RecordedInv' /\ Recorded' = Recorded /\ Failed' = Failed
    BY <1>5 DEF ResultInv, InOrder, RecordedInv, Recorded, Failed, results
  <2>2. CleaningIn(stack') = {}
    BY <1>5 DEF CleaningIn, Range
  <2>3. Complete'
    BY <1>3, <1>4, <2>1, <2>2 DEF ResultInv, Complete
  <2> QED
    BY <1>4, <1>5, <2>1, <2>3 DEF ResultInv, CleanupPanicReported
<1>6. CASE \E s \in Seq(Frames), u \in Frames :
             /\ s = Front(stack) /\ s # <<>>
             /\ GoodFrame(u) /\ ~u.cleaning /\ u.id = Last(s).id /\ u.failed
             /\ Record(Front(s), u)
  <2>1. PICK s \in Seq(Frames), u \in Frames :
             /\ s = Front(stack) /\ s # <<>>
             /\ GoodFrame(u) /\ u.id = Last(s).id /\ u.failed
             /\ Record(Front(s), u)
    BY <1>6
  <2>2. /\ StackInv(s) /\ Len(s) = Len(stack) - 1 /\ Len(s) \in Nat \ {0}
        /\ \A i \in 1 .. Len(s) : s[i] = stack[i]
        /\ ~Last(s).cleaning /\ Front(T.id) = Last(s).id
    BY <1>0, <1>1, <2>1, LeaveFacts, TopFrame
  <2>3. Len(s) \in 1 .. Len(s) /\ Len(s) \in 1 .. Len(stack) /\ Last(s) = stack[Len(s)]
    BY <1>2, <2>2 DEF Last
  <2>4. /\ StackInv(stack') /\ Len(stack') = Len(s)
        /\ \A i \in 1 .. Len(s) - 1 : stack'[i] = s[i]
        /\ stack'[Len(s)].id = u.id /\ stack'[Len(s)].cleaning
        /\ Result(u) \in TestResults /\ tests' = Append(tests, Result(u))
        /\ failures' = Append(failures, Result(u))
    BY <1>0, <2>1, <2>2, RecordFacts DEF Result
  <2>5. Result(u).id = u.id
    BY DEF Result
  <2>6. /\ InOrder' /\ RecordedInv'
        /\ Recorded' = Recorded \cup {u.id} /\ CleaningIn(stack') = {u.id}
    <3> DEFINE r == Result(u)
    <3> HIDE DEF r
    <3>1. r.id = stack[Len(s)].id /\ r.id = u.id /\ r \in TestResults
      BY <2>1, <2>3, <2>4, <2>5 DEF r
    <3>2. stack'[Len(s)].id = r.id /\ tests' = Append(tests, r)
      BY <2>4, <2>5 DEF r
    <3>3. \A i \in 1 .. Len(s) - 1 : stack'[i] = stack[i]
      BY <2>2, <2>4
    <3>4. ~stack[Len(s)].cleaning
      BY <2>2, <2>3
    <3> QED
      BY <2>3, <2>4, <3>1, <3>2, <3>3, <3>4, AddResult DEF ResultInv
  <2>7. Complete'
    BY <1>3, <1>4, <2>6 DEF ResultInv, Complete
  <2>8. Failed' = Failed \cup {u.id}
    <3>1. Range(failures') = Range(failures) \cup {Result(u)}
      BY <1>0, <2>4, RangeAppend
    <3> QED
      BY <2>5, <3>1 DEF Failed
  <2>9. CleanupPanicReported'
    BY <1>4, <2>1, <2>2, <2>8 DEF ResultInv, CleanupPanicReported
  <2> QED
    BY <2>6, <2>7, <2>9 DEF ResultInv
<1> QED
  BY <1>0, <1>5, <1>6, PanicFacts

LEMMA ResultInvStep == BaseInv /\ ResultInv /\ [Next]_vars => ResultInv'
<1> SUFFICES ASSUME BaseInv, ResultInv, [Next]_vars PROVE ResultInv'
  OBVIOUS
<1>0. StackInv(stack)
  BY DEF BaseInv
<1>1. ASSUME Edited PROVE ResultInv'
  <2>1. /\ StackInv(stack') /\ stack' # <<>> /\ Len(stack') = Len(stack)
        /\ \A i \in 1 .. Len(stack) :
             stack'[i].id = stack[i].id /\ stack'[i].cleaning = stack[i].cleaning
        /\ stack # <<>> /\ UNCHANGED <<results, outcome>>
    BY <1>0, <1>1, EditFacts DEF Edited
  <2>2. /\ Last(stack').id = Last(stack).id
        /\ Last(stack').cleaning = Last(stack).cleaning
    <3>1. Len(stack) \in 1 .. Len(stack)
      BY <1>0, <2>1, TopFrame
    <3> QED
      BY <2>1, <3>1 DEF Last
  <2>3. CleaningIn(stack') = CleaningIn(stack)
    BY <1>0, <2>1, <2>2, CleaningIsLast
  <2>4. RecordedInv'
    BY <2>1 DEF ResultInv, RecordedInv, results
  <2>5. \A how \in {"finished", "abandoned"} : EndedAs(how)' = EndedAs(how)
    BY <2>1 DEF EndedAs
  <2> QED
    BY <2>1, <2>3, <2>4, <2>5, SameReport
<1>2. ASSUME Skip PROVE ResultInv'
  BY <1>2, LeaveResult DEF Skip, Running
<1>3. ASSUME Finish PROVE ResultInv'
  BY <1>3, LeaveResult DEF Finish, Cleaning
<1>4. ASSUME UNCHANGED vars PROVE ResultInv'
  BY <1>4 DEF ResultInv, InOrder, Complete, RecordedInv, CleanupPanicReported,
              CleaningIn, Recorded, Failed, EndedAs, vars, results
<1> QED
  BY <1>0, <1>1, <1>2, <1>3, <1>4, RunResult, ReportedResult, PanicResult, StepKinds

(* Every scope that was entered, and neither skipped nor still running,    *)
(* has one result, after those of its subtests.                            *)
THEOREM OneResult == Spec => []OneResultEach
BY BaseInvInit, BaseInvStep, ResultInvInit, ResultInvStep, ResultInvParts, PTL DEF Spec

(* The scope around one that a panic of a cleanup left is among the        *)
(* failures.                                                               *)
THEOREM PanicsReported == Spec => []CleanupPanicReported
<1>1. ResultInv => CleanupPanicReported
  BY DEF ResultInv
<1> QED
  BY <1>1, BaseInvInit, BaseInvStep, ResultInvInit, ResultInvStep, PTL DEF Spec
=============================================================================
