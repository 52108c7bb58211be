------------------------ MODULE ContractTest_proofs ------------------------
(***************************************************************************)
(* Proofs about ContractTest and ContractPlan, for any scripts that meet   *)
(* their assumptions, and any number of requests of the client.            *)
(***************************************************************************)
EXTENDS ContractPlan, SequenceTheorems, WellFoundedInduction, TLAPS

(***************************************************************************)
(* Induction, and what recursive functions compute.                        *)
(***************************************************************************)

(* A set of natural numbers that is not empty has a least one.             *)
LEMMA MinIsLeast ==
  ASSUME NEW S \in SUBSET Nat, S # {}
  PROVE  Min(S) \in S /\ \A y \in S : Min(S) <= y
<1>1. PICK x \in S : \A y \in S : ~ (<<y, x>> \in OpToRel(<, Nat))
  BY WFMin, NatLessThanWellFounded
<1>2. \A y \in S : ~(y < x)
  BY <1>1 DEF OpToRel
<1>3. \E z \in S : \A y \in S : z <= y
  BY <1>2
<1> QED
  BY <1>3 DEF Min

(* A set with 0, and with the successor of each of its numbers, has all    *)
(* natural numbers: the least one that it has not would have a predecessor.*)
LEMMA Induction ==
  ASSUME NEW S, 0 \in S, \A n \in Nat : n \in S => n + 1 \in S
  PROVE  \A n \in Nat : n \in S
<1> DEFINE Others == {n \in Nat : n \notin S}
           x == Min(Others)
<1>1. SUFFICES ASSUME Others # {} PROVE FALSE
  OBVIOUS
<1>2. x \in Others /\ \A y \in Others : x <= y
  BY <1>1, MinIsLeast
<1> HIDE DEF x
<1>3. x - 1 \in Nat /\ x - 1 < x
  BY <1>2
<1>4. x - 1 \in S
  BY <1>2, <1>3
<1> QED
  BY <1>2, <1>3, <1>4

(* A bounded set that is not empty has a greatest number.                  *)
LEMMA MaxIsGreatest ==
  ASSUME NEW n \in Nat, NEW S \in SUBSET (0 .. n), S # {}
  PROVE  Max(S) \in S
<1> DEFINE Rest == {n - y : y \in S}
           m == Min(Rest)
<1>1. Rest \in SUBSET Nat /\ Rest # {}
  <2>1. \A y \in S : n - y \in Nat /\ n - y \in Rest
    OBVIOUS
  <2> QED
    BY <2>1
<1>2. m \in Rest /\ \A r \in Rest : m <= r
  BY <1>1, MinIsLeast
<1> HIDE DEF m
<1>3. PICK x \in S : m = n - x
  BY <1>2
<1>4. \A y \in S : x >= y
  BY <1>2, <1>3
<1> QED
  BY <1>4 DEF Max

(* An item that is appended to the second of two sequences is appended to  *)
(* both.                                                                   *)
LEMMA AppendToSecond ==
  ASSUME NEW S, NEW s \in Seq(S), NEW t \in Seq(S), NEW e \in S
  PROVE  /\ s \o t \in Seq(S)
         /\ s \o Append(t, e) = Append(s \o t, e)
<1>1. <<e>> \in Seq(S) /\ s \o t \in Seq(S)
  BY ConcatProperties
<1> QED
  BY <1>1, AppendIsConcat, ConcatAssociative

(* What is defined from 0 up, step by step, ...                            *)
StepByStep(S, b, n, step) ==
  {f \in [0 .. n -> S] : f[0] = b /\ \A i \in 1 .. n : f[i] = step[<<f[i - 1], i>>]}

(* ... exists, ...                                                         *)
LEMMA Recursion ==
  ASSUME NEW S, NEW b \in S, NEW n \in Nat, NEW step \in [S \X (1 .. n) -> S]
  PROVE  StepByStep(S, b, n, step) # {}
<1> DEFINE Upto(f, k) == /\ f \in [0 .. k -> S]
                         /\ f[0] = b
                         /\ \A i \in 1 .. k : f[i] = step[<<f[i - 1], i>>]
           Exists(k) == k <= n => \E f : Upto(f, k)
           Done == {k \in Nat : Exists(k)}
<1>1. Exists(0)
  <2>1. Upto([i \in 0 .. 0 |-> b], 0)
    OBVIOUS
  <2> QED
    BY <2>1
<1>2. ASSUME NEW k \in Nat, Exists(k) PROVE Exists(k + 1)
  <2>1. SUFFICES ASSUME k + 1 <= n PROVE \E g : Upto(g, k + 1)
    OBVIOUS
  <2>2. PICK f : Upto(f, k)
    <3>1. k <= n
      BY <2>1
    <3> QED
      BY <1>2, <3>1
  <2> DEFINE last == step[<<f[k], k + 1>>]
             g == [i \in 0 .. k + 1 |-> IF i = k + 1 THEN last ELSE f[i]]
  <2>3. last \in S
    <3>1. k \in 0 .. k /\ k + 1 \in 1 .. n
      BY <2>1
    <3> QED
      BY <2>2, <3>1
  <2> HIDE DEF last
  <2>4. g \in [0 .. k + 1 -> S] /\ g[k + 1] = last /\ \A i \in 0 .. k : g[i] = f[i]
    BY <2>2, <2>3
  <2> HIDE DEF g
  <2>5. g[0] = b
    BY <2>2, <2>4
  <2>6. ASSUME NEW i \in 1 .. k + 1 PROVE g[i] = step[<<g[i - 1], i>>]
    <3>1. CASE i = k + 1
      <4>1. i - 1 = k /\ k \in 0 .. k
        BY <3>1
      <4> QED
        BY <2>4, <3>1, <4>1 DEF last
    <3>2. CASE i # k + 1
      <4>1. i \in 1 .. k /\ i \in 0 .. k /\ i - 1 \in 0 .. k
        BY <3>2
      <4> QED
        BY <2>2, <2>4, <4>1
    <3> QED
      BY <3>1, <3>2
  <2> QED
    BY <2>4, <2>5, <2>6
<1>3. \E f : Upto(f, n)
  <2> HIDE DEF Exists
  <2>1. 0 \in Done /\ \A k \in Nat : k \in Done => k + 1 \in Done
    BY <1>1, <1>2
  <2> HIDE DEF Done
  <2>2. n \in Done
    BY <2>1, Induction
  <2>3. Exists(n)
    BY <2>2 DEF Done
  <2> QED
    BY <2>3 DEF Exists
<1> QED
  BY <1>3 DEF StepByStep

(* And it is defined by its steps.                                         *)
StepAlike(f, g, n) ==
  f[0] = g[0] /\ \A i \in 1 .. n : f[i - 1] = g[i - 1] => f[i] = g[i]

(* Two functions that are defined so are the same.                         *)
LEMMA SameSteps ==
  ASSUME NEW n \in Nat, NEW f, NEW g, StepAlike(f, g, n)
  PROVE  f[n] = g[n]
<1> DEFINE Done == {k \in Nat : k <= n => f[k] = g[k]}
<1>1. 0 \in Done
  BY DEF StepAlike
<1>2. ASSUME NEW k \in Nat, k \in Done PROVE k + 1 \in Done
  <2>1. SUFFICES ASSUME k + 1 <= n PROVE f[k + 1] = g[k + 1]
    OBVIOUS
  <2>2. k + 1 \in 1 .. n /\ (k + 1) - 1 = k /\ k <= n
    BY <2>1
  <2> QED
    BY <1>2, <2>2 DEF StepAlike
<1> HIDE DEF Done
<1>3. \A k \in Nat : k \in Done
  BY <1>1, <1>2, Induction
<1> QED
  BY <1>3 DEF Done

(* FlattenSeq puts one sequence after another.                             *)
LEMMA FlattenDef ==
  ASSUME NEW T, NEW ss \in Seq(Seq(T))
  PROVE  \E f \in [0 .. Len(ss) -> Seq(T)] :
           /\ f[0] = <<>>
           /\ \A i \in 1 .. Len(ss) : f[i] = f[i - 1] \o ss[i]
           /\ FlattenSeq(ss) = f[Len(ss)]
<1> DEFINE n == Len(ss)
           step == [p \in Seq(T) \X (1 .. n) |-> p[1] \o ss[p[2]]]
<1>1. n \in Nat /\ \A i \in 1 .. n : ss[i] \in Seq(T)
  BY LenProperties, ElementOfSeq
<1>2. (n = 0) = (ss = <<>>)
  BY EmptySeq
<1> HIDE DEF n
<1>3. \A x \in Seq(T) : \A i \in 1 .. n : step[<<x, i>>] = x \o ss[i]
  OBVIOUS
<1>4. step \in [Seq(T) \X (1 .. n) -> Seq(T)]
  <2>1. \A p \in Seq(T) \X (1 .. n) : p[1] \o ss[p[2]] \in Seq(T)
    BY <1>1, ConcatProperties
  <2> QED
    BY <2>1
<1> HIDE DEF step
<1>5. <<>> \in Seq(T)
  BY EmptySeq
<1>6. PICK f \in [0 .. n -> Seq(T)] :
        f[0] = <<>> /\ \A i \in 1 .. n : f[i] = step[<<f[i - 1], i>>]
  <2>1. StepByStep(Seq(T), <<>>, n, step) # {}
    BY <1>1, <1>4, <1>5, Recursion
  <2> QED
    BY <2>1 DEF StepByStep
<1>7. \A i \in 1 .. n : f[i - 1] \in Seq(T) /\ f[i] = f[i - 1] \o ss[i]
  <2>1. \A i \in 1 .. n : i - 1 \in 0 .. n
    BY <1>1
  <2> QED
    BY <1>3, <1>6, <2>1
<1>8. n # 0 => f[1] = ss[1]
  <2>1. n # 0 => 1 \in 1 .. n /\ 1 - 1 = 0
    BY <1>1
  <2>2. n # 0 => f[1] = <<>> \o ss[1] /\ ss[1] \in Seq(T)
    BY <1>1, <1>6, <1>7, <2>1
  <2> QED
    BY <2>2, ConcatEmptySeq
<1> DEFINE Eq(g) == g = [i \in 1 .. n |-> IF i = 1 THEN ss[i] ELSE g[i - 1] \o ss[i]]
           flat == CHOOSE g : Eq(g)
           h == [i \in 1 .. n |-> f[i]]
<1>9. Eq(flat)
  <2>1. \A i \in 1 .. n : h[i] = f[i]
    OBVIOUS
  <2>2. h = [i \in 1 .. n |-> h[i]]
    OBVIOUS
  <2> HIDE DEF h
  <2>3. ASSUME NEW i \in 1 .. n
        PROVE  h[i] = IF i = 1 THEN ss[i] ELSE h[i - 1] \o ss[i]
    <3>1. i # 1 => i - 1 \in 1 .. n /\ h[i - 1] = f[i - 1]
      <4>1. i # 1 => i - 1 \in 1 .. n
        BY <1>1
      <4> QED
        BY <2>1, <4>1, Zenon
    <3>2. i = 1 => h[i] = ss[i]
      BY <1>1, <1>8, <2>1
    <3>3. h[i] = f[i - 1] \o ss[i]
      BY <1>7, <2>1, Zenon
    <3> QED
      BY <3>1, <3>2, <3>3, Zenon
  <2>4. h = [i \in 1 .. n |-> IF i = 1 THEN ss[i] ELSE h[i - 1] \o ss[i]]
    BY <2>2, <2>3
  <2> QED
    BY <2>4
<1>10. FlattenSeq(ss) = IF n = 0 THEN ss ELSE flat[n]
  BY DEF FlattenSeq, n
<1> HIDE DEF flat
<1>11. \A i \in 1 .. n : flat[i] = IF i = 1 THEN ss[i] ELSE flat[i - 1] \o ss[i]
  BY <1>9
<1>12. FlattenSeq(ss) = f[n]
  <2>1. CASE n = 0
    BY <1>2, <1>6, <1>10, <2>1
  <2>2. CASE n # 0
    <3> DEFINE F == [i \in 0 .. n |-> IF i = 0 THEN <<>> ELSE flat[i]]
    <3>1. F[0] = <<>> /\ \A i \in 1 .. n : F[i] = flat[i]
      BY <1>1
    <3> HIDE DEF F
    <3>2. ASSUME NEW i \in 1 .. n, f[i - 1] = F[i - 1] PROVE f[i] = F[i]
      <4>1. CASE i = 1
        BY <1>8, <1>11, <2>2, <3>1, <4>1
      <4>2. CASE i # 1
        <5>1. i - 1 \in 1 .. n
          BY <1>1, <4>2
        <5>2. f[i] = f[i - 1] \o ss[i] /\ F[i] = flat[i - 1] \o ss[i]
          BY <1>7, <1>11, <3>1, <4>2, Zenon
        <5>3. f[i - 1] = flat[i - 1]
          BY <3>1, <3>2, <5>1, Zenon
        <5> QED
          BY <5>2, <5>3, Zenon
      <4> QED
        BY <4>1, <4>2
    <3>3. StepAlike(f, F, n)
      BY <1>6, <3>1, <3>2 DEF StepAlike
    <3>4. n \in Nat /\ n \in 1 .. n
      BY <1>1, <2>2
    <3>5. f[n] = F[n]
      BY <3>3, <3>4, SameSteps
    <3> QED
      BY <1>10, <2>2, <3>1, <3>4, <3>5
  <2> QED
    BY <2>1, <2>2
<1> QED
  BY <1>6, <1>7, <1>12 DEF n

(* FlattenSeq joins sequences to a sequence, ...                           *)
LEMMA FlattenType ==
  ASSUME NEW T, NEW ss \in Seq(Seq(T))
  PROVE  FlattenSeq(ss) \in Seq(T) /\ FlattenSeq(<<>>) = <<>>
<1>1. Len(ss) \in 0 .. Len(ss)
  BY LenProperties
<1>2. PICK f \in [0 .. Len(ss) -> Seq(T)] : FlattenSeq(ss) = f[Len(ss)]
  BY FlattenDef, Zenon
<1>3. FlattenSeq(<<>>) = <<>>
  BY DEF FlattenSeq
<1> QED
  BY <1>1, <1>2, <1>3

(* ... item by item, ...                                                   *)
LEMMA FlattenAppend ==
  ASSUME NEW T, NEW ss \in Seq(Seq(T)), NEW s \in Seq(T)
  PROVE  FlattenSeq(Append(ss, s)) = FlattenSeq(ss) \o s
<1> DEFINE tt == Append(ss, s)
           m == Len(ss)
<1>1. /\ m \in Nat /\ Len(tt) = m + 1 /\ tt \in Seq(Seq(T))
      /\ tt[m + 1] = s /\ \A i \in 1 .. m : tt[i] = ss[i]
  BY AppendProperties, LenProperties
<1>2. PICK f \in [0 .. m -> Seq(T)] :
        /\ f[0] = <<>>
        /\ \A i \in 1 .. m : f[i] = f[i - 1] \o ss[i]
        /\ FlattenSeq(ss) = f[m]
  BY FlattenDef
<1> HIDE DEF m, tt
<1>3. PICK g \in [0 .. m + 1 -> Seq(T)] :
        /\ g[0] = <<>>
        /\ \A i \in 1 .. m + 1 : g[i] = g[i - 1] \o tt[i]
        /\ FlattenSeq(tt) = g[m + 1]
  <2>1. tt \in Seq(Seq(T)) /\ Len(tt) = m + 1
    BY <1>1
  <2>2. \E g \in [0 .. Len(tt) -> Seq(T)] :
          /\ g[0] = <<>>
          /\ \A i \in 1 .. Len(tt) : g[i] = g[i - 1] \o tt[i]
          /\ FlattenSeq(tt) = g[Len(tt)]
    BY <2>1, FlattenDef, Zenon
  <2> QED
    BY <2>1, <2>2
<1>4. ASSUME NEW i \in 1 .. m, f[i - 1] = g[i - 1] PROVE f[i] = g[i]
  <2>1. i \in 1 .. m + 1
    BY <1>1
  <2> QED
    BY <1>1, <1>2, <1>3, <1>4, <2>1
<1>5. f[m] = g[m]
  <2>1. StepAlike(f, g, m)
    BY <1>2, <1>3, <1>4 DEF StepAlike
  <2>2. m \in Nat
    BY <1>1
  <2> QED
    BY <2>1, <2>2, SameSteps
<1>6. m + 1 \in 1 .. m + 1 /\ (m + 1) - 1 = m
  BY <1>1
<1> QED
  BY <1>1, <1>2, <1>3, <1>5, <1>6 DEF tt

(* To show it of all sequences, show it of the empty one and of one that   *)
(* is longer by an item.                                                   *)
LEMMA SequenceInduction ==
  ASSUME NEW T, NEW S, <<>> \in S, \A s \in Seq(T) : \A e \in T : s \in S => Append(s, e) \in S
  PROVE  \A s \in Seq(T) : s \in S
<1> DEFINE Done == {n \in Nat : \A s \in Seq(T) : Len(s) = n => s \in S}
<1>1. 0 \in Done
  BY EmptySeq
<1>2. ASSUME NEW n \in Nat, n \in Done PROVE n + 1 \in Done
  <2>1. SUFFICES ASSUME NEW s \in Seq(T), Len(s) = n + 1 PROVE s \in S
    OBVIOUS
  <2>2. s # <<>>
    BY <2>1, EmptySeq
  <2>3. PICK r \in Seq(T), e \in T : s = Append(r, e)
    BY <2>2, SequenceEmptyOrAppend
  <2>4. Len(s) = Len(r) + 1 /\ Len(r) \in Nat
    BY <2>3, AppendProperties, LenProperties
  <2> QED
    BY <1>2, <2>1, <2>3, <2>4
<1> QED
  <2>1. \A n \in Nat : n \in Done
    BY <1>1, <1>2, Induction
  <2> QED
    BY <2>1, LenProperties

(* ... and part by part.                                                   *)
LEMMA FlattenConcat ==
  ASSUME NEW T, NEW ss \in Seq(Seq(T)), NEW tt \in Seq(Seq(T))
  PROVE  FlattenSeq(ss \o tt) = FlattenSeq(ss) \o FlattenSeq(tt)
<1> DEFINE S == {uu \in Seq(Seq(T)) : FlattenSeq(ss \o uu) = FlattenSeq(ss) \o FlattenSeq(uu)}
<1>1. <<>> \in S
  BY FlattenType, ConcatEmptySeq, EmptySeq
<1>2. ASSUME NEW uu \in Seq(Seq(T)), NEW u \in Seq(T), uu \in S PROVE Append(uu, u) \in S
  <2>1. /\ ss \o uu \in Seq(Seq(T)) /\ Append(uu, u) \in Seq(Seq(T))
        /\ ss \o Append(uu, u) = Append(ss \o uu, u)
    BY AppendToSecond, AppendProperties
  <2>2. /\ FlattenSeq(ss \o Append(uu, u)) = (FlattenSeq(ss) \o FlattenSeq(uu)) \o u
        /\ FlattenSeq(Append(uu, u)) = FlattenSeq(uu) \o u
    BY <1>2, <2>1, FlattenAppend
  <2>3. FlattenSeq(ss) \in Seq(T) /\ FlattenSeq(uu) \in Seq(T)
    BY FlattenType
  <2>4. (FlattenSeq(ss) \o FlattenSeq(uu)) \o u = FlattenSeq(ss) \o (FlattenSeq(uu) \o u)
    BY <2>3, ConcatAssociative
  <2>5. FlattenSeq(ss \o Append(uu, u)) = FlattenSeq(ss) \o FlattenSeq(Append(uu, u))
    BY <2>2, <2>4, Zenon
  <2> QED
    BY <2>1, <2>5
<1> HIDE DEF S
<1>3. \A uu \in Seq(Seq(T)) : uu \in S
  BY <1>1, <1>2, SequenceInduction
<1> QED
  BY <1>3 DEF S

(* A single sequence is joined to itself.                                  *)
LEMMA FlattenOne ==
  ASSUME NEW T, NEW s \in Seq(T)
  PROVE  FlattenSeq(<<s>>) = s
<1>1. <<>> \in Seq(Seq(T)) /\ <<s>> = Append(<<>>, s)
  BY EmptySeq
<1>2. FlattenSeq(Append(<<>>, s)) = FlattenSeq(<<>>) \o s
  BY <1>1, FlattenAppend, Zenon
<1>3. FlattenSeq(<<>>) = <<>> /\ <<>> \o s = s
  BY <1>1, FlattenType, ConcatEmptySeq
<1> QED
  BY <1>1, <1>2, <1>3, Zenon
-----------------------------------------------------------------------------
(***************************************************************************)
(* The parser, with any fault or none.                                     *)
(***************************************************************************)

Text == Seq(Token)
Reports == [kind : MessageKinds, type : Text, data : Text, id : Text]
Parsers(flaw) ==
  [fault : {flaw}, line : Text, first : BOOLEAN, afterCR : BOOLEAN,
   data : Text, type : Text, id : Text, lastID : Text, out : Seq(Reports)]

(* The parser, if it had made the reports a before.                        *)
Shift(p, a) == [p EXCEPT !.out = a \o @]

(* A report can be appended before or after the shift.                     *)
LEMMA ShiftAppend ==
  ASSUME NEW flaw, NEW p \in Parsers(flaw), NEW a \in Seq(Reports), NEW r \in Reports
  PROVE  /\ Shift(p, a) \in Parsers(flaw)
         /\ a \o Append(p.out, r) = Append(a \o p.out, r)
         /\ Append(p.out, r) \in Seq(Reports)
<1>1. p.out \in Seq(Reports)
  BY DEF Parsers
<1>2. /\ a \o p.out \in Seq(Reports) /\ a \o Append(p.out, r) = Append(a \o p.out, r)
      /\ Append(p.out, r) \in Seq(Reports)
  BY <1>1, AppendToSecond, AppendProperties
<1> QED
  BY <1>2 DEF Shift, Parsers

(* Texts.                                                                  *)
LEMMA NoText ==
  <<>> \in Text
BY EmptySeq DEF Text

LEMMA LongerText ==
  ASSUME NEW text \in Text, NEW token \in Token
  PROVE  Append(text, token) \in Text
BY AppendProperties DEF Text

LEMMA MessageText ==
  <<"message">> \in Text
<1>1. <<"message">> = Append(<<>>, "message") /\ "message" \in Token
  BY DEF Token
<1> QED
  BY <1>1, NoText, LongerText, Zenon

(* An empty line, ...                                                      *)
LEMMA Dispatches ==
  ASSUME NEW flaw, NEW p \in Parsers(flaw), NEW a \in Seq(Reports)
  PROVE  /\ Dispatch(p) \in Parsers(flaw)
         /\ Dispatch(Shift(p, a)) = Shift(Dispatch(p), a)
<1> DEFINE type == IF p.type = <<>> /\ p.fault # "noDefaultType" THEN <<"message">> ELSE p.type
           data == IF p.data = <<>> THEN <<>> ELSE Front(p.data)
           empty == \/ p.data = <<>> /\ p.fault # "reportsEmpty"
                    \/ data = <<>> /\ p.fault = "dropsEmptyData"
           report == [kind |-> "event", type |-> type, data |-> data, id |-> p.id]
           next == IF p.fault = "forgetsID" THEN <<>> ELSE p.id
           out(q) == IF empty THEN q.out ELSE Append(q.out, report)
           s == Shift(p, a)
           Emptied(q, o) == [q EXCEPT !.data = <<>>, !.type = <<>>, !.lastID = p.id,
                                      !.id = next, !.out = o]
<1>1. /\ p.data \in Text /\ p.type \in Text /\ p.id \in Text /\ p.out \in Seq(Reports)
      /\ <<>> \in Text /\ <<"message">> \in Text
  BY NoText, MessageText DEF Parsers
<1>2. data \in Text
  <2>1. CASE p.data # <<>>
    <3>1. Len(p.data) \in Nat /\ \A i \in 1 .. Len(p.data) - 1 : p.data[i] \in Token
      BY <1>1, ElementOfSeq, LenProperties DEF Text
    <3>2. SubSeq(p.data, 1, Len(p.data) - 1) \in Text
      BY <3>1, SubSeqProperties DEF Text
    <3> QED
      BY <2>1, <3>2 DEF Front
  <2> QED
    BY <1>1, <2>1
<1>3. s = [p EXCEPT !.out = a \o p.out]
  BY DEF Shift
<1>4. /\ s.data = p.data /\ s.type = p.type /\ s.id = p.id /\ s.fault = p.fault
      /\ s.out = a \o p.out
  BY <1>3 DEF Parsers
<1> HIDE DEF s
<1>5. /\ Dispatch(p) = Emptied(p, out(p))
      /\ Dispatch(s) = Emptied(s, out(s))
  BY <1>4 DEF Dispatch, Report
<1>6. report \in Reports
  <2>1. type \in Text
    BY <1>1
  <2> HIDE DEF type, data
  <2> QED
    BY <1>1, <1>2, <2>1 DEF Reports, MessageKinds
<1>7. next \in Text
  BY <1>1
<1> HIDE DEF report, next, empty
<1>8. out(p) \in Seq(Reports) /\ out(s) = a \o out(p)
  <2>1. a \o Append(p.out, report) = Append(a \o p.out, report)
        /\ Append(p.out, report) \in Seq(Reports)
    BY <1>6, ShiftAppend
  <2> QED
    BY <1>1, <1>4, <2>1
<1> HIDE DEF out
<1>9. Emptied(p, out(p)) \in Parsers(flaw)
  BY <1>1, <1>7, <1>8 DEF Parsers
<1>10. Emptied(s, out(s)) = Shift(Emptied(p, out(p)), a)
  BY <1>3, <1>8 DEF Parsers, Shift
<1> QED
  BY <1>5, <1>9, <1>10 DEF s

(* ... a field, ...                                                        *)
LEMMA ReadsField ==
  ASSUME NEW flaw, NEW p \in Parsers(flaw), NEW a \in Seq(Reports),
         NEW name \in Text, NEW value \in Text
  PROVE  /\ FieldRead(p, name, value) \in Parsers(flaw)
         /\ FieldRead(Shift(p, a), name, value)
              = Shift(FieldRead(p, name, value), a)
<1> DEFINE more == (IF p.fault = "lastLineOnly" THEN <<>> ELSE p.data) \o Append(value, "LF")
           ignored == p.fault = "fixedOrder" /\ p.data # <<>> /\ ~IsData(p, name)
           s == Shift(p, a)
           Is(q, r) ==
             r = IF ignored THEN q
                 ELSE CASE IsData(p, name) -> [q EXCEPT !.data = more]
                        [] name = <<"event">> /\ p.fault # "ignoresType" ->
                             [q EXCEPT !.type = value]
                        [] name = <<"id">> /\ IsID(p, value) -> [q EXCEPT !.id = value]
                        [] OTHER -> q
<1>1. p.data \in Text /\ Append(value, "LF") \in Text /\ <<>> \in Text
  <2>1. "LF" \in Token
    BY DEF Token
  <2>2. Append(value, "LF") \in Text
    BY <2>1, LongerText, Zenon
  <2> QED
    BY <2>2, NoText DEF Parsers
<1>2. more \in Text
  BY <1>1, ConcatProperties DEF Text
<1>3. s = [p EXCEPT !.out = a \o p.out]
  BY DEF Shift
<1>4. s.data = p.data /\ s.fault = p.fault
  BY <1>3 DEF Parsers
<1> HIDE DEF s
<1>5. IsData(s, name) = IsData(p, name) /\ IsID(s, value) = IsID(p, value)
  BY <1>4 DEF IsData, IsID
<1>6. Is(p, FieldRead(p, name, value))
  BY DEF FieldRead
<1>7. Is(s, FieldRead(s, name, value))
  BY <1>4, <1>5 DEF FieldRead
<1> HIDE DEF more, ignored
<1>8. FieldRead(p, name, value) \in Parsers(flaw)
  BY <1>2, <1>6 DEF Parsers
<1>9. /\ [s EXCEPT !.data = more] = Shift([p EXCEPT !.data = more], a)
      /\ [s EXCEPT !.type = value] = Shift([p EXCEPT !.type = value], a)
      /\ [s EXCEPT !.id = value] = Shift([p EXCEPT !.id = value], a)
  BY <1>3 DEF Parsers, Shift
<1>10. FieldRead(s, name, value) = Shift(FieldRead(p, name, value), a)
  BY <1>6, <1>7, <1>9 DEF s
<1> QED
  BY <1>8, <1>10 DEF s

(* A part of a text is one.                                                *)
LEMMA PartOfText ==
  ASSUME NEW T, NEW text \in Seq(T), NEW i \in Nat, NEW j \in Nat, j <= Len(text)
  PROVE  SubSeq(text, i + 1, j) \in Seq(T)
<1>1. Len(text) \in Nat /\ \A k \in i + 1 .. j : text[k] \in T
  BY ElementOfSeq, LenProperties
<1> QED
  BY <1>1, SubSeqProperties

(* What is left of a value without its spaces is a text.                   *)
LEMMA Unspaces ==
  ASSUME NEW fault, NEW text \in Text
  PROVE  Unspaced(fault, text) \in Text
<1> DEFINE space == " "
           spaces == {i \in 0 .. Len(text) : \A j \in 1 .. i : text[j] = space}
           n == CASE fault = "keepsSpace" -> 0 [] fault = "trimsSpaces" -> Max(spaces)
                  [] OTHER -> IF 1 \in spaces THEN 1 ELSE 0
<1>1. Unspaced(fault, text) = SubSeq(text, n + 1, Len(text))
  BY Zenon DEF Unspaced
<1> HIDE DEF space
<1>2. Len(text) \in Nat
  BY LenProperties DEF Text
<1>3. spaces \in SUBSET (0 .. Len(text)) /\ 0 \in spaces
  BY <1>2
<1> HIDE DEF spaces
<1>4. Max(spaces) \in spaces
  BY <1>2, <1>3, MaxIsGreatest
<1>5. n \in Nat
  BY <1>2, <1>3, <1>4
<1> HIDE DEF n
<1>6. SubSeq(text, n + 1, Len(text)) \in Text
  BY <1>2, <1>5, PartOfText DEF Text
<1> QED
  BY <1>1, <1>6

(* ... a line, ...                                                         *)
LEMMA EndsLine ==
  ASSUME NEW flaw, NEW p \in Parsers(flaw), NEW a \in Seq(Reports)
  PROVE  /\ LineEnded(p) \in Parsers(flaw)
         /\ LineEnded(Shift(p, a)) = Shift(LineEnded(p), a)
<1> DEFINE mark == ":"
           blank == " "
           Unmarked(line, first, fault) ==
             IF first /\ IsPrefix(BOM, line) /\ fault # "keepsBOM"
               THEN SubSeq(line, Len(BOM) + 1, Len(line)) ELSE line
           Colons(line) == {i \in 1 .. Len(line) : line[i] = mark}
           Colon(line) == IF Colons(line) # {} THEN Min(Colons(line)) ELSE 0
           Rest(line) == SubSeq(line, Colon(line) + 1, Len(line))
           Name(line) == SubSeq(line, 1, Colon(line) - 1)
           Remark(line) == [kind |-> "comment", type |-> <<>>, data |-> Rest(line), id |-> <<>>]
           Is(line, fault, q, r) ==
             r = IF line = <<>> THEN Dispatch(q)
                 ELSE CASE Colon(line) = 1 -> [q EXCEPT !.out = Append(@, Remark(line))]
                        [] Colon(line) = 0 -> IF fault = "needsColon" THEN q
                                              ELSE FieldRead(q, line, <<>>)
                        [] OTHER -> IF /\ fault = "needsSpace"
                                       /\ Rest(line) = <<>> \/ Head(Rest(line)) # blank
                                    THEN q
                                    ELSE FieldRead(q, Name(line), Unspaced(fault, Rest(line)))
           Begun(q) == [q EXCEPT !.line = <<>>, !.first = FALSE]
           s == Shift(p, a)
           text == Unmarked(p.line, p.first, p.fault)
           value == Unspaced(p.fault, Rest(text))
           unspaced == p.fault = "needsSpace" /\ (Rest(text) = <<>> \/ Head(Rest(text)) # blank)
<1>1. /\ s = [p EXCEPT !.out = a \o p.out]
      /\ s.line = p.line /\ s.first = p.first /\ s.fault = p.fault
  BY DEF Shift, Parsers
<1> HIDE DEF s
<1>2. Is(Unmarked(p.line, p.first, p.fault), p.fault, Begun(p), LineEnded(p))
  BY Zenon DEF LineEnded, Report, SelectInSeq
<1>3. Is(Unmarked(p.line, p.first, p.fault), p.fault, Begun(s), LineEnded(s))
  <2>1. Is(Unmarked(s.line, s.first, s.fault), s.fault, Begun(s), LineEnded(s))
    BY Zenon DEF LineEnded, Report, SelectInSeq
  <2> HIDE DEF Is, Unmarked, Begun
  <2> QED
    BY <1>1, <2>1, Zenon
<1>4. text \in Text
  <2>1. p.line \in Text /\ Len(p.line) \in Nat
    BY LenProperties DEF Parsers, Text
  <2>2. Len(BOM) \in Nat
    BY DEF BOM
  <2>3. SubSeq(p.line, Len(BOM) + 1, Len(p.line)) \in Text
    BY <2>1, <2>2, PartOfText DEF Text
  <2> QED
    BY <2>1, <2>3
<1> HIDE DEF text, mark, blank, unspaced
<1>5. Len(text) \in Nat
  BY <1>4, LenProperties DEF Text
<1>6. Colon(text) \in 0 .. Len(text)
  <2>1. Colons(text) \in SUBSET Nat
    BY <1>5
  <2>2. Colons(text) # {} => Min(Colons(text)) \in Colons(text)
    BY <2>1, MinIsLeast
  <2> QED
    BY <1>5, <2>2
<1> HIDE DEF Colon
<1>7. Rest(text) \in Text
  BY <1>4, <1>5, <1>6, PartOfText DEF Text
<1>8. Colon(text) # 0 => Name(text) \in Text
  <2>1. SUFFICES ASSUME Colon(text) # 0 PROVE Name(text) \in Text
    OBVIOUS
  <2>2. Colon(text) - 1 \in Nat /\ Colon(text) - 1 <= Len(text) /\ 0 + 1 = 1
    BY <1>5, <1>6, <2>1
  <2>3. SubSeq(text, 0 + 1, Colon(text) - 1) \in Text
    BY <1>4, <2>2, PartOfText DEF Text
  <2> QED
    BY <2>2, <2>3
<1> HIDE DEF Rest, Name
<1>9. Remark(text) \in Reports
  BY <1>7, NoText DEF Reports, MessageKinds
<1>10. value \in Text
  BY <1>7, Unspaces
<1> HIDE DEF value, Remark
<1> DEFINE q == Begun(p)
<1>11. q \in Parsers(flaw) /\ Begun(s) = Shift(q, a)
  BY <1>1, NoText DEF Parsers, Shift
<1> HIDE DEF q
<1> DEFINE more == [q EXCEPT !.out = Append(@, Remark(text))]
<1>12. more \in Parsers(flaw) /\ [Shift(q, a) EXCEPT !.out = Append(@, Remark(text))] = Shift(more, a)
  <2>1. /\ a \o Append(q.out, Remark(text)) = Append(a \o q.out, Remark(text))
        /\ Append(q.out, Remark(text)) \in Seq(Reports)
    BY <1>9, <1>11, ShiftAppend
  <2> QED
    BY <1>11, <2>1 DEF Parsers, Shift
<1>13. Is(text, p.fault, q, LineEnded(p)) /\ Is(text, p.fault, Shift(q, a), LineEnded(s))
  <2> HIDE DEF Is
  <2> QED
    BY <1>2, <1>3, <1>11, Zenon DEF q, text
<1> HIDE DEF Begun, Unmarked
<1>14. CASE text = <<>>
  <2>1. LineEnded(p) = Dispatch(q) /\ LineEnded(s) = Dispatch(Shift(q, a))
    BY <1>13, <1>14, Zenon
  <2> QED
    BY <1>11, <2>1, Dispatches DEF s
<1>15. CASE text # <<>> /\ Colon(text) = 1
  <2>1. LineEnded(p) = more /\ LineEnded(s) = [Shift(q, a) EXCEPT !.out = Append(@, Remark(text))]
    BY <1>13, <1>15
  <2> QED
    BY <1>12, <2>1 DEF s
<1>16. CASE text # <<>> /\ Colon(text) = 0
  <2>1. /\ FieldRead(q, text, <<>>) \in Parsers(flaw)
        /\ FieldRead(Shift(q, a), text, <<>>) = Shift(FieldRead(q, text, <<>>), a)
    BY <1>4, <1>11, NoText, ReadsField
  <2> QED
    BY <1>11, <1>13, <1>16, <2>1 DEF s
<1>17. CASE text # <<>> /\ Colon(text) # 0 /\ Colon(text) # 1
  <2>1. /\ FieldRead(q, Name(text), value) \in Parsers(flaw)
        /\ FieldRead(Shift(q, a), Name(text), value) = Shift(FieldRead(q, Name(text), value), a)
    BY <1>8, <1>10, <1>11, <1>17, ReadsField
  <2> QED
    BY <1>11, <1>13, <1>17, <2>1 DEF s, value
<1> QED
  BY <1>14, <1>15, <1>16, <1>17

(* ... and a token: each makes a parser of a parser, and what it reports   *)
(* does not depend on what was reported before.                            *)
LEMMA ReadsToken ==
  ASSUME NEW flaw, NEW p \in Parsers(flaw), NEW a \in Seq(Reports), NEW token \in Token
  PROVE  /\ TokenRead(p, token) \in Parsers(flaw)
         /\ TokenRead(Shift(p, a), token) = Shift(TokenRead(p, token), a)
<1> DEFINE Is(q, r) ==
             r = CASE token = "LF" -> IF p.afterCR THEN [q EXCEPT !.afterCR = FALSE]
                                      ELSE LineEnded(q)
                   [] token = "CR" -> IF p.fault = "ignoresCR" THEN q
                                      ELSE [LineEnded(q) EXCEPT !.afterCR = TRUE]
                   [] token \in Range(BOM) /\ p.fault = "stripsAllBOMs" -> q
                   [] OTHER -> [q EXCEPT !.line = Append(p.line, token), !.afterCR = FALSE]
           s == Shift(p, a)
<1>1. /\ s = [p EXCEPT !.out = a \o p.out]
      /\ s.afterCR = p.afterCR /\ s.line = p.line /\ s.fault = p.fault
  BY DEF Parsers, Shift
<1> HIDE DEF s
<1>2. Is(p, TokenRead(p, token)) /\ Is(s, TokenRead(s, token))
  BY <1>1 DEF TokenRead
<1>3. /\ LineEnded(p) \in Parsers(flaw)
      /\ LineEnded(s) = Shift(LineEnded(p), a)
  BY EndsLine DEF s
<1>4. Append(p.line, token) \in Text
  BY LongerText DEF Parsers
<1>5. TokenRead(p, token) \in Parsers(flaw)
  BY <1>2, <1>3, <1>4 DEF Parsers
<1> DEFINE longer == Append(p.line, token)
<1> HIDE DEF longer
<1>6. /\ [s EXCEPT !.afterCR = FALSE] = Shift([p EXCEPT !.afterCR = FALSE], a)
      /\ [LineEnded(s) EXCEPT !.afterCR = TRUE] = Shift([LineEnded(p) EXCEPT !.afterCR = TRUE], a)
      /\ [s EXCEPT !.line = longer, !.afterCR = FALSE]
           = Shift([p EXCEPT !.line = longer, !.afterCR = FALSE], a)
  BY <1>1, <1>3 DEF Parsers, Shift
<1>7. TokenRead(s, token) = Shift(TokenRead(p, token), a)
  BY <1>2, <1>3, <1>6 DEF s, longer
<1> QED
  BY <1>5, <1>7 DEF s

(* A text is read token by token.                                          *)
Readings(flaw, p, text) ==
  {f \in [0 .. Len(text) -> Parsers(flaw)] :
     /\ f[0] = p
     /\ \A i \in 1 .. Len(text) : f[i] = TokenRead(f[i - 1], text[i])
     /\ TextRead(p, text) = f[Len(text)]}

(* The recursive function within TextRead exists, ...                      *)
LEMMA TextDef ==
  ASSUME NEW flaw, NEW p \in Parsers(flaw), NEW text \in Text
  PROVE  Readings(flaw, p, text) # {}
<1> DEFINE n == Len(text)
           step == [x \in Parsers(flaw) \X (1 .. n) |-> TokenRead(x[1], text[x[2]])]
           Eq(g) == g = [i \in 0 .. n |-> IF i = 0 THEN p ELSE TokenRead(g[i - 1], text[i])]
           after == CHOOSE g : Eq(g)
<1>1. n \in Nat /\ \A i \in 1 .. n : text[i] \in Token
  BY LenProperties, ElementOfSeq DEF Text
<1>2. TextRead(p, text) = after[n]
  BY DEF TextRead
<1> HIDE DEF n
<1>3. \A x \in Parsers(flaw) : \A i \in 1 .. n : step[<<x, i>>] = TokenRead(x, text[i])
  OBVIOUS
<1>4. step \in [Parsers(flaw) \X (1 .. n) -> Parsers(flaw)]
  <2>1. <<>> \in Seq(Reports)
    BY EmptySeq
  <2>2. ASSUME NEW x \in Parsers(flaw) \X (1 .. n) PROVE TokenRead(x[1], text[x[2]]) \in Parsers(flaw)
    <3>1. x[1] \in Parsers(flaw) /\ text[x[2]] \in Token
      BY <1>1
    <3> QED
      BY <2>1, <3>1, ReadsToken
  <2> QED
    BY <2>2
<1> HIDE DEF step
<1>5. PICK f \in [0 .. n -> Parsers(flaw)] :
        f[0] = p /\ \A i \in 1 .. n : f[i] = step[<<f[i - 1], i>>]
  <2>1. StepByStep(Parsers(flaw), p, n, step) # {}
    BY <1>1, <1>4, Recursion
  <2> QED
    BY <2>1 DEF StepByStep
<1>6. \A i \in 1 .. n : f[i] = TokenRead(f[i - 1], text[i])
  <2>1. \A i \in 1 .. n : i - 1 \in 0 .. n
    BY <1>1
  <2> QED
    BY <1>3, <1>5, <2>1
<1>7. Eq(after)
  <2>1. Eq(f)
    <3>1. f = [i \in 0 .. n |-> f[i]]
      OBVIOUS
    <3>2. ASSUME NEW i \in 0 .. n
          PROVE  f[i] = IF i = 0 THEN p ELSE TokenRead(f[i - 1], text[i])
      <4>1. i # 0 => i \in 1 .. n
        BY <1>1
      <4> QED
        BY <1>5, <1>6, <4>1
    <3> QED
      BY <3>1, <3>2
  <2> QED
    BY <2>1
<1> HIDE DEF after
<1>8. StepAlike(f, after, n)
  <2>1. after[0] = p
    BY <1>1, <1>7
  <2>2. ASSUME NEW i \in 1 .. n PROVE after[i] = TokenRead(after[i - 1], text[i])
    <3>1. i \in 0 .. n /\ i # 0
      BY <1>1
    <3> QED
      BY <1>7, <3>1
  <2> QED
    BY <1>5, <1>6, <2>1, <2>2 DEF StepAlike
<1>9. f[n] = after[n]
  BY <1>1, <1>8, SameSteps
<1> QED
  BY <1>2, <1>5, <1>6, <1>9 DEF n, Readings

(* ... it starts from the parser, ...                                      *)
LEMMA ReadsNoText ==
  ASSUME NEW flaw, NEW p \in Parsers(flaw)
  PROVE  TextRead(p, <<>>) = p
<1>1. Len(<<>>) = 0
  BY EmptySeq
<1>2. Readings(flaw, p, <<>>) # {}
  BY NoText, TextDef
<1>3. PICK f \in [0 .. Len(<<>>) -> Parsers(flaw)] : f[0] = p /\ TextRead(p, <<>>) = f[Len(<<>>)]
  BY <1>2 DEF Readings
<1> QED
  BY <1>1, <1>3

(* ... and goes on by a token, ...                                         *)
LEMMA ReadsMore ==
  ASSUME NEW flaw, NEW p \in Parsers(flaw), NEW text \in Text, NEW token \in Token
  PROVE  TextRead(p, Append(text, token)) = TokenRead(TextRead(p, text), token)
<1> DEFINE longer == Append(text, token)
           m == Len(text)
<1>1. /\ m \in Nat /\ Len(longer) = m + 1 /\ longer \in Text
      /\ longer[m + 1] = token /\ \A i \in 1 .. m : longer[i] = text[i]
  BY AppendProperties, LenProperties DEF Text
<1>2. PICK f \in [0 .. m -> Parsers(flaw)] :
        /\ f[0] = p
        /\ \A i \in 1 .. m : f[i] = TokenRead(f[i - 1], text[i])
        /\ TextRead(p, text) = f[m]
  <2>1. Readings(flaw, p, text) # {}
    BY TextDef
  <2> QED
    BY <2>1 DEF Readings
<1> HIDE DEF m, longer
<1>3. PICK g \in [0 .. m + 1 -> Parsers(flaw)] :
        /\ g[0] = p
        /\ \A i \in 1 .. m + 1 : g[i] = TokenRead(g[i - 1], longer[i])
        /\ TextRead(p, longer) = g[m + 1]
  <2>1. longer \in Text /\ Len(longer) = m + 1
    BY <1>1
  <2>2. Readings(flaw, p, longer) # {}
    BY <2>1, TextDef
  <2> QED
    BY <2>1, <2>2 DEF Readings
<1>4. ASSUME NEW i \in 1 .. m, f[i - 1] = g[i - 1] PROVE f[i] = g[i]
  <2>1. i \in 1 .. m + 1
    BY <1>1
  <2> QED
    BY <1>1, <1>2, <1>3, <1>4, <2>1
<1>5. f[m] = g[m]
  <2>1. StepAlike(f, g, m)
    BY <1>2, <1>3, <1>4 DEF StepAlike
  <2>2. m \in Nat
    BY <1>1
  <2> QED
    BY <2>1, <2>2, SameSteps
<1>6. m + 1 \in 1 .. m + 1 /\ (m + 1) - 1 = m
  BY <1>1
<1> QED
  BY <1>1, <1>2, <1>3, <1>5, <1>6 DEF longer

(* What was reported before does not matter to what follows.               *)
LEMMA ReadsText ==
  ASSUME NEW flaw, NEW p \in Parsers(flaw), NEW a \in Seq(Reports), NEW text \in Text
  PROVE  /\ TextRead(p, text) \in Parsers(flaw)
         /\ TextRead(Shift(p, a), text) = Shift(TextRead(p, text), a)
<1> DEFINE S == {t \in Text : /\ TextRead(p, t) \in Parsers(flaw)
                              /\ TextRead(Shift(p, a), t) = Shift(TextRead(p, t), a)}
<1>1. Shift(p, a) \in Parsers(flaw)
  <2>1. a \o p.out \in Seq(Reports)
    BY ConcatProperties DEF Parsers
  <2> QED
    BY <2>1 DEF Shift, Parsers
<1>2. <<>> \in S
  BY <1>1, NoText, ReadsNoText
<1>3. ASSUME NEW t \in Text, NEW token \in Token, t \in S PROVE Append(t, token) \in S
  <2>1. /\ TextRead(p, t) \in Parsers(flaw)
        /\ TextRead(Shift(p, a), t) = Shift(TextRead(p, t), a)
        /\ Append(t, token) \in Text
    BY <1>3, LongerText
  <2>2. /\ TextRead(p, Append(t, token)) = TokenRead(TextRead(p, t), token)
        /\ TextRead(Shift(p, a), Append(t, token)) = TokenRead(TextRead(Shift(p, a), t), token)
    BY <1>1, ReadsMore
  <2>3. /\ TokenRead(TextRead(p, t), token) \in Parsers(flaw)
        /\ TokenRead(Shift(TextRead(p, t), a), token)
             = Shift(TokenRead(TextRead(p, t), token), a)
    BY <2>1, ReadsToken
  <2> QED
    BY <2>1, <2>2, <2>3
<1> HIDE DEF S
<1>4. \A t \in Text : t \in S
  BY <1>2, <1>3, SequenceInduction DEF Text
<1> QED
  BY <1>4 DEF S

(* ... so a text may be read in two parts.                                 *)
LEMMA ReadsParts ==
  ASSUME NEW flaw, NEW p \in Parsers(flaw), NEW text \in Text, NEW rest \in Text
  PROVE  TextRead(p, text \o rest) = TextRead(TextRead(p, text), rest)
<1> DEFINE q == TextRead(p, text)
           S == {t \in Text : TextRead(p, text \o t) = TextRead(q, t)}
<1>1. q \in Parsers(flaw)
  <2>1. <<>> \in Seq(Reports)
    BY EmptySeq
  <2> QED
    BY <2>1, ReadsText
<1>2. <<>> \in S
  <2>1. text \o <<>> = text
    BY ConcatEmptySeq DEF Text
  <2> QED
    BY <1>1, <2>1, NoText, ReadsNoText
<1>3. ASSUME NEW t \in Text, NEW token \in Token, t \in S PROVE Append(t, token) \in S
  <2>1. /\ text \o t \in Text /\ Append(t, token) \in Text
        /\ text \o Append(t, token) = Append(text \o t, token)
    BY AppendToSecond, AppendProperties DEF Text
  <2>2. /\ TextRead(p, Append(text \o t, token)) = TokenRead(TextRead(p, text \o t), token)
        /\ TextRead(q, Append(t, token)) = TokenRead(TextRead(q, t), token)
    BY <1>1, <2>1, ReadsMore
  <2> QED
    BY <1>3, <2>1, <2>2
<1> HIDE DEF S
<1>4. \A t \in Text : t \in S
  BY <1>2, <1>3, SequenceInduction DEF Text
<1> QED
  BY <1>4 DEF S

(* The parser, when what it reported has been taken from it.               *)
Cleared(p) == [p EXCEPT !.out = <<>>]

(* What was reported before comes before what a text adds to it.           *)
LEMMA Continues ==
  ASSUME NEW flaw, NEW p \in Parsers(flaw), NEW text \in Text
  PROVE  /\ Cleared(p) \in Parsers(flaw)
         /\ TextRead(p, text) = Shift(TextRead(Cleared(p), text), p.out)
<1>1. p.out \in Seq(Reports) /\ <<>> \in Seq(Reports)
  BY EmptySeq DEF Parsers
<1>2. Cleared(p) \in Parsers(flaw)
  BY <1>1 DEF Cleared, Parsers
<1>3. p = Shift(Cleared(p), p.out)
  <2>1. p.out \o <<>> = p.out
    BY <1>1, ConcatEmptySeq
  <2>2. Cleared(p).out = <<>>
    BY DEF Cleared, Parsers
  <2> QED
    BY <2>1, <2>2 DEF Shift, Cleared, Parsers
<1> QED
  BY <1>1, <1>2, <1>3, ReadsText

(* A new connection has a parser.                                          *)
LEMMA NewParsers ==
  ASSUME NEW flaw, NEW id \in Text
  PROVE  NewParser(flaw, id) \in Parsers(flaw)
<1>1. <<>> \in Seq(Reports)
  BY EmptySeq
<1> QED
  BY <1>1, NoText DEF NewParser, Parsers

(* A function on 1 .. n is a sequence of n items.                          *)
LEMMA IsSequence ==
  ASSUME NEW S, NEW n \in Nat, NEW s \in [1 .. n -> S]
  PROVE  s \in Seq(S) /\ Len(s) = n
OBVIOUS

(* But for these faults, it does not matter where a read begins and ends.  *)
Sensitive == BoundaryFaults \cup {"swapsEvents"}

LEMMA ReadsChunk ==
  ASSUME NEW flaw, NEW p \in Parsers(flaw), NEW chunk \in Text
  PROVE  /\ ChunkRead(p, chunk) \in Parsers(flaw)
         /\ flaw \notin Sensitive => ChunkRead(p, chunk) = TextRead(p, chunk)
<1> DEFINE damaged == p.fault = "decodesChunks" /\ ~ Range(Bytes) \subseteq Range(chunk)
           read(x) == IF damaged /\ x \in Range(Bytes) THEN "?" ELSE x
           text == [i \in DOMAIN chunk |-> read(chunk[i])]
           missed == p.fault = "wholeBOMOnly" /\ p.line = <<>> /\ ~ IsPrefix(BOM, chunk)
           afterCR == p.afterCR /\ p.fault # "splitsCRLF"
           first == p.first /\ ~missed
           begun == [p EXCEPT !.afterCR = afterCR, !.first = first]
           q == TextRead(begun, text)
           n == Len(q.out)
           swapped == [i \in 1 .. n |-> q.out[n + 1 - i]]
<1>1. /\ chunk \in [1 .. Len(chunk) -> Token] /\ Len(chunk) \in Nat
      /\ DOMAIN chunk = 1 .. Len(chunk)
  BY LenProperties DEF Text
<1>2. ChunkRead(p, chunk) = CASE p.fault = "chunkIsLine" /\ q.line # <<>> -> LineEnded(q)
                              [] p.fault = "swapsEvents" /\ n > 1 -> [q EXCEPT !.out = swapped]
                              [] OTHER -> q
  BY DEF ChunkRead
<1> DEFINE even == flaw \notin Sensitive
<1>3. even => ~damaged /\ ~missed /\ afterCR = p.afterCR /\ first = p.first
  BY DEF Parsers, Sensitive, BoundaryFaults
<1> HIDE DEF damaged, missed
<1>4. text \in Text
  <2>1. "?" \in Token
    BY DEF Token
  <2>2. \A x \in Token : read(x) \in Token
    BY <2>1
  <2> HIDE DEF read
  <2>3. text \in [1 .. Len(chunk) -> Token]
    BY <1>1, <2>2
  <2> QED
    BY <1>1, <2>3, IsSequence DEF Text
<1>5. even => text = chunk
  BY <1>1, <1>3
<1> HIDE DEF text
<1>6. afterCR \in BOOLEAN /\ first \in BOOLEAN
  BY DEF Parsers
<1> HIDE DEF afterCR, first
<1>7. begun \in Parsers(flaw)
  BY <1>6 DEF Parsers
<1>8. even => begun = p
  BY <1>3 DEF Parsers
<1> HIDE DEF begun
<1>9. <<>> \in Seq(Reports)
  BY EmptySeq
<1>10. q \in Parsers(flaw)
  BY <1>4, <1>7, <1>9, ReadsText
<1> HIDE DEF q
<1>11. LineEnded(q) \in Parsers(flaw)
  BY <1>9, <1>10, EndsLine
<1>12. q.out \in Seq(Reports) /\ n \in Nat
  BY <1>10, LenProperties DEF Parsers
<1>13. swapped \in Seq(Reports)
  <2>1. \A i \in 1 .. n : q.out[n + 1 - i] \in Reports
    BY <1>12, ElementOfSeq
  <2> HIDE DEF n
  <2> QED
    BY <1>12, <2>1, IsSequence
<1> HIDE DEF swapped
<1>14. [q EXCEPT !.out = swapped] \in Parsers(flaw)
  BY <1>10, <1>13 DEF Parsers
<1>15. ChunkRead(p, chunk) \in Parsers(flaw)
  BY <1>2, <1>10, <1>11, <1>14
<1>16. even => ChunkRead(p, chunk) = q
  BY <1>2 DEF Parsers, Sensitive, BoundaryFaults
<1> QED
  BY <1>5, <1>8, <1>15, <1>16 DEF q

(* Texts are read one by one.                                              *)
LEMMA ReadsOne ==
  ASSUME NEW flaw, NEW p \in Parsers(flaw), NEW text \in Text
  PROVE  /\ ReadOne(p, text) \in Parsers(flaw)
         /\ ReadOne(p, text) = Shift(ReadOne(Cleared(p), text), p.out)
         /\ \A a \in Seq(Reports) : ReadOne(Shift(p, a), text) = Shift(ReadOne(p, text), a)
         /\ p.out = <<>> => ReadOne(p, text) = ChunkRead(p, text)
         /\ flaw \notin Sensitive => ReadOne(p, text) = TextRead(p, text)
<1> DEFINE q == ChunkRead(Cleared(p), text)
<1>1. p.out \in Seq(Reports) /\ <<>> \in Seq(Reports)
  BY EmptySeq DEF Parsers
<1>2. Cleared(p) \in Parsers(flaw) /\ TextRead(p, text) = Shift(TextRead(Cleared(p), text), p.out)
  BY Continues
<1>3. /\ q \in Parsers(flaw) /\ q.out \in Seq(Reports)
      /\ flaw \notin Sensitive => q = TextRead(Cleared(p), text)
  BY <1>2, ReadsChunk DEF Parsers
<1>4. ReadOne(p, text) = Shift(q, p.out)
  BY DEF ReadOne, Cleared, Shift
<1>5. ASSUME NEW a \in Seq(Reports) PROVE ReadOne(Shift(p, a), text) = Shift(q, a \o p.out)
  <2>1. Cleared(Shift(p, a)) = Cleared(p) /\ Shift(p, a).out = a \o p.out
    BY DEF Shift, Cleared, Parsers
  <2>2. ReadOne(Shift(p, a), text) = Shift(ChunkRead(Cleared(Shift(p, a)), text), Shift(p, a).out)
    BY DEF ReadOne, Cleared, Shift
  <2> QED
    BY <2>1, <2>2
<1>6. ReadOne(Cleared(p), text) = Shift(q, <<>>)
  <2>1. Cleared(Cleared(p)) = Cleared(p) /\ Cleared(p).out = <<>>
    BY DEF Cleared, Parsers
  <2>2. ReadOne(Cleared(p), text) = Shift(ChunkRead(Cleared(Cleared(p)), text), Cleared(p).out)
    BY DEF ReadOne, Cleared, Shift
  <2> QED
    BY <2>1, <2>2
<1> HIDE DEF q
<1>7. Shift(q, p.out) \in Parsers(flaw)
  <2>1. p.out \o q.out \in Seq(Reports)
    BY <1>1, <1>3, ConcatProperties
  <2> QED
    BY <1>3, <2>1 DEF Shift, Parsers
<1>8. Shift(q, <<>>) = q
  <2>1. <<>> \o q.out = q.out
    BY <1>3, ConcatEmptySeq
  <2> QED
    BY <1>3, <2>1 DEF Shift, Parsers
<1>9. ASSUME NEW a \in Seq(Reports) PROVE Shift(q, a \o p.out) = Shift(Shift(q, p.out), a)
  <2>1. p.out \in Seq(Reports) /\ q.out \in Seq(Reports)
    BY <1>1, <1>3
  <2>2. (a \o p.out) \o q.out = a \o (p.out \o q.out)
    <3>1. \A b, c \in Seq(Reports) : (a \o b) \o c = a \o (b \o c)
      BY ConcatAssociative
    <3> QED
      BY <2>1, <3>1
  <2> QED
    BY <1>3, <2>2 DEF Shift, Parsers
<1>10. p.out = <<>> => Cleared(p) = p
  BY DEF Cleared, Parsers
<1> QED
  <2>1. p.out = <<>> => ReadOne(p, text) = ChunkRead(p, text)
    BY <1>4, <1>8, <1>10 DEF q
  <2>2. flaw \notin Sensitive => ReadOne(p, text) = TextRead(p, text)
    BY <1>2, <1>3, <1>4
  <2> QED
    BY <1>4, <1>5, <1>6, <1>7, <1>8, <1>9, <2>1, <2>2

(* The recursive function within ReadEach exists, ...                      *)
EachReading(flaw, p, texts) ==
  {f \in [0 .. Len(texts) -> Parsers(flaw)] :
     /\ f[0] = p
     /\ \A i \in 1 .. Len(texts) : f[i] = ReadOne(f[i - 1], texts[i])
     /\ ReadEach(p, texts) = f[Len(texts)]}

LEMMA ReadEachDef ==
  ASSUME NEW flaw, NEW p \in Parsers(flaw), NEW texts \in Seq(Text)
  PROVE  EachReading(flaw, p, texts) # {}
<1> DEFINE n == Len(texts)
           step == [x \in Parsers(flaw) \X (1 .. n) |-> ReadOne(x[1], texts[x[2]])]
           Eq(g) == g = [i \in 0 .. n |-> IF i = 0 THEN p ELSE ReadOne(g[i - 1], texts[i])]
           after == CHOOSE g : Eq(g)
<1>1. n \in Nat /\ \A i \in 1 .. n : texts[i] \in Text
  BY LenProperties, ElementOfSeq
<1>2. ReadEach(p, texts) = after[n]
  BY DEF ReadEach
<1> HIDE DEF n
<1>3. \A x \in Parsers(flaw) : \A i \in 1 .. n : step[<<x, i>>] = ReadOne(x, texts[i])
  OBVIOUS
<1>4. step \in [Parsers(flaw) \X (1 .. n) -> Parsers(flaw)]
  <2>1. ASSUME NEW x \in Parsers(flaw) \X (1 .. n) PROVE ReadOne(x[1], texts[x[2]]) \in Parsers(flaw)
    <3>1. x[1] \in Parsers(flaw) /\ texts[x[2]] \in Text
      BY <1>1
    <3> QED
      BY <3>1, ReadsOne
  <2> QED
    BY <2>1
<1> HIDE DEF step
<1>5. PICK f \in [0 .. n -> Parsers(flaw)] :
        f[0] = p /\ \A i \in 1 .. n : f[i] = step[<<f[i - 1], i>>]
  <2>1. StepByStep(Parsers(flaw), p, n, step) # {}
    BY <1>1, <1>4, Recursion
  <2> QED
    BY <2>1 DEF StepByStep
<1>6. \A i \in 1 .. n : f[i] = ReadOne(f[i - 1], texts[i])
  <2>1. \A i \in 1 .. n : i - 1 \in 0 .. n
    BY <1>1
  <2> QED
    BY <1>3, <1>5, <2>1
<1>7. Eq(after)
  <2>1. Eq(f)
    <3>1. f = [i \in 0 .. n |-> f[i]]
      OBVIOUS
    <3>2. ASSUME NEW i \in 0 .. n
          PROVE  f[i] = IF i = 0 THEN p ELSE ReadOne(f[i - 1], texts[i])
      <4>1. i # 0 => i \in 1 .. n
        BY <1>1
      <4> QED
        BY <1>5, <1>6, <4>1
    <3> QED
      BY <3>1, <3>2
  <2> QED
    BY <2>1
<1> HIDE DEF after
<1>8. StepAlike(f, after, n)
  <2>1. after[0] = p
    BY <1>1, <1>7
  <2>2. ASSUME NEW i \in 1 .. n PROVE after[i] = ReadOne(after[i - 1], texts[i])
    <3>1. i \in 0 .. n /\ i # 0
      BY <1>1
    <3> QED
      BY <1>7, <3>1
  <2> QED
    BY <1>5, <1>6, <2>1, <2>2 DEF StepAlike
<1>9. f[n] = after[n]
  BY <1>1, <1>8, SameSteps
<1> QED
  BY <1>2, <1>5, <1>6, <1>9 DEF n, EachReading

(* ... starts from the parser, and goes on by a text; ...                  *)
LEMMA ReadsNone ==
  ASSUME NEW flaw, NEW p \in Parsers(flaw)
  PROVE  ReadEach(p, <<>>) = p
<1>1. Len(<<>>) = 0 /\ <<>> \in Seq(Text)
  BY EmptySeq
<1>2. EachReading(flaw, p, <<>>) # {}
  BY <1>1, ReadEachDef
<1>3. PICK f \in [0 .. Len(<<>>) -> Parsers(flaw)] : f[0] = p /\ ReadEach(p, <<>>) = f[Len(<<>>)]
  BY <1>2 DEF EachReading
<1> QED
  BY <1>1, <1>3

LEMMA ReadsAnother ==
  ASSUME NEW flaw, NEW p \in Parsers(flaw), NEW texts \in Seq(Text), NEW text \in Text
  PROVE  ReadEach(p, Append(texts, text)) = ReadOne(ReadEach(p, texts), text)
<1> DEFINE longer == Append(texts, text)
           m == Len(texts)
<1>1. /\ m \in Nat /\ Len(longer) = m + 1 /\ longer \in Seq(Text)
      /\ longer[m + 1] = text /\ \A i \in 1 .. m : longer[i] = texts[i]
  BY AppendProperties, LenProperties
<1>2. PICK f \in [0 .. m -> Parsers(flaw)] :
        /\ f[0] = p
        /\ \A i \in 1 .. m : f[i] = ReadOne(f[i - 1], texts[i])
        /\ ReadEach(p, texts) = f[m]
  <2>1. EachReading(flaw, p, texts) # {}
    BY ReadEachDef
  <2> QED
    BY <2>1 DEF EachReading
<1> HIDE DEF m, longer
<1>3. PICK g \in [0 .. m + 1 -> Parsers(flaw)] :
        /\ g[0] = p
        /\ \A i \in 1 .. m + 1 : g[i] = ReadOne(g[i - 1], longer[i])
        /\ ReadEach(p, longer) = g[m + 1]
  <2>1. longer \in Seq(Text) /\ Len(longer) = m + 1
    BY <1>1
  <2>2. EachReading(flaw, p, longer) # {}
    BY <2>1, ReadEachDef
  <2> QED
    BY <2>1, <2>2 DEF EachReading
<1>4. ASSUME NEW i \in 1 .. m, f[i - 1] = g[i - 1] PROVE f[i] = g[i]
  <2>1. i \in 1 .. m + 1
    BY <1>1
  <2> QED
    BY <1>1, <1>2, <1>3, <1>4, <2>1
<1>5. f[m] = g[m]
  <2>1. StepAlike(f, g, m)
    BY <1>2, <1>3, <1>4 DEF StepAlike
  <2>2. m \in Nat
    BY <1>1
  <2> QED
    BY <2>1, <2>2, SameSteps
<1>6. m + 1 \in 1 .. m + 1 /\ (m + 1) - 1 = m
  BY <1>1
<1> QED
  BY <1>1, <1>2, <1>3, <1>5, <1>6 DEF longer

(* ... what was reported before does not matter to what follows, and but   *)
(* for those faults it is as if they were one text; ...                    *)
LEMMA ReadsEach ==
  ASSUME NEW flaw, NEW p \in Parsers(flaw), NEW a \in Seq(Reports), NEW texts \in Seq(Text)
  PROVE  /\ ReadEach(p, texts) \in Parsers(flaw)
         /\ ReadEach(Shift(p, a), texts) = Shift(ReadEach(p, texts), a)
         /\ flaw \notin Sensitive => ReadEach(p, texts) = TextRead(p, FlattenSeq(texts))
<1> DEFINE even == flaw \notin Sensitive
           S == {s \in Seq(Text) : /\ ReadEach(p, s) \in Parsers(flaw)
                                   /\ ReadEach(Shift(p, a), s) = Shift(ReadEach(p, s), a)
                                   /\ even => ReadEach(p, s) = TextRead(p, FlattenSeq(s))}
<1>1. Shift(p, a) \in Parsers(flaw)
  <2>1. a \o p.out \in Seq(Reports)
    BY ConcatProperties DEF Parsers
  <2> QED
    BY <2>1 DEF Shift, Parsers
<1>2. <<>> \in S
  <2>1. <<>> \in Seq(Text) /\ FlattenSeq(<<>>) = <<>>
    BY EmptySeq, FlattenType
  <2>2. /\ ReadEach(p, <<>>) = p /\ TextRead(p, <<>>) = p
        /\ ReadEach(Shift(p, a), <<>>) = Shift(p, a)
    BY <1>1, ReadsNone, ReadsNoText
  <2> QED
    BY <2>1, <2>2
<1>3. ASSUME NEW s \in Seq(Text), NEW text \in Text, s \in S PROVE Append(s, text) \in S
  <2> DEFINE q == ReadEach(p, s)
  <2>1. /\ q \in Parsers(flaw) /\ ReadEach(Shift(p, a), s) = Shift(q, a)
        /\ even => q = TextRead(p, FlattenSeq(s))
        /\ Append(s, text) \in Seq(Text)
    BY <1>3, AppendProperties
  <2>2. /\ ReadEach(p, Append(s, text)) = ReadOne(q, text)
        /\ ReadEach(Shift(p, a), Append(s, text)) = ReadOne(ReadEach(Shift(p, a), s), text)
    BY <1>1, ReadsAnother
  <2> HIDE DEF q
  <2>3. /\ ReadOne(q, text) \in Parsers(flaw)
        /\ ReadOne(Shift(q, a), text) = Shift(ReadOne(q, text), a)
        /\ even => ReadOne(q, text) = TextRead(q, text)
    BY <2>1, ReadsOne
  <2>4. even => TextRead(p, FlattenSeq(Append(s, text))) = TextRead(q, text)
    <3>1. FlattenSeq(s) \in Text /\ FlattenSeq(Append(s, text)) = FlattenSeq(s) \o text
      BY FlattenType, FlattenAppend DEF Text
    <3>2. TextRead(p, FlattenSeq(s) \o text) = TextRead(TextRead(p, FlattenSeq(s)), text)
      BY <3>1, ReadsParts
    <3> QED
      BY <2>1, <3>1, <3>2
  <2> HIDE DEF even
  <2> QED
    BY <2>1, <2>2, <2>3, <2>4
<1> HIDE DEF S
<1>4. \A s \in Seq(Text) : s \in S
  BY <1>2, <1>3, SequenceInduction
<1> QED
  BY <1>4 DEF S

(* ... and some texts may be read before the others.                       *)
LEMMA ReadsSome ==
  ASSUME NEW flaw, NEW p \in Parsers(flaw), NEW texts \in Seq(Text), NEW others \in Seq(Text)
  PROVE  ReadEach(p, texts \o others) = ReadEach(ReadEach(p, texts), others)
<1> DEFINE q == ReadEach(p, texts)
           S == {s \in Seq(Text) : ReadEach(p, texts \o s) = ReadEach(q, s)}
<1>1. q \in Parsers(flaw)
  <2>1. <<>> \in Seq(Reports)
    BY EmptySeq
  <2> QED
    BY <2>1, ReadsEach
<1>2. <<>> \in S
  <2>1. texts \o <<>> = texts /\ <<>> \in Seq(Text)
    BY ConcatEmptySeq, EmptySeq
  <2> QED
    BY <1>1, <2>1, ReadsNone
<1>3. ASSUME NEW s \in Seq(Text), NEW text \in Text, s \in S PROVE Append(s, text) \in S
  <2>1. /\ texts \o s \in Seq(Text) /\ Append(s, text) \in Seq(Text)
        /\ texts \o Append(s, text) = Append(texts \o s, text)
    BY AppendToSecond, AppendProperties
  <2>2. /\ ReadEach(p, Append(texts \o s, text)) = ReadOne(ReadEach(p, texts \o s), text)
        /\ ReadEach(q, Append(s, text)) = ReadOne(ReadEach(q, s), text)
    BY <1>1, <2>1, ReadsAnother
  <2> QED
    BY <1>3, <2>1, <2>2
<1> HIDE DEF S
<1>4. \A s \in Seq(Text) : s \in S
  BY <1>2, <1>3, SequenceInduction
<1> QED
  BY <1>4 DEF S

LEMMA ReadsFirst ==
  ASSUME NEW flaw, NEW p \in Parsers(flaw), NEW text \in Text
  PROVE  ReadEach(p, <<text>>) = ReadOne(p, text)
<1>1. <<>> \in Seq(Text) /\ <<text>> = Append(<<>>, text)
  BY EmptySeq
<1>2. ReadEach(p, Append(<<>>, text)) = ReadOne(ReadEach(p, <<>>), text) /\ ReadEach(p, <<>>) = p
  BY <1>1, ReadsAnother, ReadsNone
<1> QED
  BY <1>1, <1>2

(* Some texts in one read.                                                 *)
LEMMA ReadsAtOnce ==
  ASSUME NEW flaw, NEW p \in Parsers(flaw), p.out = <<>>, NEW texts \in Seq(Text),
         Len(texts) = 1 \/ flaw \notin Sensitive
  PROVE  /\ ChunkRead(p, FlattenSeq(texts)) \in Parsers(flaw)
         /\ ChunkRead(p, FlattenSeq(texts)) = ReadEach(p, texts)
<1>1. FlattenSeq(texts) \in Text /\ <<>> \in Seq(Reports)
  BY FlattenType, EmptySeq DEF Text
<1>2. /\ ChunkRead(p, FlattenSeq(texts)) \in Parsers(flaw)
      /\ flaw \notin Sensitive => ChunkRead(p, FlattenSeq(texts)) = TextRead(p, FlattenSeq(texts))
  BY <1>1, ReadsChunk
<1>3. CASE flaw \notin Sensitive
  <2>1. ReadEach(p, texts) = TextRead(p, FlattenSeq(texts))
    BY <1>1, <1>3, ReadsEach
  <2> QED
    BY <1>2, <1>3, <2>1
<1>4. CASE Len(texts) = 1
  <2>1. texts[1] \in Text /\ texts = <<texts[1]>>
    BY <1>4, ElementOfSeq
  <2> DEFINE text == texts[1]
  <2> HIDE DEF text
  <2>2. text \in Text /\ texts = <<text>>
    BY <2>1 DEF text
  <2>3. FlattenSeq(<<text>>) = text
    BY <2>2, FlattenOne DEF Text
  <2>4. ReadEach(p, <<text>>) = ReadOne(p, text)
    BY <2>2, ReadsFirst
  <2>5. ReadOne(p, text) = ChunkRead(p, text)
    BY <2>2, ReadsOne
  <2> QED
    BY <1>2, <2>2, <2>3, <2>4, <2>5
<1> QED
  BY <1>3, <1>4

(* What was reported before comes before what the texts add to it.         *)
LEMMA EachContinues ==
  ASSUME NEW flaw, NEW p \in Parsers(flaw), NEW texts \in Seq(Text)
  PROVE  ReadEach(p, texts) = Shift(ReadEach(Cleared(p), texts), p.out)
<1>1. p.out \in Seq(Reports) /\ <<>> \in Seq(Reports)
  BY EmptySeq DEF Parsers
<1>2. Cleared(p) \in Parsers(flaw)
  BY <1>1 DEF Cleared, Parsers
<1>3. p = Shift(Cleared(p), p.out)
  <2>1. p.out \o <<>> = p.out
    BY <1>1, ConcatEmptySeq
  <2>2. Cleared(p).out = <<>>
    BY DEF Cleared, Parsers
  <2> QED
    BY <2>1, <2>2 DEF Shift, Cleared, Parsers
<1> QED
  BY <1>1, <1>2, <1>3, ReadsEach
-----------------------------------------------------------------------------
(***************************************************************************)
(* Types.                                                                  *)
(***************************************************************************)

Chunks == [data : Text, delayAfter : BOOLEAN]
Methods == {"GET"} \cup {s.params.method : s \in Range(Scripts)}
Requests ==
  [method : Methods, body : BOOLEAN, accept : BOOLEAN, noCache : BOOLEAN, headers : BOOLEAN,
   ids : {<<>>} \cup {<<id>> : id \in Text}]

SetupTyped == setup.script \in DOMAIN Scripts /\ setup \in Setups(setup.script)

(* The test has a connection after it has awaited the first one.           *)
HasAwaited == \E j \in 1 .. pc - 1 : script.steps[j].op = "await"
TestTyped ==
  /\ test \in {"starting", "running", "ended"}
  /\ pc \in 1 .. Len(script.steps) + 1
  /\ failed \in BOOLEAN /\ ignoreNextError \in BOOLEAN
  /\ HasAwaited => stream # 0

ServerTyped ==
  /\ requests \in Seq(Requests) /\ Current <= MaxRequests
  /\ wire \in Seq(Seq(Chunks)) /\ Len(wire) = Current
  /\ newConns \in Seq(1 .. Current) /\ stream \in 0 .. Current
  /\ broken \subseteq 1 .. Current

ClientTyped ==
  /\ client \in {"none", "connecting", "reading", "waiting", "stopped"}
  /\ told \in BOOLEAN /\ joined \in BOOLEAN
  /\ parser \in Parsers(setup.fault) /\ parser.out = <<>>
  /\ messages \in Seq(Reports)
  /\ client = "reading" => Current > 0

TypeInv == SetupTyped /\ TestTyped /\ ServerTyped /\ ClientTyped

(* A script is well-formed, whichever it is.                               *)
LEMMA ScriptTypes ==
  ASSUME SetupTyped
  PROVE  /\ WellFormed(script) /\ Len(script.steps) \in Nat
         /\ params.lastID \in Text
         /\ params.method \in Methods
         /\ setup.sendsAccept \in BOOLEAN
<1>1. /\ setup.script \in DOMAIN Scripts /\ setup.sendsAccept \in BOOLEAN
      /\ script \in Range(Scripts)
  BY DEF SetupTyped, Setups, Either, script, Range
<1>2. WellFormed(script)
  BY <1>1, ScriptsAssumption DEF script
<1>3. Len(script.steps) \in Nat
  BY <1>2, LenProperties DEF WellFormed
<1> QED
  BY <1>1, <1>2, <1>3 DEF WellFormed, params, Methods, Text

(* The types hold in the initial states.                                   *)
LEMMA InitTypes == Init => TypeInv
<1> SUFFICES ASSUME Init PROVE TypeInv
  OBVIOUS
<1>1. SetupTyped
  BY DEF Init, SetupTyped, Setups
<1>2. Len(script.steps) \in Nat
  BY <1>1, ScriptTypes
<1>3. TestTyped
  <2>1. pc = 1 /\ test = "starting" /\ failed = FALSE /\ ignoreNextError = FALSE
    BY DEF Init
  <2>2. ~HasAwaited
    BY <2>1 DEF HasAwaited
  <2>3. pc \in 1 .. Len(script.steps) + 1
    BY <1>2, <2>1
  <2> QED
    BY <2>1, <2>2, <2>3 DEF TestTyped
<1>4. ServerTyped
  BY EmptySeq, MaxRequestsAssumption DEF Init, ServerTyped, Current
<1>5. ClientTyped
  <2>1. <<>> \in Seq(Reports)
    BY EmptySeq
  <2>2. NewParser(setup.fault, none) \in Parsers(setup.fault)
    BY NoText, NewParsers DEF none
  <2>3. NewParser(setup.fault, none).out = <<>>
    BY DEF NewParser
  <2> QED
    BY <2>1, <2>2, <2>3 DEF Init, ClientTyped
<1> QED
  BY <1>1, <1>3, <1>4, <1>5 DEF TypeInv

(* What the client hears of some reports are reports.                      *)
LEMMA HeardTypes ==
  ASSUME NEW u, NEW types, NEW reports \in Seq(Reports)
  PROVE  ReportedBy(u, types, reports) \in Seq(Reports)
<1> DEFINE heard(r) == IF CanReport(u, types, r) THEN <<r>> ELSE <<>>
           parts == [i \in DOMAIN reports |-> heard(reports[i])]
<1>1. \A r \in Reports : heard(r) \in Seq(Reports)
  <2> TAKE r \in Reports
  <2>1. <<>> \in Seq(Reports) /\ <<r>> \in Seq(Reports)
    BY EmptySeq
  <2> QED
    BY <2>1
<1>2. ReportedBy(u, types, reports) = FlattenSeq(parts)
  BY DEF ReportedBy
<1> HIDE DEF heard
<1>3. parts \in Seq(Seq(Reports))
  <2>1. /\ Len(reports) \in Nat /\ DOMAIN reports = 1 .. Len(reports)
        /\ \A i \in 1 .. Len(reports) : reports[i] \in Reports
    BY LenProperties, ElementOfSeq
  <2>2. parts \in [1 .. Len(reports) -> Seq(Reports)]
    BY <1>1, <2>1
  <2> QED
    BY <2>1, <2>2, IsSequence
<1> QED
  BY <1>2, <1>3, FlattenType

(* What the client reports is on its way to the test.                      *)
LEMMA SaysTypes ==
  ASSUME messages \in Seq(Reports), NEW reports \in Seq(Reports), Says(reports)
  PROVE  messages' \in Seq(Reports)
BY HeardTypes, ConcatProperties DEF Says

LEMMA ErrorReports ==
  /\ Error \in Reports
  /\ <<>> \in Seq(Reports) /\ <<Error>> \in Seq(Reports)
<1>1. Error \in Reports
  BY NoText DEF Error, Report, Reports, MessageKinds
<1> QED
  BY <1>1, EmptySeq

(* The client asks with an ID that it was given or has read.               *)
LEMMA FirstTypes ==
  ASSUME SetupTyped
  PROVE  FirstID(setup) \in Text
BY NoText, ScriptTypes DEF FirstID, none, params, script

LEMMA RequestTypes ==
  ASSUME SetupTyped, NEW id \in Text, NEW again
  PROVE  RequestOf(setup, id, again) \in Requests
<1> DEFINE plain == setup.fault = "ignoresMethod" \/ (again /\ setup.fault = "sendsBodyOnce")
<1>1. params.method \in Methods /\ setup.sendsAccept \in BOOLEAN /\ "GET" \in Methods
  BY ScriptTypes DEF Methods
<1>2. LastEventIDs(setup, id, again) \in {<<>>} \cup {<<i>> : i \in Text}
  BY NoText DEF LastEventIDs, none
<1> HIDE DEF plain
<1>3. RequestOf(setup, id, again) =
        [method |-> IF plain THEN "GET" ELSE params.method,
         body |-> params.body /\ ~plain /\ setup.fault # "dropsBody",
         accept |-> setup.sendsAccept, noCache |-> setup.fault # "cached",
         headers |-> params.headers /\ setup.fault # "ignoresHeaders",
         ids |-> LastEventIDs(setup, id, again)]
  BY DEF RequestOf, plain, params, script
<1>4. params.body \in BOOLEAN /\ params.headers \in BOOLEAN
  BY ScriptTypes DEF WellFormed, params
<1> QED
  BY <1>1, <1>2, <1>3, <1>4 DEF Requests

(* The parser before and after a connection.                               *)
LEMMA ReopenedTypes ==
  ASSUME NEW u, NEW p \in Parsers(u.fault), p.out = <<>>
  PROVE  Reopened(u, p) \in Parsers(u.fault) /\ Reopened(u, p).out = <<>>
<1>1. p.lastID \in Text
  BY DEF Parsers
<1> QED
  BY <1>1, NewParsers DEF Reopened, NewParser

LEMMA LeftTypes ==
  ASSUME NEW u, NEW p \in Parsers(u.fault)
  PROVE  LeftBy(u, p) \in Parsers(u.fault) /\ LeftBy(u, p).out = p.out
BY DEF LeftBy, Parsers

(* What a step must be to keep the types of variables that it changes.     *)
LEMMA SeqMono ==
  ASSUME NEW S, NEW T, S \subseteq T, NEW s \in Seq(S)
  PROVE  s \in Seq(T)
<1>1. s \in [1 .. Len(s) -> S] /\ Len(s) \in Nat
  BY LenProperties
<1>2. s \in [1 .. Len(s) -> T]
  BY <1>1
<1> QED
  BY <1>1, <1>2, IsSequence

(* A step of the test that goes on to the next one, ...                    *)
LEMMA GoesOn ==
  ASSUME TypeInv, test = "running", pc <= Len(script.steps), GoOn,
         UNCHANGED setup, script.steps[pc].op # "await" \/ stream' # 0,
         stream' = stream \/ stream' # 0,
         failed' \in BOOLEAN, ignoreNextError' \in BOOLEAN
  PROVE  TestTyped'
<1>1. Len(script.steps) \in Nat /\ pc \in 1 .. Len(script.steps) + 1 /\ script' = script
  BY ScriptTypes DEF TypeInv, TestTyped, script
<1>2. pc' \in 1 .. Len(script.steps) + 1 /\ pc' = pc + 1 /\ test' = test
  BY <1>1 DEF GoOn
<1>3. HasAwaited' => stream' # 0
  <2>1. SUFFICES ASSUME HasAwaited', stream' = 0 PROVE FALSE
    OBVIOUS
  <2>2. PICK j \in 1 .. pc : script.steps[j].op = "await"
    BY <1>1, <1>2, <2>1 DEF HasAwaited
  <2>3. j \in 1 .. pc - 1
    BY <1>1, <2>1, <2>2
  <2>4. stream = 0 /\ HasAwaited
    BY <2>1, <2>2, <2>3 DEF HasAwaited
  <2> QED
    BY <2>4 DEF TypeInv, TestTyped
<1> QED
  BY <1>1, <1>2, <1>3 DEF TypeInv, TestTyped

(* ... one that ends the test, ...                                         *)
LEMMA Ends ==
  ASSUME TypeInv, TearDown, UNCHANGED setup, failed' \in BOOLEAN
  PROVE  TestTyped'
BY DEF TypeInv, TearDown, TestTyped, HasAwaited, script

(* ... and steps that leave a part of the state alone.                     *)
LEMMA KeepsTest ==
  ASSUME TypeInv, UNCHANGED <<setup, testVars>>
  PROVE  TestTyped'
BY DEF TypeInv, testVars, TestTyped, HasAwaited, script

LEMMA KeepsServer ==
  ASSUME TypeInv, UNCHANGED <<serverVars, stream>>
  PROVE  ServerTyped'
BY DEF TypeInv, serverVars, ServerTyped, Current

LEMMA KeepsClient ==
  ASSUME TypeInv, UNCHANGED <<setup, requests, clientVars>>
  PROVE  ClientTyped'
BY DEF TypeInv, clientVars, ClientTyped, Current

LEMMA KeepsSetup ==
  ASSUME TypeInv, UNCHANGED setup
  PROVE  SetupTyped'
BY DEF TypeInv, SetupTyped, Setups

(* Head and Tail.                                                          *)
LEMMA PartOfSeq ==
  ASSUME NEW T, NEW s \in Seq(T), s # <<>>
  PROVE  Head(s) \in T /\ Tail(s) \in Seq(T)
BY HeadTailProperties

(* The client asks for a stream, ...                                       *)
LEMMA AskTypes ==
  ASSUME TypeInv, CanConnect, Asked
  PROVE  /\ requests' \in Seq(Requests) /\ Len(requests') = Current + 1
         /\ Current + 1 <= MaxRequests
         /\ wire' \in Seq(Seq(Chunks)) /\ Len(wire') = Current + 1
<1> DEFINE request == RequestOf(setup, parser.lastID, Current > 0)
<1>1. /\ requests \in Seq(Requests) /\ wire \in Seq(Seq(Chunks)) /\ Len(wire) = Current
      /\ <<>> \in Seq(Chunks) /\ request \in Requests
      /\ Current \in Nat /\ MaxRequests \in Nat
  <2>1. parser.lastID \in Text
    BY DEF TypeInv, ClientTyped, Parsers
  <2> QED
    BY <2>1, RequestTypes, EmptySeq, LenProperties, MaxRequestsAssumption
       DEF TypeInv, ServerTyped, Current
<1>2. requests' = Append(requests, request) /\ wire' = Append(wire, <<>>)
  BY DEF Asked
<1>3. Current < MaxRequests /\ Current = Len(requests)
  BY DEF CanConnect, Current
<1> HIDE DEF Current, request
<1> QED
  BY <1>1, <1>2, <1>3, AppendProperties

(* ... and gets it, ...                                                    *)
LEMMA ConnectTypes ==
  ASSUME TypeInv, Connect
  PROVE  TypeInv'
<1>1. UNCHANGED <<setup, testVars, broken, told, listening, messages, joined>>
  BY DEF Connect
<1>2. SetupTyped' /\ TestTyped'
  BY <1>1, KeepsSetup, KeepsTest
<1>3. Current \in Nat /\ Current' = Current + 1 /\ Current' = Len(requests')
  BY AskTypes, LenProperties DEF Connect, TypeInv, ServerTyped, Current
<1>4. ServerTyped'
  <2>1. newConns' \in Seq(1 .. Current')
    <3>1. newConns \in Seq(1 .. Current')
      BY <1>3, SeqMono DEF TypeInv, ServerTyped
    <3>2. Current + 1 \in 1 .. Current'
      BY <1>3
    <3> QED
      BY <3>1, <3>2, AppendProperties DEF Connect
  <2>2. /\ requests' \in Seq(Requests) /\ Current' <= MaxRequests
        /\ wire' \in Seq(Seq(Chunks)) /\ Len(wire') = Current'
    BY <1>3, AskTypes DEF Connect
  <2>3. stream' \in 0 .. Current' /\ broken' \subseteq 1 .. Current'
    BY <1>1, <1>3 DEF TypeInv, ServerTyped, testVars
  <2> QED
    BY <2>1, <2>2, <2>3 DEF ServerTyped
<1>5. ClientTyped'
  <2>1. parser' \in Parsers(setup.fault) /\ parser'.out = <<>>
    BY ReopenedTypes DEF Connect, TypeInv, ClientTyped
  <2> QED
    BY <1>1, <1>3, <2>1 DEF Connect, TypeInv, ClientTyped
<1> QED
  BY <1>2, <1>4, <1>5 DEF TypeInv

(* ... or does not; ...                                                    *)
LEMMA VainTypes ==
  ASSUME TypeInv, ConnectInVain
  PROVE  TypeInv'
<1>1. UNCHANGED <<setup, testVars, newConns, broken, told, listening, parser, joined>>
  BY DEF ConnectInVain
<1>2. SetupTyped' /\ TestTyped'
  BY <1>1, KeepsSetup, KeepsTest
<1>3. Current \in Nat /\ Current' = Current + 1 /\ Current' = Len(requests')
  BY AskTypes, LenProperties DEF ConnectInVain, TypeInv, ServerTyped, Current
<1>4. ServerTyped'
  <2>1. newConns' \in Seq(1 .. Current')
    BY <1>1, <1>3, SeqMono DEF TypeInv, ServerTyped
  <2>2. /\ requests' \in Seq(Requests) /\ Current' <= MaxRequests
        /\ wire' \in Seq(Seq(Chunks)) /\ Len(wire') = Current'
    BY <1>3, AskTypes DEF ConnectInVain
  <2>3. stream' \in 0 .. Current' /\ broken' \subseteq 1 .. Current'
    BY <1>1, <1>3 DEF TypeInv, ServerTyped, testVars
  <2> QED
    BY <2>1, <2>2, <2>3 DEF ServerTyped
<1>5. ClientTyped'
  <2>1. messages' \in Seq(Reports)
    <3>1. PICK reports \in Seq(Reports) : Says(reports)
      BY ErrorReports DEF ConnectInVain
    <3> QED
      BY <3>1, SaysTypes DEF TypeInv, ClientTyped
  <2>2. client' \in {"waiting", "stopped"}
    BY DEF ConnectInVain
  <2> QED
    BY <1>1, <2>1, <2>2 DEF TypeInv, ClientTyped
<1> QED
  BY <1>2, <1>4, <1>5 DEF TypeInv

(* Some of the chunks that were sent, and what is left.                    *)
LEMMA ChunkTypes ==
  ASSUME NEW chunks \in Seq(Chunks), NEW n \in 1 .. Len(chunks)
  PROVE  /\ SubSeq(chunks, 1, n) \in Seq(Chunks)
         /\ Len(SubSeq(chunks, 1, n)) = n
         /\ SubSeq(chunks, n + 1, Len(chunks)) \in Seq(Chunks)
         /\ \A m \in Nat : \A part \in Seq(Chunks) : Len(part) = m =>
              FlattenSeq([i \in 1 .. m |-> part[i].data]) \in Text
<1>1. Len(chunks) \in Nat /\ n \in Nat /\ n <= Len(chunks) /\ 0 + 1 = 1
  BY LenProperties
<1>2. SubSeq(chunks, 0 + 1, n) \in Seq(Chunks) /\ SubSeq(chunks, n + 1, Len(chunks)) \in Seq(Chunks)
  BY <1>1, PartOfText
<1>3. Len(SubSeq(chunks, 1, n)) = n
  <2>1. \A i \in 1 .. n : chunks[i] \in Chunks
    BY <1>1, ElementOfSeq
  <2> QED
    BY <1>1, <2>1, SubSeqProperties
<1>4. ASSUME NEW m \in Nat, NEW part \in Seq(Chunks), Len(part) = m
      PROVE  FlattenSeq([i \in 1 .. m |-> part[i].data]) \in Text
  <2>1. \A i \in 1 .. m : part[i].data \in Text
    <3>1. \A i \in 1 .. m : part[i] \in Chunks
      BY <1>4, ElementOfSeq
    <3> QED
      BY <3>1 DEF Chunks
  <2>2. [i \in 1 .. m |-> part[i].data] \in Seq(Text)
    BY <2>1, IsSequence
  <2> QED
    BY <2>2, FlattenType DEF Text
<1> QED
  BY <1>1, <1>2, <1>3, <1>4

(* ... it reads, ...                                                       *)
LEMMA ReadTypes ==
  ASSUME TypeInv, Read
  PROVE  TypeInv'
<1>1. UNCHANGED <<setup, testVars, newConns, requests, broken, client, told, listening>>
  BY DEF Read
<1>2. SetupTyped' /\ TestTyped'
  BY <1>1, KeepsSetup, KeepsTest
<1> DEFINE chunks(n) == SubSeq(wire[Current], 1, n)
           text(n) == FlattenSeq([i \in 1 .. n |-> chunks(n)[i].data])
           p(n) == ChunkRead(parser, text(n))
<1>3. PICK n \in 1 .. Len(wire[Current]) :
        /\ joined' = (joined \/ n > 1)
        /\ wire' = [wire EXCEPT ![Current] = SubSeq(@, n + 1, Len(@))]
        /\ parser' = [p(n) EXCEPT !.out = <<>>]
        /\ Says(p(n).out)
  BY DEF Read
<1>4. Current \in 1 .. Len(wire) /\ wire[Current] \in Seq(Chunks)
  <2>1. Current > 0 /\ wire \in Seq(Seq(Chunks)) /\ Len(wire) = Current /\ Current \in Nat
    BY LenProperties DEF Read, Reading, TypeInv, ClientTyped, ServerTyped, Current
  <2> QED
    BY <2>1, ElementOfSeq
<1>5. text(n) \in Text
  <2>1. chunks(n) \in Seq(Chunks) /\ Len(chunks(n)) = n
    BY <1>4, ChunkTypes
  <2> HIDE DEF chunks
  <2> QED
    BY <1>4, <2>1, ChunkTypes
<1> HIDE DEF text
<1>6. p(n) \in Parsers(setup.fault)
  BY <1>5, ReadsChunk DEF TypeInv, ClientTyped
<1> HIDE DEF p
<1>7. ServerTyped'
  <2>1. SubSeq(wire[Current], n + 1, Len(wire[Current])) \in Seq(Chunks)
    BY <1>4, ChunkTypes
  <2>2. wire' \in Seq(Seq(Chunks)) /\ Len(wire') = Len(wire)
    BY <1>3, <1>4, <2>1, ExceptSeq DEF TypeInv, ServerTyped
  <2> QED
    BY <1>1, <2>2 DEF TypeInv, ServerTyped, testVars, Current
<1>8. ClientTyped'
  <2>1. p(n).out \in Seq(Reports)
    BY <1>6 DEF Parsers
  <2>2. messages' \in Seq(Reports)
    BY <1>3, <2>1, SaysTypes DEF TypeInv, ClientTyped
  <2>3. parser' \in Parsers(setup.fault) /\ parser'.out = <<>>
    BY <1>3, <1>6, EmptySeq DEF Parsers
  <2>4. joined' \in BOOLEAN
    BY <1>3 DEF TypeInv, ClientTyped
  <2> QED
    BY <1>1, <2>2, <2>3, <2>4 DEF TypeInv, ClientTyped, Current
<1> QED
  BY <1>2, <1>7, <1>8 DEF TypeInv

(* ... it leaves the connection.                                           *)
LEMMA LeaveTypes ==
  ASSUME TypeInv, Leave, told' \in BOOLEAN, NEW reports \in Seq(Reports), Says(reports)
  PROVE  TypeInv'
<1>1. UNCHANGED <<setup, testVars, serverVars, listening, joined>>
  BY DEF Leave
<1>2. SetupTyped' /\ TestTyped' /\ ServerTyped'
  BY <1>1, KeepsSetup, KeepsTest, KeepsServer DEF testVars
<1>3. messages' \in Seq(Reports)
  BY SaysTypes DEF TypeInv, ClientTyped
<1>4. parser' \in Parsers(setup.fault) /\ parser'.out = <<>>
  BY LeftTypes DEF Leave, TypeInv, ClientTyped
<1>5. client' \in {"waiting", "stopped"}
  BY DEF Leave
<1> QED
  BY <1>1, <1>2, <1>3, <1>4, <1>5 DEF TypeInv, ClientTyped

(* Each step of the client.                                                *)
LEMMA ClientTypes ==
  ASSUME TypeInv, ClientStep
  PROVE  TypeInv'
<1>1. told \in BOOLEAN
  BY DEF TypeInv, ClientTyped
<1>2. CASE Connect
  BY <1>2, ConnectTypes
<1>3. CASE ConnectInVain
  BY <1>3, VainTypes
<1>4. CASE Read
  BY <1>4, ReadTypes
<1> DEFINE end == IF setup.reportsEnd THEN <<Error>> ELSE <<>>
<1>5. end \in Seq(Reports)
  BY ErrorReports
<1>6. CASE SeeEnd
  <2>1. Leave /\ Says(end) /\ told' \in BOOLEAN
    BY <1>1, <1>6 DEF SeeEnd
  <2> HIDE DEF end
  <2> QED
    BY <1>5, <2>1, LeaveTypes
<1>7. CASE DropForRestart
  <2>1. Leave /\ Says(end) /\ told' \in BOOLEAN
    BY <1>7 DEF DropForRestart
  <2> HIDE DEF end
  <2> QED
    BY <1>5, <2>1, LeaveTypes
<1>8. CASE ReadTimesOut
  <2>1. Leave /\ Says(<<Error>>) /\ told' \in BOOLEAN
    BY <1>1, <1>8 DEF ReadTimesOut
  <2> QED
    BY <2>1, LeaveTypes, ErrorReports
<1>9. CASE Retry
  <2>1. SetupTyped' /\ TestTyped' /\ ServerTyped'
    BY <1>9, KeepsSetup, KeepsTest, KeepsServer DEF Retry, testVars
  <2>2. client' = "connecting" /\ UNCHANGED <<setup, told, parser, messages, joined>>
    BY <1>9 DEF Retry
  <2>3. ClientTyped'
    BY <2>2 DEF TypeInv, ClientTyped
  <2> QED
    BY <2>1, <2>3 DEF TypeInv
<1> QED
  BY <1>2, <1>3, <1>4, <1>6, <1>7, <1>8, <1>9 DEF ClientStep

(* The steps in which only the test changes.                               *)
LEMMA TestOnlyTypes ==
  ASSUME TypeInv, TestOnly, UNCHANGED stream, TestTyped'
  PROVE  TypeInv'
<1>1. UNCHANGED <<setup, serverVars, clientVars, stream, requests>>
  BY DEF TestOnly, serverVars
<1>2. SetupTyped' /\ ServerTyped' /\ ClientTyped'
  BY <1>1, KeepsSetup, KeepsServer, KeepsClient
<1> QED
  BY <1>2 DEF TypeInv

(* A step of the test that awaits no connection.                           *)
LEMMA StepTypes ==
  ASSUME TypeInv, NEW op, At(op), op # "await", GoOn, UNCHANGED <<setup, stream>>,
         failed' \in BOOLEAN, ignoreNextError' \in BOOLEAN
  PROVE  TestTyped'
BY GoesOn DEF At

(* The test checks, waits or sets a flag, ...                              *)
LEMMA ChecksTypes ==
  ASSUME TypeInv
  PROVE  (ChecksRequest \/ IgnoresError \/ RequiresNoComment \/ CountsRequests \/ Sleeps) => TypeInv'
<1>1. failed \in BOOLEAN /\ ignoreNextError \in BOOLEAN
  BY DEF TypeInv, TestTyped
<1>2. CASE ChecksRequest
  <2>1. /\ At("request") /\ GoOn /\ failed' \in BOOLEAN /\ ignoreNextError' \in BOOLEAN
        /\ TestOnly /\ UNCHANGED <<setup, stream>>
    BY <1>1, <1>2 DEF ChecksRequest, assert, TestOnly
  <2>2. TestTyped'
    BY <2>1, StepTypes
  <2> QED
    BY <2>1, <2>2, TestOnlyTypes
<1>3. CASE IgnoresError
  <2>1. /\ At("ignoreError") /\ GoOn /\ failed' \in BOOLEAN /\ ignoreNextError' \in BOOLEAN
        /\ TestOnly /\ UNCHANGED <<setup, stream>>
    BY <1>1, <1>3 DEF IgnoresError, TestOnly
  <2>2. TestTyped'
    BY <2>1, StepTypes
  <2> QED
    BY <2>1, <2>2, TestOnlyTypes
<1>4. CASE RequiresNoComment
  <2>1. /\ At("commentIfAble") /\ GoOn /\ failed' \in BOOLEAN /\ ignoreNextError' \in BOOLEAN
        /\ TestOnly /\ UNCHANGED <<setup, stream>>
    BY <1>1, <1>4 DEF RequiresNoComment, TestOnly
  <2>2. TestTyped'
    BY <2>1, StepTypes
  <2> QED
    BY <2>1, <2>2, TestOnlyTypes
<1>5. CASE CountsRequests
  <2>1. /\ At("countRequests") /\ GoOn /\ failed' \in BOOLEAN /\ ignoreNextError' \in BOOLEAN
        /\ TestOnly /\ UNCHANGED <<setup, stream>>
    BY <1>1, <1>5 DEF CountsRequests, assert, TestOnly
  <2>2. TestTyped'
    BY <2>1, StepTypes
  <2> QED
    BY <2>1, <2>2, TestOnlyTypes
<1>6. CASE Sleeps
  <2>1. /\ At("sleep") /\ GoOn /\ failed' \in BOOLEAN /\ ignoreNextError' \in BOOLEAN
        /\ TestOnly /\ UNCHANGED <<setup, stream>>
    BY <1>1, <1>6 DEF Sleeps, TestOnly
  <2>2. TestTyped'
    BY <2>1, StepTypes
  <2> QED
    BY <2>1, <2>2, TestOnlyTypes
<1> QED
  BY <1>2, <1>3, <1>4, <1>5, <1>6

(* ... ends, ...                                                           *)
LEMMA EndTypes ==
  ASSUME TypeInv
  PROVE  (Skip \/ TimesOut \/ Finishes) => TypeInv'
<1>1. ASSUME Skip \/ TimesOut \/ Finishes
      PROVE  TearDown /\ TestOnly /\ failed' \in BOOLEAN
  BY <1>1 DEF Skip, TimesOut, Finishes, FailNow, TypeInv, TestTyped
<1>2. ASSUME TearDown, TestOnly, failed' \in BOOLEAN PROVE TypeInv'
  <2>1. UNCHANGED <<setup, stream>>
    BY <1>2 DEF TearDown, TestOnly
  <2>2. TestTyped'
    BY <1>2, <2>1, Ends
  <2> QED
    BY <1>2, <2>1, <2>2, TestOnlyTypes
<1> QED
  BY <1>1, <1>2

(* ... creates the client, ...                                             *)
LEMMA CreateTypes ==
  ASSUME TypeInv, CreateClient
  PROVE  TypeInv'
<1>1. UNCHANGED <<setup, serverVars, told, listening, messages, joined, stream>>
  BY DEF CreateClient, FailNow, TearDown
<1>2. SetupTyped' /\ ServerTyped'
  BY <1>1, KeepsSetup, KeepsServer
<1>3. TestTyped'
  <2>1. CASE Understood(Asks(params))
    <3>1. test' = "running" /\ UNCHANGED <<setup, pc, failed, ignoreNextError, stream>>
      BY <1>1, <2>1 DEF CreateClient
    <3> QED
      BY <3>1 DEF TypeInv, TestTyped, HasAwaited, script
  <2>2. CASE ~Understood(Asks(params))
    <3>1. TearDown /\ failed' \in BOOLEAN
      BY <2>2 DEF CreateClient, FailNow
    <3> QED
      BY <1>1, <3>1, Ends
  <2> QED
    BY <2>1, <2>2
<1>4. ClientTyped'
  <2> DEFINE id == FirstID(setup)
  <2>2. id \in Text
    BY FirstTypes DEF TypeInv
  <2>3. \/ client' = "connecting" /\ parser' = NewParser(setup.fault, id)
        \/ UNCHANGED <<client, parser>>
    BY DEF CreateClient
  <2> HIDE DEF id
  <2>4. NewParser(setup.fault, id) \in Parsers(setup.fault) /\ NewParser(setup.fault, id).out = <<>>
    BY <2>2, NewParsers DEF NewParser
  <2>5. /\ client' \in {"none", "connecting", "reading", "waiting", "stopped"}
        /\ client' = "reading" => client = "reading"
        /\ parser' \in Parsers(setup.fault) /\ parser'.out = <<>>
    BY <2>3, <2>4 DEF TypeInv, ClientTyped
  <2> QED
    BY <1>1, <2>5 DEF TypeInv, ClientTyped, serverVars, Current
<1> QED
  BY <1>2, <1>3, <1>4 DEF TypeInv

(* ... gets a connection, ...                                              *)
LEMMA AwaitTypes ==
  ASSUME TypeInv, AwaitsConnection
  PROVE  TypeInv'
<1>1. /\ At("await") /\ GoOn /\ newConns # <<>>
      /\ stream' = Head(newConns) /\ newConns' = Tail(newConns)
      /\ UNCHANGED <<setup, failed, ignoreNextError, requests, wire, broken, clientVars>>
  BY DEF AwaitsConnection
<1>2. Head(newConns) \in 1 .. Current /\ Tail(newConns) \in Seq(1 .. Current) /\ Current \in Nat
  BY <1>1, PartOfSeq, LenProperties DEF TypeInv, ServerTyped, Current
<1>3. stream' # 0 /\ stream' \in 0 .. Current
  BY <1>1, <1>2
<1>4. TestTyped'
  BY <1>1, <1>3, GoesOn DEF At, TypeInv, TestTyped
<1>5. ServerTyped'
  BY <1>1, <1>2, <1>3 DEF TypeInv, ServerTyped, Current
<1>6. SetupTyped' /\ ClientTyped'
  BY <1>1, KeepsSetup, KeepsClient
<1> QED
  BY <1>4, <1>5, <1>6 DEF TypeInv

(* ... puts something on it: ...                                           *)
LEMMA PutTypes ==
  ASSUME TypeInv, NEW op, At(op), op # "await", NEW chunks \in Seq(Chunks), Put(chunks),
         broken' \subseteq 1 .. Current
  PROVE  TypeInv'
<1>1. /\ UNCHANGED <<setup, failed, ignoreNextError, stream, newConns, requests, clientVars>>
      /\ GoOn /\ Current' = Current
  BY DEF Put, Current
<1>2. TestTyped'
  BY <1>1, StepTypes DEF TypeInv, TestTyped
<1>3. wire' \in Seq(Seq(Chunks)) /\ Len(wire') = Len(wire)
  <2>1. CASE stream \in broken \/ stream < Current \/ client # "reading"
    BY <2>1 DEF Put, TypeInv, ServerTyped
  <2>2. CASE ~(stream \in broken \/ stream < Current \/ client # "reading")
    <3>1. stream \in 1 .. Len(wire) /\ wire \in Seq(Seq(Chunks))
      BY <2>2, LenProperties DEF TypeInv, ServerTyped, ClientTyped, Current
    <3>2. wire[stream] \o chunks \in Seq(Chunks)
      BY <3>1, ElementOfSeq, ConcatProperties
    <3>3. wire' = [wire EXCEPT ![stream] = wire[stream] \o chunks]
      BY <2>2 DEF Put
    <3> QED
      BY <3>1, <3>2, <3>3, ExceptSeq
  <2> QED
    BY <2>1, <2>2
<1>4. ServerTyped'
  BY <1>1, <1>3 DEF TypeInv, ServerTyped
<1>5. SetupTyped' /\ ClientTyped'
  BY <1>1, KeepsSetup, KeepsClient
<1> QED
  BY <1>2, <1>4, <1>5 DEF TypeInv

(* ... chunks, ...                                                         *)
LEMMA SendTypes ==
  ASSUME TypeInv, Sends
  PROVE  TypeInv'
<1>1. PICK op \in Sending : At(op)
  BY DEF Sends, Sending
<1>2. Arg \in Seq(Seq(Token))
  <2>1. WellFormed(script) /\ Len(script.steps) \in Nat
    BY ScriptTypes DEF TypeInv
  <2>2. pc \in 1 .. Len(script.steps) /\ script.steps[pc].op \in Sending
    BY <1>1, <2>1 DEF At, TypeInv, TestTyped
  <2> QED
    BY <2>1, <2>2 DEF WellFormed, Arg
<1> DEFINE chunk(i) == [data |-> Arg[i], delayAfter |-> At("sendDelayed") /\ i < Len(Arg)]
           chunks == [i \in DOMAIN Arg |-> chunk(i)]
<1>3. Put(chunks) /\ UNCHANGED broken
  BY DEF Sends
<1>4. chunks \in Seq(Chunks)
  <2>1. /\ Len(Arg) \in Nat /\ DOMAIN Arg = 1 .. Len(Arg)
        /\ \A i \in 1 .. Len(Arg) : Arg[i] \in Text
    BY <1>2, LenProperties, ElementOfSeq DEF Text
  <2>2. \A i \in 1 .. Len(Arg) : chunk(i) \in Chunks
    BY <2>1 DEF Chunks
  <2> HIDE DEF chunk
  <2> QED
    BY <2>1, <2>2, IsSequence
<1> HIDE DEF chunks
<1>5. op # "await"
  BY <1>1 DEF Sending
<1>6. broken' \subseteq 1 .. Current
  BY <1>3 DEF TypeInv, ServerTyped
<1> QED
  BY <1>1, <1>3, <1>4, <1>5, <1>6, PutTypes

(* ... or its end; ...                                                     *)
LEMMA BreakTypes ==
  ASSUME TypeInv, Breaks
  PROVE  TypeInv'
<1>1. At("break") /\ Put(<<>>) /\ broken' = broken \cup {stream}
  BY DEF Breaks
<1>2. HasAwaited
  <2>1. WellFormed(script) /\ Len(script.steps) \in Nat
    BY ScriptTypes DEF TypeInv
  <2>2. pc \in 1 .. Len(script.steps) /\ script.steps[pc].op = "break"
    BY <1>1, <2>1 DEF At, TypeInv, TestTyped
  <2> QED
    BY <2>1, <2>2 DEF WellFormed, HasAwaited
<1>3. stream \in 1 .. Current
  BY <1>2 DEF TypeInv, TestTyped, ServerTyped
<1>4. broken' \subseteq 1 .. Current
  BY <1>1, <1>3 DEF TypeInv, ServerTyped
<1>5. <<>> \in Seq(Chunks)
  BY EmptySeq
<1> QED
  BY <1>1, <1>4, <1>5, PutTypes

(* ... it takes what the client has reported, ...                          *)
LEMMA TakeTypes ==
  ASSUME TypeInv, Takes, UNCHANGED stream, TestTyped'
  PROVE  TypeInv'
<1>1. /\ messages # <<>> /\ messages' = Tail(messages)
      /\ UNCHANGED <<setup, serverVars, client, told, listening, parser, joined>>
  BY DEF Takes
<1>2. messages' \in Seq(Reports)
  BY <1>1, PartOfSeq DEF TypeInv, ClientTyped
<1>3. SetupTyped' /\ ServerTyped'
  BY <1>1, KeepsSetup, KeepsServer
<1>4. ClientTyped'
  BY <1>1, <1>2 DEF TypeInv, ClientTyped, serverVars, Current
<1> QED
  BY <1>3, <1>4 DEF TypeInv

(* ... to drop or to compare it, ...                                       *)
LEMMA MessageTypes ==
  ASSUME TypeInv
  PROVE  (DropsError \/ TakesMessage) => TypeInv'
<1>1. failed \in BOOLEAN
  BY DEF TypeInv, TestTyped
<1>2. CASE DropsError
  <2>1. Takes /\ ignoreNextError' = FALSE /\ UNCHANGED <<test, pc, failed, stream, setup>>
    BY <1>2 DEF DropsError, Takes
  <2>2. TestTyped'
    BY <2>1 DEF TypeInv, TestTyped, HasAwaited, script
  <2> QED
    BY <2>1, <2>2, TakeTypes
<1>3. CASE TakesMessage
  <2>1. PICK kind \in MessageKinds :
          /\ Awaits(kind) /\ Takes
          /\ IF Head(messages).kind = kind
               THEN /\ assert(Matches(Head(messages), Arg)) /\ ignoreNextError' = FALSE
                    /\ GoOn /\ UNCHANGED stream
               ELSE FailNow
    BY <1>3 DEF TakesMessage
  <2>2. PICK op : At(op) /\ op # "await"
    BY <2>1 DEF Awaits, MessageKinds
  <2>3. UNCHANGED setup
    BY <2>1 DEF Takes
  <2>4. CASE Head(messages).kind = kind
    <3>1. /\ failed' \in BOOLEAN /\ ignoreNextError' \in BOOLEAN
          /\ GoOn /\ UNCHANGED <<setup, stream>>
      BY <1>1, <2>1, <2>3, <2>4 DEF assert
    <3>2. TestTyped'
      BY <2>2, <3>1, StepTypes
    <3> QED
      BY <2>1, <3>1, <3>2, TakeTypes
  <2>5. CASE Head(messages).kind # kind
    <3>1. TearDown /\ failed' \in BOOLEAN /\ UNCHANGED stream
      BY <2>1, <2>5 DEF FailNow, TearDown
    <3>2. TestTyped'
      BY <2>3, <3>1, Ends
    <3> QED
      BY <2>1, <3>1, <3>2, TakeTypes
  <2> QED
    BY <2>4, <2>5
<1> QED
  BY <1>2, <1>3

(* ... or it commands the client.                                          *)
LEMMA CommandTypes ==
  ASSUME TypeInv
  PROVE  (Restarts \/ Prepares) => TypeInv'
<1>1. failed \in BOOLEAN /\ ignoreNextError \in BOOLEAN /\ told \in BOOLEAN
  BY DEF TypeInv, TestTyped, ClientTyped
<1>2. ASSUME Restarts \/ Prepares
      PROVE  /\ UNCHANGED <<setup, serverVars, client, parser, messages, joined>>
             /\ told' \in BOOLEAN
             /\ \E op : At(op) /\ op # "await"
             /\ \/ GoOn /\ UNCHANGED <<failed, ignoreNextError, stream>>
                \/ FailNow
  <2>1. CASE Restarts
    <3>1. At("restart") /\ "restart" # "await"
      BY <2>1 DEF Restarts
    <3>2. \E op : At(op) /\ op # "await"
      BY <3>1, Zenon
    <3> QED
      BY <1>1, <2>1, <3>2 DEF Restarts
  <2>2. CASE Prepares
    <3>1. At("listen") /\ "listen" # "await"
      BY <2>2 DEF Prepares
    <3>2. \E op : At(op) /\ op # "await"
      BY <3>1, Zenon
    <3> QED
      BY <1>1, <2>2, <3>2 DEF Prepares
  <2> QED
    BY <1>2, <2>1, <2>2
<1>3. ASSUME Restarts \/ Prepares
      PROVE  TestTyped' /\ UNCHANGED stream
  <2>1. UNCHANGED setup
    BY <1>2, <1>3
  <2>2. PICK op : At(op) /\ op # "await"
    BY <1>2, <1>3
  <2>3. CASE GoOn /\ UNCHANGED <<failed, ignoreNextError, stream>>
    BY <1>1, <2>1, <2>2, <2>3, StepTypes
  <2>4. CASE FailNow
    BY <2>1, <2>4, Ends DEF FailNow, TearDown
  <2> QED
    BY <1>2, <1>3, <2>3, <2>4
<1>4. ASSUME Restarts \/ Prepares
      PROVE  TypeInv'
  <2>1. SetupTyped' /\ ServerTyped'
    BY <1>2, <1>3, <1>4, KeepsSetup, KeepsServer
  <2>2. ClientTyped'
    BY <1>2, <1>4 DEF TypeInv, ClientTyped, serverVars, Current
  <2> QED
    BY <1>3, <1>4, <2>1, <2>2 DEF TypeInv
<1> QED
  BY <1>4

(* Each step of the test or the client.                                    *)
LEMMA NextTypes ==
  ASSUME TypeInv, [Next]_vars
  PROVE  TypeInv'
<1>1. CASE ClientStep
  BY <1>1, ClientTypes
<1>2. CASE TestStep
  BY <1>2, EndTypes, CreateTypes, AwaitTypes, ChecksTypes, SendTypes, BreakTypes, MessageTypes,
     CommandTypes DEF TestStep
<1>3. CASE UNCHANGED vars
  BY <1>3, KeepsSetup, KeepsTest, KeepsServer, KeepsClient
     DEF vars, testVars, serverVars, TypeInv
<1> QED
  BY <1>1, <1>2, <1>3 DEF Next

(* The types of a test, whatever the client does.                          *)
THEOREM TypeCorrect == Spec => []TypeOK
<1>1. TypeInv => TypeOK
  <2> SUFFICES ASSUME TypeInv PROVE TypeOK
    OBVIOUS
  <2>1. \A i \in 1 .. Len(messages) : messages[i].kind \in MessageKinds
    <3>1. \A i \in 1 .. Len(messages) : messages[i] \in Reports
      BY ElementOfSeq DEF TypeInv, ClientTyped
    <3> QED
      BY <3>1 DEF Reports
  <2> QED
    BY <2>1 DEF TypeInv, TestTyped, ServerTyped, ClientTyped, TypeOK, Current
<1>2. Init => TypeInv
  BY InitTypes
<1>3. TypeInv /\ [Next]_vars => TypeInv'
  BY NextTypes
<1> QED
  BY <1>1, <1>2, <1>3, PTL DEF Spec
-----------------------------------------------------------------------------
(***************************************************************************)
(* What a client hears and reads, in parts.                                *)
(***************************************************************************)

(* What g makes of each item.                                              *)
Each(g, s) == [i \in DOMAIN s |-> g[s[i]]]

(* Each(g, s) is g of each item of s, ...                                  *)
LEMMA EachItem ==
  ASSUME NEW g, NEW s \in Seq(DOMAIN g)
  PROVE  /\ Each(g, s) \in Seq(Range(g))
         /\ Len(Each(g, s)) = Len(s)
         /\ \A i \in 1 .. Len(s) : Each(g, s)[i] = g[s[i]]
<1>1. /\ Len(s) \in Nat /\ DOMAIN s = 1 .. Len(s)
      /\ \A i \in 1 .. Len(s) : s[i] \in DOMAIN g
  BY LenProperties, ElementOfSeq
<1>2. Each(g, s) \in [1 .. Len(s) -> Range(g)]
  BY <1>1 DEF Each, Range
<1>3. \A i \in 1 .. Len(s) : Each(g, s)[i] = g[s[i]]
  BY <1>1 DEF Each
<1> QED
  BY <1>1, <1>2, <1>3, IsSequence

(* ... part by part, ...                                                   *)
LEMMA EachParts ==
  ASSUME NEW g, NEW a \in Seq(DOMAIN g), NEW b \in Seq(DOMAIN g)
  PROVE  Each(g, a \o b) = Each(g, a) \o Each(g, b)
<1> DEFINE S == DOMAIN g
           T == Range(g)
           ab == a \o b
           ga == Each(g, a)
           gb == Each(g, b)
           gab == Each(g, ab)
           n == Len(a)
           m == Len(b)
<1>1. n \in Nat /\ m \in Nat
  BY LenProperties
<1>2. /\ ab \in Seq(S) /\ Len(ab) = n + m
      /\ \A i \in 1 .. n + m : ab[i] = IF i <= n THEN a[i] ELSE b[i - n]
  BY ConcatProperties
<1>3. /\ ga \in Seq(T)
      /\ Len(ga) = n
      /\ \A i \in 1 .. n : ga[i] = g[a[i]]
  BY EachItem
<1>4. /\ gb \in Seq(T)
      /\ Len(gb) = m
      /\ \A i \in 1 .. m : gb[i] = g[b[i]]
  BY EachItem
<1>5. /\ gab \in Seq(T)
      /\ Len(gab) = n + m
      /\ \A i \in 1 .. n + m : gab[i] = g[ab[i]]
  <2>1. /\ gab \in Seq(T)
        /\ Len(gab) = Len(ab)
        /\ \A i \in 1 .. Len(ab) : gab[i] = g[ab[i]]
    BY <1>2, EachItem
  <2> QED
    BY <1>2, <2>1, Zenon
<1> HIDE DEF ga, gb, gab
<1> DEFINE cat == ga \o gb
<1>6. /\ cat \in Seq(T) /\ Len(cat) = n + m
      /\ \A i \in 1 .. n + m : cat[i] = IF i <= n THEN ga[i] ELSE gb[i - n]
  <2>1. /\ ga \o gb \in Seq(T) /\ Len(ga \o gb) = Len(ga) + Len(gb)
        /\ \A i \in 1 .. Len(ga) + Len(gb) :
             (ga \o gb)[i] = IF i <= Len(ga) THEN ga[i] ELSE gb[i - Len(ga)]
    BY <1>3, <1>4, ConcatProperties
  <2> QED
    BY <1>3, <1>4, <2>1, Zenon
<1> HIDE DEF ab, n, m, cat
<1>7. \A i \in 1 .. n + m : gab[i] = cat[i]
  <2> TAKE i \in 1 .. n + m
  <2>1. CASE i <= n
    <3>1. i \in 1 .. n
      BY <1>1, <2>1
    <3>2. ab[i] = a[i] /\ cat[i] = ga[i]
      BY <1>2, <1>6, <2>1
    <3> QED
      BY <1>3, <1>5, <3>1, <3>2, Zenon
  <2>2. CASE ~(i <= n)
    <3>1. i - n \in 1 .. m
      BY <1>1, <2>2
    <3>2. ab[i] = b[i - n] /\ cat[i] = gb[i - n]
      BY <1>2, <1>6, <2>2
    <3> QED
      BY <1>4, <1>5, <3>1, <3>2, Zenon
  <2> QED
    BY <2>1, <2>2
<1>8. gab = cat
  BY <1>5, <1>6, <1>7, SeqEqual
<1> QED
  BY <1>8 DEF gab, cat, ga, gb, ab

(* ... of no item nothing.                                                 *)
LEMMA EachNone ==
  ASSUME NEW g
  PROVE  Each(g, <<>>) = <<>>
BY DEF Each

(* What a client u makes of a report, and the texts of chunks.             *)
ReportOf(u, types) == [r \in Reports |-> IF CanReport(u, types, r) THEN <<r>> ELSE <<>>]
DataOf == [c \in Chunks |-> c.data]

TextsOf(chunks) == [i \in DOMAIN chunks |-> chunks[i].data]

(* What is reported is what is made of each report, ...                    *)
LEMMA ReportedEach ==
  ASSUME NEW u, NEW types, NEW s \in Seq(Reports)
  PROVE  /\ DOMAIN ReportOf(u, types) = Reports
         /\ Range(ReportOf(u, types)) \subseteq Seq(Reports)
         /\ ReportedBy(u, types, s) = FlattenSeq(Each(ReportOf(u, types), s))
<1> DEFINE reported(r) == IF CanReport(u, types, r) THEN <<r>> ELSE <<>>
           g == ReportOf(u, types)
<1>1. \A r \in Reports : reported(r) \in Seq(Reports)
  <2> TAKE r \in Reports
  <2>1. <<>> \in Seq(Reports) /\ <<r>> \in Seq(Reports)
    BY EmptySeq
  <2> QED
    BY <2>1
<1>2. /\ g = [r \in Reports |-> reported(r)]
      /\ ReportedBy(u, types, s) = FlattenSeq([i \in DOMAIN s |-> reported(s[i])])
  BY DEF ReportOf, ReportedBy
<1> HIDE DEF reported, g
<1>3. \A i \in DOMAIN s : s[i] \in Reports
  BY LenProperties, ElementOfSeq
<1>4. [i \in DOMAIN s |-> reported(s[i])] = Each(g, s)
  BY <1>2, <1>3 DEF Each
<1>5. DOMAIN g = Reports /\ Range(g) \subseteq Seq(Reports)
  BY <1>1, <1>2 DEF Range
<1> QED
  BY <1>2, <1>4, <1>5 DEF g

(* ... so it may be reported in two parts.                                 *)
LEMMA ReportedParts ==
  ASSUME NEW u, NEW types, NEW a \in Seq(Reports), NEW b \in Seq(Reports)
  PROVE  /\ ReportedBy(u, types, a) \in Seq(Reports)
         /\ ReportedBy(u, types, a \o b) = ReportedBy(u, types, a) \o ReportedBy(u, types, b)
         /\ ReportedBy(u, types, <<>>) = <<>>
<1> DEFINE g == ReportOf(u, types)
<1>1. a \o b \in Seq(Reports) /\ <<>> \in Seq(Reports)
  BY ConcatProperties, EmptySeq
<1>2. /\ ReportedBy(u, types, a \o b) = FlattenSeq(Each(g, a \o b))
      /\ ReportedBy(u, types, a) = FlattenSeq(Each(g, a))
      /\ ReportedBy(u, types, b) = FlattenSeq(Each(g, b))
      /\ ReportedBy(u, types, <<>>) = FlattenSeq(Each(g, <<>>))
      /\ DOMAIN g = Reports /\ Range(g) \subseteq Seq(Reports)
  BY <1>1, ReportedEach
<1> HIDE DEF g
<1>3. Each(g, a \o b) = Each(g, a) \o Each(g, b) /\ Each(g, <<>>) = <<>>
  BY <1>2, EachParts, EachNone
<1>4. Each(g, a) \in Seq(Seq(Reports)) /\ Each(g, b) \in Seq(Seq(Reports))
  BY <1>2, EachItem, SeqMono
<1>5. /\ FlattenSeq(Each(g, a) \o Each(g, b)) = FlattenSeq(Each(g, a)) \o FlattenSeq(Each(g, b))
  BY <1>4, FlattenConcat, Zenon
<1>6. FlattenSeq(<<>>) = <<>> /\ FlattenSeq(Each(g, a)) \in Seq(Reports)
  BY <1>4, FlattenType
<1> QED
  BY <1>2, <1>3, <1>5, <1>6, Zenon

(* Whatever a client can report, it can report errors.                     *)
LEMMA ErrorReported ==
  ASSUME NEW u, NEW types
  PROVE  ReportedBy(u, types, <<Error>>) = <<Error>>
<1> DEFINE reported(r) == IF CanReport(u, types, r) THEN <<r>> ELSE <<>>
           parts == [i \in DOMAIN <<Error>> |-> reported(<<Error>>[i])]
<1>1. CanReport(u, types, Error)
  BY DEF CanReport, Error, Report
<1>2. reported(Error) = <<Error>>
  BY <1>1
<1>3. ReportedBy(u, types, <<Error>>) = FlattenSeq(parts)
  BY DEF ReportedBy
<1> HIDE DEF reported
<1>4. parts = <<reported(Error)>>
  OBVIOUS
<1> QED
  BY <1>2, <1>3, <1>4, ErrorReports, FlattenOne

(* The texts of chunks, ...                                                *)
LEMMA TextsEach ==
  ASSUME NEW s \in Seq(Chunks)
  PROVE  /\ DOMAIN DataOf = Chunks /\ Range(DataOf) \subseteq Text
         /\ TextsOf(s) = Each(DataOf, s)
<1>1. \A c \in Chunks : c.data \in Text
  BY DEF Chunks
<1>2. \A i \in DOMAIN s : s[i] \in Chunks
  BY LenProperties, ElementOfSeq
<1>3. [i \in DOMAIN s |-> s[i].data] = Each(DataOf, s)
  BY <1>2 DEF Each, DataOf
<1>4. DOMAIN DataOf = Chunks /\ Range(DataOf) \subseteq Text
  BY <1>1 DEF DataOf, Range
<1> QED
  BY <1>3, <1>4 DEF TextsOf

(* ... in two parts.                                                       *)
LEMMA TextsParts ==
  ASSUME NEW a \in Seq(Chunks), NEW b \in Seq(Chunks)
  PROVE  /\ TextsOf(a) \in Seq(Text)
         /\ TextsOf(a \o b) = TextsOf(a) \o TextsOf(b)
         /\ TextsOf(<<>>) = <<>>
<1>1. a \o b \in Seq(Chunks) /\ <<>> \in Seq(Chunks)
  BY ConcatProperties, EmptySeq
<1>2. /\ TextsOf(a \o b) = Each(DataOf, a \o b) /\ TextsOf(a) = Each(DataOf, a)
      /\ TextsOf(b) = Each(DataOf, b) /\ TextsOf(<<>>) = Each(DataOf, <<>>)
      /\ DOMAIN DataOf = Chunks /\ Range(DataOf) \subseteq Text
  BY <1>1, TextsEach
<1>3. Each(DataOf, a \o b) = Each(DataOf, a) \o Each(DataOf, b) /\ Each(DataOf, <<>>) = <<>>
  BY <1>2, EachParts, EachNone
<1>4. Each(DataOf, a) \in Seq(Text)
  BY <1>2, EachItem, SeqMono
<1> QED
  BY <1>2, <1>3, <1>4

(* Chunks are read in two parts.                                           *)
LEMMA TextsSplit ==
  ASSUME NEW chunks \in Seq(Chunks), NEW n \in 1 .. Len(chunks)
  PROVE  TextsOf(chunks) =
           TextsOf(SubSeq(chunks, 1, n)) \o TextsOf(SubSeq(chunks, n + 1, Len(chunks)))
<1> DEFINE a == SubSeq(chunks, 1, n)
           b == SubSeq(chunks, n + 1, Len(chunks))
<1>1. Len(chunks) \in Nat /\ \A i \in 1 .. Len(chunks) : chunks[i] \in Chunks
  BY LenProperties, ElementOfSeq
<1>2. /\ a \in Seq(Chunks) /\ Len(a) = n /\ \A i \in 1 .. n : a[i] = chunks[i]
  <2>1. \A i \in 1 .. n : chunks[i] \in Chunks
    BY <1>1
  <2> QED
    BY <2>1, SubSeqProperties
<1>3. /\ b \in Seq(Chunks) /\ Len(b) = Len(chunks) - n
      /\ \A i \in 1 .. Len(chunks) - n : b[i] = chunks[n + i]
  <2>1. \A i \in n + 1 .. Len(chunks) : chunks[i] \in Chunks
    BY <1>1
  <2>2. /\ b \in Seq(Chunks)
        /\ Len(b) = IF n + 1 <= Len(chunks) THEN Len(chunks) - (n + 1) + 1 ELSE 0
        /\ \A i \in 1 .. Len(chunks) - (n + 1) + 1 : b[i] = chunks[(n + 1) + i - 1]
    BY <1>1, <2>1, SubSeqProperties
  <2> QED
    BY <1>1, <2>2
<1> HIDE DEF a, b
<1>4. /\ a \o b \in Seq(Chunks) /\ Len(a \o b) = Len(chunks)
      /\ \A i \in 1 .. Len(chunks) : (a \o b)[i] = IF i <= n THEN a[i] ELSE b[i - n]
  <2>1. /\ a \o b \in Seq(Chunks) /\ Len(a \o b) = Len(a) + Len(b)
        /\ \A i \in 1 .. Len(a) + Len(b) :
             (a \o b)[i] = IF i <= Len(a) THEN a[i] ELSE b[i - Len(a)]
    BY <1>2, <1>3, ConcatProperties
  <2>2. Len(a) + Len(b) = Len(chunks)
    BY <1>1, <1>2, <1>3
  <2> QED
    BY <1>2, <2>1, <2>2, Zenon
<1>5. \A i \in 1 .. Len(chunks) : chunks[i] = (a \o b)[i]
  <2> TAKE i \in 1 .. Len(chunks)
  <2>1. CASE i <= n
    BY <1>1, <1>2, <1>4, <2>1
  <2>2. CASE ~(i <= n)
    <3>1. i - n \in 1 .. Len(chunks) - n /\ n + (i - n) = i
      BY <1>1, <2>2
    <3> QED
      BY <1>3, <1>4, <2>2, <3>1
  <2> QED
    BY <2>1, <2>2
<1>6. chunks = a \o b
  BY <1>4, <1>5, SeqEqual
<1> QED
  BY <1>2, <1>3, <1>6, TextsParts DEF a, b
-----------------------------------------------------------------------------
(***************************************************************************)
(* The plan.                                                               *)
(***************************************************************************)

Steps(u) == Scripts[u.script].steps

(* It has a state for each step.                                           *)
LEMMA PlanSteps ==
  ASSUME NEW u, Len(Steps(u)) \in Nat
  PROVE  /\ Plan(u)[0] = Begin(u)
         /\ \A k \in 1 .. Len(Steps(u)) : Plan(u)[k] = After(u, Plan(u)[k - 1], Steps(u)[k])
<1> DEFINE n == Len(Steps(u))
           Is(f, m) == f = [k \in 0 .. m |-> IF k = 0 THEN Begin(u)
                                             ELSE After(u, f[k - 1], Steps(u)[k])]
           Done == {m \in Nat : \E f : Is(f, m)}
           plan == CHOOSE f : Is(f, n)
<1>1. 0 \in Done
  <2> DEFINE f == [k \in 0 .. 0 |-> Begin(u)]
  <2>1. Is(f, 0)
    OBVIOUS
  <2> QED
    BY <2>1
<1>2. ASSUME NEW m \in Nat, m \in Done PROVE m + 1 \in Done
  <2>1. PICK f : Is(f, m)
    BY <1>2
  <2> DEFINE last == After(u, f[m], Steps(u)[m + 1])
             g == [k \in 0 .. m + 1 |-> IF k = m + 1 THEN last ELSE f[k]]
             h == [k \in 0 .. m + 1 |-> IF k = 0 THEN Begin(u)
                                        ELSE After(u, g[k - 1], Steps(u)[k])]
  <2>2. g[m + 1] = last /\ \A k \in 0 .. m : g[k] = f[k]
    OBVIOUS
  <2>3. f[0] = Begin(u) /\ \A k \in 1 .. m : f[k] = After(u, f[k - 1], Steps(u)[k])
    <3>1. \A k \in 0 .. m : f[k] = IF k = 0 THEN Begin(u) ELSE After(u, f[k - 1], Steps(u)[k])
      BY <2>1
    <3> QED
      BY <3>1
  <2>4. \A k \in 0 .. m + 1 : h[k] = IF k = 0 THEN Begin(u)
                                     ELSE After(u, g[k - 1], Steps(u)[k])
    OBVIOUS
  <2>5. \A k \in 0 .. m + 1 : g[k] = h[k]
    <3> TAKE k \in 0 .. m + 1
    <3> HIDE DEF g, h
    <3>1. CASE k = 0
      BY <2>2, <2>3, <2>4, <3>1
    <3>2. CASE k = m + 1
      <4>1. k # 0 /\ k - 1 = m /\ m \in 0 .. m
        BY <3>2
      <4> QED
        BY <2>2, <2>4, <3>2, <4>1
    <3>3. CASE k \in 1 .. m
      <4>1. k # 0 /\ k \in 0 .. m /\ k - 1 \in 0 .. m
        BY <3>3
      <4> QED
        BY <2>2, <2>3, <2>4, <3>3, <4>1
    <3> QED
      BY <3>1, <3>2, <3>3
  <2>6. g = h
    BY <2>5
  <2>7. Is(g, m + 1)
    BY <2>6
  <2> HIDE DEF Is, g
  <2> QED
    BY <2>7
<1>3. \E f : Is(f, n)
  <2> HIDE DEF Is
  <2>1. \A m \in Nat : m \in Done
    <3> HIDE DEF Done
    <3> QED
      BY <1>1, <1>2, Induction
  <2> QED
    BY <2>1 DEF n
<1>4. Is(plan, n)
  <2> HIDE DEF Is
  <2> QED
    BY <1>3
<1>5. Plan(u) = plan
  BY DEF Plan, Steps
<1> HIDE DEF plan
<1>6. \A k \in 0 .. n : plan[k] = IF k = 0 THEN Begin(u) ELSE After(u, plan[k - 1], Steps(u)[k])
  BY <1>4
<1>7. 0 \in 0 .. n /\ \A k \in 1 .. n : k \in 0 .. n /\ k # 0
  OBVIOUS
<1> QED
  BY <1>5, <1>6, <1>7, Zenon

(* What a state of the plan is.                                            *)
Formed(e) ==
  DOMAIN e = {"parser", "pending", "ignore", "requests", "stream", "types", "heard"}

(* The states of a plan are well-formed: from one to the next, ...         *)
LEMMA FormedAfter ==
  ASSUME NEW u, NEW e, NEW step, Formed(e)
  PROVE  Formed(After(u, e, step)) /\ Formed(Forgiven(e))
<1>1. Formed(Forgiven(e))
  BY DEF Formed, Forgiven
<1>2. Formed(Taken(e))
  BY <1>1 DEF Formed, Taken
<1>3. \A texts : Formed(Sent(u, e, texts))
  BY DEF Formed, Sent
<1>4. Formed(Broken(u, e))
  BY DEF Formed, Broken
<1>5. /\ Formed([e EXCEPT !.stream = @ + 1])
      /\ Formed([e EXCEPT !.ignore = TRUE])
      /\ Formed([e EXCEPT !.types = @ \cup {step.arg}])
  BY DEF Formed
<1> QED
  BY <1>1, <1>2, <1>3, <1>4, <1>5 DEF After

(* ... hence all of them.                                                  *)
LEMMA FormedPlan ==
  ASSUME NEW u, Len(Steps(u)) \in Nat
  PROVE  \A k \in 0 .. Len(Steps(u)) : Formed(Plan(u)[k])
<1> DEFINE n == Len(Steps(u))
           Done == {k \in Nat : k <= n => Formed(Plan(u)[k])}
<1>1. /\ Plan(u)[0] = Begin(u)
      /\ \A k \in 1 .. n : Plan(u)[k] = After(u, Plan(u)[k - 1], Steps(u)[k])
  BY PlanSteps
<1>2. Formed(Begin(u))
  BY DEF Begin, Formed
<1>3. 0 \in Done
  BY <1>1, <1>2
<1>4. ASSUME NEW k \in Nat, k \in Done PROVE k + 1 \in Done
  <2>1. SUFFICES ASSUME k + 1 <= n PROVE Formed(Plan(u)[k + 1])
    OBVIOUS
  <2>2. k + 1 \in 1 .. n /\ (k + 1) - 1 = k /\ k <= n
    BY <2>1
  <2>3. Plan(u)[k + 1] = After(u, Plan(u)[k], Steps(u)[k + 1])
    BY <1>1, <2>2
  <2>4. Formed(Plan(u)[k])
    BY <1>4, <2>2
  <2> QED
    BY <2>3, <2>4, FormedAfter
<1> HIDE DEF Done
<1>5. \A k \in Nat : k \in Done
  BY <1>3, <1>4, Induction
<1> QED
  BY <1>5 DEF Done
(* A step of the test is one of its script.                                *)
LEMMA AtOp ==
  ASSUME TypeInv, NEW op, At(op)
  PROVE  pc \in 1 .. Len(script.steps) /\ script.steps[pc].op = op /\ test = "running"
BY ScriptTypes DEF At, TypeInv, TestTyped

(* The client is created with what the parameters ask for.                 *)
LEMMA Creates ==
  ASSUME TypeInv, CreateClient
  PROVE  /\ test = "starting" /\ script.needs \subseteq setup.capabilities
         /\ test' = "running" /\ client' = "connecting"
         /\ parser' = NewParser(setup.fault, FirstID(setup))
         /\ UNCHANGED <<setup, pc, failed, ignoreNextError, stream, serverVars, told, listening,
                        messages>>
<1>1. test = "starting" /\ script.needs \subseteq setup.capabilities
  BY DEF CreateClient, Has
<1>2. Understood(Asks(params))
  <2>1. Asks(params) \subseteq script.needs
    BY RunsAssumption DEF TypeInv, SetupTyped, params, script
  <2> QED
    BY <1>1, <2>1 DEF Understood
<1> QED
  BY <1>1, <1>2 DEF CreateClient

(* Every error is reported.                                                *)
LEMMA SaysErrors ==
  ASSUME NEW reports \in {<<>>, <<Error>>}, messages \in Seq(Reports), Says(reports)
  PROVE  messages' = messages \o reports
BY ErrorReported, ReportedParts, EmptySeq DEF Says

-----------------------------------------------------------------------------
(***************************************************************************)
(* A test in which the client gets to read its streams follows the plan.   *)
(***************************************************************************)

(* The plan says nothing of a client that stays away, and nothing of the   *)
(* limits of chunks once they do not show.                                 *)
IsPlanned ==
  /\ Streaming(script)
  /\ setup.fault \notin Staying \cup {"staysAfterRedirect"}
  /\ setup.fault \in BoundaryFaults => ~joined

(* The parser after all that was sent, and what the test will get to see   *)
(* of it.                                                                  *)
Seen == ReadEach(parser, TextsOf(wire[Current]))
ToTake == messages \o ReportedBy(setup, listening, Seen.out)
EndReport == IF setup.reportsEnd THEN <<Error>> ELSE <<>>
Retries == params.quick \/ setup.retriesSoon

(* The client is where the plan is, but for what it has yet to read; ...   *)
ReadsOn(e) ==
  /\ client = "reading" /\ Current \notin broken /\ ~told
  /\ requests = e.requests
  /\ stream \in {Current - 1, Current}
  /\ newConns = IF stream < Current THEN <<Current>> ELSE <<>>
  /\ Cleared(Seen) = e.parser
  /\ ToTake = e.pending
  /\ e.heard => /\ Len(wire[Current]) <= 1
                /\ wire[Current] # <<>> => ReportedBy(setup, listening, Seen.out) # <<>>

(* ... or it has yet to read the rest of a connection that is broken, or   *)
(* to leave one of which it has read all, and to connect again; ...        *)
ReadsRest(e) ==
  /\ client = "reading"
  /\ \/ Current \in broken /\ ~told
     \/ Current \notin broken /\ told /\ wire[Current] = <<>>
  /\ e.requests = Append(requests, RequestOf(setup, LeftBy(setup, Cleared(Seen)).lastID, TRUE))
  /\ stream = Current /\ newConns = <<>> /\ Retries
  /\ e.parser = Reopened(setup, LeftBy(setup, Cleared(Seen)))
  /\ ToTake \o EndReport = e.pending
  /\ ~e.heard

(* ... or to connect.                                                      *)
IsBetween(e) ==
  /\ client = "connecting" \/ (client = "waiting" /\ Retries)
  /\ ~told
  /\ e.requests = Append(requests, RequestOf(setup, parser.lastID, Current > 0))
  /\ stream = Current /\ newConns = <<>>
  /\ e.parser = Reopened(setup, parser)
  /\ messages = e.pending

Follows(e) ==
  /\ ignoreNextError = e.ignore /\ stream = e.stream /\ listening = e.types
  /\ Len(e.requests) <= MaxRequests
  /\ setup.fault = "swapsEvents" => e.heard
  /\ ReadsOn(e) \/ ReadsRest(e) \/ IsBetween(e)

(* Before a step, that is where the plan is before it, or where it will be *)
(* when the error is dropped that the step ignores.                        *)
Planned == Plan(setup)[pc - 1]
NextStep == script.steps[pc]
OnPlan ==
  \/ Follows(Planned)
  \/ /\ pc <= Len(script.steps) /\ Required(setup, NextStep) # "none"
     /\ Follows(Forgiven(Planned))

Unstarted ==
  /\ pc = 1 /\ stream = 0 /\ ~ignoreNextError
  /\ newConns = <<>> /\ requests = <<>> /\ messages = <<>> /\ broken = {}
  /\ client = "none" /\ ~told /\ listening = {<<"message">>}

(* The run of the plan passes if the test does, and fails if the test does *)
(* with a client that is in time.                                          *)
PlanInv ==
  IsPlanned =>
    /\ test = "starting" => ~failed /\ Unstarted
    /\ test = "running" /\ ~failed =>
         /\ script.needs \subseteq setup.capabilities
         /\ OnPlan
         /\ \A k \in 1 .. pc - 1 : PassesStep(setup, k)
    /\ Passed => RunPasses(setup)
    /\ failed => /\ script.needs \subseteq setup.capabilities
                 /\ setup.punctual => ~RunPasses(setup)

(* What a client that reads will have seen in the end.                     *)
LEMMA SeenTypes ==
  ASSUME TypeInv, client = "reading"
  PROVE  /\ Current \in 1 .. Len(wire) /\ wire[Current] \in Seq(Chunks)
         /\ parser \in Parsers(setup.fault) /\ parser.out = <<>>
         /\ Seen \in Parsers(setup.fault) /\ Seen.out \in Seq(Reports)
         /\ messages \in Seq(Reports) /\ ToTake \in Seq(Reports)
         /\ ReportedBy(setup, listening, Seen.out) \in Seq(Reports)
<1>1. Current \in 1 .. Len(wire) /\ wire[Current] \in Seq(Chunks)
  <2>1. wire \in Seq(Seq(Chunks)) /\ Len(wire) = Current /\ Current > 0 /\ Current \in Nat
    BY LenProperties DEF TypeInv, ServerTyped, ClientTyped, Current
  <2>2. Current \in 1 .. Len(wire)
    BY <2>1
  <2> QED
    BY <2>1, <2>2, ElementOfSeq
<1>2. /\ parser \in Parsers(setup.fault) /\ parser.out = <<>> /\ messages \in Seq(Reports)
  BY DEF TypeInv, ClientTyped
<1>3. TextsOf(wire[Current]) \in Seq(Text)
  BY <1>1, TextsParts
<1>4. <<>> \in Seq(Reports)
  BY EmptySeq
<1>5. Seen \in Parsers(setup.fault)
  BY <1>2, <1>3, <1>4, ReadsEach DEF Seen
<1>6. Seen.out \in Seq(Reports)
  BY <1>5 DEF Parsers
<1>7. ReportedBy(setup, listening, Seen.out) \in Seq(Reports)
  BY <1>6, ReportedParts
<1>8. ToTake \in Seq(Reports)
  BY <1>2, <1>7, ConcatProperties DEF ToTake
<1> QED
  BY <1>1, <1>2, <1>5, <1>6, <1>7, <1>8

(* A client that has read all that was sent.                               *)
LEMMA AllSeen ==
  ASSUME TypeInv, client = "reading", wire[Current] = <<>>
  PROVE  Seen = parser /\ Cleared(Seen) = parser /\ ToTake = messages
<1>1. /\ parser \in Parsers(setup.fault) /\ parser.out = <<>>
      /\ messages \in Seq(Reports) /\ wire[Current] \in Seq(Chunks)
  BY SeenTypes
<1>2. TextsOf(wire[Current]) = <<>>
  BY <1>1, TextsParts
<1>3. Seen = parser
  BY <1>1, <1>2, ReadsNone DEF Seen
<1>4. ReportedBy(setup, listening, Seen.out) = <<>>
  BY <1>1, <1>3, ReportedParts
<1>5. ToTake = messages
  BY <1>1, <1>4, ConcatEmptySeq DEF ToTake
<1>6. Cleared(parser) = parser
  BY <1>1 DEF Cleared, Parsers
<1> QED
  BY <1>3, <1>5, <1>6

(* If the test is to get no report of what was heard, nothing was sent     *)
(* since.                                                                  *)
LEMMA NothingUnread ==
  ASSUME TypeInv, NEW e, ReadsOn(e), AllRead(e)
  PROVE  wire[Current] = <<>>
<1>1. /\ messages \in Seq(Reports) /\ ReportedBy(setup, listening, Seen.out) \in Seq(Reports)
      /\ ToTake = <<>>
  BY SeenTypes DEF ReadsOn, AllRead
<1> DEFINE rest == ReportedBy(setup, listening, Seen.out)
<1>2. /\ ToTake = messages \o rest
      /\ rest \in Seq(Reports) /\ Len(messages) \in Nat /\ Len(rest) \in Nat
  BY <1>1, LenProperties DEF ToTake
<1> HIDE DEF rest
<1>3. Len(messages) + Len(rest) = 0
  <2>1. Len(messages \o rest) = Len(messages) + Len(rest)
    BY <1>1, <1>2, ConcatProperties
  <2> QED
    BY <1>1, <1>2, <2>1, EmptySeq
<1>4. rest = <<>>
  <2>1. Len(rest) = 0
    BY <1>2, <1>3
  <2> QED
    BY <1>2, <2>1, EmptySeq
<1> QED
  BY <1>4 DEF ReadsOn, AllRead, rest

(* A read makes no difference to what is seen in the end, if it is of one  *)
(* chunk, or does not depend on where a chunk ends.                        *)
LEMMA ReadSees ==
  ASSUME TypeInv, Read,
         setup.fault \in BoundaryFaults => ~joined',
         setup.fault = "swapsEvents" => Len(wire[Current]) <= 1
  PROVE  /\ Cleared(Seen)' = Cleared(Seen)
         /\ ToTake' = ToTake /\ wire[Current] # <<>>
         /\ Len(wire[Current]) <= 1 => wire'[Current] = <<>>
<1> DEFINE chunks == wire[Current]
<1>1. /\ client = "reading" /\ Current \in 1 .. Len(wire)
      /\ chunks \in Seq(Chunks) /\ parser \in Parsers(setup.fault)
      /\ parser.out = <<>> /\ messages \in Seq(Reports)
  BY SeenTypes DEF Read, Reading
<1> DEFINE part(n) == SubSeq(chunks, 1, n)
           text(n) == FlattenSeq([i \in 1 .. n |-> part(n)[i].data])
           rest(n) == SubSeq(chunks, n + 1, Len(chunks))
<1>2. PICK n \in 1 .. Len(chunks) :
        /\ joined' = (joined \/ n > 1)
        /\ wire' = [wire EXCEPT ![Current] = rest(n)]
        /\ parser' = Cleared(ChunkRead(parser, text(n)))
        /\ Says(ChunkRead(parser, text(n)).out)
  BY DEF Read, Cleared
<1> DEFINE p == ChunkRead(parser, text(n))
           q == ReadEach(Cleared(p), TextsOf(rest(n)))
<1>3. /\ part(n) \in Seq(Chunks) /\ rest(n) \in Seq(Chunks) /\ Len(part(n)) = n
      /\ TextsOf(chunks) = TextsOf(part(n)) \o TextsOf(rest(n))
      /\ TextsOf(part(n)) \in Seq(Text) /\ TextsOf(rest(n)) \in Seq(Text)
  BY <1>1, ChunkTypes, TextsSplit, TextsParts
<1>4. text(n) = FlattenSeq(TextsOf(part(n)))
  BY <1>3, LenProperties DEF TextsOf
<1>5. <<>> \in Seq(Reports)
  BY EmptySeq
<1>6. p \in Parsers(setup.fault) /\ p = ReadEach(parser, TextsOf(part(n)))
  <2>1. n = 1 \/ setup.fault \notin Sensitive
    <3>1. n \in Nat /\ n <= Len(chunks) /\ Len(chunks) \in Nat /\ n >= 1
      BY <1>1, LenProperties
    <3>2. setup.fault \in BoundaryFaults => ~(n > 1)
      BY <1>2
    <3>3. setup.fault = "swapsEvents" => ~(n > 1)
      BY <3>1
    <3> QED
      BY <3>1, <3>2, <3>3 DEF Sensitive
  <2>2. Len(TextsOf(part(n))) = n
    BY <1>3, LenProperties, IsSequence DEF TextsOf
  <2> HIDE DEF part, text
  <2> QED
    BY <1>1, <1>3, <1>4, <2>1, <2>2, ReadsAtOnce
<1> HIDE DEF part, rest, text
<1>7. p.out \in Seq(Reports)
  BY <1>6 DEF Parsers
<1>8. Seen = ReadEach(p, TextsOf(rest(n)))
  BY <1>1, <1>3, <1>6, ReadsSome DEF Seen
<1>9. Seen = Shift(q, p.out) /\ Cleared(p) \in Parsers(setup.fault)
  BY <1>3, <1>5, <1>6, <1>8, EachContinues DEF Cleared, Parsers
<1>10. UNCHANGED <<setup, listening, requests>>
  BY DEF Read
<1>11. wire'[Current] = rest(n) /\ Current' = Current
  BY <1>1, <1>2, <1>10 DEF Current
<1>12. parser' = Cleared(p)
  BY <1>2
<1>13. Seen' = q
  BY <1>11, <1>12 DEF Seen
<1>14. q \in Parsers(setup.fault)
  BY <1>3, <1>5, <1>9, ReadsEach
<1> HIDE DEF p, q, chunks
<1>15. q.out \in Seq(Reports) /\ Seen.out = p.out \o q.out /\ Cleared(Seen) = Cleared(q)
  BY <1>9, <1>14 DEF Shift, Cleared, Parsers
<1>16. messages' = messages \o ReportedBy(setup, listening, p.out)
  BY <1>2, <1>7 DEF Says, p
<1> DEFINE a == ReportedBy(setup, listening, p.out)
           b == ReportedBy(setup, listening, q.out)
<1>17. /\ a \in Seq(Reports) /\ b \in Seq(Reports)
       /\ ReportedBy(setup, listening, Seen.out) = a \o b
  <2> DEFINE r == p.out
             s == q.out
  <2>1. r \in Seq(Reports) /\ s \in Seq(Reports) /\ Seen.out = r \o s
    BY <1>7, <1>15
  <2> HIDE DEF r, s
  <2>2. /\ ReportedBy(setup, listening, r) \in Seq(Reports)
        /\ ReportedBy(setup, listening, s) \in Seq(Reports)
    BY <2>1, ReportedParts
  <2>3. ReportedBy(setup, listening, r \o s)
          = ReportedBy(setup, listening, r) \o ReportedBy(setup, listening, s)
    BY <2>1, ReportedParts
  <2> QED
    BY <2>1, <2>2, <2>3 DEF r, s
<1>18. ToTake' = messages' \o b
  BY <1>10, <1>13 DEF ToTake
<1> HIDE DEF a, b
<1>19. ToTake' = ToTake
  <2>1. (messages \o a) \o b = messages \o (a \o b)
    <3>1. messages \in Seq(Reports) /\ a \in Seq(Reports) /\ b \in Seq(Reports)
      BY <1>1, <1>17
    <3> QED
      BY <3>1, ConcatAssociative
  <2>2. messages' = messages \o a
    BY <1>16 DEF a
  <2>3. ToTake = messages \o (a \o b)
    BY <1>17 DEF ToTake
  <2> QED
    BY <1>18, <2>1, <2>2, <2>3, Zenon
<1>20. chunks # <<>>
  BY <1>1, EmptySeq
<1>21. Cleared(Seen)' = Cleared(q)
  BY <1>13 DEF Cleared
<1>22. Len(chunks) <= 1 => rest(n) = <<>>
  <2>1. Len(chunks) \in Nat
    BY <1>1, LenProperties
  <2>2. Len(chunks) <= 1 => n = Len(chunks)
    BY <2>1
  <2>3. n = Len(chunks) => SubSeq(chunks, n + 1, Len(chunks)) = <<>>
    BY <2>1, EmptySeq
  <2> QED
    BY <2>2, <2>3 DEF rest
<1> QED
  BY <1>11, <1>13, <1>15, <1>19, <1>20, <1>21, <1>22 DEF chunks

-----------------------------------------------------------------------------
(* The steps of the client.                                                *)

(* The client gets to where the plan is, ...                               *)
LEMMA ConnectFollows ==
  ASSUME TypeInv, Connect, NEW e, Follows(e)
  PROVE  Follows(e)'
<1>1. IsBetween(e) /\ client = "connecting"
  BY DEF Follows, ReadsOn, ReadsRest, Connect, CanConnect
<1>2. UNCHANGED <<setup, ignoreNextError, stream, broken, listening, messages>>
  BY DEF Connect, testVars
<1>3. /\ told' = told
      /\ Current \in Nat /\ Current' = Current + 1
      /\ wire \in Seq(Seq(Chunks)) /\ Len(wire) = Current /\ <<>> \in Seq(Chunks)
      /\ broken \subseteq 1 .. Current /\ messages \in Seq(Reports)
  BY AskTypes, LenProperties, EmptySeq DEF Connect, TypeInv, ServerTyped, ClientTyped, Current
<1>4. requests' = e.requests
  BY <1>1 DEF Connect, Asked, IsBetween
<1>5. wire'[Current'] = <<>>
  BY <1>3, AppendProperties DEF Connect, Asked
<1>6. TypeInv'
  BY <1>2, ConnectTypes
<1>7. client' = "reading" /\ parser' = e.parser
  BY <1>1 DEF Connect, IsBetween
<1>8. Cleared(Seen)' = parser' /\ ToTake' = messages'
  <2>1. /\ parser' \in Parsers(setup'.fault) /\ parser'.out = <<>>
        /\ messages' \in Seq(Reports)
    BY <1>6 DEF TypeInv, ClientTyped
  <2>2. <<>> \in Seq(Chunks) /\ <<>> \in Seq(Reports)
    BY EmptySeq
  <2>3. Seen' = parser'
    <3>1. TextsOf(<<>>) = <<>>
      BY <2>2, TextsParts
    <3>2. Seen' = ReadEach(parser', TextsOf(wire'[Current']))
      BY DEF Seen
    <3> QED
      BY <1>5, <2>1, <3>1, <3>2, ReadsNone
  <2>4. ReportedBy(setup', listening', Seen'.out) = <<>>
    BY <2>1, <2>2, <2>3, ReportedParts
  <2>5. ToTake' = messages'
    BY <2>1, <2>4, ConcatEmptySeq DEF ToTake
  <2>6. Cleared(Seen)' = parser'
    BY <2>1, <2>3 DEF Cleared, Parsers
  <2> QED
    BY <2>5, <2>6
<1>9. newConns' = <<Current'>> /\ stream' = Current' - 1
  BY <1>1, <1>2, <1>3 DEF Connect, IsBetween
<1>10. Len(wire'[Current']) <= 1
  BY <1>5
<1>11. ReadsOn(e)'
  BY <1>1, <1>2, <1>3, <1>4, <1>5, <1>7, <1>8, <1>9, <1>10 DEF ReadsOn, IsBetween
<1> QED
  BY <1>2, <1>11 DEF Follows

(* ... reads on, which the plan has done before, ...                       *)
LEMMA ReadFollows ==
  ASSUME TypeInv, IsPlanned', Read, NEW e, Follows(e)
  PROVE  Follows(e)'
<1>1. /\ Cleared(Seen)' = Cleared(Seen)
      /\ ToTake' = ToTake /\ wire[Current] # <<>>
      /\ Len(wire[Current]) <= 1 => wire'[Current] = <<>>
  <2>1. setup.fault \in BoundaryFaults => ~joined'
    BY DEF IsPlanned, Read
  <2>2. setup.fault = "swapsEvents" => Len(wire[Current]) <= 1
    BY DEF Follows, ReadsOn, ReadsRest, IsBetween, Read, Reading
  <2> QED
    BY <2>1, <2>2, ReadSees
<1>2. UNCHANGED <<setup, ignoreNextError, stream, newConns, requests, broken, client, told,
                  listening>>
  BY DEF Read, testVars
<1>3. client = "reading"
  BY DEF Read, Reading
<1>4. /\ Current' = Current /\ EndReport' = EndReport /\ Retries' = Retries
  BY <1>2 DEF Current, EndReport, Retries, params, script
<1>5. CASE ReadsOn(e)
  <2>1. e.heard => wire'[Current'] = <<>> /\ Len(wire'[Current']) <= 1
    <3>1. \A w : w = <<>> => Len(w) <= 1
      OBVIOUS
    <3> QED
      BY <1>1, <1>4, <1>5, <3>1 DEF ReadsOn
  <2>2. ReadsOn(e)'
    BY <1>1, <1>2, <1>4, <1>5, <2>1 DEF ReadsOn
  <2> QED
    BY <1>2, <2>2 DEF Follows
<1>6. CASE ReadsRest(e)
  <2>1. ReadsRest(e)'
    BY <1>1, <1>2, <1>4, <1>6 DEF ReadsRest
  <2> QED
    BY <1>2, <2>1 DEF Follows
<1> QED
  BY <1>3, <1>5, <1>6 DEF Follows, IsBetween

(* ... sees the end, or drops the stream, as the plan has, ...             *)
LEMMA EndFollows ==
  ASSUME TypeInv, IsPlanned, SeeEnd \/ DropForRestart, NEW e, Follows(e)
  PROVE  Follows(e)'
<1>1. /\ client = "reading" /\ client' = "waiting" /\ parser' = LeftBy(setup, parser)
      /\ Says(EndReport)
  BY DEF SeeEnd, DropForRestart, Reading, Leave, IsPlanned, Staying, Fault, EndReport
<1>2. UNCHANGED <<setup, ignoreNextError, stream, newConns, requests, listening>>
  BY DEF SeeEnd, DropForRestart, Leave, testVars, serverVars
<1>3. ReadsRest(e) /\ wire[Current] = <<>> /\ ~told'
  <2>1. Current \in broken \/ told
    BY DEF SeeEnd, DropForRestart
  <2>2. ReadsRest(e)
    <3>1. ~ReadsOn(e) /\ ~IsBetween(e)
      BY <1>1, <2>1 DEF ReadsOn, IsBetween
    <3> QED
      BY <3>1 DEF Follows
  <2>3. \/ Current \in broken /\ ~told
        \/ Current \notin broken /\ told /\ wire[Current] = <<>>
    BY <2>2 DEF ReadsRest
  <2> QED
    BY <2>2, <2>3 DEF SeeEnd, DropForRestart
<1>4. Cleared(Seen) = parser /\ ToTake = messages
  BY <1>1, <1>3, AllSeen
<1>5. messages' = messages \o EndReport
  BY <1>1, SaysErrors DEF EndReport, TypeInv, ClientTyped
<1>6. Current' = Current /\ Retries' = Retries
  BY <1>2 DEF Current, Retries, params, script
<1>7. RequestOf(setup, parser'.lastID, Current' > 0) = RequestOf(setup, parser'.lastID, TRUE)
  <2>1. Current' > 0
    BY <1>1, <1>6 DEF TypeInv, ClientTyped
  <2> QED
    BY <2>1 DEF RequestOf, LastEventIDs
<1>8. e.requests = Append(requests', RequestOf(setup', parser'.lastID, Current' > 0))
  BY <1>1, <1>2, <1>3, <1>4, <1>7 DEF ReadsRest
<1>9. IsBetween(e)'
  BY <1>1, <1>2, <1>3, <1>4, <1>5, <1>6, <1>8 DEF ReadsRest, IsBetween
<1> QED
  BY <1>2, <1>9 DEF Follows

(* ... and waits before it connects again.                                 *)
LEMMA RetryFollows ==
  ASSUME TypeInv, Retry, NEW e, Follows(e)
  PROVE  Follows(e)'
<1>1. client = "waiting" /\ client' = "connecting"
  BY DEF Retry
<1>2. UNCHANGED <<setup, ignoreNextError, stream, newConns, requests, told, listening, parser,
                  messages>>
  BY DEF Retry, testVars, serverVars
<1>3. IsBetween(e)
  BY <1>1 DEF Follows, ReadsOn, ReadsRest
<1>4. IsBetween(e)'
  BY <1>1, <1>2, <1>3 DEF IsBetween, Current
<1> QED
  BY <1>2, <1>4 DEF Follows

(* Between steps of the test the plan stays where it is.                   *)
LEMMA StaysOnPlan ==
  ASSUME OnPlan, UNCHANGED <<setup, pc>>, \A e : Follows(e) => Follows(e)'
  PROVE  OnPlan'
<1>1. script' = script /\ Planned' = Planned /\ NextStep' = NextStep
  BY DEF script, Planned, NextStep
<1>2. CASE Follows(Planned)
  <2>1. PICK e : e = Planned
    OBVIOUS
  <2>2. Follows(e)
    BY <1>2, <2>1 DEF Follows, ReadsOn, ReadsRest, IsBetween
  <2>3. Follows(e)' /\ Planned' = e
    BY <1>1, <2>1, <2>2
  <2>4. Follows(Planned)'
    BY <2>3 DEF Follows, ReadsOn, ReadsRest, IsBetween
  <2> QED
    BY <2>4 DEF OnPlan
<1>3. CASE /\ pc <= Len(script.steps) /\ Required(setup, NextStep) # "none"
           /\ Follows(Forgiven(Planned))
  <2>1. PICK e : e = Forgiven(Planned)
    OBVIOUS
  <2>2. Follows(e)
    BY <1>3, <2>1 DEF Follows, ReadsOn, ReadsRest, IsBetween
  <2>3. Follows(e)' /\ Forgiven(Planned)' = e
    BY <1>1, <2>1, <2>2
  <2>4. Follows(Forgiven(Planned))'
    BY <2>3 DEF Follows, ReadsOn, ReadsRest, IsBetween
  <2>5. (pc <= Len(script.steps) /\ Required(setup, NextStep) # "none")'
    BY <1>1, <1>3
  <2> QED
    BY <2>4, <2>5 DEF OnPlan
<1> QED
  BY <1>2, <1>3 DEF OnPlan

(* It does nothing before the test creates it or after it has closed it.   *)
LEMMA ClientPlanned ==
  ASSUME TypeInv, PlanInv, IsPlanned, IsPlanned', ClientStep
  PROVE  PlanInv'
<1>1. Streaming(script) /\ setup.fault # "staysAfterRedirect"
  BY DEF IsPlanned
<1>2. ~ConnectInVain /\ ~ReadTimesOut
  BY <1>1 DEF Streaming, ConnectInVain, ReadTimesOut, CanTimeOut, params, Fault
<1>3. Connect \/ Read \/ SeeEnd \/ DropForRestart \/ Retry
  BY <1>2 DEF ClientStep
<1>4. UNCHANGED <<setup, test, pc, failed>>
  BY <1>3 DEF Connect, Read, SeeEnd, DropForRestart, Leave, Retry, testVars
<1>5. test = "running"
  <2>1. test # "ended" /\ client # "none"
    BY <1>3 DEF Connect, CanConnect, Read, SeeEnd, DropForRestart, Reading, Retry
  <2> QED
    BY <2>1 DEF PlanInv, TypeInv, TestTyped, Unstarted
<1>6. ASSUME NEW e, Follows(e) PROVE Follows(e)'
  BY <1>3, <1>6, ConnectFollows, ReadFollows, EndFollows, RetryFollows
<1>7. OnPlan => OnPlan'
  BY <1>4, <1>6, StaysOnPlan
<1>8. script' = script /\ test' # "ended"
  BY <1>4, <1>5 DEF script
<1> QED
  BY <1>4, <1>5, <1>7, <1>8 DEF PlanInv, Passed, Ended
-----------------------------------------------------------------------------
(* The steps of the test.                                                  *)

(* The first item of two sequences is that of the first one, if it has     *)
(* any.                                                                    *)
LEMMA FirstOfTwo ==
  ASSUME NEW S, NEW s \in Seq(S), NEW t \in Seq(S), s # <<>>
  PROVE  s \o t # <<>> /\ Head(s \o t) = Head(s) /\ Tail(s \o t) = Tail(s) \o t
<1>1. /\ s = <<Head(s)>> \o Tail(s) /\ Head(s) \in S /\ Tail(s) \in Seq(S)
  BY HeadTailProperties
<1> DEFINE h == Head(s)
           r == Tail(s)
<1>2. h \in S /\ r \in Seq(S) /\ s = <<h>> \o r /\ <<h>> \in Seq(S) /\ r \o t \in Seq(S)
  BY <1>1, ConcatProperties
<1> HIDE DEF h, r
<1>3. s \o t = <<h>> \o (r \o t)
  BY <1>2, ConcatAssociative
<1>4. ASSUME NEW x \in Seq(S)
      PROVE  <<h>> \o x # <<>> /\ Head(<<h>> \o x) = h /\ Tail(<<h>> \o x) = x
  <2> DEFINE y == <<h>> \o x
  <2>1. /\ y \in Seq(S) /\ Len(y) = 1 + Len(x) /\ Len(x) \in Nat /\ y[1] = h
        /\ \A i \in 1 .. Len(x) : y[i + 1] = x[i]
    <3>1. /\ y \in Seq(S) /\ Len(y) = Len(<<h>>) + Len(x)
          /\ \A i \in 1 .. Len(<<h>>) + Len(x) :
               y[i] = IF i <= Len(<<h>>) THEN <<h>>[i] ELSE x[i - Len(<<h>>)]
      BY <1>2, ConcatProperties
    <3>2. Len(<<h>>) = 1 /\ <<h>>[1] = h /\ Len(x) \in Nat
      BY LenProperties
    <3>3. \A i \in 1 .. 1 + Len(x) : y[i] = IF i <= 1 THEN <<h>>[i] ELSE x[i - 1]
      BY <3>1, <3>2
    <3>4. y[1] = h
      BY <3>2, <3>3
    <3>5. ASSUME NEW i \in 1 .. Len(x) PROVE y[i + 1] = x[i]
      <4>1. i + 1 \in 1 .. 1 + Len(x) /\ ~(i + 1 <= 1) /\ (i + 1) - 1 = i
        BY <3>2
      <4> QED
        BY <3>3, <4>1
    <3> QED
      BY <3>1, <3>2, <3>4, <3>5
  <2> HIDE DEF y
  <2>2. y # <<>>
    BY <2>1, EmptySeq
  <2>3. /\ Tail(y) \in Seq(S) /\ Len(Tail(y)) = Len(y) - 1 /\ Head(y) = y[1]
        /\ \A i \in 1 .. Len(Tail(y)) : Tail(y)[i] = y[i + 1]
    BY <2>1, <2>2, HeadTailProperties
  <2>4. Tail(y) = x
    <3>1. Len(Tail(y)) = Len(x) /\ \A i \in 1 .. Len(x) : Tail(y)[i] = x[i]
      BY <2>1, <2>3
    <3> QED
      BY <2>3, <3>1, SeqEqual
  <2> QED
    BY <2>1, <2>2, <2>3, <2>4 DEF y
<1> QED
  BY <1>2, <1>3, <1>4 DEF h, r

(* The next message is the one that the plan has next.                     *)
LEMMA NextOfToTake ==
  ASSUME TypeInv, client = "reading", messages # <<>>
  PROVE  /\ ToTake \in Seq(Reports) /\ ToTake # <<>> /\ Head(ToTake) = Head(messages)
         /\ Tail(ToTake) = Tail(messages) \o ReportedBy(setup, listening, Seen.out)
<1>1. /\ ReportedBy(setup, listening, Seen.out) \in Seq(Reports)
      /\ ToTake \in Seq(Reports) /\ messages \in Seq(Reports)
  BY SeenTypes
<1> QED
  BY <1>1, FirstOfTwo DEF ToTake

(* The first message there is is the first of the plan.                    *)
LEMMA NextFollows ==
  ASSUME TypeInv, messages # <<>>, NEW e, Follows(e)
  PROVE  e.pending # <<>> /\ Head(e.pending) = Head(messages)
<1>1. CASE ReadsOn(e)
  BY <1>1, NextOfToTake DEF ReadsOn
<1>2. CASE ReadsRest(e)
  <2>1. /\ ToTake \in Seq(Reports) /\ ToTake # <<>> /\ Head(ToTake) = Head(messages)
        /\ e.pending = ToTake \o EndReport
    BY <1>2, NextOfToTake DEF ReadsRest
  <2>2. EndReport \in Seq(Reports)
    BY ErrorReports DEF EndReport
  <2> QED
    BY <2>1, <2>2, FirstOfTwo
<1>3. CASE IsBetween(e)
  BY <1>3 DEF IsBetween
<1> QED
  BY <1>1, <1>2, <1>3 DEF Follows

(* The test takes it.                                                      *)
LEMMA TakeFollows ==
  ASSUME TypeInv, NEW e, Formed(e), Follows(e),
         Takes, ignoreNextError' = FALSE, stream' = stream,
         NEW f, f = [e EXCEPT !.pending = Tail(@), !.ignore = FALSE]
  PROVE  Follows(f)'
<1>1. /\ f.parser = e.parser /\ f.pending = Tail(e.pending) /\ f.ignore = FALSE
      /\ f.requests = e.requests /\ f.stream = e.stream /\ f.types = e.types
      /\ f.heard = e.heard
  BY DEF Formed
<1>2. /\ messages # <<>> /\ messages' = Tail(messages)
      /\ UNCHANGED <<setup, newConns, requests, wire, broken, client, told, listening, parser>>
  BY DEF Takes, serverVars
<1>3. /\ Current' = Current /\ Seen' = Seen /\ EndReport' = EndReport /\ Retries' = Retries
  BY <1>2 DEF Current, Seen, EndReport, Retries, params, script
<1>4. EndReport \in Seq(Reports)
  BY ErrorReports DEF EndReport
<1>5. client = "reading" => ToTake' = Tail(ToTake)
  BY <1>2, <1>3, NextOfToTake DEF ToTake
<1>6. CASE ReadsOn(e)
  <2>1. ToTake' = f.pending
    BY <1>1, <1>5, <1>6 DEF ReadsOn
  <2>2. ReadsOn(f)'
    BY <1>1, <1>2, <1>3, <1>6, <2>1 DEF ReadsOn, Cleared
  <2> QED
    BY <1>1, <1>2, <2>2 DEF Follows
<1>7. CASE ReadsRest(e)
  <2>1. /\ ToTake \in Seq(Reports) /\ ToTake # <<>>
        /\ ToTake' = Tail(ToTake) /\ e.pending = ToTake \o EndReport
    BY <1>2, <1>5, <1>7, NextOfToTake DEF ReadsRest
  <2>2. (ToTake \o EndReport)' = f.pending
    BY <1>1, <1>3, <1>4, <2>1, FirstOfTwo
  <2>3. ReadsRest(f)'
    BY <1>1, <1>2, <1>3, <1>7, <2>2 DEF ReadsRest
  <2> QED
    BY <1>1, <1>2, <2>3 DEF Follows
<1>8. CASE IsBetween(e)
  <2>1. IsBetween(f)'
    BY <1>1, <1>2, <1>3, <1>8 DEF IsBetween
  <2> QED
    BY <1>1, <1>2, <2>1 DEF Follows
<1> QED
  BY <1>6, <1>7, <1>8 DEF Follows

(* The test gets the connection that the plan has.                         *)
LEMMA AwaitFollows ==
  ASSUME TypeInv, NEW e, Formed(e), Follows(e), AwaitsConnection,
         NEW f, f = [e EXCEPT !.stream = @ + 1]
  PROVE  Follows(f)' /\ ~Together(e)
<1>1. /\ f.parser = e.parser /\ f.pending = e.pending /\ f.ignore = e.ignore
      /\ f.requests = e.requests /\ f.stream = e.stream + 1 /\ f.types = e.types
      /\ f.heard = e.heard
  BY DEF Formed
<1>2. /\ newConns # <<>> /\ stream' = Head(newConns) /\ newConns' = Tail(newConns)
      /\ UNCHANGED <<setup, ignoreNextError, requests, wire, broken, clientVars>>
  BY DEF AwaitsConnection
<1>3. Current \in Nat
  BY LenProperties DEF TypeInv, ServerTyped, Current
<1>4. ReadsOn(e) /\ stream = Current - 1 /\ newConns = <<Current>>
  <2>1. ~ReadsRest(e) /\ ~IsBetween(e)
    BY <1>2 DEF ReadsRest, IsBetween
  <2>2. ReadsOn(e)
    BY <2>1 DEF Follows
  <2> QED
    BY <1>2, <1>3, <2>2 DEF ReadsOn
<1>5. stream' = Current /\ newConns' = <<>> /\ stream' = stream + 1
  <2>1. \A c : Head(<<c>>) = c /\ Tail(<<c>>) = <<>>
    OBVIOUS
  <2>2. stream' = Current /\ newConns' = <<>>
    BY <1>2, <1>4, <2>1, Zenon
  <2> QED
    BY <1>3, <1>4, <2>2
<1>6. Current' = Current /\ Seen' = Seen /\ ToTake' = ToTake
  BY <1>2 DEF Current, Seen, ToTake, clientVars
<1>7. /\ stream' \in {Current' - 1, Current'}
      /\ newConns' = IF stream' < Current' THEN <<Current'>> ELSE <<>>
  <2>1. stream' = Current' /\ ~(stream' < Current')
    <3>1. ~(Current < Current)
      BY <1>3
    <3> QED
      BY <1>5, <1>6, <3>1, Zenon
  <2> QED
    BY <1>5, <2>1
<1>8. ReadsOn(f)'
  <2>1. /\ UNCHANGED <<setup, requests, wire, broken, client, told, listening>>
        /\ Cleared(Seen)' = Cleared(Seen)
    BY <1>2, <1>6 DEF Cleared, clientVars
  <2> QED
    BY <1>1, <1>4, <1>6, <1>7, <2>1, Zenon DEF ReadsOn
<1>9. ~Together(e)
  BY <1>3, <1>4 DEF Together, Follows, ReadsOn, Current
<1> QED
  BY <1>1, <1>2, <1>4, <1>5, <1>8, <1>9 DEF Follows, clientVars

(* A step that changes nothing of this.                                    *)
LEMMA SameFollows ==
  ASSUME NEW e, Follows(e), UNCHANGED <<setup, stream, ignoreNextError, serverVars, clientVars>>
  PROVE  Follows(e)'
<1>1. /\ Current' = Current /\ Seen' = Seen /\ EndReport' = EndReport
      /\ Retries' = Retries /\ ToTake' = ToTake
  BY DEF Current, Seen, EndReport, Retries, ToTake, params, script, serverVars, clientVars
<1> QED
  BY <1>1 DEF Follows, ReadsOn, ReadsRest, IsBetween, Cleared, serverVars, clientVars

(* The flag is set.                                                        *)
LEMMA IgnoreFollows ==
  ASSUME NEW e, Formed(e), Follows(e), IgnoresError,
         NEW f, f = [e EXCEPT !.ignore = TRUE]
  PROVE  Follows(f)'
<1>1. /\ f.parser = e.parser /\ f.pending = e.pending /\ f.ignore = TRUE
      /\ f.requests = e.requests /\ f.stream = e.stream /\ f.types = e.types
      /\ f.heard = e.heard
  BY DEF Formed
<1>2. ignoreNextError' = TRUE /\ UNCHANGED <<setup, stream, serverVars, clientVars>>
  BY DEF IgnoresError, TestOnly
<1>3. /\ Current' = Current /\ Seen' = Seen /\ EndReport' = EndReport
      /\ Retries' = Retries /\ ToTake' = ToTake
  BY <1>2 DEF Current, Seen, EndReport, Retries, ToTake, params, script, serverVars, clientVars
<1> QED
  BY <1>1, <1>2, <1>3 DEF Follows, ReadsOn, ReadsRest, IsBetween, Cleared, serverVars, clientVars

(* The client reads the connection that the test has.                      *)
LEMMA TogetherReads ==
  ASSUME TypeInv, NEW e, Follows(e), Together(e)
  PROVE  ReadsOn(e) /\ stream = Current /\ Current \in Nat /\ requests \in Seq(Requests)
<1>1. /\ Current \in Nat /\ requests \in Seq(Requests) /\ Current = Len(requests)
      /\ stream = Len(e.requests)
  BY LenProperties DEF TypeInv, ServerTyped, Current, Follows, Together
<1>2. \A r : Len(Append(requests, r)) = Current + 1
  BY <1>1
<1>3. CASE ReadsRest(e)
  <2>1. Len(e.requests) = Current + 1 /\ stream = Current
    BY <1>2, <1>3, Zenon DEF ReadsRest
  <2> QED
    BY <1>1, <2>1
<1>4. CASE IsBetween(e)
  <2>1. Len(e.requests) = Current + 1 /\ stream = Current
    BY <1>2, <1>4, Zenon DEF IsBetween
  <2> QED
    BY <1>1, <2>1
<1>5. CASE ReadsOn(e)
  BY <1>1, <1>5 DEF ReadsOn
<1> QED
  BY <1>3, <1>4, <1>5 DEF Follows

(* What is sent is seen after all that was sent before.                    *)
LEMMA SendFollows ==
  ASSUME TypeInv, NEW e, Formed(e), Follows(e), Together(e), Sends,
         NEW f, f = Sent(setup, e, Arg), setup.fault = "swapsEvents" => f.heard
  PROVE  Follows(f)'
<1> DEFINE chunks == [i \in DOMAIN Arg |->
                        [data |-> Arg[i], delayAfter |-> At("sendDelayed") /\ i < Len(Arg)]]
           q == ReadEach(e.parser, Arg)
<1>1. /\ f.parser = Cleared(q) /\ f.ignore = e.ignore
      /\ f.requests = e.requests /\ f.stream = e.stream /\ f.types = e.types
      /\ f.pending = e.pending \o ReportedBy(setup, e.types, q.out)
      /\ f.heard => AllRead(e) /\ Len(Arg) = 1 /\ ReportedBy(setup, e.types, q.out) # <<>>
  BY DEF Formed, Sent, Cleared
<1>2. /\ Put(chunks)
      /\ UNCHANGED <<setup, ignoreNextError, stream, newConns, requests, broken, clientVars>>
  BY DEF Sends, Put
<1>3. ReadsOn(e) /\ stream = Current /\ Current \in Nat
  BY TogetherReads
<1>4. /\ Current \in 1 .. Len(wire) /\ wire[Current] \in Seq(Chunks)
      /\ parser \in Parsers(setup.fault) /\ Seen \in Parsers(setup.fault)
      /\ Seen.out \in Seq(Reports) /\ messages \in Seq(Reports)
      /\ ReportedBy(setup, listening, Seen.out) \in Seq(Reports)
  BY <1>3, SeenTypes DEF ReadsOn
<1>5. Arg \in Seq(Text)
  BY ScriptTypes DEF TypeInv, WellFormed, Sends, At, Arg, Sending, TestTyped, Text
<1>6. chunks \in Seq(Chunks) /\ TextsOf(chunks) = Arg /\ Len(chunks) = Len(Arg)
  <2> DEFINE late(i) == At("sendDelayed") /\ i < Len(Arg)
  <2>1. /\ Len(Arg) \in Nat /\ DOMAIN Arg = 1 .. Len(Arg) /\ Arg \in [1 .. Len(Arg) -> Text]
    BY <1>5, LenProperties
  <2>2. \A i \in 1 .. Len(Arg) : late(i) \in BOOLEAN
    OBVIOUS
  <2>3. chunks = [i \in 1 .. Len(Arg) |-> [data |-> Arg[i], delayAfter |-> late(i)]]
    BY <2>1
  <2> HIDE DEF late, chunks
  <2>4. chunks \in [1 .. Len(Arg) -> Chunks] /\ \A i \in 1 .. Len(Arg) : chunks[i].data = Arg[i]
    BY <2>1, <2>2, <2>3 DEF Chunks
  <2>5. [i \in DOMAIN chunks |-> chunks[i].data] = Arg
    BY <2>1, <2>4
  <2>6. chunks \in Seq(Chunks) /\ Len(chunks) = Len(Arg)
    <3>1. DOMAIN chunks = 1 .. Len(Arg)
      BY <2>4
    <3>2. chunks \in Seq(Chunks)
      BY <2>1, <2>4, IsSequence
    <3> QED
      BY <2>1, <3>1, <3>2, LenProperties
  <2> QED
    BY <2>5, <2>6 DEF TextsOf
<1> HIDE DEF chunks
<1>7. wire'[Current] = wire[Current] \o chunks
  BY <1>2, <1>3, <1>4 DEF Put, ReadsOn
<1>8. Current' = Current /\ parser' = parser /\ messages' = messages /\ listening' = listening
  BY <1>2 DEF clientVars, Current
<1>9. Seen' = ReadEach(Seen, Arg)
  <2> DEFINE before == TextsOf(wire[Current])
  <2>1. TextsOf(wire[Current] \o chunks) = before \o Arg /\ before \in Seq(Text)
    BY <1>4, <1>6, TextsParts
  <2>2. Seen' = ReadEach(parser, before \o Arg) /\ Seen = ReadEach(parser, before)
    BY <1>7, <1>8, <2>1 DEF Seen
  <2> HIDE DEF before
  <2> QED
    BY <1>4, <1>5, <2>1, <2>2, ReadsSome
<1>10. Seen' = Shift(q, Seen.out) /\ e.parser \in Parsers(setup.fault)
  <2>1. /\ Cleared(Seen) \in Parsers(setup.fault)
        /\ ReadEach(Seen, Arg) = Shift(ReadEach(Cleared(Seen), Arg), Seen.out)
    <3>1. <<>> \in Seq(Reports)
      BY EmptySeq
    <3>2. Cleared(Seen) \in Parsers(setup.fault)
      BY <1>4, <3>1 DEF Cleared, Parsers
    <3> QED
      BY <1>4, <1>5, <3>2, EachContinues
  <2>2. Cleared(Seen) = e.parser
    BY <1>3 DEF ReadsOn
  <2> QED
    BY <1>9, <2>1, <2>2
<1>11. q \in Parsers(setup.fault)
  <2>1. <<>> \in Seq(Reports)
    BY EmptySeq
  <2> QED
    BY <1>5, <1>10, <2>1, ReadsEach
<1> HIDE DEF q
<1>12. q.out \in Seq(Reports) /\ Seen'.out = Seen.out \o q.out /\ Cleared(Seen)' = Cleared(q)
  BY <1>10, <1>11 DEF Shift, Cleared, Parsers
<1>13. ToTake' = f.pending
  <2> DEFINE a == ReportedBy(setup, listening, Seen.out)
             b == ReportedBy(setup, listening, q.out)
             r == Seen.out
             s == q.out
  <2>1. b \in Seq(Reports) /\ ReportedBy(setup, listening, Seen'.out) = a \o b
    <3>1. r \in Seq(Reports) /\ s \in Seq(Reports) /\ Seen'.out = r \o s
      BY <1>4, <1>12
    <3> HIDE DEF r, s
    <3>2. ReportedBy(setup, listening, s) \in Seq(Reports)
      BY <3>1, ReportedParts
    <3>3. ReportedBy(setup, listening, r \o s)
            = ReportedBy(setup, listening, r) \o ReportedBy(setup, listening, s)
      <4>1. \A x, y \in Seq(Reports) :
              ReportedBy(setup, listening, x \o y)
                = ReportedBy(setup, listening, x) \o ReportedBy(setup, listening, y)
        BY ReportedParts
      <4> QED
        BY <3>1, <4>1
    <3> QED
      BY <3>1, <3>2, <3>3 DEF r, s
  <2>2. ToTake' = messages \o ReportedBy(setup, listening, Seen'.out)
    BY <1>2, <1>8 DEF ToTake
  <2>3. ToTake = messages \o a
    BY DEF ToTake
  <2>4. e.pending = ToTake /\ e.types = listening
    BY <1>3 DEF ReadsOn, Follows
  <2>5. f.pending = (messages \o a) \o b
    BY <1>1, <2>3, <2>4
  <2>6. a \in Seq(Reports) /\ messages \in Seq(Reports)
    BY <1>4
  <2> HIDE DEF a, b
  <2>7. (messages \o a) \o b = messages \o (a \o b)
    <3>1. b \in Seq(Reports)
      BY <2>1
    <3> QED
      BY <2>6, <3>1, ConcatAssociative
  <2> QED
    BY <2>1, <2>2, <2>5, <2>7, Zenon
<1>14. f.heard => /\ Len(wire'[Current']) <= 1
                   /\ ReportedBy(setup', listening', Seen'.out) # <<>>
  <2> SUFFICES ASSUME f.heard
               PROVE  /\ Len(wire'[Current']) <= 1
                      /\ ReportedBy(setup', listening', Seen'.out) # <<>>
    OBVIOUS
  <2>1. wire[Current] = <<>> /\ Len(Arg) = 1 /\ ReportedBy(setup, listening, q.out) # <<>>
    BY <1>1, <1>3, NothingUnread DEF Follows
  <2>2. wire'[Current] = chunks /\ Len(chunks) = 1
    BY <1>6, <1>7, <2>1, ConcatEmptySeq
  <2>3. Seen.out = <<>>
    BY <1>3, <2>1, AllSeen, SeenTypes DEF ReadsOn
  <2>4. Seen'.out = q.out
    BY <1>12, <2>3, ConcatEmptySeq
  <2> QED
    BY <1>2, <1>8, <2>1, <2>2, <2>4
<1>15. ReadsOn(f)'
  BY <1>1, <1>2, <1>3, <1>8, <1>12, <1>13, <1>14 DEF ReadsOn, clientVars
<1> QED
  BY <1>1, <1>2, <1>8, <1>15 DEF Follows

(* The stream is broken, or is to be dropped, and the client has not       *)
(* noticed yet.                                                            *)
LEMMA BreakFollows ==
  ASSUME TypeInv, NEW e, Formed(e), Follows(e), CanEnd(setup, e),
         Breaks \/ (Restarts /\ AllRead(e) /\ Understood({"restart"})),
         setup.fault # "swapsEvents",
         NEW f, f = Broken(setup, e)
  PROVE  Follows(f)'
<1>1. /\ f.parser = Reopened(setup, LeftBy(setup, e.parser)) /\ f.ignore = e.ignore
      /\ f.heard = FALSE
      /\ f.requests = Append(e.requests, RequestOf(setup, LeftBy(setup, e.parser).lastID, TRUE))
      /\ f.stream = e.stream /\ f.types = e.types
      /\ f.pending = e.pending \o EndReport
  BY DEF Formed, Broken, EndReport
<1>2. UNCHANGED <<setup, ignoreNextError, stream, newConns, requests, client, listening, parser,
                  messages>>
  BY DEF Breaks, Put, Restarts, serverVars, clientVars
<1>3. /\ ReadsOn(e) /\ stream = Current /\ Current \in Nat /\ requests \in Seq(Requests)
      /\ Len(e.requests) < MaxRequests /\ Retries
  BY TogetherReads DEF CanEnd, Retries, params, script
<1>4. Current \in 1 .. Len(wire) /\ wire[Current] \in Seq(Chunks)
  BY <1>3, SeenTypes DEF ReadsOn
<1>5. /\ wire'[Current] = wire[Current]
      /\ \/ Current \in broken' /\ ~told'
         \/ Current \notin broken' /\ told' /\ wire[Current] = <<>>
  <2>1. CASE Breaks
    <3>1. Put(<<>>) /\ broken' = broken \cup {stream} /\ told' = told
      BY <2>1 DEF Breaks, Put, clientVars
    <3> QED
      BY <1>3, <1>4, <3>1, ConcatEmptySeq DEF Put, ReadsOn
  <2>2. CASE Restarts /\ AllRead(e) /\ Understood({"restart"})
    <3>1. told' = TRUE /\ UNCHANGED <<wire, broken>>
      BY <2>2 DEF Restarts, serverVars
    <3>2. wire[Current] = <<>>
      BY <1>3, <2>2, NothingUnread
    <3> QED
      BY <1>3, <3>1, <3>2 DEF ReadsOn
  <2> QED
    BY <2>1, <2>2
<1>6. /\ Current' = Current /\ EndReport' = EndReport /\ Retries' = Retries
      /\ Seen' = Seen /\ ToTake' = ToTake
  BY <1>2, <1>5 DEF Current, EndReport, Retries, params, script, Seen, ToTake
<1>7. e.parser = Cleared(Seen) /\ Cleared(Seen)' = Cleared(Seen)
  BY <1>3, <1>6 DEF ReadsOn, Cleared
<1>8. ReadsRest(f)'
  <2>1. /\ f.requests =
             Append(requests, RequestOf(setup, LeftBy(setup, Cleared(Seen)).lastID, TRUE))
        /\ f.parser = Reopened(setup, LeftBy(setup, Cleared(Seen)))
        /\ f.pending = ToTake \o EndReport
    BY <1>1, <1>3, <1>7 DEF ReadsOn
  <2>2. client = "reading" /\ newConns = <<>>
    <3>1. ~(Current < Current)
      BY <1>3
    <3> QED
      BY <1>3, <3>1, Zenon DEF ReadsOn
  <2>3. stream' = Current'
    BY <1>2, <1>3, <1>6
  <2> QED
    BY <1>1, <1>2, <1>3, <1>5, <1>6, <1>7, <2>1, <2>2, <2>3 DEF ReadsRest
<1>9. Len(f.requests) <= MaxRequests
  <2>1. Len(f.requests) = Len(e.requests) + 1
    BY <1>1, <1>3 DEF ReadsOn
  <2> QED
    BY <1>3, <2>1, MaxRequestsAssumption DEF ReadsOn, Current
<1> QED
  BY <1>1, <1>2, <1>8, <1>9 DEF Follows

(* The client listens for more only while there is nothing to hear.        *)
LEMMA ListenFollows ==
  ASSUME TypeInv, NEW e, Formed(e), Follows(e), AllRead(e),
         UNCHANGED <<setup, ignoreNextError, stream, serverVars, client, told, parser, messages>>,
         NEW f, f = [e EXCEPT !.types = listening']
  PROVE  Follows(f)'
<1>1. /\ f.parser = e.parser /\ f.pending = e.pending /\ f.ignore = e.ignore
      /\ f.requests = e.requests /\ f.stream = e.stream /\ f.types = listening'
      /\ f.heard = e.heard
  BY DEF Formed
<1>2. /\ Current' = Current /\ Seen' = Seen /\ Retries' = Retries
  BY DEF Current, Seen, Retries, params, script, serverVars
<1>3. CASE ReadsOn(e)
  <2>1. /\ wire[Current] = <<>> /\ client = "reading"
    BY <1>3, NothingUnread DEF ReadsOn
  <2>2. /\ Seen = parser /\ parser.out = <<>> /\ ToTake = messages /\ messages \in Seq(Reports)
    BY <2>1, AllSeen, SeenTypes
  <2>3. ReportedBy(setup', listening', Seen'.out) = <<>>
    <3>1. <<>> \in Seq(Reports)
      BY EmptySeq
    <3> QED
      BY <1>2, <2>2, <3>1, ReportedParts
  <2>4. ToTake' = ToTake
    BY <2>2, <2>3, ConcatEmptySeq DEF ToTake
  <2>5. ReadsOn(f)'
    BY <1>1, <1>2, <1>3, <2>1, <2>4 DEF ReadsOn, Cleared, serverVars
  <2> QED
    BY <1>1, <2>5 DEF Follows
<1>4. CASE IsBetween(e)
  <2>1. IsBetween(f)'
    BY <1>1, <1>2, <1>4 DEF IsBetween, serverVars
  <2> QED
    BY <1>1, <2>1 DEF Follows
<1> QED
  BY <1>3, <1>4 DEF Follows, ReadsRest, AllRead

(* The test waits in vain only for what the plan has not either.           *)
LEMMA WaitsFollow ==
  ASSUME TypeInv, IsPlanned, setup.punctual, test = "running", NEW e, Follows(e), TimePasses
  PROVE  messages = e.pending /\ (newConns = <<>> => Together(e))
<1>1. ~Busy /\ ~Fault("ignoresRestart")
  BY DEF TimePasses, IsPlanned, Staying, Fault
<1>2. Current \in Nat /\ requests \in Seq(Requests) /\ Len(requests) = Current
  BY LenProperties DEF TypeInv, ServerTyped, Current
<1>3. ~IsBetween(e)
  <2>1. SUFFICES ASSUME IsBetween(e) PROVE FALSE
    OBVIOUS
  <2>2. \A r : Len(Append(requests, r)) = Current + 1
    BY <1>2
  <2>3. Len(e.requests) = Current + 1
    BY <2>1, <2>2, Zenon DEF IsBetween
  <2>4. Current < MaxRequests
    BY <1>2, <2>3, MaxRequestsAssumption DEF Follows
  <2>5. client = "connecting" => Busy
    BY <2>4 DEF Busy, CanConnect
  <2>6. client = "waiting" /\ Retries => Busy
    BY DEF Busy, Retries
  <2> QED
    BY <1>1, <2>1, <2>5, <2>6 DEF IsBetween
<1>4. ReadsOn(e) /\ wire[Current] = <<>>
  <2>1. client = "reading" => wire[Current] = <<>> /\ Current \notin broken /\ ~told
    BY <1>1 DEF Busy, Reading
  <2> QED
    BY <1>3, <2>1 DEF Follows, ReadsOn, ReadsRest
<1>5. messages = e.pending
  BY <1>4, AllSeen DEF ReadsOn
<1>6. newConns = <<>> => Together(e)
  <2>1. SUFFICES ASSUME newConns = <<>> PROVE Together(e)
    OBVIOUS
  <2>2. \A c : <<c>> # <<>>
    OBVIOUS
  <2>3. ~(stream < Current)
    BY <1>4, <2>1, <2>2 DEF ReadsOn
  <2>4. stream = Current
    BY <1>2, <1>4, <2>3 DEF ReadsOn
  <2> QED
    BY <1>4, <2>4 DEF ReadsOn, Follows, Together, Current
<1> QED
  BY <1>5, <1>6

(* What the plan says of each kind of step.                                *)
LEMMA StepMeans ==
  ASSUME NEW u, NEW e, NEW step
  PROVE  /\ step.op \in MessageKinds => Required(u, step) = step.op
         /\ step.op = "commentIfAble" =>
              Required(u, step) = IF "comments" \in u.capabilities THEN "comment" ELSE "none"
         /\ step.op \notin MessageKinds /\ step.op # "commentIfAble" => Required(u, step) = "none"
         /\ Required(u, step) # "none" =>
              /\ Passes(u, e, step) <=> HasMessage(e, Required(u, step), step.arg)
              /\ After(u, e, step) = Taken(e)
<1>1. step.op \in MessageKinds => Required(u, step) = step.op
  BY DEF Required, MessageKinds
<1>2. step.op = "commentIfAble" =>
        Required(u, step) = IF "comments" \in u.capabilities THEN "comment" ELSE "none"
  BY DEF Required, MessageKinds
<1>3. step.op \notin MessageKinds /\ step.op # "commentIfAble" => Required(u, step) = "none"
  BY DEF Required
<1>4. Required(u, step) # "none" => step.op \in {"event", "comment", "error", "commentIfAble"}
  BY <1>3 DEF MessageKinds
<1>5. Required(u, step) # "none" =>
        /\ Passes(u, e, step) <=> HasMessage(e, Required(u, step), step.arg)
        /\ After(u, e, step) = Taken(e)
  BY <1>4 DEF Passes, After
<1> QED
  BY <1>1, <1>2, <1>3, <1>5

(* Passes and After, for each operation that requires no message.          *)
LEMMA OtherStepMeans ==
  ASSUME NEW u, NEW e, NEW step, Required(u, step) = "none"
  PROVE  /\ step.op = "await" =>
              /\ Passes(u, e, step) <=> ~Together(e)
              /\ After(u, e, step) = [e EXCEPT !.stream = @ + 1]
         /\ step.op = "request" =>
              /\ Passes(u, e, step) <=>
                   e.stream > 0 /\ Matches(e.requests[e.stream], step.arg)
              /\ After(u, e, step) = e
         /\ step.op \in Sending =>
              /\ Passes(u, e, step) <=> Together(e)
              /\ After(u, e, step) = Sent(u, e, step.arg)
         /\ step.op = "break" =>
              /\ Passes(u, e, step) <=> CanEnd(u, e)
              /\ After(u, e, step) = Broken(u, e)
         /\ step.op = "restart" =>
              /\ Passes(u, e, step) <=>
                   CanEnd(u, e) /\ AllRead(e) /\ "restart" \in u.capabilities
              /\ After(u, e, step) = Broken(u, e)
         /\ step.op = "ignoreError" => After(u, e, step) = [e EXCEPT !.ignore = TRUE]
         /\ step.op = "listen" =>
              /\ Passes(u, e, step) <=> AllRead(e)
              /\ After(u, e, step) = IF "event-type-listeners" \in u.capabilities
                                       THEN [e EXCEPT !.types = @ \cup {step.arg}] ELSE e
         /\ step.op = "commentIfAble" => After(u, e, step) = e
         /\ Fails(u, e, step) => step.op = "await" \/ (step.op = "request" /\ e.stream > 0)
<1>1. step.op = "await" =>
        /\ Passes(u, e, step) <=> ~Together(e)
        /\ After(u, e, step) = [e EXCEPT !.stream = @ + 1]
  BY DEF Passes, After
<1>2. step.op = "request" =>
        /\ Passes(u, e, step) <=> e.stream > 0 /\ Matches(e.requests[e.stream], step.arg)
        /\ After(u, e, step) = e
  BY DEF Passes, After
<1>3. step.op \in Sending =>
        /\ Passes(u, e, step) <=> Together(e)
        /\ After(u, e, step) = Sent(u, e, step.arg)
  BY DEF Passes, After, Sending
<1>4. /\ step.op = "break" =>
           /\ Passes(u, e, step) <=> CanEnd(u, e)
           /\ After(u, e, step) = Broken(u, e)
      /\ step.op = "restart" =>
           /\ Passes(u, e, step) <=>
                CanEnd(u, e) /\ AllRead(e) /\ "restart" \in u.capabilities
           /\ After(u, e, step) = Broken(u, e)
  BY DEF Passes, After
<1>5. step.op = "ignoreError" => After(u, e, step) = [e EXCEPT !.ignore = TRUE]
  BY DEF After
<1>6. step.op = "listen" =>
        /\ Passes(u, e, step) <=> AllRead(e)
        /\ After(u, e, step) = IF "event-type-listeners" \in u.capabilities
                                 THEN [e EXCEPT !.types = @ \cup {step.arg}] ELSE e
  BY DEF Passes, After
<1>7. step.op = "commentIfAble" => After(u, e, step) = e
  BY DEF After
<1>8. Fails(u, e, step) => step.op = "await" \/ (step.op = "request" /\ e.stream > 0)
  BY DEF Fails
<1> QED
  BY <1>1, <1>2, <1>3, <1>4, <1>5, <1>6, <1>7, <1>8

(* Only one error is ignored.                                              *)
LEMMA ForgivenTwice ==
  ASSUME NEW e, Formed(e)
  PROVE  Forgiven(Forgiven(e)) = Forgiven(e)
BY DEF Formed, Forgiven

(* Before a step that the run of the plan passes, or in which it fails.    *)
LEMMA AtStep ==
  ASSUME TypeInv, PlanInv, IsPlanned, ~failed, test = "running", pc <= Len(script.steps)
  PROVE  /\ Formed(Planned)
         /\ Plan(setup)[pc] = After(setup, Planned, NextStep)
         /\ PassesStep(setup, pc) <=> Passes(setup, Planned, NextStep)
         /\ pc \in 1 .. Len(Steps(setup))
         /\ \/ /\ Passes(setup, Planned, NextStep)
               /\ setup.fault = "swapsEvents" => After(setup, Planned, NextStep).heard
            \/ Fails(setup, Planned, NextStep)
         /\ \E e : /\ Formed(e) /\ Follows(e) /\ Forgiven(e) = Forgiven(Planned)
                   /\ Required(setup, NextStep) = "none" => e = Planned
<1>1. /\ Steps(setup) = script.steps /\ Len(Steps(setup)) \in Nat
      /\ pc \in 1 .. Len(Steps(setup)) /\ pc - 1 \in 0 .. Len(Steps(setup))
  BY ScriptTypes DEF TypeInv, TestTyped, Steps, script
<1>2. Formed(Planned)
  BY <1>1, FormedPlan DEF Planned
<1>3. Plan(setup)[pc] = After(setup, Planned, NextStep)
  BY <1>1, PlanSteps DEF Planned, NextStep
<1>4. PassesStep(setup, pc) <=> Passes(setup, Planned, NextStep)
  BY DEF PassesStep, Planned, NextStep, script
<1>5. \/ /\ Passes(setup, Planned, NextStep)
         /\ setup.fault = "swapsEvents" => After(setup, Planned, NextStep).heard
      \/ Fails(setup, Planned, NextStep)
  <2>1. RunDecides(setup)
    <3>1. /\ setup.script \in DOMAIN Scripts /\ setup \in Setups(setup.script)
          /\ Streaming(Scripts[setup.script])
          /\ setup.fault \notin Staying \cup {"staysAfterRedirect"}
          /\ Scripts[setup.script].needs \subseteq setup.capabilities
      BY DEF TypeInv, SetupTyped, IsPlanned, PlanInv, script
    <3> QED
      BY <3>1, RunsAssumption
  <2>2. \A k \in 1 .. pc - 1 : PassesStep(setup, k)
    BY DEF PlanInv
  <2>3. \/ PassesStep(setup, pc) /\ (setup.fault = "swapsEvents" => Plan(setup)[pc].heard)
        \/ Fails(setup, Planned, NextStep)
    BY <1>1, <2>1, <2>2 DEF RunDecides, Steps, Planned, NextStep, script
  <2> QED
    BY <1>3, <1>4, <2>3
<1>6. \E e : /\ Formed(e) /\ Follows(e) /\ Forgiven(e) = Forgiven(Planned)
             /\ Required(setup, NextStep) = "none" => e = Planned
  <2>1. CASE Follows(Planned)
    BY <1>2, <2>1, Zenon
  <2>2. CASE Required(setup, NextStep) # "none" /\ Follows(Forgiven(Planned))
    <3>1. Formed(Forgiven(Planned)) /\ Forgiven(Forgiven(Planned)) = Forgiven(Planned)
      BY <1>2, FormedAfter, ForgivenTwice
    <3> QED
      BY <2>2, <3>1, Zenon
  <2> QED
    BY <2>1, <2>2 DEF PlanInv, OnPlan
<1> QED
  BY <1>1, <1>2, <1>3, <1>4, <1>5, <1>6

(* After it, the plan goes on ...                                          *)
LEMMA Advances ==
  ASSUME TypeInv, PlanInv, IsPlanned, ~failed, test = "running", pc <= Len(script.steps),
         GoOn, UNCHANGED setup, failed' = FALSE, Passes(setup, Planned, NextStep),
         NEW f, f = After(setup, Planned, NextStep), Follows(f)'
  PROVE  PlanInv'
<1>1. pc \in Nat /\ pc' = pc + 1 /\ pc' - 1 = pc /\ test' = "running"
  BY DEF GoOn, TypeInv, TestTyped
<1>2. Plan(setup)[pc] = f /\ PassesStep(setup, pc)
  BY AtStep
<1>3. Planned' = f
  BY <1>1, <1>2 DEF Planned
<1>4. Follows(Planned)'
  BY <1>3 DEF Follows, ReadsOn, ReadsRest, IsBetween
<1>5. script' = script
  BY DEF script
<1>6. \A k \in 1 .. pc' - 1 : PassesStep(setup, k)
  <2>1. \A k \in 1 .. pc - 1 : PassesStep(setup, k)
    BY DEF PlanInv
  <2>2. \A k \in 1 .. pc : k = pc \/ k \in 1 .. pc - 1
    BY <1>1
  <2> QED
    BY <1>1, <1>2, <2>1, <2>2
<1>7. script.needs \subseteq setup.capabilities
  BY DEF PlanInv
<1>8. OnPlan' /\ ~Passed'
  BY <1>1, <1>4 DEF OnPlan, Passed, Ended
<1> QED
  BY <1>1, <1>5, <1>6, <1>7, <1>8 DEF PlanInv

(* ... or does not, and the test has failed, ...                           *)
LEMMA Derails ==
  ASSUME TypeInv, PlanInv, IsPlanned, ~failed, test = "running", pc <= Len(script.steps),
         UNCHANGED setup, failed' = TRUE, test' # "starting",
         setup.punctual => ~Passes(setup, Planned, NextStep)
  PROVE  PlanInv'
<1>1. setup.punctual => ~RunPasses(setup)
  BY AtStep DEF RunPasses, Steps
<1>2. script.needs \subseteq setup.capabilities /\ script' = script
  BY DEF PlanInv, script
<1> QED
  BY <1>1, <1>2 DEF PlanInv, Passed

(* ... or it had failed before.                                            *)
LEMMA StaysFailed ==
  ASSUME TypeInv, PlanInv, IsPlanned, failed, TestStep, UNCHANGED setup
  PROVE  PlanInv'
<1>1. failed = TRUE /\ test # "starting"
  BY DEF PlanInv, TypeInv, TestTyped
<1>2. failed'
  BY <1>1 DEF TestStep, Skip, CreateClient, FailNow, AwaitsConnection, TimesOut, ChecksRequest,
     assert, Sends, Breaks, Put, IgnoresError, DropsError, TakesMessage, RequiresNoComment,
     CountsRequests, Sleeps, Restarts, Prepares, Finishes
<1>3. test' # "starting"
  BY <1>1 DEF TestStep, Skip, CreateClient, FailNow, TearDown, GoOn, AwaitsConnection, TimesOut,
     ChecksRequest, Sends, Breaks, Put, IgnoresError, DropsError, TakesMessage, RequiresNoComment,
     CountsRequests, Sleeps, Restarts, Prepares, Finishes
<1>4. script' = script
  BY DEF script
<1> QED
  BY <1>1, <1>2, <1>3, <1>4 DEF PlanInv, Passed

(* The setup is chosen once.                                               *)
LEMMA NextKeepsSetup ==
  ASSUME [Next]_vars
  PROVE  UNCHANGED setup
<1>1. CASE ClientStep
  BY <1>1 DEF ClientStep, Connect, ConnectInVain, Read, SeeEnd, DropForRestart, ReadTimesOut,
     Leave, Retry
<1>2. CASE TestStep
  BY <1>2 DEF TestStep, TestOnly, Put, Takes, Skip, CreateClient, AwaitsConnection, TimesOut,
     ChecksRequest, Sends, Breaks, IgnoresError, DropsError, TakesMessage, RequiresNoComment,
     CountsRequests, Sleeps, Restarts, Prepares, Finishes
<1> QED
  BY <1>1, <1>2 DEF Next, vars

(* What a step of Awaits requires.                                         *)
LEMMA AwaitsRequired ==
  ASSUME NEW kind \in MessageKinds, Awaits(kind)
  PROVE  /\ test = "running" /\ pc <= Len(script.steps)
         /\ Required(setup, NextStep) = kind /\ kind # "none" /\ NextStep.arg = Arg
<1>1. /\ test = "running" /\ pc <= Len(script.steps)
      /\ \/ NextStep.op = kind
         \/ NextStep.op = "commentIfAble" /\ kind = "comment" /\ "comments" \in setup.capabilities
  BY DEF Awaits, At, NextStep, Has
<1>2. kind # "none"
  BY DEF MessageKinds
<1>3. Required(setup, NextStep) = kind
  BY <1>1, StepMeans
<1> QED
  BY <1>1, <1>2, <1>3 DEF NextStep, Arg

(* ... a message that is dropped, ...                                      *)
LEMMA DropPlanned ==
  ASSUME TypeInv, PlanInv, IsPlanned, ~failed, DropsError
  PROVE  PlanInv'
<1>1. PICK kind \in MessageKinds : Awaits(kind)
  BY DEF DropsError
<1>2. /\ test = "running" /\ pc <= Len(script.steps) /\ Required(setup, NextStep) # "none"
  BY <1>1, AwaitsRequired
<1>3. PICK e : Formed(e) /\ Follows(e) /\ Forgiven(e) = Forgiven(Planned)
  BY <1>2, AtStep
<1>4. PICK f : f = [e EXCEPT !.pending = Tail(@), !.ignore = FALSE]
  OBVIOUS
<1>5. /\ Takes /\ Ignored /\ messages # <<>> /\ ignoreNextError' = FALSE
      /\ UNCHANGED <<setup, test, pc, failed, stream>>
  BY DEF DropsError, Takes
<1>6. Follows(f)'
  BY <1>3, <1>4, <1>5, TakeFollows
<1>7. Forgiven(e) = f
  <2>1. e.pending # <<>> /\ Head(e.pending) = Head(messages)
    BY <1>3, <1>5, NextFollows
  <2>2. e.ignore /\ Head(messages).kind = "error"
    BY <1>3, <1>5 DEF Follows, Ignored
  <2> QED
    BY <1>4, <2>1, <2>2 DEF Forgiven
<1>8. /\ script' = script
      /\ NextStep' = NextStep /\ Planned' = Planned
  BY <1>5 DEF script, NextStep, Planned
<1>9. Forgiven(Planned)' = f
  BY <1>3, <1>7, <1>8
<1>10. Follows(Forgiven(Planned))'
  BY <1>6, <1>9 DEF Follows, ReadsOn, ReadsRest, IsBetween
<1>11. OnPlan'
  BY <1>2, <1>5, <1>8, <1>10 DEF OnPlan
<1> QED
  BY <1>2, <1>5, <1>8, <1>11 DEF PlanInv, Passed, Ended

(* ... or the one that the plan has; ...                                   *)
LEMMA TakePlanned ==
  ASSUME TypeInv, PlanInv, IsPlanned, ~failed, TakesMessage
  PROVE  PlanInv'
<1>1. PICK kind \in MessageKinds :
        /\ Awaits(kind) /\ Takes /\ ~Ignored
        /\ IF Head(messages).kind = kind
             THEN /\ assert(Matches(Head(messages), Arg))
                  /\ ignoreNextError' = FALSE
                  /\ GoOn /\ UNCHANGED stream
             ELSE FailNow
  BY DEF TakesMessage
<1>2. /\ test = "running" /\ pc <= Len(script.steps)
      /\ Required(setup, NextStep) = kind /\ kind # "none" /\ NextStep.arg = Arg
  BY <1>1, AwaitsRequired
<1>3. PICK e : Formed(e) /\ Follows(e) /\ Forgiven(e) = Forgiven(Planned)
  BY <1>2, AtStep
<1>4. messages # <<>> /\ UNCHANGED setup
  BY <1>1 DEF Takes
<1>5. e.pending # <<>> /\ Head(e.pending) = Head(messages)
  BY <1>3, <1>4, NextFollows
<1>6. Forgiven(e) = e
  BY <1>1, <1>3, <1>5 DEF Forgiven, Follows, Ignored
<1>7. Passes(setup, Planned, NextStep) <=>
        Head(messages).kind = kind /\ Matches(Head(messages), Arg)
  <2>1. Passes(setup, Planned, NextStep) <=> HasMessage(Planned, kind, Arg)
    BY <1>2, StepMeans
  <2> QED
    BY <1>3, <1>5, <1>6, <2>1 DEF HasMessage
<1>8. CASE Passes(setup, Planned, NextStep)
  <2>1. /\ failed' = FALSE /\ ignoreNextError' = FALSE /\ GoOn /\ UNCHANGED stream
    BY <1>1, <1>7, <1>8 DEF assert, TypeInv, TestTyped
  <2>2. PICK f : f = [e EXCEPT !.pending = Tail(@), !.ignore = FALSE]
    OBVIOUS
  <2>3. Follows(f)'
    BY <1>1, <1>3, <2>1, <2>2, TakeFollows
  <2>4. f = After(setup, Planned, NextStep)
    <3>1. f = Taken(Planned)
      BY <1>3, <1>6, <2>2 DEF Taken
    <3> QED
      BY <1>2, <3>1, StepMeans
  <2> QED
    BY <1>2, <1>4, <1>8, <2>1, <2>3, <2>4, Advances
<1>9. CASE ~Passes(setup, Planned, NextStep)
  <2>1. failed' = TRUE /\ test' # "starting"
    BY <1>1, <1>2, <1>7, <1>9 DEF assert, FailNow, TearDown, GoOn
  <2> QED
    BY <1>2, <1>4, <1>9, <2>1, Derails
<1> QED
  BY <1>8, <1>9

(* Before a step that takes no message.                                    *)
LEMMA OtherStep ==
  ASSUME TypeInv, PlanInv, IsPlanned, ~failed, NEW op, At(op), op \notin MessageKinds,
         op = "commentIfAble" => ~Has("comments")
  PROVE  /\ test = "running" /\ pc <= Len(script.steps)
         /\ NextStep.op = op /\ NextStep.arg = Arg /\ Required(setup, NextStep) = "none"
         /\ \E e : Formed(e) /\ Follows(e) /\ e = Planned
         /\ \/ /\ Passes(setup, Planned, NextStep)
               /\ setup.fault = "swapsEvents" => After(setup, Planned, NextStep).heard
            \/ op = "await" \/ (op = "request" /\ Planned.stream > 0)
<1>1. test = "running" /\ pc <= Len(script.steps) /\ NextStep.op = op /\ NextStep.arg = Arg
  BY DEF At, NextStep, Arg
<1>2. Required(setup, NextStep) = "none"
  BY <1>1, StepMeans DEF Has
<1>3. \/ /\ Passes(setup, Planned, NextStep)
         /\ setup.fault = "swapsEvents" => After(setup, Planned, NextStep).heard
      \/ op = "await" \/ (op = "request" /\ Planned.stream > 0)
  <2>1. Fails(setup, Planned, NextStep) => op = "await" \/ (op = "request" /\ Planned.stream > 0)
    BY <1>1, <1>2, OtherStepMeans
  <2> QED
    BY <1>1, <2>1, AtStep
<1>4. PICK e : Formed(e) /\ Follows(e) /\ e = Planned
  BY <1>1, <1>2, AtStep
<1>5. \E d : Formed(d) /\ Follows(d) /\ d = Planned
  BY <1>4, Zenon
<1> QED
  BY <1>1, <1>2, <1>3, <1>5

(* ... a connection, ...                                                   *)
LEMMA AwaitPlanned ==
  ASSUME TypeInv, PlanInv, IsPlanned, ~failed, AwaitsConnection
  PROVE  PlanInv'
<1>1. At("await") /\ "await" \notin MessageKinds /\ "await" # "commentIfAble"
  BY DEF AwaitsConnection, MessageKinds
<1>2. /\ test = "running" /\ pc <= Len(script.steps)
      /\ NextStep.op = "await" /\ Required(setup, NextStep) = "none"
  BY <1>1, OtherStep
<1>3. PICK e : Formed(e) /\ Follows(e) /\ e = Planned
  BY <1>1, OtherStep
<1>4. PICK f : f = [e EXCEPT !.stream = @ + 1]
  OBVIOUS
<1>5. Follows(f)' /\ ~Together(e)
  BY <1>3, <1>4, AwaitFollows
<1>6. f = After(setup, Planned, NextStep) /\ Passes(setup, Planned, NextStep)
  BY <1>2, <1>3, <1>4, <1>5, OtherStepMeans
<1>7. GoOn /\ UNCHANGED setup /\ failed' = FALSE
  BY DEF AwaitsConnection, clientVars, TypeInv, TestTyped
<1> QED
  BY <1>2, <1>5, <1>6, <1>7, Advances

(* ... a look at its request, ...                                          *)
LEMMA RequestPlanned ==
  ASSUME TypeInv, PlanInv, IsPlanned, ~failed, ChecksRequest
  PROVE  PlanInv'
<1>1. At("request") /\ "request" \notin MessageKinds /\ "request" # "commentIfAble"
  BY DEF ChecksRequest, MessageKinds
<1>2. /\ test = "running" /\ pc <= Len(script.steps) /\ NextStep.arg = Arg
      /\ NextStep.op = "request" /\ Required(setup, NextStep) = "none"
  BY <1>1, OtherStep
<1>3. PICK e : Formed(e) /\ Follows(e) /\ e = Planned
  BY <1>1, OtherStep
<1>4. GoOn /\ UNCHANGED <<setup, stream, ignoreNextError, serverVars, clientVars>>
  BY DEF ChecksRequest, TestOnly, clientVars
<1>5. Follows(e)'
  BY <1>3, <1>4, SameFollows
<1>6. e = After(setup, Planned, NextStep)
  BY <1>2, <1>3, OtherStepMeans
<1>7. /\ e.stream > 0
      /\ Passes(setup, Planned, NextStep) <=> Matches(e.requests[e.stream], Arg)
  <2>1. Passes(setup, Planned, NextStep) <=> e.stream > 0 /\ Matches(e.requests[e.stream], Arg)
    BY <1>2, <1>3, OtherStepMeans
  <2> QED
    BY <1>1, <1>3, <2>1, OtherStep
<1>8. requests[stream] = e.requests[e.stream]
  <2>1. /\ requests \in Seq(Requests) /\ Len(requests) = Current
        /\ stream \in 1 .. Len(requests) /\ stream = e.stream
    BY <1>3, <1>7, LenProperties DEF TypeInv, ServerTyped, Current, Follows
  <2>2. \A r : Append(requests, r)[stream] = requests[stream]
    BY <2>1
  <2>3. CASE ReadsOn(e)
    BY <2>1, <2>3 DEF ReadsOn
  <2>4. CASE ReadsRest(e)
    BY <2>1, <2>2, <2>4, Zenon DEF ReadsRest
  <2>5. CASE IsBetween(e)
    BY <2>1, <2>2, <2>5, Zenon DEF IsBetween
  <2> QED
    BY <1>3, <2>3, <2>4, <2>5 DEF Follows
<1>9. failed' = ~Passes(setup, Planned, NextStep)
  BY <1>7, <1>8 DEF ChecksRequest, assert, TypeInv, TestTyped
<1>10. CASE Passes(setup, Planned, NextStep)
  BY <1>2, <1>4, <1>5, <1>6, <1>9, <1>10, Advances
<1>11. CASE ~Passes(setup, Planned, NextStep)
  <2>1. failed' = TRUE /\ test' # "starting"
    BY <1>2, <1>4, <1>9, <1>11 DEF GoOn
  <2> QED
    BY <1>2, <1>4, <1>11, <2>1, Derails
<1> QED
  BY <1>10, <1>11

(* ... what is sent, ...                                                   *)
LEMMA SendPlanned ==
  ASSUME TypeInv, PlanInv, IsPlanned, ~failed, Sends
  PROVE  PlanInv'
<1>1. PICK op \in Sending : At(op)
  BY DEF Sends, Sending
<1>2. op \notin MessageKinds /\ op # "commentIfAble"
  BY DEF Sending, MessageKinds
<1>3. /\ test = "running" /\ pc <= Len(script.steps) /\ NextStep.arg = Arg
      /\ NextStep.op = op /\ Required(setup, NextStep) = "none"
  BY <1>1, <1>2, OtherStep
<1>4. PICK e : Formed(e) /\ Follows(e) /\ e = Planned
  BY <1>1, <1>2, OtherStep
<1>5. PICK f : f = Sent(setup, e, Arg)
  OBVIOUS
<1>6. Passes(setup, Planned, NextStep) /\ (setup.fault = "swapsEvents" => f.heard)
      /\ Together(e) /\ f = After(setup, Planned, NextStep)
  <2>1. f = After(setup, Planned, NextStep) /\ (Passes(setup, Planned, NextStep) <=> Together(e))
    BY <1>1, <1>3, <1>4, <1>5, OtherStepMeans
  <2>2. op # "await" /\ op # "request"
    BY <1>1 DEF Sending
  <2> QED
    BY <1>1, <1>2, <2>1, <2>2, OtherStep
<1>7. Follows(f)'
  BY <1>4, <1>5, <1>6, SendFollows
<1>8. GoOn /\ UNCHANGED setup /\ failed' = FALSE
  BY DEF Sends, Put, clientVars, TypeInv, TestTyped
<1> QED
  BY <1>3, <1>6, <1>7, <1>8, Advances

(* ... or broken, or is to be dropped, ...                                *)
LEMMA BreakPlanned ==
  ASSUME TypeInv, PlanInv, IsPlanned, ~failed, Breaks \/ Restarts
  PROVE  PlanInv'
<1>1. PICK op \in {"break", "restart"} : At(op) /\ (Restarts => op = "restart")
  BY DEF Breaks, Restarts, At
<1>2. op \notin MessageKinds /\ op # "commentIfAble"
  BY DEF MessageKinds
<1>3. /\ test = "running" /\ pc <= Len(script.steps)
      /\ NextStep.op = op /\ Required(setup, NextStep) = "none"
  BY <1>1, <1>2, OtherStep
<1>4. PICK e : Formed(e) /\ Follows(e) /\ e = Planned
  BY <1>1, <1>2, OtherStep
<1>5. PICK f : f = Broken(setup, e)
  OBVIOUS
<1>6. /\ Passes(setup, Planned, NextStep) /\ setup.fault # "swapsEvents"
      /\ CanEnd(setup, e) /\ f = After(setup, Planned, NextStep)
      /\ op = "restart" => AllRead(e) /\ Understood({"restart"})
  <2>1. /\ Passes(setup, Planned, NextStep)
        /\ setup.fault = "swapsEvents" => After(setup, Planned, NextStep).heard
    BY <1>1, <1>2, OtherStep
  <2>2. /\ CanEnd(setup, e) /\ f = After(setup, Planned, NextStep)
        /\ op = "restart" => AllRead(e) /\ Understood({"restart"})
    BY <1>1, <1>3, <1>4, <1>5, <2>1, OtherStepMeans DEF Understood
  <2>3. f.heard = FALSE
    BY <1>4, <1>5 DEF Formed, Broken
  <2> QED
    BY <2>1, <2>2, <2>3
<1>7. Follows(f)'
  BY <1>1, <1>4, <1>5, <1>6, BreakFollows
<1>8. GoOn /\ UNCHANGED setup /\ failed' = FALSE
  BY <1>1, <1>6 DEF Breaks, Put, Restarts, TypeInv, TestTyped
<1> QED
  BY <1>3, <1>6, <1>7, <1>8, Advances

(* ... the flag, ...                                                       *)
LEMMA IgnorePlanned ==
  ASSUME TypeInv, PlanInv, IsPlanned, ~failed, IgnoresError
  PROVE  PlanInv'
<1>1. At("ignoreError") /\ "ignoreError" \notin MessageKinds /\ "ignoreError" # "commentIfAble"
  BY DEF IgnoresError, MessageKinds
<1>2. /\ test = "running" /\ pc <= Len(script.steps)
      /\ NextStep.op = "ignoreError" /\ Required(setup, NextStep) = "none"
  BY <1>1, OtherStep
<1>3. PICK e : Formed(e) /\ Follows(e) /\ e = Planned
  BY <1>1, OtherStep
<1>4. PICK f : f = [e EXCEPT !.ignore = TRUE]
  OBVIOUS
<1>5. Follows(f)'
  BY <1>3, <1>4, IgnoreFollows
<1>6. f = After(setup, Planned, NextStep)
  BY <1>2, <1>3, <1>4, OtherStepMeans
<1>7. GoOn /\ UNCHANGED setup /\ failed' = FALSE
  BY DEF IgnoresError, TestOnly, clientVars, TypeInv, TestTyped
<1>8. Passes(setup, Planned, NextStep)
  BY <1>1, OtherStep
<1> QED
  BY <1>2, <1>5, <1>6, <1>7, <1>8, Advances

(* ... a comment that is not required, ...                                 *)
LEMMA NoCommentPlanned ==
  ASSUME TypeInv, PlanInv, IsPlanned, ~failed, RequiresNoComment
  PROVE  PlanInv'
<1>1. At("commentIfAble") /\ "commentIfAble" \notin MessageKinds /\ ~Has("comments")
  BY DEF RequiresNoComment, MessageKinds
<1>2. /\ test = "running" /\ pc <= Len(script.steps)
      /\ NextStep.op = "commentIfAble" /\ Required(setup, NextStep) = "none"
  BY <1>1, OtherStep
<1>3. PICK e : Formed(e) /\ Follows(e) /\ e = Planned
  BY <1>1, OtherStep
<1>4. /\ GoOn /\ UNCHANGED <<setup, stream, ignoreNextError, serverVars, clientVars>>
      /\ failed' = FALSE /\ Passes(setup, Planned, NextStep)
  BY <1>1, OtherStep DEF RequiresNoComment, TestOnly, clientVars, TypeInv, TestTyped
<1>5. Follows(e)'
  BY <1>3, <1>4, SameFollows
<1>6. e = After(setup, Planned, NextStep)
  BY <1>2, <1>3, OtherStepMeans
<1> QED
  BY <1>2, <1>4, <1>5, <1>6, Advances

(* ... and the type to listen for: ...                                     *)
LEMMA ListenPlanned ==
  ASSUME TypeInv, PlanInv, IsPlanned, ~failed, Prepares
  PROVE  PlanInv'
<1>1. At("listen") /\ "listen" \notin MessageKinds /\ "listen" # "commentIfAble"
  BY DEF Prepares, MessageKinds
<1>2. /\ test = "running" /\ pc <= Len(script.steps) /\ NextStep.arg = Arg
      /\ NextStep.op = "listen" /\ Required(setup, NextStep) = "none"
  BY <1>1, OtherStep
<1>3. PICK e : Formed(e) /\ Follows(e) /\ e = Planned
  BY <1>1, OtherStep
<1> DEFINE able == "event-type-listeners" \in setup.capabilities
<1>4. /\ GoOn /\ UNCHANGED <<failed, ignoreNextError, stream>>
      /\ listening' = IF able THEN listening \cup {Arg} ELSE listening
      /\ UNCHANGED <<setup, serverVars, client, told, parser, messages, joined>>
  BY DEF Prepares, Understood, Has
<1>5. failed' = FALSE /\ Passes(setup, Planned, NextStep) /\ AllRead(e)
  BY <1>1, <1>2, <1>3, <1>4, OtherStep, OtherStepMeans DEF TypeInv, TestTyped
<1>6. CASE able
  <2>1. PICK f : f = [e EXCEPT !.types = listening']
    OBVIOUS
  <2>2. Follows(f)'
    BY <1>3, <1>4, <1>5, <2>1, ListenFollows
  <2>3. f = After(setup, Planned, NextStep)
    <3>1. e.types = listening
      BY <1>3 DEF Follows
    <3> QED
      BY <1>2, <1>3, <1>4, <1>6, <2>1, <3>1, OtherStepMeans
  <2> QED
    BY <1>2, <1>4, <1>5, <2>2, <2>3, Advances
<1>7. CASE ~able
  <2>1. Follows(e)'
    BY <1>3, <1>4, <1>7, SameFollows DEF clientVars
  <2>2. e = After(setup, Planned, NextStep)
    BY <1>2, <1>3, <1>7, OtherStepMeans
  <2> QED
    BY <1>2, <1>4, <1>5, <2>1, <2>2, Advances
<1> QED
  BY <1>6, <1>7

(* The client is given all that its parameters ask for.                    *)
LEMMA CreatePlanned ==
  ASSUME TypeInv, PlanInv, IsPlanned, CreateClient
  PROVE  PlanInv'
<1> DEFINE id == FirstID(setup)
<1>1. /\ test = "starting" /\ script.needs \subseteq setup.capabilities
      /\ test' = "running" /\ client' = "connecting"
      /\ parser' = NewParser(setup.fault, id)
      /\ UNCHANGED <<setup, pc, failed, ignoreNextError, stream, serverVars, told, listening,
                     messages>>
  BY Creates
<1>2. Unstarted /\ failed = FALSE
  BY <1>1 DEF PlanInv, TypeInv, TestTyped
<1>3. Planned' = Begin(setup)
  <2>1. Len(Steps(setup)) \in Nat
    BY ScriptTypes DEF TypeInv, Steps, script
  <2>2. pc' - 1 = 0
    BY <1>1, <1>2 DEF Unstarted
  <2> QED
    BY <1>1, <2>1, <2>2, PlanSteps DEF Planned
<1>4. PICK e : e = Begin(setup)
  OBVIOUS
<1>5. /\ e.parser = NewParser(setup.fault, id) /\ e.pending = <<>> /\ e.ignore = FALSE
      /\ e.requests = <<RequestOf(setup, id, FALSE)>> /\ e.stream = 0
      /\ e.types = {<<"message">>} /\ e.heard = TRUE
  BY <1>4 DEF Begin
<1>6. parser'.lastID = id /\ Reopened(setup, parser') = parser'
  BY <1>1 DEF NewParser, Reopened
<1> HIDE DEF id
<1>7. IsBetween(e)'
  <2>1. requests' = <<>> /\ newConns' = <<>> /\ messages' = <<>> /\ stream' = 0
    BY <1>1, <1>2 DEF Unstarted, serverVars
  <2>2. Current' = 0 /\ (Current > 0)' = FALSE
    BY <2>1 DEF Current
  <2>3. \A r : Append(<<>>, r) = <<r>>
    OBVIOUS
  <2>4. RequestOf(setup, parser.lastID, Current > 0)' = RequestOf(setup, id, FALSE)
    BY <1>1, <1>6, <2>2
  <2>5. e.requests = Append(requests, RequestOf(setup, parser.lastID, Current > 0))'
    BY <1>5, <2>1, <2>3, <2>4, Zenon
  <2> QED
    BY <1>1, <1>2, <1>5, <1>6, <2>1, <2>2, <2>5 DEF IsBetween, Unstarted
<1>8. Follows(e)'
  <2>1. ignoreNextError' = e.ignore /\ stream' = e.stream /\ listening' = e.types
    BY <1>1, <1>2, <1>5 DEF Unstarted, TypeInv, TestTyped
  <2>2. Len(e.requests) = 1 /\ 1 <= MaxRequests
    BY <1>5, MaxRequestsAssumption
  <2> QED
    BY <1>5, <1>7, <2>1, <2>2 DEF Follows
<1>9. Follows(Planned)'
  BY <1>3, <1>4, <1>8 DEF Follows, ReadsOn, ReadsRest, IsBetween
<1>10. script' = script /\ pc' = 1 /\ ~Passed'
  BY <1>1, <1>2 DEF script, Unstarted, Passed, Ended
<1> QED
  BY <1>1, <1>2, <1>9, <1>10 DEF PlanInv, OnPlan

(* A deadline passes, while the client is in time, only if the run of the  *)
(* plan has nothing for the step either.                                   *)
LEMMA InTime ==
  ASSUME TypeInv, PlanInv, IsPlanned, ~failed, TimesOut
  PROVE  PlanInv'
<1>1. /\ TimePasses /\ (WaitsForReport \/ WaitsForStream)
      /\ failed' = TRUE /\ test' # "starting" /\ UNCHANGED setup
  BY DEF TimesOut, FailNow, TearDown, TestOnly
<1>2. CASE WaitsForReport
  <2>1. PICK kind \in MessageKinds : Awaits(kind) /\ messages = <<>>
    BY <1>2 DEF WaitsForReport
  <2>2. /\ test = "running" /\ pc <= Len(script.steps)
        /\ Required(setup, NextStep) = kind /\ kind # "none" /\ NextStep.arg = Arg
    BY <2>1, AwaitsRequired
  <2>3. ASSUME setup.punctual PROVE ~Passes(setup, Planned, NextStep)
    <3>1. PICK e : Follows(e) /\ Forgiven(e) = Forgiven(Planned)
      BY <2>2, AtStep
    <3>2. e.pending = <<>>
      BY <1>1, <2>1, <2>2, <2>3, <3>1, WaitsFollow
    <3>3. Forgiven(e) = e
      BY <3>2 DEF Forgiven
    <3>4. ~HasMessage(Planned, kind, Arg)
      BY <3>1, <3>2, <3>3 DEF HasMessage
    <3> QED
      BY <2>2, <3>4, StepMeans
  <2> QED
    BY <1>1, <2>2, <2>3, Derails
<1>3. CASE WaitsForStream
  <2>1. At("await") /\ "await" \notin MessageKinds /\ "await" # "commentIfAble" /\ newConns = <<>>
    BY <1>3 DEF WaitsForStream, MessageKinds
  <2>2. /\ test = "running" /\ pc <= Len(script.steps)
        /\ NextStep.op = "await" /\ Required(setup, NextStep) = "none"
    BY <2>1, OtherStep
  <2>3. ASSUME setup.punctual PROVE ~Passes(setup, Planned, NextStep)
    <3>1. PICK e : Follows(e) /\ e = Planned
      BY <2>1, OtherStep
    <3>2. Together(e)
      BY <1>1, <2>1, <2>2, <2>3, <3>1, WaitsFollow
    <3> QED
      BY <2>2, <3>1, <3>2, OtherStepMeans
  <2> QED
    BY <1>1, <2>2, <2>3, Derails
<1> QED
  BY <1>1, <1>2, <1>3

(* The test is not run, ...                                                *)
LEMMA SkipPlanned ==
  ASSUME TypeInv, PlanInv, IsPlanned, ~failed, Skip
  PROVE  PlanInv'
<1>1. /\ test' = "ended" /\ failed' = FALSE /\ UNCHANGED setup
      /\ ~(script.needs \subseteq setup.capabilities)
  BY DEF Skip, TearDown, TestOnly, Has, TypeInv, TestTyped
<1>2. script' = script
  BY <1>1 DEF script
<1> QED
  BY <1>1, <1>2 DEF PlanInv, Passed

(* ... or has passed all of its steps.                                     *)
LEMMA FinishPlanned ==
  ASSUME TypeInv, PlanInv, IsPlanned, ~failed, Finishes
  PROVE  PlanInv'
<1>1. /\ test = "running" /\ pc > Len(script.steps)
      /\ test' = "ended" /\ failed' = FALSE /\ UNCHANGED setup
  BY DEF Finishes, TearDown, TestOnly, TypeInv, TestTyped
<1>2. pc - 1 = Len(script.steps)
  BY <1>1, ScriptTypes DEF TypeInv, TestTyped
<1>3. RunPasses(setup)
  BY <1>1, <1>2 DEF PlanInv, RunPasses, script
<1> QED
  BY <1>1, <1>3 DEF PlanInv

(* The test is on its plan after each of its steps, until it fails.        *)
LEMMA TestPlanned ==
  ASSUME TypeInv, PlanInv, IsPlanned, TestStep
  PROVE  PlanInv'
<1>1. ~CountsRequests /\ ~Sleeps
  <2>1. \A op : At(op) => op \notin {"sleep", "countRequests"}
    BY AtOp DEF IsPlanned, Streaming
  <2> QED
    BY <2>1 DEF CountsRequests, Sleeps
<1>2. CASE failed
  BY <1>2, NextKeepsSetup, StaysFailed DEF Next
<1>3. CASE ~failed
  BY <1>1, <1>3, SkipPlanned, FinishPlanned, CreatePlanned, AwaitPlanned, InTime, RequestPlanned,
     SendPlanned, BreakPlanned, IgnorePlanned, DropPlanned, TakePlanned, NoCommentPlanned,
     ListenPlanned DEF TestStep
<1> QED
  BY <1>2, <1>3

(* The invariant holds at first, ...                                       *)
LEMMA InitPlanned == Init => PlanInv
BY DEF Init, PlanInv, Unstarted, Passed, Ended

(* ... and after each step.                                                *)
LEMMA NextPlanned == TypeInv /\ PlanInv /\ [Next]_vars => PlanInv'
<1> SUFFICES ASSUME TypeInv, PlanInv, [Next]_vars, IsPlanned' PROVE PlanInv'
  BY DEF PlanInv
<1>1. UNCHANGED setup
  BY NextKeepsSetup
<1>2. IsPlanned
  <2>1. joined => joined'
    <3>1. CASE ClientStep
      BY <3>1 DEF ClientStep, Connect, ConnectInVain, Read, SeeEnd, DropForRestart,
         ReadTimesOut, Leave, Retry
    <3>2. CASE TestStep
      BY <3>2 DEF TestStep, TestOnly, clientVars, Put, Takes, Skip, CreateClient,
         AwaitsConnection, TimesOut, ChecksRequest, Sends, Breaks, IgnoresError, DropsError,
         TakesMessage, RequiresNoComment, CountsRequests, Sleeps, Restarts, Prepares, Finishes
    <3>3. CASE UNCHANGED vars
      BY <3>3 DEF vars, clientVars
    <3> QED
      BY <3>1, <3>2, <3>3 DEF Next
  <2> QED
    BY <1>1, <2>1 DEF IsPlanned, script
<1>3. CASE Next
  BY <1>2, <1>3, TestPlanned, ClientPlanned DEF Next
<1>4. CASE UNCHANGED vars
  <2>1. UNCHANGED <<setup, test, pc, failed>>
    BY <1>4 DEF vars, testVars
  <2>2. script' = script /\ Passed' = Passed
    BY <2>1 DEF script, Passed, Ended
  <2>3. UNCHANGED <<setup, stream, ignoreNextError, serverVars, clientVars>>
    BY <1>4 DEF vars, testVars
  <2>4. Unstarted => Unstarted'
    BY <2>1, <2>3 DEF Unstarted, serverVars, clientVars
  <2>5. OnPlan => OnPlan'
    BY <2>1, <2>3, SameFollows, StaysOnPlan
  <2> QED
    BY <1>2, <2>1, <2>2, <2>4, <2>5 DEF PlanInv
<1> QED
  BY <1>3, <1>4
-----------------------------------------------------------------------------
(***************************************************************************)
(* The tests in which the client is to be sent away, or cannot connect, or *)
(* is to time out: an invariant for each.                                  *)
(***************************************************************************)
Punctual == setup.fault = "none" /\ setup.punctual

(* The client is not sent away twice, and after a sleep it has been.       *)
Halts ==
  /\ ~failed
  /\ test = "starting" => Unstarted
  /\ test = "running" =>
       /\ Current \in {0, 1}
       /\ client = IF Current = 0 THEN "connecting" ELSE "stopped"
       /\ (\E j \in 1 .. pc - 1 : script.steps[j].op = "sleep") => Current = 1

(* It cannot connect, and has said so unless it has yet to try.            *)
GoesNowhere ==
  /\ ~failed /\ ~ignoreNextError
  /\ test = "starting" => Unstarted
  /\ test = "running" =>
       /\ client \in {"connecting", "waiting"} /\ messages \in Seq({Error})
       /\ pc = 1 => messages # <<>> \/ (client = "connecting" /\ Current = 0)

(* It has read nothing yet, or the event; and then it times out again and  *)
(* again, for the first time while the test sleeps.                        *)
Unheard ==
  /\ parser = NewParser("none", params.lastID)
  /\ messages = <<>> /\ listening = {<<"message">>}
First(chunks, waiting) ==
  client = "reading" /\ Current = 1 /\ wire[1] = chunks /\ newConns = waiting
GoesOnReading ==
  /\ client \in {"connecting", "reading", "waiting"}
  /\ client = "reading" => wire[Current] = <<>>
HasHeard ==
  /\ messages # <<>> /\ SoleReport(setup) = <<Head(messages)>>
  /\ Tail(messages) \in Seq({Error})

InSilence ==
  /\ pc = 1 => /\ Unheard
               /\ \/ First(<<>>, <<1>>)
                  \/ client = "connecting" /\ Current = 0 /\ newConns = <<>>
  /\ pc = 2 => Unheard /\ First(<<>>, <<>>) /\ stream = 1
  /\ pc = 3 =>
       \/ /\ Unheard
          /\ \E chunk \in Chunks : chunk.data = script.steps[2].arg[1] /\ First(<<chunk>>, <<>>)
       \/ /\ HasHeard /\ GoesOnReading
          /\ Tail(messages) = <<>> => client = "reading" /\ Current = 1
          /\ Current = 1 \/ newConns # <<>>
  /\ pc = 4 => HasHeard /\ GoesOnReading /\ Tail(messages) # <<>>
  /\ pc = 5 => GoesOnReading /\ messages # <<>> /\ messages \in Seq({Error})
  /\ pc \in 4 .. 6 => newConns # <<>>

KeepsTime ==
  /\ ~failed /\ ~ignoreNextError /\ ~told /\ broken = {}
  /\ test = "starting" => Unstarted
  /\ test = "running" => script.needs \subseteq setup.capabilities /\ InSilence

KindsInv ==
  Punctual =>
    /\ Halting(script) => Halts
    /\ GoingNowhere(script) => GoesNowhere
    /\ TimingOut(script) => KeepsTime

(* What is asked of a client that is to be sent away.                      *)
LEMMA HaltingNext ==
  ASSUME TypeInv, Punctual, Halting(script), Halts, Next, UNCHANGED setup
  PROVE  Halts'
<1>1. /\ script' = script /\ script.server = "204" /\ \A f : Fault(f) <=> f = "none"
      /\ Current \in Nat /\ Current = Len(requests) /\ requests \in Seq(Requests)
      /\ pc \in 1 .. Len(script.steps) + 1 /\ Len(script.steps) \in Nat
  BY ScriptTypes, LenProperties
     DEF script, Halting, Punctual, Fault, Current, TypeInv, ServerTyped, TestTyped
<1>2. CASE ClientStep
  <2>1. test = "running"
    <3>1. client # "none" /\ test # "ended"
      BY <1>2 DEF ClientStep, Connect, ConnectInVain, CanConnect, Read, SeeEnd, DropForRestart,
                  ReadTimesOut, CanTimeOut, Reading, Retry
    <3> QED
      BY <3>1 DEF Halts, Unstarted, TypeInv, TestTyped
  <2>2. ConnectInVain
    BY <1>1, <1>2, <2>1 DEF Halts, ClientStep, Connect, Read, SeeEnd, DropForRestart, ReadTimesOut,
                            CanTimeOut, Reading, Retry
  <2>3. Current = 0 /\ client' = "stopped" /\ UNCHANGED <<test, pc, failed>>
    BY <1>1, <2>1, <2>2 DEF Halts, ConnectInVain, CanConnect, testVars
  <2>4. Current' = 1
    <3>1. \A r : Len(Append(requests, r)) = Current + 1
      BY <1>1
    <3> QED
      BY <2>2, <2>3, <3>1 DEF ConnectInVain, Asked, Current
  <2> QED
    BY <1>1, <2>1, <2>3, <2>4 DEF Halts
<1>3. \A op : At(op) => \/ op = "sleep"
                        \/ /\ op = "countRequests" /\ Arg = 1
                           /\ \E j \in 1 .. pc - 1 : script.steps[j].op = "sleep"
  BY AtOp DEF Halting, Arg
<1>4. CASE Skip \/ Finishes
  BY <1>1, <1>4 DEF Skip, Finishes, TearDown, Halts
<1>5. CASE CreateClient
  BY <1>1, <1>5, Creates DEF Halts, Unstarted, serverVars, Current
<1>6. CASE Sleeps
  <2>1. TimePasses /\ test = "running" /\ pc' = pc + 1
        /\ UNCHANGED <<test, failed, requests, client>>
    BY <1>6 DEF Sleeps, At, GoOn, TestOnly, serverVars, clientVars
  <2>2. ~CanConnect
    BY <2>1 DEF TimePasses, Busy, Punctual
  <2>3. Current = 1
    BY <1>1, <2>1, <2>2, MaxRequestsAssumption DEF CanConnect, Halts
  <2> QED
    BY <1>1, <2>1, <2>3 DEF Halts, Current
<1>7. CASE CountsRequests
  <2>1. test = "running" /\ Current = 1 /\ Arg = 1
    BY <1>3, <1>7 DEF CountsRequests, At, Halts
  <2>2. ~failed' /\ UNCHANGED <<test, requests, client>>
    BY <1>7, <2>1 DEF CountsRequests, assert, GoOn, TestOnly, serverVars, clientVars, Halts
  <2> QED
    BY <1>1, <2>1, <2>2 DEF Halts, Current
<1>8. CASE TestStep
  <2>1. \A op \in MessageKinds \cup {"await", "request", "send", "sendDelayed", "break", "ignoreError",
                                     "commentIfAble", "restart", "listen"} : ~At(op)
    BY <1>3 DEF MessageKinds
  <2>2. \A kind \in MessageKinds : ~Awaits(kind)
    BY <2>1 DEF Awaits
  <2> QED
    BY <1>4, <1>5, <1>6, <1>7, <1>8, <2>1, <2>2
       DEF TestStep, AwaitsConnection, TimesOut, WaitsForReport, WaitsForStream, ChecksRequest, Sends,
           Breaks, IgnoresError, DropsError, TakesMessage, RequiresNoComment, Restarts, Prepares
<1> QED
  BY <1>2, <1>8 DEF Next

(* What is asked of a client that cannot connect.                          *)
LEMMA NowhereNext ==
  ASSUME TypeInv, Punctual, GoingNowhere(script), GoesNowhere, Next, UNCHANGED setup
  PROVE  GoesNowhere'
<1>1. /\ script' = script /\ script.server = "redirectNowhere" /\ Len(script.steps) = 1
      /\ \A f : Fault(f) <=> f = "none"
      /\ Current = Len(requests) /\ pc \in {1, 2}
  BY DEF script, GoingNowhere, Punctual, Fault, Current, TypeInv, TestTyped
<1>2. CASE ClientStep
  <2>1. test = "running"
    <3>1. client # "none" /\ test # "ended"
      BY <1>2 DEF ClientStep, Connect, ConnectInVain, CanConnect, Read, SeeEnd, DropForRestart,
                  ReadTimesOut, CanTimeOut, Reading, Retry
    <3> QED
      BY <3>1 DEF GoesNowhere, Unstarted, TypeInv, TestTyped
  <2>2. ConnectInVain \/ Retry
    BY <1>1, <1>2, <2>1 DEF GoesNowhere, ClientStep, Connect, Read, SeeEnd, DropForRestart,
                            ReadTimesOut, CanTimeOut, Reading
  <2>3. UNCHANGED <<test, pc, failed, ignoreNextError>>
    BY <2>2 DEF ConnectInVain, Retry, testVars
  <2>4. CASE ConnectInVain
    <3>1. client' = "waiting" /\ messages' = messages \o <<Error>>
      <4>1. ~Fault("loopsOnRedirect") /\ Says(<<Error>>) /\ client' = "waiting"
        BY <1>1, <2>4 DEF ConnectInVain
      <4> QED
        BY <4>1, SaysErrors DEF TypeInv, ClientTyped
    <3>2. messages' \in Seq({Error}) /\ messages' # <<>>
      <4>1. messages \in Seq({Error}) /\ <<Error>> \in Seq({Error})
        BY <2>1 DEF GoesNowhere
      <4>2. messages \o <<Error>> \in Seq({Error})
            /\ Len(messages \o <<Error>>) = Len(messages) + 1 /\ Len(messages) \in Nat
        BY <4>1, ConcatProperties, LenProperties
      <4> QED
        BY <3>1, <4>2, EmptySeq
    <3> QED
      BY <2>1, <2>3, <3>1, <3>2 DEF GoesNowhere
  <2>5. CASE Retry
    BY <2>1, <2>3, <2>5 DEF Retry, GoesNowhere
  <2> QED
    BY <2>2, <2>4, <2>5
<1>3. \A op : At(op) => op = "error" /\ pc = 1 /\ test = "running" /\ Matches(Error, Arg)
  <2> SUFFICES ASSUME NEW op, At(op)
               PROVE  op = "error" /\ pc = 1 /\ test = "running" /\ Matches(Error, Arg)
    OBVIOUS
  <2>1. pc = 1 /\ script.steps[pc].op = op /\ test = "running"
    BY <1>1, AtOp
  <2> QED
    BY <2>1 DEF GoingNowhere, Arg
<1>4. CASE Skip \/ Finishes
  BY <1>1, <1>4 DEF Skip, Finishes, TearDown, GoesNowhere
<1>5. CASE CreateClient
  <2>1. messages' \in Seq({Error}) /\ Current' = 0
    BY <1>5, Creates, EmptySeq DEF GoesNowhere, Unstarted, serverVars, Current
  <2> QED
    BY <1>1, <1>5, <2>1, Creates DEF GoesNowhere
<1>6. CASE TakesMessage
  <2>1. PICK kind \in MessageKinds :
          /\ Awaits(kind) /\ Takes /\ ~Ignored
          /\ IF Head(messages).kind = kind
               THEN /\ assert(Matches(Head(messages), Arg))
                    /\ ignoreNextError' = FALSE
                    /\ GoOn /\ UNCHANGED stream
               ELSE FailNow
    BY <1>6 DEF TakesMessage
  <2>2. kind = "error" /\ pc = 1 /\ test = "running" /\ Matches(Error, Arg)
    BY <1>3, <2>1 DEF Awaits
  <2>3. messages \in Seq({Error}) /\ messages # <<>> /\ messages' = Tail(messages) /\ client' = client
    BY <2>1, <2>2 DEF GoesNowhere, Takes
  <2>4. Head(messages) = Error /\ Tail(messages) \in Seq({Error})
    BY <2>3, HeadTailProperties
  <2>5. Head(messages).kind = kind
    BY <2>2, <2>4 DEF Error, Report
  <2>6. ~failed' /\ pc' = 2 /\ test' = test /\ ~ignoreNextError'
    <3>1. Matches(Head(messages), Arg) /\ failed = FALSE
      BY <2>2, <2>4 DEF GoesNowhere, TypeInv, TestTyped
    <3>2. assert(Matches(Head(messages), Arg)) /\ ignoreNextError' = FALSE /\ GoOn
      BY <2>1, <2>5
    <3>3. failed' = FALSE
      BY <3>1, <3>2 DEF assert
    <3> QED
      BY <2>2, <3>2, <3>3 DEF GoOn
  <2> QED
    BY <2>2, <2>3, <2>4, <2>6 DEF GoesNowhere
<1>7. ~TimesOut
  <2> SUFFICES ASSUME TimesOut PROVE FALSE
    OBVIOUS
  <2>1. TimePasses /\ messages = <<>> /\ pc = 1 /\ test = "running"
    BY <1>3 DEF TimesOut, WaitsForReport, WaitsForStream, Awaits
  <2>2. CanConnect
    BY <2>1, MaxRequestsAssumption DEF GoesNowhere, CanConnect
  <2> QED
    BY <2>1, <2>2 DEF TimePasses, Busy, Punctual
<1>8. CASE TestStep
  <2>1. \A op \in {"await", "request", "send", "sendDelayed", "break", "ignoreError", "sleep",
                   "countRequests", "commentIfAble", "restart", "listen"} : ~At(op)
    BY <1>3
  <2>2. ~DropsError
    BY DEF DropsError, Ignored, GoesNowhere
  <2> QED
    BY <1>4, <1>5, <1>6, <1>7, <1>8, <2>1, <2>2
       DEF TestStep, AwaitsConnection, ChecksRequest, Sends, Breaks, IgnoresError, RequiresNoComment,
           CountsRequests, Sleeps, Restarts, Prepares
<1> QED
  BY <1>2, <1>8 DEF Next

(* The steps of a test of the read timeout.                                *)
SilentOps ==
  {<<1, "await">>, <<2, "send">>, <<3, "sleep">>, <<4, "event">>, <<5, "error">>, <<6, "await">>}

(* It takes no others.                                                     *)
LEMMA SilentSteps ==
  ASSUME TypeInv, TimingOut(script)
  PROVE  /\ Len(script.steps) = 6
         /\ \A op : At(op) => <<pc, op>> \in SilentOps
<1> DEFINE ops == [i \in 1 .. Len(script.steps) |-> script.steps[i].op]
<1>1. /\ ops = <<"await", "send", "sleep", "event", "error", "await">>
      /\ Len(script.steps) \in Nat
  BY ScriptTypes DEF TimingOut, TypeInv
<1>2. /\ DOMAIN ops = 1 .. 6 /\ ops[1] = "await" /\ ops[2] = "send" /\ ops[3] = "sleep"
      /\ ops[4] = "event" /\ ops[5] = "error" /\ ops[6] = "await"
  BY <1>1
<1>3. DOMAIN ops = 1 .. Len(script.steps)
  OBVIOUS
<1>4. \A i \in 1 .. Len(script.steps) : script.steps[i].op = ops[i]
  OBVIOUS
<1> HIDE DEF ops
<1>5. Len(script.steps) = 6
  BY <1>1, <1>2, <1>3
<1> SUFFICES ASSUME NEW op, At(op)
             PROVE  <<pc, op>> \in SilentOps
  BY <1>5
<1>6. pc \in 1 .. 6 /\ ops[pc] = op
  BY <1>4, <1>5, AtOp
<1> QED
  BY <1>2, <1>6 DEF SilentOps

(* A report more.                                                          *)
LEMMA OneMore ==
  ASSUME NEW s \in Seq(Reports), s # <<>>, NEW t, t = s \o <<Error>>
  PROVE  /\ t # <<>> /\ Head(t) = Head(s) /\ Tail(t) # <<>>
         /\ Tail(s) \in Seq({Error}) => Tail(t) \in Seq({Error})
         /\ s \in Seq({Error}) => t \in Seq({Error})
<1>1. <<Error>> \in Seq(Reports) /\ <<Error>> \in Seq({Error}) /\ Len(<<Error>>) = 1
  BY ErrorReports
<1>2. t # <<>> /\ Head(t) = Head(s) /\ Tail(t) = Tail(s) \o <<Error>> /\ Tail(s) \in Seq(Reports)
  BY <1>1, FirstOfTwo, HeadTailProperties
<1>3. Len(Tail(t)) = Len(Tail(s)) + 1 /\ Len(Tail(s)) \in Nat
  BY <1>1, <1>2, ConcatProperties, LenProperties
<1>4. Tail(t) # <<>>
  BY <1>3, EmptySeq
<1>5. \A r : r \in Seq({Error}) => r \o <<Error>> \in Seq({Error})
  BY <1>1, ConcatProperties
<1> QED
  BY <1>2, <1>4, <1>5

(* The client reads the event.                                             *)
LEMMA ReadsEvent ==
  ASSUME TypeInv, Punctual, TimingOut(script), Read, Unheard, NEW chunk \in Chunks,
         chunk.data = script.steps[2].arg[1], First(<<chunk>>, <<>>)
  PROVE  messages' = SoleReport(setup) /\ wire'[1] = <<>>
<1>1. /\ Current = 1 /\ wire[1] = <<chunk>> /\ chunk.data \in Text /\ 1 \in 1 .. Len(wire)
      /\ parser = NewParser("none", params.lastID) /\ parser \in Parsers("none")
  <2>1. /\ wire \in Seq(Seq(Chunks)) /\ Len(wire) = Current
    BY DEF TypeInv, ServerTyped, Current
  <2>2. parser \in Parsers("none")
    BY DEF TypeInv, ClientTyped, Punctual
  <2> QED
    BY <2>1, <2>2 DEF First, Unheard, Chunks
<1> DEFINE chunks == wire[Current]
           part(n) == SubSeq(chunks, 1, n)
           p(n) == ChunkRead(parser, FlattenSeq([i \in 1 .. n |-> part(n)[i].data]))
<1>2. PICK n \in 1 .. Len(chunks) :
        /\ wire' = [wire EXCEPT ![Current] = SubSeq(chunks, n + 1, Len(chunks))]
        /\ Says(p(n).out)
  BY DEF Read
<1>3. n = 1 /\ wire'[1] = <<>>
  <2>1. n = 1 /\ Len(chunks) = 1
    BY <1>1
  <2>2. SubSeq(chunks, n + 1, Len(chunks)) = <<>>
    <3>1. SubSeq(<<chunk>>, 2, 1) = <<>>
      OBVIOUS
    <3>2. chunks = <<chunk>> /\ n + 1 = 2
      BY <1>1, <2>1
    <3> QED
      BY <2>1, <3>1, <3>2
  <2> HIDE DEF chunks
  <2>3. wire' = [wire EXCEPT ![1] = <<>>]
    BY <1>1, <1>2, <2>2
  <2> QED
    BY <1>1, <2>1, <2>3
<1>4. [i \in 1 .. 1 |-> part(1)[i].data] = <<chunk.data>>
  <2>1. part(1)[1] = chunk
    BY <1>1
  <2> HIDE DEF part
  <2> QED
    BY <2>1
<1> HIDE DEF part
<1>5. FlattenSeq(<<chunk.data>>) = chunk.data
  BY <1>1, FlattenOne DEF Text
<1>6. p(1) = TextRead(parser, chunk.data) /\ p(1) \in Parsers("none")
  <2>1. "none" \notin Sensitive
    BY DEF Sensitive, BoundaryFaults
  <2> QED
    BY <1>1, <1>4, <1>5, <2>1, ReadsChunk
<1> HIDE DEF p
<1>7. p(1).out \in Seq(Reports)
  BY <1>6 DEF Parsers
<1>8. messages' = <<>> \o ReportedBy(setup, {<<"message">>}, p(1).out)
  BY <1>2, <1>3 DEF Says, Unheard
<1>9. ReportedBy(setup, {<<"message">>}, p(1).out) \in Seq(Reports)
  BY <1>7, ReportedParts
<1>10. SoleReport(setup) = ReportedBy(setup, {<<"message">>}, p(1).out)
  BY <1>1, <1>6 DEF SoleReport, params, script
<1> QED
  BY <1>3, <1>8, <1>9, <1>10, ConcatEmptySeq

(* The client of such a test does what it is to do, ...                    *)
LEMMA SilentClient ==
  ASSUME TypeInv, Punctual, TimingOut(script), KeepsTime, ClientStep, UNCHANGED setup
  PROVE  KeepsTime'
<1>1. /\ script' = script /\ params' = params /\ script.server = "stream"
      /\ \A f : Fault(f) <=> f = "none"
      /\ Current = Len(requests) /\ Current \in Nat /\ requests \in Seq(Requests)
      /\ wire \in Seq(Seq(Chunks)) /\ Len(wire) = Current /\ newConns \in Seq(1 .. Current)
      /\ messages \in Seq(Reports)
  BY LenProperties
     DEF script, params, TimingOut, Punctual, Fault, Current, TypeInv, ServerTyped, ClientTyped
<1>2. test = "running" /\ InSilence /\ script.needs \subseteq setup.capabilities
  <2>1. client # "none" /\ test # "ended"
    BY DEF ClientStep, Connect, ConnectInVain, CanConnect, Read, SeeEnd, DropForRestart,
           ReadTimesOut, CanTimeOut, Reading, Retry
  <2> QED
    BY <2>1 DEF KeepsTime, Unstarted, TypeInv, TestTyped
<1>3. Connect \/ Read \/ ReadTimesOut \/ Retry
  BY <1>1 DEF ClientStep, KeepsTime, ConnectInVain, SeeEnd, DropForRestart
<1>4. UNCHANGED <<test, pc, failed, ignoreNextError, stream, told, broken, listening>>
  BY <1>3 DEF Connect, Read, ReadTimesOut, Leave, Retry, testVars, serverVars
<1>5. SUFFICES InSilence'
  BY <1>1, <1>2, <1>4 DEF KeepsTime
<1>6. CASE Connect
  <2>1. /\ client = "connecting" /\ client' = "reading" /\ messages' = messages
        /\ newConns' = Append(newConns, Current + 1)
        /\ parser' = NewParser("none", parser.lastID)
    <3>1. ~Fault("keepsPartial")
      BY <1>1
    <3> QED
      BY <1>6, <3>1 DEF Connect, CanConnect, Punctual, Reopened, Fault
  <2>2. Current' = Current + 1 /\ wire'[Current'] = <<>>
    <3>1. (\E r : requests' = Append(requests, r)) /\ wire' = Append(wire, <<>>)
      BY <1>6 DEF Connect, Asked
    <3>2. <<>> \in Seq(Chunks)
      BY EmptySeq
    <3>3. \A r : Len(Append(requests, r)) = Current + 1
      BY <1>1
    <3>4. Current' = Current + 1
      BY <3>1, <3>3 DEF Current
    <3> QED
      BY <1>1, <3>1, <3>2, <3>4, AppendProperties
  <2>3. newConns' # <<>>
    <3>1. newConns \in Seq(Nat) /\ Current + 1 \in Nat
      BY <1>1, SeqMono
    <3> QED
      BY <2>1, <3>1, AppendProperties, EmptySeq
  <2>4. CASE pc = 1
    <3>1. Current = 0 /\ newConns = <<>> /\ Unheard
      BY <1>2, <2>1, <2>4 DEF InSilence, First
    <3>2. newConns' = <<1>>
      BY <2>1, <3>1
    <3>3. parser' = NewParser("none", params'.lastID)
      BY <1>1, <2>1, <3>1 DEF Unheard, NewParser
    <3> QED
      BY <1>4, <2>1, <2>2, <2>4, <3>1, <3>2, <3>3 DEF InSilence, First, Unheard
  <2>5. pc # 2
    BY <1>2, <2>1 DEF InSilence, First
  <2>6. (HasHeard => HasHeard') /\ GoesOnReading'
    BY <1>4, <2>1, <2>2 DEF HasHeard, GoesOnReading
  <2>7. CASE pc = 3
    BY <1>2, <1>4, <2>1, <2>6, <2>7, <2>3 DEF InSilence, First
  <2>8. CASE pc \notin 1 .. 3
    BY <1>2, <1>4, <2>1, <2>6, <2>8, <2>3 DEF InSilence
  <2> QED
    BY <2>4, <2>5, <2>7, <2>8
<1>7. CASE Read
  <2>1. client = "reading" /\ wire[Current] # <<>> /\ UNCHANGED <<client, newConns, requests>>
    BY <1>7, EmptySeq DEF Read, Reading
  <2>2. CASE pc = 3
    <3>1. PICK chunk \in Chunks :
            Unheard /\ chunk.data = script.steps[2].arg[1] /\ First(<<chunk>>, <<>>)
      BY <1>2, <2>1, <2>2 DEF InSilence, GoesOnReading
    <3>2. messages' = SoleReport(setup) /\ wire'[1] = <<>>
      BY <1>7, <3>1, ReadsEvent
    <3>3. PICK r : SoleReport(setup) = <<r>>
      BY <1>2, RunsAssumption DEF TypeInv, SetupTyped, Punctual, script
    <3>4. Current' = 1 /\ client' = "reading"
      BY <2>1, <3>1 DEF First, Current
    <3>5. HasHeard' /\ Tail(messages') = <<>>
      <4>1. \A x : <<x>> # <<>> /\ Head(<<x>>) = x /\ Tail(<<x>>) = <<>>
        OBVIOUS
      <4>2. SoleReport(setup)' = SoleReport(setup) /\ <<>> \in Seq({Error})
        BY EmptySeq DEF SoleReport
      <4> QED
        BY <3>2, <3>3, <4>1, <4>2 DEF HasHeard
    <3> QED
      BY <1>4, <2>2, <3>2, <3>4, <3>5 DEF InSilence, GoesOnReading
  <2>3. pc \notin {1, 2, 4, 5}
    BY <1>2, <2>1 DEF InSilence, First, GoesOnReading
  <2> QED
    BY <1>2, <1>4, <2>1, <2>2, <2>3 DEF InSilence
<1>8. CASE ReadTimesOut
  <2>1. /\ client = "reading" /\ wire[Current] = <<>> /\ client' = "waiting" /\ Waits
        /\ UNCHANGED <<newConns, requests>>
    BY <1>1, <1>8 DEF ReadTimesOut, CanTimeOut, Reading, Leave, serverVars, Punctual
  <2>2. messages' = messages \o <<Error>>
    BY <1>1, <1>8, SaysErrors DEF ReadTimesOut
  <2>3. pc # 1
    <3> SUFFICES ASSUME pc = 1 PROVE FALSE
      OBVIOUS
    <3>1. newConns = <<1>>
      BY <1>2, <2>1 DEF InSilence, First
    <3>2. \A kind \in MessageKinds : ~Awaits(kind)
      BY SilentSteps DEF SilentOps, Awaits, MessageKinds
    <3> QED
      BY <2>1, <3>1, <3>2, SilentSteps DEF SilentOps, Waits, WaitsForReport, WaitsForStream
  <2>4. pc # 2
    <3> SUFFICES ASSUME pc = 2 PROVE FALSE
      OBVIOUS
    <3>1. \A kind \in MessageKinds : ~Awaits(kind)
      BY SilentSteps DEF SilentOps, Awaits, MessageKinds
    <3> QED
      BY <2>1, <3>1, SilentSteps DEF SilentOps, Waits, WaitsForReport, WaitsForStream
  <2>5. messages # <<>> => /\ messages' # <<>> /\ Tail(messages') # <<>>
                           /\ HasHeard => HasHeard'
                           /\ messages \in Seq({Error}) => messages' \in Seq({Error})
    <3>1. SoleReport(setup)' = SoleReport(setup)
      BY DEF SoleReport
    <3>2. PICK t : t = messages'
      OBVIOUS
    <3> QED
      BY <1>1, <2>2, <3>1, <3>2, OneMore DEF HasHeard
  <2>6. GoesOnReading'
    BY <2>1 DEF GoesOnReading
  <2>7. CASE pc = 3
    <3>1. ASSUME NEW chunk, First(<<chunk>>, <<>>) PROVE FALSE
      BY <2>1, <3>1 DEF First
    <3>2. HasHeard /\ messages # <<>> /\ (Current = 1 \/ newConns # <<>>)
      BY <1>2, <2>7, <3>1 DEF InSilence, HasHeard
    <3>3. Current' = Current
      BY <2>1 DEF Current
    <3> QED
      BY <1>4, <2>1, <2>5, <2>6, <2>7, <3>2, <3>3 DEF InSilence
  <2>8. CASE pc \notin 1 .. 3
    BY <1>2, <1>4, <2>1, <2>5, <2>6, <2>8 DEF InSilence, HasHeard
  <2> QED
    BY <2>3, <2>4, <2>7, <2>8
<1>9. CASE Retry
  <2>1. /\ client = "waiting" /\ client' = "connecting"
        /\ UNCHANGED <<newConns, requests, wire, messages>>
    BY <1>9 DEF Retry, serverVars
  <2>2. pc \notin {1, 2}
    BY <1>2, <2>1 DEF InSilence, First
  <2>3. (HasHeard => HasHeard') /\ GoesOnReading' /\ Current' = Current
    BY <2>1 DEF HasHeard, GoesOnReading, SoleReport, Current
  <2>4. CASE pc = 3
    BY <1>2, <1>4, <2>1, <2>3, <2>4 DEF InSilence, First
  <2>5. CASE pc \notin 1 .. 3
    BY <1>2, <1>4, <2>1, <2>3, <2>5 DEF InSilence
  <2> QED
    BY <2>2, <2>4, <2>5
<1> QED
  BY <1>3, <1>6, <1>7, <1>8, <1>9

(* ... and the test gets what it waits for.                                *)
LEMMA SilentTest ==
  ASSUME TypeInv, Punctual, TimingOut(script), KeepsTime, TestStep, UNCHANGED setup
  PROVE  KeepsTime'
<1>1. /\ script' = script /\ params' = params /\ SoleReport(setup)' = SoleReport(setup)
      /\ Current = Len(requests) /\ Current \in Nat
      /\ wire \in Seq(Seq(Chunks)) /\ Len(wire) = Current /\ messages \in Seq(Reports)
      /\ pc \in Nat /\ failed = FALSE
      /\ \A op : At(op) => test = "running" /\ <<pc, op>> \in SilentOps
  BY SilentSteps, LenProperties
     DEF script, params, SoleReport, Current, KeepsTime, TypeInv, ServerTyped, ClientTyped,
         TestTyped, At
<1>2. test = "running" => InSilence /\ script.needs \subseteq setup.capabilities
  BY DEF KeepsTime
<1>3. \A kind \in MessageKinds : Awaits(kind) =>
        test = "running" /\ \/ pc = 4 /\ kind = "event"
                            \/ pc = 5 /\ kind = "error"
  BY <1>1 DEF SilentOps, Awaits, MessageKinds
<1>4. CASE Skip \/ Finishes
  <2>1. test' = "ended" /\ UNCHANGED <<failed, ignoreNextError, told, broken>>
    BY <1>4 DEF Skip, Finishes, TearDown, TestOnly, serverVars, clientVars
  <2> QED
    BY <2>1 DEF KeepsTime
<1>5. CASE CreateClient
  <2>1. /\ test = "starting" /\ script.needs \subseteq setup.capabilities
        /\ test' = "running" /\ client' = "connecting"
        /\ parser' = NewParser("none", params.lastID)
        /\ UNCHANGED <<pc, failed, ignoreNextError, told, listening, messages>>
        /\ UNCHANGED <<newConns, requests, broken>>
    BY <1>5, Creates DEF Punctual, FirstID, params, script, serverVars
  <2>2. /\ pc = 1 /\ newConns = <<>> /\ requests = <<>> /\ messages = <<>>
        /\ listening = {<<"message">>}
    BY <2>1 DEF KeepsTime, Unstarted
  <2>3. Unheard'
    BY <1>1, <2>1, <2>2 DEF Unheard
  <2>4. InSilence'
    BY <2>1, <2>2, <2>3 DEF InSilence, Current
  <2> QED
    BY <1>1, <2>1, <2>4 DEF KeepsTime
<1>6. ASSUME test = "running", test' = "running", pc' = pc + 1, InSilence',
             UNCHANGED <<failed, ignoreNextError, told, broken>>
      PROVE  KeepsTime'
  BY <1>1, <1>2, <1>6 DEF KeepsTime
<1>7. CASE AwaitsConnection
  <2>1. /\ test = "running" /\ test' = "running" /\ pc \in {1, 6} /\ pc' = pc + 1
        /\ newConns # <<>> /\ stream' = Head(newConns) /\ newConns' = Tail(newConns)
        /\ UNCHANGED <<failed, ignoreNextError, broken, requests, wire, clientVars>>
    BY <1>1, <1>7 DEF AwaitsConnection, GoOn, SilentOps
  <2>2. CASE pc = 1
    <3>1. First(<<>>, <<1>>) /\ Unheard
      BY <1>2, <2>1, <2>2 DEF InSilence
    <3>2. stream' = 1 /\ newConns' = <<>>
      BY <2>1, <3>1 DEF First
    <3>3. First(<<>>, <<>>)' /\ Unheard'
      BY <1>1, <2>1, <3>1, <3>2 DEF First, Unheard, Current, clientVars
    <3> QED
      BY <1>6, <2>1, <2>2, <3>2, <3>3 DEF InSilence, clientVars
  <2>3. CASE pc = 6
    BY <1>6, <2>1, <2>3 DEF InSilence, clientVars
  <2> QED
    BY <2>1, <2>2, <2>3
<1>8. CASE Sends
  <2>1. /\ test = "running" /\ pc = 2 /\ At("send") /\ ~At("sendDelayed")
    <3>1. ~At("sendDelayed") /\ (At("send") => test = "running" /\ pc = 2)
      BY <1>1 DEF SilentOps
    <3> QED
      BY <1>8, <3>1 DEF Sends
  <2>2. Unheard /\ First(<<>>, <<>>) /\ stream = 1
    BY <1>2, <2>1 DEF InSilence
  <2> DEFINE chunks == [i \in DOMAIN Arg |->
                          [data |-> Arg[i], delayAfter |-> At("sendDelayed") /\ i < Len(Arg)]]
  <2>3. Arg \in Seq(Text) /\ Len(Arg) = 1 /\ Arg = script.steps[2].arg
    BY <2>1, ScriptTypes DEF TypeInv, WellFormed, At, Arg, Sending, TestTyped, Text, TimingOut
  <2>4. Arg[1] \in Text /\ DOMAIN Arg = 1 .. 1
    BY <2>3, LenProperties, ElementOfSeq
  <2>5. PICK chunk \in Chunks : chunk = [data |-> Arg[1], delayAfter |-> FALSE]
    BY <2>4 DEF Chunks
  <2>6. chunks = <<chunk>> /\ chunk.data = script.steps[2].arg[1]
    <3> DEFINE item(i) == [data |-> Arg[i], delayAfter |-> At("sendDelayed") /\ i < Len(Arg)]
    <3>1. item(1) = chunk
      <4>1. (At("sendDelayed") /\ 1 < Len(Arg)) = FALSE
        BY <2>1
      <4> QED
        BY <2>5, <4>1, Zenon
    <3>2. chunks = [i \in 1 .. 1 |-> item(i)]
      BY <2>4
    <3> HIDE DEF item, chunks
    <3>3. chunks = <<chunk>>
      BY <3>1, <3>2
    <3> QED
      BY <2>3, <2>5, <3>3
  <2>7. /\ Put(chunks) /\ broken' = broken
    BY <1>8 DEF Sends
  <2> HIDE DEF chunks
  <2>8. /\ test' = "running" /\ pc' = pc + 1
        /\ wire' = [wire EXCEPT ![1] = @ \o chunks]
        /\ UNCHANGED <<failed, ignoreNextError, newConns, requests, clientVars>>
    BY <1>1, <2>1, <2>2, <2>7 DEF Put, GoOn, KeepsTime, First
  <2>9. wire'[1] = <<chunk>>
    <3>1. wire[1] = <<>> /\ 1 \in 1 .. Len(wire) /\ <<chunk>> \in Seq(Chunks)
      BY <1>1, <2>2, <2>5 DEF First
    <3> QED
      BY <1>1, <2>6, <2>8, <3>1, ConcatEmptySeq
  <2>10. First(<<chunk>>, <<>>)' /\ Unheard'
    BY <1>1, <2>2, <2>8, <2>9 DEF First, Unheard, Current, clientVars
  <2>11. InSilence'
    <3>1. (\E c \in Chunks : c.data = script.steps[2].arg[1] /\ First(<<c>>, <<>>))'
      BY <1>1, <2>6, <2>10 DEF First
    <3>2. pc' = 3
      BY <2>1, <2>8
    <3> QED
      BY <2>10, <3>1, <3>2 DEF InSilence
  <2> QED
    BY <1>6, <2>1, <2>7, <2>8, <2>11 DEF clientVars
<1>9. CASE Sleeps
  <2>1. /\ test = "running" /\ test' = "running" /\ pc = 3 /\ pc' = 4 /\ ~Busy /\ At("sleep")
        /\ UNCHANGED <<failed, ignoreNextError, serverVars, clientVars>>
    BY <1>1, <1>9 DEF Sleeps, TimePasses, GoOn, TestOnly, SilentOps, Punctual
  <2>2. client # "waiting"
    BY <2>1 DEF Busy, TimingOut, params
  <2>3. client # "reading"
    <3> SUFFICES ASSUME client = "reading" PROVE FALSE
      OBVIOUS
    <3>1. Reading /\ wire[Current] = <<>> /\ Current \notin broken
      BY <2>1 DEF Busy, Reading
    <3>2. CanTimeOut
      BY <2>1, <3>1 DEF CanTimeOut, Waits, TimingOut, params, Punctual, Fault
    <3> QED
      BY <2>1, <3>1, <3>2 DEF Busy
  <2>4. HasHeard /\ GoesOnReading /\ Tail(messages) # <<>> /\ (Current = 1 \/ newConns # <<>>)
    BY <1>2, <2>1, <2>3 DEF InSilence, First
  <2>5. client = "connecting"
    BY <2>2, <2>3, <2>4 DEF GoesOnReading
  <2>6. newConns # <<>>
    <3>1. ~(Current < MaxRequests)
      BY <2>1, <2>5 DEF Busy, CanConnect
    <3>2. Current # 1
      BY <3>1 DEF TimingOut
    <3> QED
      BY <2>4, <3>2
  <2>7. HasHeard' /\ GoesOnReading' /\ Tail(messages)' # <<>> /\ newConns' # <<>>
    BY <1>1, <2>1, <2>4, <2>6 DEF HasHeard, GoesOnReading, Current, serverVars, clientVars
  <2>8. InSilence'
    BY <2>1, <2>7 DEF InSilence
  <2> QED
    BY <1>6, <2>1, <2>8 DEF serverVars, clientVars
<1>10. CASE TakesMessage
  <2>1. PICK kind \in MessageKinds :
          /\ Awaits(kind) /\ Takes /\ ~Ignored
          /\ IF Head(messages).kind = kind
               THEN /\ assert(Matches(Head(messages), Arg))
                    /\ ignoreNextError' = FALSE
                    /\ GoOn /\ UNCHANGED stream
               ELSE FailNow
    BY <1>10 DEF TakesMessage
  <2>2. /\ test = "running" /\ messages # <<>> /\ messages' = Tail(messages)
        /\ \/ pc = 4 /\ kind = "event"
           \/ pc = 5 /\ kind = "error"
        /\ UNCHANGED <<serverVars, client, told>>
    BY <1>3, <2>1 DEF Takes
  <2>3. Head(messages).kind = kind /\ Matches(Head(messages), Arg)
    <3>1. CASE pc = 4
      <4>1. PICK r \in Range(SoleReport(setup)) :
              /\ SoleReport(setup) = <<r>> /\ r.kind = "event"
              /\ Matches(r, script.steps[4].arg)
        BY <1>2, <2>2, RunsAssumption DEF TypeInv, SetupTyped, Punctual, script
      <4>2. <<Head(messages)>> = <<r>>
        BY <1>2, <2>2, <3>1, <4>1 DEF InSilence, HasHeard
      <4>3. Head(messages) = r
        BY <4>2
      <4> QED
        BY <2>2, <3>1, <4>1, <4>3 DEF Arg
    <3>2. CASE pc = 5
      <4>1. messages \in Seq({Error})
        BY <1>2, <2>2, <3>2 DEF InSilence
      <4>2. Head(messages) = Error
        BY <2>2, <4>1, HeadTailProperties
      <4>3. Error.kind = "error" /\ Matches(Error, script.steps[5].arg)
        BY DEF Error, Report, TimingOut
      <4> QED
        BY <2>2, <3>2, <4>2, <4>3 DEF Arg
    <3> QED
      BY <2>2, <3>1, <3>2
  <2>4. assert(Matches(Head(messages), Arg)) /\ ignoreNextError' = FALSE /\ GoOn
    BY <2>1, <2>3
  <2>5. failed' = FALSE
    BY <1>1, <2>3, <2>4 DEF assert
  <2>6. test' = "running" /\ pc' = pc + 1 /\ UNCHANGED <<failed, ignoreNextError, told, broken>>
    BY <1>1, <2>2, <2>4, <2>5 DEF GoOn, serverVars, KeepsTime, TypeInv, TestTyped
  <2>7. GoesOnReading' /\ newConns' # <<>>
    BY <1>2, <2>2 DEF InSilence, GoesOnReading, Current, serverVars
  <2>8. InSilence'
    BY <1>2, <2>2, <2>6, <2>7 DEF InSilence, HasHeard
  <2> QED
    BY <1>6, <2>2, <2>6, <2>8
<1>11. ~TimesOut
  <2> SUFFICES ASSUME TimesOut PROVE FALSE
    OBVIOUS
  <2>1. ~Busy /\ (WaitsForReport \/ WaitsForStream)
    BY DEF TimesOut, TimePasses, Punctual
  <2>2. ~WaitsForReport
    BY <1>2, <1>3 DEF WaitsForReport, InSilence, HasHeard
  <2>3. newConns = <<>> /\ test = "running" /\ pc \in {1, 6}
    BY <1>1, <2>1, <2>2 DEF WaitsForStream, SilentOps
  <2>4. client = "connecting" /\ Current = 0
    BY <1>2, <2>3 DEF InSilence, First
  <2> QED
    BY <2>1, <2>3, <2>4, MaxRequestsAssumption DEF Busy, CanConnect
<1>12. ~DropsError
  BY DEF DropsError, Ignored, KeepsTime
<1>13. \A op \in {"request", "sendDelayed", "break", "ignoreError", "countRequests", "commentIfAble",
                  "restart", "listen"} : ~At(op)
  BY <1>1 DEF SilentOps
<1> QED
  BY <1>4, <1>5, <1>7, <1>8, <1>9, <1>10, <1>11, <1>12, <1>13
     DEF TestStep, ChecksRequest, Breaks, IgnoresError, RequiresNoComment, CountsRequests, Restarts,
         Prepares

(* These invariants hold at first, ...                                     *)
LEMMA InitKinds == Init => KindsInv
BY DEF Init, KindsInv, Halts, GoesNowhere, KeepsTime, Unstarted

(* ... and after each step.                                                *)
LEMMA NextKinds == TypeInv /\ KindsInv /\ [Next]_vars => KindsInv'
<1> SUFFICES ASSUME TypeInv, KindsInv, [Next]_vars PROVE KindsInv'
  OBVIOUS
<1>1. UNCHANGED setup
  BY NextKeepsSetup
<1>2. script' = script /\ params' = params /\ SoleReport(setup)' = SoleReport(setup)
      /\ Punctual' = Punctual
  BY <1>1 DEF script, params, SoleReport, Punctual
<1>3. SUFFICES ASSUME Punctual
               PROVE  /\ Halting(script) => Halts'
                      /\ GoingNowhere(script) => GoesNowhere'
                      /\ TimingOut(script) => KeepsTime'
  BY <1>2 DEF KindsInv
<1>4. CASE Next
  BY <1>1, <1>3, <1>4, HaltingNext, NowhereNext, SilentClient, SilentTest DEF KindsInv, Next
<1>5. CASE UNCHANGED vars
  <2>1. UNCHANGED <<test, pc, failed, ignoreNextError, stream, newConns, requests, wire, broken>>
        /\ UNCHANGED <<client, told, listening, parser, messages>>
    BY <1>5 DEF vars, testVars, serverVars, clientVars
  <2>2. Unstarted' = Unstarted /\ Current' = Current
    BY <2>1 DEF Unstarted, Current
  <2>3. Halts' = Halts
    BY <1>2, <2>1, <2>2 DEF Halts
  <2>4. GoesNowhere' = GoesNowhere
    BY <1>2, <2>1, <2>2 DEF GoesNowhere
  <2>5. InSilence' = InSilence
    BY <1>2, <2>1, <2>2 DEF InSilence, Unheard, First, GoesOnReading, HasHeard
  <2>6. KeepsTime' = KeepsTime
    BY <1>1, <1>2, <2>1, <2>2, <2>5 DEF KeepsTime
  <2> QED
    BY <1>3, <2>3, <2>4, <2>6 DEF KindsInv
<1> QED
  BY <1>4, <1>5

(* Every test is passed by a client that does what the documents ask for,  *)
(* in time, but for the two that ask for more: the order in which it       *)
(* reads, reports, sees the end of a stream, is refused, times out and     *)
(* connects again makes no difference to the test.  For a test with a      *)
(* stream this is so because its run in the one order of ContractPlan      *)
(* passes.                                                                 *)
THEOREM Conforming == Spec => []ConformingPasses
<1>1. TypeInv /\ PlanInv /\ KindsInv => ConformingPasses
  <2> SUFFICES ASSUME TypeInv, PlanInv, KindsInv, Punctual, failed, ~RestartReported(setup)
               PROVE  NoAccept(setup)
    BY DEF ConformingPasses, Punctual
  <2>1. \/ Streaming(script) \/ Halting(script)
        \/ GoingNowhere(script) \/ TimingOut(script)
    BY RunsAssumption DEF TypeInv, SetupTyped, script
  <2>2. CASE Streaming(script)
    <3>1. IsPlanned
      BY <2>2 DEF IsPlanned, Punctual, Staying, BoundaryFaults
    <3>2. script.needs \subseteq setup.capabilities /\ ~RunPasses(setup)
      BY <3>1 DEF PlanInv, Punctual
    <3>3. RunPasses(setup) \/ NoAccept(setup)
      BY <2>2, <3>1, <3>2, RunsAssumption DEF TypeInv, SetupTyped, IsPlanned, Punctual, script
    <3> QED
      BY <3>2, <3>3
  <2> QED
    BY <2>1, <2>2 DEF KindsInv, Halts, GoesNowhere, KeepsTime
<1>2. Init => TypeInv /\ PlanInv /\ KindsInv
  BY InitTypes, InitPlanned, InitKinds
<1>3. TypeInv /\ PlanInv /\ KindsInv /\ [Next]_vars => (TypeInv /\ PlanInv /\ KindsInv)'
  BY NextTypes, NextPlanned, NextKinds
<1> QED
  BY <1>1, <1>2, <1>3, PTL DEF Spec
-----------------------------------------------------------------------------
(***************************************************************************)
(* The tests with a client that never has a second connection, or never    *)
(* the one that it is sent to, or that connects again when it should not:  *)
(* an invariant for each of these faults.                                  *)
(***************************************************************************)

(* The client has its first connection, and the test gets no other.        *)
StaysPut ==
  /\ test = "starting" => Unstarted
  /\ Current <= 1 /\ client # "waiting" /\ (client = "connecting" => Current = 0)
  /\ setup.fault # "neverReconnects" => broken = {}
  /\ setup.fault = "noReadTimeout" => ~told
  /\ stream + Len(newConns) <= Current
  /\ \A i, j \in 1 .. pc - 1 :
       script.steps[i].op = "await" /\ script.steps[j].op = "await" => i = j

(* It ignores the status 204 and connects again while the test sleeps.     *)
ComesAgain ==
  /\ test = "starting" => Unstarted
  /\ test = "running" => client \in {"connecting", "waiting"}
  /\ \A i \in 1 .. pc - 1 : /\ script.steps[i].op = "sleep" => Current > 1
                            /\ script.steps[i].op # "countRequests"

(* A test that passes has taken all of its steps.  No connection comes of  *)
(* a redirect that is not followed, and no report of one to nowhere that   *)
(* is followed for ever.                                                   *)
FaultsInv ==
  /\ Passed => pc > Len(script.steps)
  /\ setup.fault = "staysAfterRedirect" => newConns = <<>> /\ stream = 0
  /\ setup.fault = "loopsOnRedirect" => messages = <<>> /\ pc = 1 /\ client # "reading"
  /\ setup.fault = "retriesAfter204" /\ setup.punctual /\ setup.retriesSoon =>
       failed \/ ComesAgain
  /\ setup.fault \in Staying => StaysPut

(* A script is fit to show the faults that it is about.                    *)
LEMMA ShowsFault ==
  ASSUME TypeInv, setup.fault # "none"
  PROVE  Shows(script, setup.fault)
BY RunsAssumption DEF TypeInv, SetupTyped, Setups, script

(* Which step of the test changes what, ...                                *)
LEMMA TestChanges ==
  ASSUME TypeInv, TestStep
  PROVE  /\ UNCHANGED <<setup, requests>> /\ test' # "starting" /\ test # "ended"
         /\ failed => failed'
         /\ CreateClient \/ UNCHANGED client
         /\ Breaks \/ UNCHANGED broken
         /\ Restarts \/ UNCHANGED told
         /\ AwaitsConnection \/ UNCHANGED <<stream, newConns>>
         /\ Takes \/ UNCHANGED messages
         /\ Finishes \/ ~Passed'
<1>1. /\ UNCHANGED <<setup, requests>>
      /\ CreateClient \/ UNCHANGED client
      /\ Breaks \/ UNCHANGED broken
      /\ Restarts \/ UNCHANGED told
      /\ AwaitsConnection \/ UNCHANGED <<stream, newConns>>
      /\ Takes \/ UNCHANGED messages
  BY DEF TestStep, Skip, CreateClient, FailNow, TearDown, TestOnly, AwaitsConnection, TimesOut,
     ChecksRequest, Sends, Breaks, Put, IgnoresError, DropsError, TakesMessage, Takes,
     RequiresNoComment, CountsRequests, Sleeps, Restarts, Prepares, Finishes, serverVars, clientVars
<1>2. test \in {"starting", "running"}
  BY DEF TestStep, Skip, CreateClient, AwaitsConnection, TimesOut, WaitsForReport, WaitsForStream,
     ChecksRequest, Sends, Breaks, IgnoresError, DropsError, TakesMessage, Awaits, At,
     RequiresNoComment, CountsRequests, Sleeps, Restarts, Prepares, Finishes
<1>3. test' # "starting"
  BY DEF TestStep, Skip, CreateClient, FailNow, TearDown, GoOn, AwaitsConnection, TimesOut,
     ChecksRequest, Sends, Breaks, Put, IgnoresError, DropsError, TakesMessage, Awaits, At,
     RequiresNoComment, CountsRequests, Sleeps, Restarts, Prepares, Finishes
<1>4. failed => failed'
  <2> SUFFICES ASSUME failed = TRUE PROVE failed'
    BY DEF TypeInv, TestTyped
  <2> QED
    BY DEF TestStep, Skip, CreateClient, FailNow, AwaitsConnection, TimesOut, ChecksRequest,
     assert, Sends, Breaks, Put, IgnoresError, DropsError, TakesMessage, RequiresNoComment,
     CountsRequests, Sleeps, Restarts, Prepares, Finishes
<1>5. Finishes \/ ~Passed'
  <2> SUFFICES ASSUME Passed', ~Finishes PROVE FALSE
    OBVIOUS
  <2>1. test' = "ended" /\ ~failed' /\ script.needs \subseteq setup.capabilities
    BY <1>1 DEF Passed, Ended, script
  <2>2. ~Skip
    BY <2>1 DEF Skip, Has
  <2>3. ~FailNow
    BY <2>1 DEF FailNow
  <2>4. ~GoOn
    BY <1>2, <2>1 DEF GoOn
  <2> QED
    BY <2>1, <2>2, <2>3, <2>4
       DEF TestStep, CreateClient, AwaitsConnection, TimesOut, ChecksRequest, Sends, Breaks, Put,
           IgnoresError, DropsError, TakesMessage, Awaits, At, RequiresNoComment, CountsRequests,
           Sleeps, Restarts, Prepares
<1> QED
  BY <1>1, <1>2, <1>3, <1>4, <1>5

(* ... and which one takes it to its next.                                 *)
LEMMA Moves ==
  ASSUME TypeInv, TestStep
  PROVE  \/ UNCHANGED pc
         \/ /\ pc' = pc + 1 /\ pc \in 1 .. Len(script.steps) /\ test = "running"
            /\ NextStep.op = "await" => AwaitsConnection
            /\ NextStep.op = "sleep" => Sleeps
            /\ NextStep.op = "countRequests" => CountsRequests
            /\ NextStep.op = "error" => TakesMessage
<1> SUFFICES ASSUME pc' # pc
             PROVE  /\ pc' = pc + 1 /\ pc \in 1 .. Len(script.steps) /\ test = "running"
                    /\ NextStep.op = "await" => AwaitsConnection
                    /\ NextStep.op = "sleep" => Sleeps
                    /\ NextStep.op = "countRequests" => CountsRequests
                    /\ NextStep.op = "error" => TakesMessage
  OBVIOUS
<1>1. ~Skip /\ ~CreateClient /\ ~TimesOut /\ ~DropsError /\ ~Finishes
  BY DEF Skip, CreateClient, FailNow, TearDown, TimesOut, DropsError, Finishes
<1>2. ~FailNow
  BY DEF FailNow, TearDown
<1>3. \A op : At(op) => NextStep.op = op
  BY DEF At, NextStep
<1>4. pc' = pc + 1
  BY <1>1, <1>2 DEF TestStep, AwaitsConnection, ChecksRequest, Sends, Breaks, Put, IgnoresError,
     TakesMessage, RequiresNoComment, CountsRequests, Sleeps, Restarts, Prepares, GoOn
<1>5. \E op : At(op)
  BY <1>1 DEF TestStep, AwaitsConnection, ChecksRequest, Sends, Breaks, IgnoresError,
     TakesMessage, Awaits, RequiresNoComment, CountsRequests, Sleeps, Restarts, Prepares
<1>6. pc \in 1 .. Len(script.steps) /\ test = "running"
  BY <1>5, AtOp
<1>7. /\ AwaitsConnection \/ NextStep.op # "await"
      /\ Sleeps \/ NextStep.op # "sleep"
      /\ CountsRequests \/ NextStep.op # "countRequests"
      /\ TakesMessage \/ NextStep.op # "error"
  BY <1>1, <1>3 DEF TestStep, AwaitsConnection, ChecksRequest, Sends, Breaks, IgnoresError,
     TakesMessage, Awaits, MessageKinds, RequiresNoComment, CountsRequests, Sleeps, Restarts,
     Prepares
<1> QED
  BY <1>4, <1>6, <1>7

(* A client that stays with its first connection does so, ...              *)
LEMMA StaysClient ==
  ASSUME TypeInv, setup.fault \in Staying, StaysPut, ClientStep, UNCHANGED setup
  PROVE  StaysPut'
<1>1. /\ script' = script /\ script.server = "stream" /\ setup.fault # "none"
      /\ setup.fault # "noReadTimeout" => ~params.readTimeout
  <2>1. Shows(script, setup.fault) /\ setup.fault # "none"
    BY ShowsFault DEF Staying
  <2> QED
    BY <2>1 DEF Shows, Staying, Streaming, TimingOut, script, params
<1>2. /\ Current \in Nat /\ Current = Len(requests) /\ requests \in Seq(Requests)
      /\ newConns \in Seq(Nat) /\ stream \in Nat /\ Len(newConns) \in Nat
  <2>1. \A i \in 1 .. Current : i \in Nat
    OBVIOUS
  <2> QED
    BY <2>1, SeqMono, LenProperties DEF TypeInv, ServerTyped, Current
<1>3. test = "running"
  <2>1. client # "none" /\ test # "ended"
    BY DEF ClientStep, Connect, ConnectInVain, CanConnect, Read, SeeEnd, DropForRestart,
           ReadTimesOut, CanTimeOut, Reading, Retry
  <2> QED
    BY <2>1 DEF StaysPut, Unstarted, TypeInv, TestTyped
<1>4. UNCHANGED <<test, pc, stream, broken>> /\ (told' => told)
  BY DEF ClientStep, Connect, ConnectInVain, Read, SeeEnd, DropForRestart, ReadTimesOut, Leave,
         Retry, testVars, serverVars
<1>5. ~ConnectInVain /\ ~Retry
  BY <1>1 DEF ConnectInVain, Retry, StaysPut
<1>6. CASE Connect
  <2>1. /\ client' = "reading" /\ Current = 0
        /\ \E r : requests' = Append(requests, r)
        /\ newConns' = Append(newConns, Current + 1)
    BY <1>6 DEF Connect, CanConnect, Asked, StaysPut
  <2>2. \A r : Len(Append(requests, r)) = Current + 1
    BY <1>2
  <2>3. Current' = 1
    BY <2>1, <2>2 DEF Current
  <2>4. Len(newConns') = Len(newConns) + 1
    BY <1>2, <2>1
  <2> QED
    BY <1>1, <1>2, <1>3, <1>4, <2>1, <2>3, <2>4 DEF StaysPut
<1>7. CASE Read
  BY <1>1, <1>3, <1>4, <1>7 DEF Read, StaysPut, Current
<1>8. CASE SeeEnd \/ DropForRestart \/ ReadTimesOut
  <2>1. setup.fault = "neverReconnects"
    <3>1. setup.fault # "neverReconnects" => ~SeeEnd
      BY DEF SeeEnd, StaysPut
    <3>2. setup.fault # "neverReconnects" => ~DropForRestart
      BY DEF DropForRestart, StaysPut, Fault, Staying
    <3>3. setup.fault # "neverReconnects" => ~ReadTimesOut
      BY <1>1 DEF ReadTimesOut, CanTimeOut, Fault
    <3> QED
      BY <1>8, <3>1, <3>2, <3>3
  <2>2. client' = "stopped" /\ UNCHANGED <<requests, newConns>>
    BY <1>8, <2>1 DEF SeeEnd, DropForRestart, ReadTimesOut, Leave, Fault, serverVars
  <2> QED
    BY <1>1, <1>3, <1>4, <2>1, <2>2 DEF StaysPut, Current
<1> QED
  BY <1>5, <1>6, <1>7, <1>8 DEF ClientStep

(* ... whatever the test does.                                             *)
LEMMA StaysTest ==
  ASSUME TypeInv, setup.fault \in Staying, StaysPut, TestStep
  PROVE  StaysPut'
<1>1. /\ UNCHANGED <<setup, requests>> /\ test' # "starting" /\ Current' = Current
      /\ script' = script /\ pc \in Nat
      /\ CreateClient \/ UNCHANGED client
  BY TestChanges DEF script, Current, TypeInv, TestTyped
<1>2. /\ Current \in Nat /\ newConns \in Seq(Nat) /\ stream \in Nat /\ Len(newConns) \in Nat
  <2>1. \A i \in 1 .. Current : i \in Nat
    OBVIOUS
  <2> QED
    BY <2>1, SeqMono, LenProperties DEF TypeInv, ServerTyped, Current
<1>3. Shows(script, setup.fault) /\ setup.fault # "none"
  BY ShowsFault DEF Staying
<1>4. setup.fault # "neverReconnects" => broken' = {}
  <2> SUFFICES ASSUME setup.fault # "neverReconnects" PROVE ~Breaks
    BY TestChanges DEF StaysPut
  <2>1. CASE setup.fault = "noReadTimeout"
    BY <1>3, <2>1, SilentSteps DEF Shows, Breaks, SilentOps
  <2>2. CASE setup.fault = "ignoresRestart"
    BY <1>3, <2>2, AtOp DEF Shows, Staying, Breaks, Uses
  <2> QED
    BY <2>1, <2>2 DEF Staying
<1>5. setup.fault = "noReadTimeout" => ~told'
  <2> SUFFICES ASSUME setup.fault = "noReadTimeout" PROVE ~Restarts
    BY TestChanges DEF StaysPut
  <2> QED
    BY <1>3, SilentSteps DEF Shows, Restarts, SilentOps
<1>6. client' # "waiting" /\ (client' = "connecting" => Current = 0)
  <2>1. CASE CreateClient
    BY <2>1, Creates DEF StaysPut, Unstarted, Current
  <2> QED
    BY <1>1, <2>1 DEF StaysPut
<1>7. CASE AwaitsConnection
  <2>1. /\ newConns # <<>> /\ stream' = Head(newConns) /\ newConns' = Tail(newConns)
        /\ pc' = pc + 1
    BY <1>7 DEF AwaitsConnection, GoOn
  <2>2. newConns \in Seq(1 .. Current) /\ Len(newConns) > 0
    BY <1>2, <2>1, EmptySeq DEF TypeInv, ServerTyped
  <2>3. stream = 0 /\ Len(newConns) = 1 /\ Current = 1
    <3>1. \A s, n, c \in Nat : s + n <= c /\ c <= 1 /\ n > 0 => s = 0 /\ n = 1 /\ c = 1
      OBVIOUS
    <3>2. stream + Len(newConns) <= Current /\ Current <= 1
      BY DEF StaysPut
    <3> QED
      BY <1>2, <2>2, <3>1, <3>2
  <2>4. stream' = 1 /\ Len(newConns') = 0
    BY <2>1, <2>2, <2>3, HeadTailProperties
  <2>5. \A i \in 1 .. pc - 1 : script.steps[i].op # "await"
    BY <2>3 DEF TypeInv, TestTyped, HasAwaited
  <2>6. \A i \in 1 .. pc' - 1 : i = pc \/ i \in 1 .. pc - 1
    BY <1>1, <2>1
  <2>7. \A i, j \in 1 .. pc' - 1 :
          script.steps[i].op = "await" /\ script.steps[j].op = "await" => i = j
    BY <2>5, <2>6
  <2> QED
    BY <1>1, <1>4, <1>5, <1>6, <2>3, <2>4, <2>7 DEF StaysPut
<1>8. CASE ~AwaitsConnection
  <2>1. UNCHANGED <<stream, newConns>>
    BY <1>8, TestChanges
  <2>2. \A i \in 1 .. pc' - 1 : i \in 1 .. pc - 1 \/ script.steps[i].op # "await"
    <3>1. CASE UNCHANGED pc
      BY <3>1
    <3>2. CASE pc' = pc + 1 /\ NextStep.op # "await"
      BY <1>1, <3>2 DEF NextStep
    <3> QED
      BY <1>8, <3>1, <3>2, Moves
  <2>3. \A i, j \in 1 .. pc' - 1 :
          script.steps[i].op = "await" /\ script.steps[j].op = "await" => i = j
    BY <2>2 DEF StaysPut
  <2> QED
    BY <1>1, <1>4, <1>5, <1>6, <2>1, <2>3 DEF StaysPut
<1> QED
  BY <1>7, <1>8

(* A client that comes again after the status 204.                         *)
LEMMA ComesAgainNext ==
  ASSUME TypeInv, setup.fault = "retriesAfter204", setup.punctual, setup.retriesSoon,
         failed \/ ComesAgain, Next
  PROVE  failed' \/ ComesAgain'
<1>1. /\ Halting(script) /\ MaxRequests > 1 /\ script.server = "204"
      /\ Current \in Nat /\ Current = Len(requests) /\ requests \in Seq(Requests)
      /\ pc \in Nat /\ MaxRequests \in Nat
  BY ShowsFault, LenProperties, MaxRequestsAssumption
     DEF Shows, Halting, Current, TypeInv, TestTyped, ServerTyped
<1>2. script' = script
  BY NextKeepsSetup DEF script
<1>3. CASE ClientStep
  <2>1. UNCHANGED <<test, pc, failed>>
    BY <1>3 DEF ClientStep, Connect, ConnectInVain, Read, SeeEnd, DropForRestart, ReadTimesOut,
           Leave, Retry, testVars
  <2> SUFFICES ASSUME ComesAgain PROVE ComesAgain'
    BY <2>1 DEF TypeInv, TestTyped
  <2>2. test = "running"
    <3>1. client # "none" /\ test # "ended"
      BY <1>3 DEF ClientStep, Connect, ConnectInVain, CanConnect, Read, SeeEnd, DropForRestart,
                  ReadTimesOut, CanTimeOut, Reading, Retry
    <3> QED
      BY <3>1 DEF ComesAgain, Unstarted, TypeInv, TestTyped
  <2>3. ConnectInVain \/ Retry
    BY <1>1, <1>3, <2>2 DEF ComesAgain, ClientStep, Connect, Read, SeeEnd, DropForRestart,
       ReadTimesOut, CanTimeOut, Reading
  <2>4. client' \in {"connecting", "waiting"}
    BY <1>1, <2>3 DEF ConnectInVain, Retry, Fault
  <2>5. Current' >= Current /\ Current' \in Nat
    <3>1. \A r : Len(Append(requests, r)) = Current + 1
      BY <1>1
    <3>2. requests' = requests \/ \E r : requests' = Append(requests, r)
      BY <2>3 DEF ConnectInVain, Asked, Retry, serverVars
    <3> QED
      BY <1>1, <3>1, <3>2 DEF Current
  <2> QED
    BY <1>1, <1>2, <2>1, <2>2, <2>4, <2>5 DEF ComesAgain
<1>4. CASE TestStep
  <2> SUFFICES ASSUME ComesAgain, ~failed' PROVE ComesAgain'
    BY <1>4, TestChanges
  <2>1. /\ test' # "starting" /\ test # "ended" /\ Current' = Current
        /\ CreateClient \/ UNCHANGED client
    BY <1>4, TestChanges DEF Current
  <2>2. test' = "running" => client' \in {"connecting", "waiting"}
    <3>1. CASE CreateClient
      BY <3>1, Creates
    <3>2. CASE ~CreateClient
      <4>1. test = "starting" => Skip
        BY <1>4, <3>2 DEF TestStep, AwaitsConnection, TimesOut, WaitsForReport, WaitsForStream,
           ChecksRequest, Sends, Breaks, IgnoresError, DropsError, TakesMessage, Awaits, At,
           RequiresNoComment, CountsRequests, Sleeps, Restarts, Prepares, Finishes
      <4>2. Skip => test' = "ended"
        BY DEF Skip, TearDown
      <4>3. test \in {"starting", "running"}
        BY <2>1 DEF TypeInv, TestTyped
      <4> QED
        BY <2>1, <3>2, <4>1, <4>2, <4>3 DEF ComesAgain
    <3> QED
      BY <3>1, <3>2
  <2>3. \A i \in 1 .. pc' - 1 : /\ script.steps[i].op = "sleep" => Current > 1
                                /\ script.steps[i].op # "countRequests"
    <3>1. CASE UNCHANGED pc
      BY <3>1 DEF ComesAgain
    <3>2. CASE /\ pc' = pc + 1 /\ pc \in 1 .. Len(script.steps) /\ test = "running"
               /\ NextStep.op = "sleep" => Sleeps
               /\ NextStep.op = "countRequests" => CountsRequests
      <4>1. NextStep.op = "sleep" => Current > 1
        <5> SUFFICES ASSUME Sleeps PROVE Current > 1
          BY <3>2
        <5>1. ~Busy /\ client \in {"connecting", "waiting"}
          BY <3>2 DEF Sleeps, TimePasses, ComesAgain
        <5>2. client = "connecting" /\ ~CanConnect
          BY <5>1 DEF Busy
        <5>3. ~(Current < MaxRequests)
          BY <3>2, <5>2 DEF CanConnect
        <5> QED
          BY <1>1, <5>3
      <4>2. NextStep.op # "countRequests"
        <5> SUFFICES ASSUME CountsRequests, NextStep.op = "countRequests" PROVE FALSE
          BY <3>2
        <5>1. /\ Arg = 1 /\ \E j \in 1 .. pc - 1 : script.steps[j].op = "sleep"
          BY <1>1, <3>2 DEF Halting, NextStep, Arg
        <5>2. Current > 1
          BY <5>1 DEF ComesAgain
        <5>3. Current # Arg
          <6>1. \A c \in Nat : c > 1 => c # 1
            OBVIOUS
          <6>2. Current \in Nat /\ Arg = 1
            BY <1>1, <5>1
          <6> QED
            BY <5>2, <6>1, <6>2, Zenon
        <5> QED
          BY <5>3, Zenon DEF CountsRequests, assert
      <4>3. \A i \in 1 .. pc' - 1 : i = pc \/ i \in 1 .. pc - 1
        BY <1>1, <3>2
      <4> QED
        BY <4>1, <4>2, <4>3 DEF ComesAgain, NextStep
    <3> QED
      BY <1>4, <3>1, <3>2, Moves
  <2> QED
    BY <1>2, <2>1, <2>2, <2>3 DEF ComesAgain
<1> QED
  BY <1>3, <1>4 DEF Next

(* These invariants hold at first, ...                                     *)
LEMMA InitFaults == Init => FaultsInv
<1> SUFFICES ASSUME Init PROVE FaultsInv
  OBVIOUS
<1>1. Unstarted /\ ~Passed /\ Current = 0 /\ Len(newConns) = 0
  BY DEF Init, Unstarted, Passed, Ended, Current
<1>2. \A i \in 1 .. pc - 1 : FALSE
  BY DEF Init
<1>3. ComesAgain /\ StaysPut
  BY <1>1, <1>2 DEF Init, ComesAgain, StaysPut
<1> QED
  BY <1>1, <1>3 DEF FaultsInv, Unstarted

(* ... and after each step of the client ...                               *)
LEMMA FaultsClient ==
  ASSUME TypeInv, FaultsInv, ClientStep
  PROVE  FaultsInv'
<1>1. /\ UNCHANGED <<setup, test, pc, failed, stream>>
  BY DEF ClientStep, Connect, ConnectInVain, Read, SeeEnd, DropForRestart, ReadTimesOut, Leave,
         Retry, testVars
<1>2. script' = script /\ Passed' = Passed
  BY <1>1 DEF script, Passed, Ended
<1>3. setup.fault = "staysAfterRedirect" /\ newConns = <<>> => newConns' = <<>>
  <2> SUFFICES ASSUME setup.fault = "staysAfterRedirect", newConns = <<>> PROVE newConns' = <<>>
    OBVIOUS
  <2>1. script.server = "redirect"
    BY ShowsFault DEF Shows
  <2>2. ~Connect
    BY <2>1 DEF Connect, Fault
  <2> QED
    BY <2>2 DEF ClientStep, ConnectInVain, Read, SeeEnd, DropForRestart, ReadTimesOut, Leave,
       Retry, serverVars
<1>4. setup.fault = "loopsOnRedirect" /\ messages = <<>> /\ client # "reading" =>
        messages' = <<>> /\ client' # "reading"
  <2> SUFFICES ASSUME setup.fault = "loopsOnRedirect", messages = <<>>, client # "reading"
               PROVE  messages' = <<>> /\ client' # "reading"
    OBVIOUS
  <2>1. script.server = "redirectNowhere"
    BY ShowsFault DEF Shows, GoingNowhere
  <2>2. ConnectInVain \/ Retry
    BY <2>1 DEF ClientStep, Connect, Read, SeeEnd, DropForRestart, ReadTimesOut, CanTimeOut, Reading
  <2>3. CASE ConnectInVain
    <3>1. client' = "waiting" /\ Says(<<>>)
      BY <2>1, <2>3 DEF ConnectInVain, Fault
    <3>2. messages' = messages \o <<>> /\ messages \in Seq(Reports)
      BY <3>1, SaysErrors DEF TypeInv, ClientTyped
    <3> QED
      BY <3>1, <3>2
  <2>4. CASE Retry
    BY <2>4 DEF Retry
  <2> QED
    BY <2>2, <2>3, <2>4
<1>5. setup.fault = "retriesAfter204" /\ setup.punctual /\ setup.retriesSoon =>
        failed' \/ ComesAgain'
  BY ComesAgainNext DEF FaultsInv, Next
<1>6. setup.fault \in Staying => StaysPut'
  BY <1>1, StaysClient DEF FaultsInv
<1> QED
  BY <1>1, <1>2, <1>3, <1>4, <1>5, <1>6 DEF FaultsInv

(* ... and of the test.                                                    *)
LEMMA FaultsTest ==
  ASSUME TypeInv, FaultsInv, TestStep
  PROVE  FaultsInv'
<1>1. UNCHANGED setup /\ script' = script
  BY TestChanges DEF script
<1>2. Passed' => pc' > Len(script.steps)
  BY TestChanges DEF Finishes, TearDown
<1>3. setup.fault = "staysAfterRedirect" => newConns' = <<>> /\ stream' = 0
  <2> SUFFICES ASSUME newConns = <<>> /\ stream = 0 PROVE newConns' = <<>> /\ stream' = 0
    BY DEF FaultsInv
  <2> QED
    BY TestChanges DEF AwaitsConnection
<1>4. setup.fault = "loopsOnRedirect" => messages' = <<>> /\ pc' = 1 /\ client' # "reading"
  <2> SUFFICES ASSUME setup.fault = "loopsOnRedirect", messages = <<>>, pc = 1, client # "reading"
               PROVE  messages' = <<>> /\ pc' = 1 /\ client' # "reading"
    BY DEF FaultsInv
  <2>1. NextStep.op = "error"
    BY ShowsFault DEF Shows, GoingNowhere, NextStep
  <2>2. ~Takes /\ ~TakesMessage
    BY DEF Takes, TakesMessage
  <2>3. UNCHANGED <<messages, pc>>
    BY <2>1, <2>2, TestChanges, Moves
  <2>4. CreateClient => client' = "connecting"
    BY Creates
  <2> QED
    BY <2>3, <2>4, TestChanges
<1>5. setup.fault = "retriesAfter204" /\ setup.punctual /\ setup.retriesSoon =>
        failed' \/ ComesAgain'
  BY ComesAgainNext DEF FaultsInv, Next
<1>6. setup.fault \in Staying => StaysPut'
  BY StaysTest DEF FaultsInv
<1> QED
  BY <1>1, <1>2, <1>3, <1>4, <1>5, <1>6 DEF FaultsInv

LEMMA NextFaults == TypeInv /\ FaultsInv /\ [Next]_vars => FaultsInv'
<1> SUFFICES ASSUME TypeInv, FaultsInv, UNCHANGED vars PROVE FaultsInv'
  BY FaultsClient, FaultsTest DEF Next
<1>1. /\ UNCHANGED <<setup, test, pc, failed, ignoreNextError, stream>>
      /\ UNCHANGED <<newConns, requests, broken, client, told, listening, messages>>
  BY DEF vars, testVars, serverVars, clientVars
<1>2. /\ script' = script /\ Passed' = Passed
      /\ Unstarted' = Unstarted /\ Current' = Current
  BY <1>1 DEF script, Passed, Ended, Unstarted, Current
<1>3. StaysPut' = StaysPut /\ ComesAgain' = ComesAgain
  BY <1>1, <1>2 DEF StaysPut, ComesAgain
<1> QED
  BY <1>1, <1>2, <1>3 DEF FaultsInv

(* No test is passed by a client that has a fault which the test is about, *)
(* late or in time, with whatever else it is free to do, but for those     *)
(* that CatchesFaults names.  With a stream this is so because the run in  *)
(* the one order of ContractPlan does not pass, unless the client never    *)
(* gets to the connection that the test waits for.                         *)
THEOREM Detecting == Spec => []CatchesFaults
<1>1. TypeInv /\ PlanInv /\ FaultsInv => CatchesFaults
  <2> SUFFICES ASSUME TypeInv, PlanInv, FaultsInv, Passed, setup.fault # "none", ~Undetected
               PROVE  FALSE
    BY DEF CatchesFaults
  <2>1. /\ Shows(script, setup.fault) /\ pc > Len(script.steps) /\ pc \in Nat
        /\ pc - 1 = Len(script.steps) /\ Len(script.steps) \in Nat /\ ~failed
        /\ script.needs \subseteq setup.capabilities
    BY ShowsFault, ScriptTypes DEF FaultsInv, TypeInv, TestTyped, Passed
  <2>2. CASE setup.fault = "staysAfterRedirect"
    <3>1. HasAwaited
      BY <2>1, <2>2 DEF Shows, Uses, HasAwaited
    <3> QED
      BY <2>2, <3>1 DEF FaultsInv, TypeInv, TestTyped
  <2>3. CASE setup.fault = "loopsOnRedirect"
    BY <2>1, <2>3 DEF Shows, GoingNowhere, FaultsInv
  <2>4. CASE setup.fault = "retriesAfter204"
    <3>1. ComesAgain
      BY <2>1, <2>4 DEF Undetected, Fault, FaultsInv
    <3> QED
      BY <2>1, <2>4, <3>1 DEF Shows, Uses, ComesAgain
  <2>5. CASE setup.fault \in Staying
    <3>1. AwaitsTwice(script)
      <4>1. CASE setup.fault = "noReadTimeout"
        <5> DEFINE ops == [i \in 1 .. Len(script.steps) |-> script.steps[i].op]
        <5>1. ops = <<"await", "send", "sleep", "event", "error", "await">>
          BY <2>1, <4>1 DEF Shows, TimingOut
        <5>2. Len(script.steps) = 6
          BY <2>1, <4>1, SilentSteps DEF Shows
        <5>3. ops[1] = "await" /\ ops[6] = "await"
          BY <5>1
        <5>4. script.steps[1].op = "await" /\ script.steps[6].op = "await"
          BY <5>2, <5>3
        <5> QED
          BY <5>2, <5>4 DEF AwaitsTwice
      <4>2. CASE setup.fault # "noReadTimeout"
        BY <2>1, <2>5, <4>2 DEF Shows, Staying
      <4> QED
        BY <4>1, <4>2
    <3> QED
      BY <2>1, <2>5, <3>1 DEF AwaitsTwice, FaultsInv, StaysPut
  <2>6. CASE setup.fault \notin Staying \cup
               {"staysAfterRedirect", "loopsOnRedirect", "retriesAfter204"}
    <3>1. Streaming(script)
      BY <2>1, <2>6 DEF Shows, Staying
    <3>2. IsPlanned
      BY <2>6, <3>1 DEF IsPlanned, Undetected
    <3>3. RunPasses(setup)
      BY <3>2 DEF PlanInv
    <3>4. ~RunPasses(setup) \/ Indistinct(setup)
      BY <2>1, <2>6, <3>1, RunsAssumption DEF TypeInv, SetupTyped, script
    <3> QED
      BY <3>3, <3>4 DEF Undetected
  <2> QED
    BY <2>2, <2>3, <2>4, <2>5, <2>6
<1>2. Init => TypeInv /\ PlanInv /\ FaultsInv
  BY InitTypes, InitPlanned, InitFaults
<1>3. TypeInv /\ PlanInv /\ FaultsInv /\ [Next]_vars => (TypeInv /\ PlanInv /\ FaultsInv)'
  BY NextTypes, NextPlanned, NextFaults
<1> QED
  BY <1>1, <1>2, <1>3, PTL DEF Spec
=============================================================================
