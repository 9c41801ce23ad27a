----------------------------- MODULE ElkremProofs -----------------------------
(***************************************************************************)
(* Proofs about the stack of an elkrem receiver, for trees of every height *)
(* and whatever hashes the receiver is given.                              *)
(***************************************************************************)
EXTENDS ElkremWindow, SequenceTheorems, TLAPS

\* A sequence is one over the set of its own elements.
LEMMA OwnRange ==
  ASSUME NEW S, NEW s \in Seq(S)
  PROVE  s \in Seq({s[j] : j \in DOMAIN s})
<1>1. Len(s) \in Nat /\ DOMAIN s = 1..Len(s) /\ s \in [1..Len(s) -> S]
  BY LenProperties
<1> DEFINE R == {s[j] : j \in DOMAIN s}
<1>2. s \in [1..Len(s) -> R]
  BY <1>1
<1>3. QED
  BY <1>1, <1>2, SeqDef, SMTT(30)

\* A stack in shape as the provers see it: a typed function on its positions.
LEMMA StackFacts ==
  ASSUME NEW s, InShape(s)
  PROVE  /\ Len(s) \in Nat
         /\ s = <<>> <=> Len(s) = 0
         /\ \A j \in 1..Len(s) : s[j].h \in Nat
         /\ \A j \in 1..Len(s) : s[j].i \in Nat
<1> DEFINE R == {s[j] : j \in DOMAIN s}
<1>1. s \in Seq(R) /\ \A j \in DOMAIN s : s[j].h \in Nat /\ s[j].i \in Nat
  BY DEF InShape, IsStack
<1> HIDE DEF R
<1>2. Len(s) \in Nat /\ DOMAIN s = 1..Len(s)
  BY <1>1, LenProperties
<1>3. s = <<>> <=> Len(s) = 0
  BY <1>1, EmptySeq
<1>4. QED
  BY <1>1, <1>2, <1>3

\* The positions of a stack, kept apart from the other facts.
LEMMA StackDomain ==
  ASSUME NEW s, InShape(s)
  PROVE  DOMAIN s = 1..Len(s)
BY LenProperties DEF InShape, IsStack

\* Indexes rise along a stack.
LEMMA RisesAlong ==
  ASSUME NEW s, InShape(s), NEW j \in 1..Len(s), NEW k \in 1..Len(s), j < k
  PROVE  s[j].i < s[k].i
<1>1. j \in DOMAIN s /\ k \in DOMAIN s
  BY StackDomain
<1>2. QED
  BY <1>1 DEF InShape, Rising

\* Heights fall along a stack without an equal pair, and along one with a pair
\* up to its last node.
LEMMA FallsBelow ==
  ASSUME NEW s, InShape(s), NEW j \in 1..Len(s), NEW k \in 1..Len(s), j < k,
         k # Len(s) \/ ~ParentDue(s)
  PROVE  s[j].h + j >= s[k].h + k
<1>1. j \in DOMAIN s /\ k \in DOMAIN s
  BY StackDomain
<1>2. s[j].h \in Nat /\ s[k].h \in Nat
  BY StackFacts
<1>3. ~(k = Len(s) /\ ParentDue(s))
  OBVIOUS
<1>4. s[j].h + j >= s[k].h + k - IF k = Len(s) /\ ParentDue(s) THEN 1 ELSE 0
  BY <1>1 DEF InShape, Falling
<1>5. s[j].h + j >= s[k].h + k - 0
  BY <1>3, <1>4
<1>6. QED
  BY <1>2, <1>5

\* The step from the m-th node, of height b, to one of height c put upon it.
LEMMA OneMore ==
  ASSUME NEW a \in Nat, NEW b \in Nat, NEW c \in Nat, NEW j \in Nat, NEW m \in Nat,
         a + j >= b + m, b >= c
  PROVE  /\ a + j >= c + (m + 1) - 1
         /\ b # c => a + j >= c + (m + 1) - 0
OBVIOUS

(***************************************************************************)
(* A node put upon the first m nodes of a stack, not above the m-th in     *)
(* height and above all of them in index, leaves a stack in shape.         *)
(***************************************************************************)
LEMMA PutUpon ==
  ASSUME NEW s, InShape(s), NEW m \in 0..Len(s), NEW n, n.h \in Nat, n.i \in Nat,
         \A j \in 1..m : s[j].i < n.i,
         m # 0 => s[m].h >= n.h,
         m # Len(s) \/ ~ParentDue(s),
         NEW t, NEW S, t \in Seq(S), Len(t) = m + 1, t[m + 1] = n,
         \A j \in 1..m : t[j] = s[j]
  PROVE  InShape(t)
<1>1. Len(s) \in Nat /\ m \in Nat /\ m <= Len(s)
  BY StackFacts
<1>2. DOMAIN t = 1..(m + 1)
  BY LenProperties
<1>3. \A j \in 1..m : s[j].h \in Nat /\ s[j].i \in Nat
  BY <1>1, StackFacts
<1>4. \A j \in 1..(m + 1) : j \in 1..m \/ j = m + 1
  BY <1>1
<1>5. IsStack(t)
  <2>1. t \in Seq({t[j] : j \in DOMAIN t})
    BY OwnRange, SMTT(30)
  <2>2. \A j \in 1..m : t[j].h \in Nat /\ t[j].i \in Nat
    BY <1>3, SMTT(30)
  <2>3. t[m + 1].h \in Nat /\ t[m + 1].i \in Nat
    OBVIOUS
  <2>4. \A j \in DOMAIN t : t[j].h \in Nat /\ t[j].i \in Nat
    BY <1>2, <1>4, <2>2, <2>3
  <2>5. QED
    BY <2>1, <2>4 DEF IsStack
<1>6. Rising(t)
  <2>1. SUFFICES ASSUME NEW j \in 1..(m + 1), NEW k \in 1..(m + 1), j < k
                 PROVE  t[j].i < t[k].i
    BY <1>2 DEF Rising
  <2>2. j \in 1..m /\ t[j] = s[j]
    BY <1>1, <2>1
  <2>3. CASE k = m + 1
    BY <2>2, <2>3
  <2>4. CASE k \in 1..m
    <3>1. j \in 1..Len(s) /\ k \in 1..Len(s) /\ t[k] = s[k]
      BY <1>1, <2>2, <2>4
    <3>2. s[j].i < s[k].i
      BY <2>1, <3>1, RisesAlong
    <3>3. QED
      BY <2>2, <3>1, <3>2
  <2>5. QED
    BY <1>4, <2>1, <2>3, <2>4, SMTT(30)
<1>7. Falling(t)
  <2>1. SUFFICES ASSUME NEW j \in 1..(m + 1), NEW k \in 1..(m + 1), j < k
                 PROVE  t[j].h + j >= t[k].h + k -
                          IF k = Len(t) /\ ParentDue(t) THEN 1 ELSE 0
    BY <1>2 DEF Falling
  <2>2. j \in 1..m /\ t[j] = s[j] /\ j \in 1..Len(s) /\ s[j].h \in Nat
    BY <1>1, <1>3, <2>1
  <2>3. CASE k \in 1..m
    <3>1. t[k] = s[k] /\ k \in 1..Len(s) /\ s[k].h \in Nat /\ k # Len(t)
      BY <1>1, <1>3, <2>3
    <3>2. k # Len(s) \/ ~ParentDue(s)
      BY <1>1, <2>3
    <3>3. s[j].h + j >= s[k].h + k
      BY <2>1, <2>2, <3>1, <3>2, FallsBelow, SMTT(30)
    <3>4. t[j].h + j >= t[k].h + k - 0
      BY <2>2, <3>1, <3>3
    <3>5. QED
      BY <3>1, <3>4
  <2>4. CASE k = m + 1
    <3>1. m \in 1..m /\ m \in 1..Len(s) /\ s[m].h \in Nat /\ s[m].h >= n.h /\ t[m] = s[m]
      BY <1>1, <1>3, <2>2, SMTT(30)
    <3>2. s[j].h + j >= s[m].h + m
      <4>1. CASE j = m
        BY <2>2, <3>1, <4>1
      <4>2. CASE j < m
        <5>1. m # Len(s) \/ ~ParentDue(s)
          OBVIOUS
        <5>2. QED
          BY <2>2, <3>1, <4>2, <5>1, FallsBelow, SMTT(30)
      <4>3. QED
        BY <1>1, <2>2, <4>1, <4>2
    <3>3. ParentDue(t) <=> s[m].h = n.h
      <4>1. Len(t) > 1 /\ Len(t) - 1 = m
        BY <1>1, <3>1
      <4>2. t[Len(t) - 1] = s[m] /\ t[Len(t)] = n
        BY <3>1, <4>1
      <4>3. QED
        BY <4>1, <4>2 DEF ParentDue
    <3>4. /\ s[j].h + j >= n.h + (m + 1) - 1
          /\ s[m].h # n.h => s[j].h + j >= n.h + (m + 1) - 0
      <4>1. j \in Nat
        BY <2>2
      <4>2. QED
        BY <1>1, <2>2, <3>1, <3>2, <4>1, OneMore, SMTT(30)
    <3>5. CASE s[m].h = n.h
      <4>1. ParentDue(t) /\ k = Len(t)
        BY <2>4, <3>3, <3>5
      <4>2. QED
        BY <2>2, <2>4, <3>4, <4>1, SMTT(30)
    <3>6. CASE s[m].h # n.h
      <4>1. ~ParentDue(t)
        BY <3>3, <3>6
      <4>2. QED
        BY <2>2, <2>4, <3>4, <3>6, <4>1, SMTT(30)
    <3>7. QED
      BY <3>5, <3>6
  <2>5. QED
    BY <1>4, <2>3, <2>4
<1>8. QED
  BY <1>5, <1>6, <1>7 DEF InShape

(***************************************************************************)
(* The stack keeps its shape when a hash is added, whether it fits or not  *)
(* (AddNext).                                                              *)
(***************************************************************************)
LEMMA AddNextInShape ==
  ASSUME NEW s, InShape(s), NEW sha
  PROVE  InShape(AddNext(s, sha))
<1> DEFINE R == {s[j] : j \in DOMAIN s}
           n == Incoming(s, sha)
           q == Kept(s)
           t == Append(q, n)
<1> SUFFICES ASSUME Fits(s, sha) PROVE InShape(t)
  BY DEF AddNext
<1>1. Len(s) \in Nat
  BY StackFacts
<1>2. s \in Seq(R)
  BY DEF InShape, IsStack
<1>3. n.h = IF ParentDue(s) THEN s[Len(s)].h + 1 ELSE 0
  BY DEF Incoming, Node
<1>4. n.i = IF s = <<>> THEN 0 ELSE s[Len(s)].i + 1
  BY DEF Incoming, Node
<1> HIDE DEF n, R
<1>5. n.i \in Nat /\ \A j \in 1..Len(s) : s[j].i < n.i
  <2>1. CASE s = <<>>
    <3>1. Len(s) = 0 /\ n.i = 0
      BY <1>4, <2>1, StackFacts
    <3>2. QED
      BY <3>1
  <2>2. CASE s # <<>>
    <3>1. Len(s) \in 1..Len(s) /\ n.i = s[Len(s)].i + 1
      BY <1>1, <1>4, <2>2, StackFacts, SMTT(30)
    <3>2. s[Len(s)].i \in Nat
      BY <3>1, StackFacts
    <3>3. ASSUME NEW j \in 1..Len(s) PROVE s[j].i < n.i
      <4>1. s[j].i \in Nat
        BY StackFacts
      <4>2. j = Len(s) \/ j < Len(s)
        BY <1>1
      <4>3. j < Len(s) => s[j].i < s[Len(s)].i
        BY <3>1, RisesAlong
      <4>4. QED
        BY <3>1, <3>2, <4>1, <4>2, <4>3, SMTT(30)
    <3>4. QED
      BY <3>1, <3>2, <3>3
  <2>3. QED
    BY <2>1, <2>2
<1>6. CASE ParentDue(s)
  <2> DEFINE m == Len(s) - 2
  <2>1. Len(s) > 1 /\ s[Len(s) - 1].h = s[Len(s)].h
    BY <1>6 DEF ParentDue
  <2>2. m \in Nat /\ m \in 0..Len(s) /\ m # Len(s) /\ Len(s) \in 1..Len(s)
    BY <1>1, <2>1
  <2>3. n.h = s[Len(s)].h + 1 /\ s[Len(s)].h \in Nat /\ n.h \in Nat
    BY <1>3, <1>6, <2>2, StackFacts, SMTT(30)
  <2>4. /\ q \in Seq(R) /\ Len(q) = m
        /\ \A j \in 1..m : q[j] = s[j]
    <3>1. q = SubSeq(s, 1, m)
      BY <1>6 DEF Kept
    <3>2. \A j \in 1..m : s[j] \in R
      <4>1. \A j \in 1..m : j \in 1..Len(s)
        BY <1>1, <2>2
      <4>2. QED
        BY <4>1, StackDomain DEF R
    <3>3. QED
      <4> HIDE DEF m, q
      <4>1. /\ SubSeq(s, 1, m) \in Seq(R)
            /\ Len(SubSeq(s, 1, m)) = IF 1 <= m THEN m - 1 + 1 ELSE 0
            /\ \A i \in 1..(m - 1 + 1) : SubSeq(s, 1, m)[i] = s[1 + i - 1]
        BY <2>2, <3>2, SubSeqProperties
      <4>2. m - 1 + 1 = m /\ (IF 1 <= m THEN m - 1 + 1 ELSE 0) = m
        BY <2>2
      <4>3. \A i \in 1..m : 1 + i - 1 = i
        OBVIOUS
      <4>4. QED
        BY <3>1, <4>1, <4>2, <4>3, SMTT(30)
  <2>5. ASSUME m # 0 PROVE s[m].h >= n.h
    <3> DEFINE L == Len(s)
    <3>1. m \in 1..L /\ L - 1 \in 1..L /\ m < L - 1 /\ L - 1 # L
      <4>1. L \in Nat /\ L > 1 /\ L - 2 # 0
        BY <1>1, <2>1, <2>5
      <4> HIDE DEF L
      <4>2. L - 2 \in 1..L /\ L - 1 \in 1..L /\ L - 2 < L - 1 /\ L - 1 # L
        BY <4>1
      <4>3. QED
        BY <4>2 DEF L
    <3>2. s[m].h + m >= s[Len(s) - 1].h + (Len(s) - 1)
      BY <3>1, FallsBelow
    <3>3. s[m].h \in Nat
      BY <3>1, StackFacts
    <3>4. QED
      BY <1>1, <2>1, <2>3, <3>2, <3>3, SMTT(30)
  <2> HIDE DEF q
  <2>6. /\ t \in Seq(R \cup {n}) /\ Len(t) = m + 1 /\ t[m + 1] = n
        /\ \A j \in 1..m : t[j] = s[j]
    <3>1. q \in Seq(R \cup {n}) /\ n \in R \cup {n}
      BY <2>4
    <3>2. QED
      BY <2>2, <2>4, <3>1, AppendProperties, SMTT(30)
  <2>7. \A j \in 1..m : s[j].i < n.i
    BY <1>1, <1>5
  <2> HIDE DEF t, m
  <2>8. QED
    BY <1>5, <2>2, <2>3, <2>5, <2>6, <2>7, PutUpon, SMTT(30)
<1>7. CASE ~ParentDue(s)
  <2>1. q = s /\ n.h = 0
    BY <1>3, <1>7 DEF Kept
  <2>2. /\ t \in Seq(R \cup {n}) /\ Len(t) = Len(s) + 1 /\ t[Len(s) + 1] = n
        /\ \A j \in 1..Len(s) : t[j] = s[j]
    <3>1. s \in Seq(R \cup {n}) /\ n \in R \cup {n}
      BY <1>2
    <3>2. t = Append(s, n)
      BY <2>1
    <3>3. QED
      BY <1>1, <3>1, <3>2, AppendProperties, SMTT(30)
  <2>3. Len(s) # 0 => s[Len(s)].h >= n.h
    <3>1. Len(s) # 0 => Len(s) \in 1..Len(s)
      BY <1>1
    <3>2. Len(s) # 0 => s[Len(s)].h \in Nat
      BY <3>1, StackFacts
    <3>3. QED
      BY <2>1, <3>2
  <2>4. Len(s) \in 0..Len(s) /\ n.h \in Nat
    BY <1>1, <2>1
  <2> HIDE DEF t
  <2>5. QED
    BY <1>5, <1>7, <2>2, <2>3, <2>4, PutUpon, SMTT(30)
<1>8. QED
  BY <1>6, <1>7

(***************************************************************************)
(* A stack in shape passes the order test of ElkremReceiverFromBytes, and  *)
(* is no longer than the height of its bottom node and two.                *)
(***************************************************************************)
THEOREM ShapeReadsBack ==
  ASSUME NEW s, InShape(s)
  PROVE  Ordered(s) /\ (s # <<>> => Len(s) <= s[1].h + 2)
<1>1. Len(s) \in Nat /\ \A j \in 1..Len(s) : s[j].h \in Nat
  BY StackFacts
<1>2. ASSUME NEW j \in 1..Len(s), NEW k \in 1..Len(s), j < k
      PROVE  s[j].h + j >= s[k].h + k - 1
  <2>1. j \in DOMAIN s /\ k \in DOMAIN s
    BY StackDomain
  <2>2. s[j].h \in Nat /\ s[k].h \in Nat
    BY <1>1
  <2>3. s[j].h + j >= s[k].h + k - IF k = Len(s) /\ ParentDue(s) THEN 1 ELSE 0
    BY <1>2, <2>1 DEF InShape, Falling
  <2>4. CASE k = Len(s) /\ ParentDue(s)
    BY <2>3, <2>4
  <2>5. CASE ~(k = Len(s) /\ ParentDue(s))
    <3>1. s[j].h + j >= s[k].h + k - 0
      BY <2>3, <2>5
    <3>2. QED
      BY <2>2, <3>1, SMTT(30)
  <2>6. QED
    BY <2>4, <2>5
<1>3. Ordered(s)
  <2>1. SUFFICES ASSUME NEW k \in 2..Len(s) PROVE s[k - 1].h >= s[k].h
    BY DEF Ordered
  <2>2. k - 1 \in 1..Len(s) /\ k \in 1..Len(s) /\ k - 1 < k
    BY <1>1, <2>1
  <2>3. s[k - 1].h + (k - 1) >= s[k].h + k - 1
    BY <1>2, <2>2
  <2>4. s[k - 1].h \in Nat /\ s[k].h \in Nat
    BY <1>1, <2>2
  <2>5. QED
    BY <2>3, <2>4
<1>4. ASSUME s # <<>> PROVE Len(s) <= s[1].h + 2
  <2>1. Len(s) # 0
    BY <1>4, StackFacts
  <2>2. 1 \in 1..Len(s) /\ Len(s) \in 1..Len(s)
    BY <1>1, <2>1
  <2>3. s[1].h \in Nat /\ s[Len(s)].h \in Nat
    BY <1>1, <2>2
  <2>4. CASE Len(s) = 1
    BY <2>3, <2>4
  <2>5. CASE 1 < Len(s)
    <3>1. s[1].h + 1 >= s[Len(s)].h + Len(s) - 1
      BY <1>2, <2>2, <2>5
    <3>2. QED
      BY <1>1, <2>3, <3>1
  <2>6. QED
    BY <1>1, <2>1, <2>4, <2>5, SMTT(30)
<1>5. QED
  BY <1>3, <1>4

(***************************************************************************)
(* From any receiver in shape, whether new or read back, no step of the    *)
(* protocol brings the stack out of shape (ReceiveRevocation, AddNext).    *)
(***************************************************************************)
THEOREM StackKeepsShape ==
  StackInShape /\ [][ENext]_elkremVars => []StackInShape
<1>1. StackInShape /\ [ENext]_elkremVars => StackInShape'
  <2> SUFFICES ASSUME StackInShape, [ENext]_elkremVars PROVE StackInShape'
    OBVIOUS
  <2>1. CASE ENext
    BY <2>1, AddNextInShape DEF ENext, StackInShape
  <2>2. CASE UNCHANGED elkremVars
    BY <2>2 DEF elkremVars, StackInShape
  <2>3. QED
    BY <2>1, <2>2
<1>2. QED
  BY <1>1, PTL
===============================================================================
