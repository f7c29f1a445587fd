--------------------------- MODULE SequenceFacts ---------------------------
(***************************************************************************)
(* Facts about sequences that the proofs of several components use: a      *)
(* channel is a sequence to which the sender appends and whose head the    *)
(* receiver takes.                                                         *)
(***************************************************************************)
EXTENDS Naturals, Sequences, FiniteSets, SequenceTheorems, FiniteSetTheorems,
        WellFoundedInduction, TLAPS

\* Appending to the right part of a concatenation appends to the whole.
LEMMA ConcatAppend ==
  ASSUME NEW S, NEW s \in Seq(S), NEW t \in Seq(S), NEW e \in S
  PROVE  s \o Append(t, e) = Append(s \o t, e)
<1>1. <<e>> \in Seq(S)
  OBVIOUS
<1>2. Append(t, e) = t \o <<e>>
  BY AppendIsConcat
<1>3. s \o t \in Seq(S)
  BY ConcatProperties
<1>4. Append(s \o t, e) = (s \o t) \o <<e>>
  BY <1>3, AppendIsConcat
<1>5. QED
  BY <1>1, <1>2, <1>4, ConcatAssociative

\* Moving the head of the right part to the end of the left part leaves the
\* concatenation alone: what has been taken and what is still to be taken.
LEMMA MoveHead ==
  ASSUME NEW S, NEW s \in Seq(S), NEW t \in Seq(S), t # <<>>
  PROVE  Append(s, Head(t)) \o Tail(t) = s \o t
<1>1. /\ Head(t) \in S /\ Tail(t) \in Seq(S)
      /\ Len(Tail(t)) = Len(t) - 1
      /\ \A i \in 1 .. Len(Tail(t)) : Tail(t)[i] = t[i + 1]
      /\ Head(t) = t[1]
      /\ Len(t) \in Nat \ {0}
      /\ Len(s) \in Nat
  BY HeadTailProperties, EmptySeq, LenProperties
<1>2. /\ Append(s, Head(t)) \in Seq(S)
      /\ Len(Append(s, Head(t))) = Len(s) + 1
      /\ \A i \in 1 .. Len(s) : Append(s, Head(t))[i] = s[i]
      /\ Append(s, Head(t))[Len(s) + 1] = Head(t)
  BY <1>1, AppendProperties
<1> DEFINE a == Append(s, Head(t))
           b == Tail(t)
           u == a \o b
           v == s \o t
<1>3. /\ u \in Seq(S) /\ Len(u) = Len(a) + Len(b)
      /\ \A i \in 1 .. Len(a) + Len(b) :
            u[i] = IF i <= Len(a) THEN a[i] ELSE b[i - Len(a)]
  BY <1>1, <1>2, ConcatProperties
<1>4. /\ v \in Seq(S) /\ Len(v) = Len(s) + Len(t)
      /\ \A i \in 1 .. Len(s) + Len(t) :
            v[i] = IF i <= Len(s) THEN s[i] ELSE t[i - Len(s)]
  BY ConcatProperties
<1> HIDE DEF a, b, u, v
<1>5. Len(a) = Len(s) + 1 /\ Len(b) = Len(t) - 1 /\ Len(u) = Len(v)
  BY <1>1, <1>2, <1>3, <1>4 DEF a, b
<1>6. ASSUME NEW i \in 1 .. Len(u) PROVE u[i] = v[i]
  <2>0. i \in 1 .. Len(a) + Len(b) /\ i \in 1 .. Len(s) + Len(t)
    BY <1>1, <1>3, <1>4, <1>5
  <2>1. CASE i <= Len(s)
    BY <1>1, <1>2, <1>3, <1>4, <1>5, <2>0, <2>1 DEF a
  <2>2. CASE i = Len(s) + 1
    BY <1>1, <1>2, <1>3, <1>4, <1>5, <2>0, <2>2 DEF a
  <2>3. CASE i > Len(s) + 1
    <3>0. ~(i <= Len(a)) /\ ~(i <= Len(s))
      BY <1>1, <1>5, <2>0, <2>3
    <3>1. u[i] = b[i - Len(a)] /\ v[i] = t[i - Len(s)]
      <4>1. u[i] = b[i - Len(a)]
        BY <1>3, <2>0, <3>0
      <4>2. v[i] = t[i - Len(s)]
        BY <1>4, <2>0, <3>0
      <4>3. QED
        BY <4>1, <4>2
    <3>2. i - Len(a) \in 1 .. Len(b) /\ (i - Len(a)) + 1 = i - Len(s)
      BY <1>1, <1>5, <2>0, <2>3
    <3>3. b[i - Len(a)] = t[(i - Len(a)) + 1]
      BY <1>1, <3>2 DEF b
    <3>4. QED
      BY <3>1, <3>2, <3>3
  <2>4. QED
    BY <1>1, <2>0, <2>1, <2>2, <2>3
<1>7. u = v
  BY <1>3, <1>4, <1>5, <1>6, SeqEqual
<1>8. QED
  BY <1>7 DEF u, v, a, b

\* Taking the head of a channel keeps the type of what is left.
LEMMA TailTyped ==
  ASSUME NEW S, NEW s \in Seq(S), s # <<>>
  PROVE  /\ Head(s) \in S /\ Tail(s) \in Seq(S) /\ Head(s) = s[1]
         /\ Len(s) \in Nat \ {0} /\ Len(Tail(s)) = Len(s) - 1
         /\ \A i \in 1 .. Len(Tail(s)) : Tail(s)[i] = s[i + 1]
  BY HeadTailProperties, EmptySeq, LenProperties

\* Appending one element.
LEMMA AppendTyped ==
  ASSUME NEW S, NEW s \in Seq(S), NEW e \in S, NEW t, t = Append(s, e)
  PROVE  /\ t \in Seq(S) /\ t # <<>> /\ Len(s) \in Nat /\ Len(t) = Len(s) + 1
         /\ \A i \in 1 .. Len(s) : t[i] = s[i]
         /\ t[Len(s) + 1] = e
  BY AppendProperties, LenProperties

\* A set of positions of a sequence with and without the last one.
LEMMA CountLast ==
  ASSUME NEW n \in Nat, NEW B, B \subseteq 1 .. n, NEW x
  PROVE  /\ Cardinality(B \ {x}) \in Nat /\ Cardinality(B) \in Nat
         /\ x \in B => Cardinality(B) = Cardinality(B \ {x}) + 1
         /\ x \notin B => Cardinality(B) = Cardinality(B \ {x})
<1>1. IsFiniteSet(1 .. n)
  BY FS_Interval
<1>2. IsFiniteSet(B)
  BY <1>1, FS_Subset
<1>3. IsFiniteSet(B \ {x})
  BY <1>2, FS_RemoveElement
<1>4. Cardinality(B \ {x}) \in Nat /\ Cardinality(B) \in Nat
  BY <1>2, <1>3, FS_CardinalityType
<1>5. Cardinality(B \ {x}) = IF x \in B THEN Cardinality(B) - 1 ELSE Cardinality(B)
  BY <1>2, FS_RemoveElement
<1>6. QED
  BY <1>4, <1>5

\* A sequence over a set is a sequence over every larger one.
LEMMA SeqMonotone ==
  ASSUME NEW S, NEW T, S \subseteq T, NEW s \in Seq(S)
  PROVE  s \in Seq(T)
<1>1. s \in [1 .. Len(s) -> S] /\ Len(s) \in Nat
  BY LenProperties
<1>2. s \in [1 .. Len(s) -> T]
  BY <1>1
<1>3. QED
  BY <1>1, <1>2, IsASeq

-----------------------------------------------------------------------------
(* Sequences without repetition.                                           *)

\* An element is in the sequence.
Within(c, s) == \E i \in DOMAIN s : s[i] = c

\* None is in it twice.
NoneTwice(s) == \A i, j \in DOMAIN s : s[i] = s[j] => i = j

\* Appending e adds e and nothing else.
LEMMA WithinAppend ==
  ASSUME NEW S, NEW s \in Seq(S), NEW e \in S, NEW c
  PROVE  Within(c, Append(s, e)) <=> Within(c, s) \/ c = e
<1>1. /\ Len(s) \in Nat /\ DOMAIN s = 1 .. Len(s)
      /\ DOMAIN Append(s, e) = 1 .. Len(s) + 1
      /\ \A i \in 1 .. Len(s) : Append(s, e)[i] = s[i]
      /\ Append(s, e)[Len(s) + 1] = e
  BY AppendProperties, LenProperties
<1>2. ASSUME Within(c, Append(s, e)) PROVE Within(c, s) \/ c = e
  <2>1. PICK i \in 1 .. Len(s) + 1 : Append(s, e)[i] = c
    BY <1>1, <1>2 DEF Within
  <2>2. CASE i = Len(s) + 1
    BY <1>1, <2>1, <2>2
  <2>3. CASE i \in 1 .. Len(s)
    BY <1>1, <2>1, <2>3 DEF Within
  <2>4. QED
    BY <1>1, <2>2, <2>3
<1>3. ASSUME Within(c, s) PROVE Within(c, Append(s, e))
  <2>1. PICK i \in 1 .. Len(s) : s[i] = c
    BY <1>1, <1>3 DEF Within
  <2>2. i \in 1 .. Len(s) + 1
    BY <1>1
  <2>3. QED
    BY <1>1, <2>1, <2>2 DEF Within
<1>4. ASSUME c = e PROVE Within(c, Append(s, e))
  <2>1. Len(s) + 1 \in 1 .. Len(s) + 1
    BY <1>1
  <2>2. QED
    BY <1>1, <1>4, <2>1 DEF Within
<1>5. QED
  BY <1>2, <1>3, <1>4

\* Appending one that is not there yet.
LEMMA NoneTwiceAppend ==
  ASSUME NEW S, NEW s \in Seq(S), NEW e \in S, NoneTwice(s), ~Within(e, s)
  PROVE  NoneTwice(Append(s, e))
<1>1. /\ Len(s) \in Nat /\ DOMAIN s = 1 .. Len(s)
      /\ DOMAIN Append(s, e) = 1 .. Len(s) + 1
      /\ \A i \in 1 .. Len(s) : Append(s, e)[i] = s[i]
      /\ Append(s, e)[Len(s) + 1] = e
  BY AppendProperties, LenProperties
<1>2. \A i \in 1 .. Len(s) : s[i] # e
  BY <1>1 DEF Within
<1>3. \A i, j \in 1 .. Len(s) : s[i] = s[j] => i = j
  BY <1>1 DEF NoneTwice
<1>4. \A i \in 1 .. Len(s) + 1 : i \in 1 .. Len(s) \/ i = Len(s) + 1
  BY <1>1
<1>5. QED
  BY <1>1, <1>2, <1>3, <1>4 DEF NoneTwice

\* The members of a sequence are its head and those of its tail.
LEMMA WithinHead ==
  ASSUME NEW S, NEW s \in Seq(S), s # <<>>, NEW c
  PROVE  Within(c, s) <=> c = Head(s) \/ Within(c, Tail(s))
<1>1. /\ Len(s) \in Nat \ {0} /\ DOMAIN s = 1 .. Len(s) /\ Head(s) = s[1]
      /\ DOMAIN Tail(s) = 1 .. Len(s) - 1
      /\ \A i \in 1 .. Len(s) - 1 : Tail(s)[i] = s[i + 1]
  BY HeadTailProperties, LenProperties, EmptySeq
<1>2. ASSUME Within(c, s) PROVE c = Head(s) \/ Within(c, Tail(s))
  <2>1. PICK i \in 1 .. Len(s) : s[i] = c
    BY <1>1, <1>2 DEF Within
  <2>2. CASE i = 1
    BY <1>1, <2>1, <2>2
  <2>3. CASE i # 1
    <3>1. i - 1 \in 1 .. Len(s) - 1 /\ (i - 1) + 1 = i
      BY <1>1, <2>3
    <3>2. Tail(s)[i - 1] = c
      BY <1>1, <2>1, <3>1
    <3>3. QED
      BY <1>1, <3>1, <3>2 DEF Within
  <2>4. QED
    BY <2>2, <2>3
<1>3. ASSUME Within(c, Tail(s)) PROVE Within(c, s)
  <2>1. PICK i \in 1 .. Len(s) - 1 : Tail(s)[i] = c
    BY <1>1, <1>3 DEF Within
  <2>2. i + 1 \in 1 .. Len(s) /\ s[i + 1] = c
    BY <1>1, <2>1
  <2>3. QED
    BY <1>1, <2>2 DEF Within
<1>4. ASSUME c = Head(s) PROVE Within(c, s)
  BY <1>1, <1>4 DEF Within
<1>5. QED
  BY <1>2, <1>3, <1>4

\* The tail has no repetition either, and the head is not in it.
LEMMA NoneTwiceTail ==
  ASSUME NEW S, NEW s \in Seq(S), s # <<>>, NoneTwice(s)
  PROVE  NoneTwice(Tail(s)) /\ ~Within(Head(s), Tail(s))
<1>1. /\ Len(s) \in Nat \ {0} /\ DOMAIN s = 1 .. Len(s) /\ Head(s) = s[1]
      /\ DOMAIN Tail(s) = 1 .. Len(s) - 1
      /\ \A i \in 1 .. Len(s) - 1 : Tail(s)[i] = s[i + 1]
  BY HeadTailProperties, LenProperties, EmptySeq
<1>2. \A i, j \in 1 .. Len(s) : s[i] = s[j] => i = j
  BY <1>1 DEF NoneTwice
<1>3. ASSUME NEW i \in 1 .. Len(s) - 1, NEW j \in 1 .. Len(s) - 1,
             Tail(s)[i] = Tail(s)[j]
      PROVE  i = j
  <2>1. i + 1 \in 1 .. Len(s) /\ j + 1 \in 1 .. Len(s) /\ s[i + 1] = s[j + 1]
    BY <1>1, <1>3
  <2>2. i + 1 = j + 1
    BY <1>2, <2>1
  <2>3. QED
    BY <1>1, <2>2
<1>4. ASSUME NEW i \in 1 .. Len(s) - 1, Tail(s)[i] = Head(s) PROVE FALSE
  <2>1. i + 1 \in 1 .. Len(s) /\ 1 \in 1 .. Len(s) /\ s[i + 1] = s[1]
    BY <1>1, <1>4
  <2>2. i + 1 = 1
    BY <1>2, <2>1
  <2>3. QED
    BY <1>1, <2>2
<1>5. NoneTwice(Tail(s))
  BY <1>1, <1>3 DEF NoneTwice
<1>6. ~Within(Head(s), Tail(s))
  BY <1>1, <1>4 DEF Within
<1>7. QED
  BY <1>5, <1>6

\* How often one is in such a sequence.
LEMMA CountOnce ==
  ASSUME NEW S, NEW s \in Seq(S), NoneTwice(s), NEW c
  PROVE  /\ Within(c, s) => Cardinality({i \in DOMAIN s : s[i] = c}) = 1
         /\ ~Within(c, s) => Cardinality({i \in DOMAIN s : s[i] = c}) = 0
<1>1. ASSUME Within(c, s) PROVE Cardinality({i \in DOMAIN s : s[i] = c}) = 1
  <2>1. PICK i \in DOMAIN s : s[i] = c
    BY <1>1 DEF Within
  <2>2. {k \in DOMAIN s : s[k] = c} = {i}
    BY <2>1 DEF NoneTwice
  <2>3. QED
    BY <2>2, FS_Singleton
<1>2. ASSUME ~Within(c, s) PROVE Cardinality({i \in DOMAIN s : s[i] = c}) = 0
  <2>1. {k \in DOMAIN s : s[k] = c} = {}
    BY <1>2 DEF Within
  <2>2. QED
    BY <2>1, FS_EmptySet
<1>3. QED
  BY <1>1, <1>2

-----------------------------------------------------------------------------
(* Induction over the natural numbers, for a set in the place of the       *)
(* predicate.                                                              *)

\* A set of natural numbers that is not empty has a least element.
LEMMA LeastExists ==
  ASSUME NEW T \in SUBSET Nat, T # {}
  PROVE  \E x \in T : \A y \in T : x <= y
<1> DEFINE R == OpToRel(<, Nat)
<1>1. IsWellFoundedOn(R, Nat)
  BY NatLessThanWellFounded, Zenon
<1>2. \A x, y \in Nat : y < x => <<y, x>> \in R
  BY DEF OpToRel
<1> HIDE DEF R
<1>3. PICK x \in T : \A y \in T : ~(<<y, x>> \in R)
  BY <1>1, WFMin
<1>4. \A y \in T : ~(y < x)
  BY <1>2, <1>3
<1>5. \A y \in T : x <= y
  BY <1>4
<1>6. QED
  BY <1>5

\* A set that has 0 and with every number its successor has all numbers.
LEMMA InductionSet ==
  ASSUME NEW S, 0 \in S, \A n \in Nat : n \in S => n + 1 \in S
  PROVE  \A n \in Nat : n \in S
<1>1. SUFFICES ASSUME Nat \ S # {} PROVE FALSE
  OBVIOUS
<1>2. PICK x \in Nat \ S : \A y \in Nat \ S : x <= y
  BY <1>1, LeastExists
<1>3. x # 0 /\ x - 1 \in Nat /\ ~(x <= x - 1) /\ (x - 1) + 1 = x
  BY <1>2
<1>4. x - 1 \in S
  BY <1>2, <1>3
<1>5. QED
  BY <1>3, <1>4
=============================================================================
