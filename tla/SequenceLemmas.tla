--------------------------- MODULE SequenceLemmas ---------------------------
(***************************************************************************)
(* What Append and Tail do to the set of elements of a sequence: the facts *)
(* the proofs about task queues rest on.                                   *)
(***************************************************************************)
EXTENDS Sequences, Integers, Functions, SequenceTheorems, TLAPS

\* No element occurs twice.
Distinct(s) == \A i, j \in 1..Len(s) : s[i] = s[j] => i = j

\* Appending adds exactly the appended element.
LEMMA RangeOfAppend ==
    ASSUME NEW S, NEW s \in Seq(S), NEW m \in S
    PROVE  Range(Append(s, m)) = Range(s) \cup {m}
<1>1. /\ DOMAIN s = 1..Len(s)
      /\ DOMAIN Append(s, m) = 1..(Len(s) + 1)
      /\ \A i \in 1..Len(s) : Append(s, m)[i] = s[i]
      /\ Append(s, m)[Len(s) + 1] = m
      /\ Len(s) \in Nat
  OBVIOUS
<1>2. ASSUME NEW x \in Range(Append(s, m)) PROVE x \in Range(s) \cup {m}
  <2>1. PICK i \in 1..(Len(s) + 1) : x = Append(s, m)[i]
    BY <1>1, <1>2 DEF Range
  <2>2. CASE i = Len(s) + 1
    BY <1>1, <2>1, <2>2
  <2>3. CASE i \in 1..Len(s)
    BY <1>1, <2>1, <2>3 DEF Range
  <2>4. QED
    BY <1>1, <2>2, <2>3
<1>3. ASSUME NEW x \in Range(s) \cup {m} PROVE x \in Range(Append(s, m))
  <2>1. CASE x = m
    <3>1. Len(s) + 1 \in DOMAIN Append(s, m)
      BY <1>1
    <3>2. QED
      BY <1>1, <2>1, <3>1 DEF Range
  <2>2. CASE x \in Range(s)
    <3>1. PICK i \in 1..Len(s) : x = s[i]
      BY <1>1, <2>2 DEF Range
    <3>2. i \in DOMAIN Append(s, m) /\ Append(s, m)[i] = x
      BY <1>1, <3>1
    <3>3. QED
      BY <3>2 DEF Range
  <2>3. QED
    BY <1>3, <2>1, <2>2
<1>4. QED
  BY <1>2, <1>3

\* Taking the head off removes nothing else.
LEMMA RangeOfTail ==
    ASSUME NEW S, NEW s \in Seq(S), s # <<>>
    PROVE  Range(s) = {Head(s)} \cup Range(Tail(s))
<1>1. /\ DOMAIN s = 1..Len(s)
      /\ Len(s) \in Nat \ {0}
      /\ Head(s) = s[1]
      /\ DOMAIN Tail(s) = 1..(Len(s) - 1)
      /\ \A i \in 1..(Len(s) - 1) : Tail(s)[i] = s[i + 1]
  BY HeadTailProperties, LenProperties, EmptySeq
<1>2. ASSUME NEW x \in Range(s) PROVE x \in {Head(s)} \cup Range(Tail(s))
  <2>1. PICK i \in 1..Len(s) : x = s[i]
    BY <1>1, <1>2 DEF Range
  <2>2. CASE i = 1
    BY <1>1, <2>1, <2>2
  <2>3. CASE i # 1
    <3>1. i - 1 \in DOMAIN Tail(s) /\ Tail(s)[i - 1] = x
      BY <1>1, <2>1, <2>3
    <3>2. QED
      BY <3>1 DEF Range
  <2>4. QED
    BY <2>2, <2>3
<1>3. Head(s) \in Range(s)
  <2>1. 1 \in DOMAIN s
    BY <1>1
  <2>2. QED
    BY <1>1, <2>1 DEF Range
<1>4. ASSUME NEW x \in Range(Tail(s)) PROVE x \in Range(s)
  <2>1. PICK i \in 1..(Len(s) - 1) : x = Tail(s)[i]
    BY <1>1, <1>4 DEF Range
  <2>2. i + 1 \in DOMAIN s /\ s[i + 1] = x
    BY <1>1, <2>1
  <2>3. QED
    BY <2>2 DEF Range
<1>5. QED
  BY <1>2, <1>3, <1>4

\* A new element leaves a sequence free of repetitions.
LEMMA DistinctAppend ==
    ASSUME NEW S, NEW s \in Seq(S), NEW m \in S,
           Distinct(s), m \notin Range(s)
    PROVE  Distinct(Append(s, m))
<1>1. /\ DOMAIN s = 1..Len(s)
      /\ Len(Append(s, m)) = Len(s) + 1
      /\ \A i \in 1..Len(s) : Append(s, m)[i] = s[i] /\ s[i] # m
      /\ Append(s, m)[Len(s) + 1] = m
      /\ Len(s) \in Nat
  BY DEF Range
<1>2. QED
  BY <1>1 DEF Distinct

\* In a sequence free of repetitions the head does not occur in the tail.
LEMMA DistinctTail ==
    ASSUME NEW S, NEW s \in Seq(S), s # <<>>, Distinct(s)
    PROVE  Distinct(Tail(s)) /\ Head(s) \notin Range(Tail(s))
<1>1. /\ Len(s) \in Nat \ {0}
      /\ Head(s) = s[1]
      /\ Len(Tail(s)) = Len(s) - 1
      /\ DOMAIN Tail(s) = 1..(Len(s) - 1)
      /\ \A i \in 1..(Len(s) - 1) : Tail(s)[i] = s[i + 1]
  BY HeadTailProperties, LenProperties, EmptySeq
<1>2. Distinct(Tail(s))
  BY <1>1 DEF Distinct
<1>3. Head(s) \notin Range(Tail(s))
  BY <1>1 DEF Distinct, Range
<1>4. QED
  BY <1>2, <1>3
=============================================================================
