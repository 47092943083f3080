----------------------------- MODULE QueueLemmas -----------------------------
(***************************************************************************)
(* What the list operators do to the members of a list and to the promise  *)
(* that no member is in it twice.  These are the facts about the lists of  *)
(* the scheduler (LinkTailLocked, LinkHeadLocked, UnlinkLocked), the lines *)
(* of waiters and the queues of audio frames that the invariants rest on.  *)
(***************************************************************************)
EXTENDS Integers, SequencesExt, SequenceTheorems, WellFoundedInduction, TLAPS

\* LinkTailLocked adds one member, and keeps the list free of duplicates if it
\* was not a member.
LEMMA AppendQueue ==
  ASSUME NEW S, NEW s \in Seq(S), NEW e \in S
  PROVE  /\ Append(s, e) \in Seq(S)
         /\ ToSet(Append(s, e)) = ToSet(s) \cup {e}
         /\ IsInjective(s) /\ e \notin ToSet(s) => IsInjective(Append(s, e))
<1>1. /\ Append(s, e) \in Seq(S)
      /\ Len(s) \in Nat
      /\ DOMAIN s = 1..Len(s)
      /\ DOMAIN Append(s, e) = 1..(Len(s) + 1)
      /\ \A i \in 1..Len(s) : Append(s, e)[i] = s[i]
      /\ Append(s, e)[Len(s) + 1] = e
  BY AppendProperties, LenProperties
<1>2. ToSet(Append(s, e)) = ToSet(s) \cup {e}
  BY <1>1 DEF ToSet
<1>3. IsInjective(s) /\ e \notin ToSet(s) => IsInjective(Append(s, e))
  BY <1>1 DEF ToSet, IsInjective
<1> QED
  BY <1>1, <1>2, <1>3

\* LinkHeadLocked, likewise.
LEMMA ConsQueue ==
  ASSUME NEW S, NEW s \in Seq(S), NEW e \in S
  PROVE  /\ Cons(e, s) \in Seq(S)
         /\ ToSet(Cons(e, s)) = ToSet(s) \cup {e}
         /\ IsInjective(s) /\ e \notin ToSet(s) => IsInjective(Cons(e, s))
<1>0. <<e>> \in Seq(S) /\ Len(<<e>>) = 1 /\ <<e>>[1] = e
  OBVIOUS
<1>1. /\ Cons(e, s) \in Seq(S)
      /\ Len(s) \in Nat
      /\ DOMAIN s = 1..Len(s)
      /\ DOMAIN Cons(e, s) = 1..(Len(s) + 1)
      /\ Cons(e, s)[1] = e
      /\ \A i \in 2..(Len(s) + 1) : Cons(e, s)[i] = s[i - 1]
  BY <1>0, ConcatProperties, LenProperties DEF Cons
<1>2. ToSet(Cons(e, s)) = ToSet(s) \cup {e}
  <2>1. \A i \in DOMAIN s : i + 1 \in 2..(Len(s) + 1) /\ Cons(e, s)[i + 1] = s[i]
    BY <1>1
  <2>2. \A i \in DOMAIN Cons(e, s) : i = 1 \/ (i - 1 \in DOMAIN s /\ i \in 2..(Len(s) + 1))
    BY <1>1
  <2>3. ToSet(s) \cup {e} \subseteq ToSet(Cons(e, s))
    BY <1>1, <2>1 DEF ToSet
  <2>4. ToSet(Cons(e, s)) \subseteq ToSet(s) \cup {e}
    BY <1>1, <2>2 DEF ToSet
  <2> QED
    BY <2>3, <2>4
<1>3. IsInjective(s) /\ e \notin ToSet(s) => IsInjective(Cons(e, s))
  <2> SUFFICES ASSUME IsInjective(s), e \notin ToSet(s),
                      NEW i \in DOMAIN Cons(e, s), NEW j \in DOMAIN Cons(e, s),
                      Cons(e, s)[i] = Cons(e, s)[j]
               PROVE  i = j
    BY DEF IsInjective
  <2>1. \A k \in DOMAIN s : s[k] # e
    BY DEF ToSet
  <2>2. CASE i = 1 \/ j = 1
    <3>1. \A k \in 2..(Len(s) + 1) : Cons(e, s)[k] # e
      BY <1>1, <2>1
    <3> QED
      BY <1>1, <2>2, <3>1
  <2>3. CASE i # 1 /\ j # 1
    <3>1. i - 1 \in DOMAIN s /\ j - 1 \in DOMAIN s /\ s[i - 1] = s[j - 1]
      BY <1>1, <2>3
    <3> QED
      BY <1>1, <3>1 DEF IsInjective
  <2> QED
    BY <2>2, <2>3
<1> QED
  BY <1>1, <1>2, <1>3

\* Taking the member at a position out of a list: what is left are the others.
LEMMA RemoveAtQueue ==
  ASSUME NEW S, NEW s \in Seq(S), NEW k \in 1..Len(s)
  PROVE  /\ RemoveAt(s, k) \in Seq(S)
         /\ ToSet(RemoveAt(s, k)) \subseteq ToSet(s)
         /\ IsInjective(s) => /\ IsInjective(RemoveAt(s, k))
                              /\ ToSet(RemoveAt(s, k)) = ToSet(s) \ {s[k]}
<1> DEFINE r == RemoveAt(s, k)
           head == SubSeq(s, 1, k - 1)
           tail == SubSeq(s, k + 1, Len(s))
<1>0. Len(s) \in Nat /\ DOMAIN s = 1..Len(s) /\ \A i \in 1..Len(s) : s[i] \in S
  BY LenProperties, ElementOfSeq
<1>k. k \in Nat /\ 1 <= k /\ k <= Len(s)
  BY <1>0
<1>1. /\ head \in Seq(S)
      /\ Len(head) = IF 1 <= k - 1 THEN (k - 1) - 1 + 1 ELSE 0
      /\ \A i \in 1..((k - 1) - 1 + 1) : head[i] = s[1 + i - 1]
  <2>1. 1 \in Int /\ k - 1 \in Int /\ \A i \in 1..(k - 1) : s[i] \in S
    BY <1>0, <1>k
  <2> QED
    BY <2>1, SubSeqProperties
<1>2. /\ tail \in Seq(S)
      /\ Len(tail) = IF k + 1 <= Len(s) THEN Len(s) - (k + 1) + 1 ELSE 0
      /\ \A i \in 1..(Len(s) - (k + 1) + 1) : tail[i] = s[(k + 1) + i - 1]
  <2>1. k + 1 \in Int /\ Len(s) \in Int /\ \A i \in (k + 1)..Len(s) : s[i] \in S
    BY <1>0, <1>k
  <2> QED
    BY <2>1, SubSeqProperties
<1>3. /\ r \in Seq(S)
      /\ Len(r) = Len(head) + Len(tail)
      /\ \A i \in 1..(Len(head) + Len(tail)) :
           r[i] = IF i <= Len(head) THEN head[i] ELSE tail[i - Len(head)]
      /\ DOMAIN r = 1..Len(r)
  BY <1>1, <1>2, ConcatProperties, LenProperties DEF RemoveAt
<1> HIDE DEF r, head, tail
<1>4. Len(head) = k - 1 /\ Len(tail) = Len(s) - k /\ DOMAIN r = 1..(Len(s) - 1)
  <2>1. Len(head) = k - 1
    <3>1. Len(head) = IF 1 <= k - 1 THEN (k - 1) - 1 + 1 ELSE 0
      BY <1>1
    <3> QED
      BY <1>k, <3>1
  <2>2. Len(tail) = Len(s) - k
    <3>1. Len(tail) = IF k + 1 <= Len(s) THEN Len(s) - (k + 1) + 1 ELSE 0
      BY <1>2
    <3>2. Len(s) \in Nat
      BY <1>0
    <3>3. \A m, n \in Nat : m <= n => n - m = IF m + 1 <= n THEN n - (m + 1) + 1 ELSE 0
      OBVIOUS
    <3> QED
      BY <1>k, <3>1, <3>2, <3>3
  <2>3. Len(r) = Len(s) - 1
    BY <1>0, <1>k, <1>3, <2>1, <2>2
  <2> QED
    BY <1>3, <2>1, <2>2, <2>3
<1>5. ASSUME NEW i \in Nat, 1 <= i, i < k
      PROVE  i \in DOMAIN r /\ r[i] = s[i]
  <2>1. i \in 1..(Len(head) + Len(tail)) /\ i <= Len(head) /\ i \in 1..((k - 1) - 1 + 1)
    BY <1>0, <1>k, <1>4, <1>5
  <2>2. 1 + i - 1 = i
    OBVIOUS
  <2> QED
    BY <1>1, <1>3, <2>1, <2>2
<1>6. ASSUME NEW i \in Nat, k <= i, i < Len(s)
      PROVE  i \in DOMAIN r /\ r[i] = s[i + 1]
  <2> DEFINE j == i - Len(head)
  <2>1. /\ i \in 1..(Len(head) + Len(tail))
        /\ ~(i <= Len(head))
        /\ j \in 1..(Len(s) - (k + 1) + 1)
        /\ (k + 1) + j - 1 = i + 1
    BY <1>0, <1>k, <1>4, <1>6
  <2> QED
    BY <1>2, <1>3, <2>1
<1>7. \A i \in DOMAIN r : i \in Nat /\ 1 <= i /\ i < Len(s)
  BY <1>0, <1>4
<1>8. \A i \in DOMAIN s : i \in Nat /\ 1 <= i /\ i <= Len(s)
  BY <1>0
<1>9. \A i \in DOMAIN r : /\ i < k => i \in DOMAIN s /\ r[i] = s[i]
                          /\ ~(i < k) => i + 1 \in DOMAIN s /\ r[i] = s[i + 1]
  BY <1>0, <1>k, <1>5, <1>6, <1>7
<1>10. ToSet(r) \subseteq ToSet(s)
  BY <1>9 DEF ToSet
<1>11. ASSUME IsInjective(s)
       PROVE  IsInjective(r) /\ ToSet(r) = ToSet(s) \ {s[k]}
  <2>0. k \in DOMAIN s
    BY <1>0
  <2>1. IsInjective(r)
    BY <1>k, <1>7, <1>9, <1>11 DEF IsInjective
  <2>2. \A i \in DOMAIN r : r[i] # s[k]
    BY <1>k, <1>7, <1>9, <1>11, <2>0 DEF IsInjective
  <2>3. ASSUME NEW i \in DOMAIN s, i # k
        PROVE  \E j \in DOMAIN r : r[j] = s[i]
    <3>1. CASE i < k
      BY <1>5, <1>8, <3>1
    <3>2. CASE ~(i < k)
      <4>1. i - 1 \in Nat /\ k <= i - 1 /\ i - 1 < Len(s) /\ (i - 1) + 1 = i
        BY <1>0, <1>k, <1>8, <2>3, <3>2
      <4>2. i - 1 \in DOMAIN r /\ r[i - 1] = s[i]
        BY <1>6, <4>1
      <4> QED
        BY <4>2
    <3> QED
      BY <3>1, <3>2
  <2> QED
    BY <1>10, <2>1, <2>2, <2>3 DEF ToSet
<1> QED
  BY <1>3, <1>10, <1>11 DEF r

\* A set of naturals that is not empty has a least member.
LEMMA LeastMember ==
  ASSUME NEW I, I \subseteq Nat, I # {}
  PROVE  \E k \in I : \A i \in I : k <= i
<1>1. \E k \in I : \A i \in I : ~(<<i, k>> \in OpToRel(<, Nat))
  BY NatLessThanWellFounded, WFMin
<1>2. PICK k \in I : \A i \in I : ~(<<i, k>> \in OpToRel(<, Nat))
  BY <1>1
<1>3. \A i \in I : ~(i < k)
  BY <1>2 DEF OpToRel
<1>4. \A i \in I : k <= i
  <2> TAKE i \in I
  <2>1. i \in Nat /\ k \in Nat /\ ~(i < k)
    BY <1>3
  <2> QED
    BY <2>1
<1> QED
  BY <1>4

\* RemoveFirst of a member removes one position.
LEMMA RemoveFirstAt ==
  ASSUME NEW S, NEW s \in Seq(S), NEW e, \E i \in 1..Len(s) : s[i] = e
  PROVE  \E k \in 1..Len(s) : s[k] = e /\ RemoveFirst(s, e) = RemoveAt(s, k)
<1>0. Len(s) \in Nat /\ DOMAIN s = 1..Len(s)
  BY LenProperties
<1> DEFINE I == {i \in 1..Len(s) : s[i] = e}
<1>1. \E k \in I : \A i \in I : k <= i
  <2>1. I \subseteq Nat /\ I # {}
    BY <1>0
  <2> QED
    BY <2>1, LeastMember
<1>2. Min(I) \in I
  BY <1>1 DEF Min
<1>3. RemoveFirst(s, e) = RemoveAt(s, Min(I))
  BY DEF RemoveFirst, SelectInSeq
<1> QED
  BY <1>2, <1>3

\* UnlinkLocked: a thread that is in the list is in it no more, and one that is
\* not changes nothing.
LEMMA RemoveFirstQueue ==
  ASSUME NEW S, NEW s \in Seq(S), NEW e
  PROVE  /\ RemoveFirst(s, e) \in Seq(S)
         /\ ToSet(RemoveFirst(s, e)) \subseteq ToSet(s)
         /\ IsInjective(s) => /\ IsInjective(RemoveFirst(s, e))
                              /\ ToSet(RemoveFirst(s, e)) = ToSet(s) \ {e}
<1>0. Len(s) \in Nat /\ DOMAIN s = 1..Len(s)
  BY LenProperties
<1>1. CASE ~ \E i \in 1..Len(s) : s[i] = e
  BY <1>0, <1>1 DEF RemoveFirst, ToSet
<1>2. CASE \E i \in 1..Len(s) : s[i] = e
  <2>1. PICK k \in 1..Len(s) : s[k] = e /\ RemoveFirst(s, e) = RemoveAt(s, k)
    BY <1>2, RemoveFirstAt
  <2> QED
    BY <2>1, RemoveAtQueue
<1> QED
  BY <1>1, <1>2

\* A position before the one removed keeps its member.
LEMMA RemoveAtBefore ==
  ASSUME NEW S, NEW s \in Seq(S), NEW k \in 1..Len(s), k > 1
  PROVE  RemoveAt(s, k)[1] = s[1] /\ 1 \in DOMAIN RemoveAt(s, k)
<1> DEFINE head == SubSeq(s, 1, k - 1)
           tail == SubSeq(s, k + 1, Len(s))
<1>0. Len(s) \in Nat /\ k \in Nat /\ k - 1 >= 1 /\ \A i \in 1..Len(s) : s[i] \in S
  BY LenProperties, ElementOfSeq
<1>1. head \in Seq(S) /\ Len(head) = k - 1 /\ head[1] = s[1]
  <2>1. 1 \in Int /\ k - 1 \in Int /\ \A i \in 1..(k - 1) : s[i] \in S
    BY <1>0
  <2>2. /\ head \in Seq(S)
        /\ Len(head) = IF 1 <= k - 1 THEN (k - 1) - 1 + 1 ELSE 0
        /\ \A i \in 1..((k - 1) - 1 + 1) : head[i] = s[1 + i - 1]
    BY <2>1, SubSeqProperties
  <2>3. 1 \in 1..((k - 1) - 1 + 1) /\ 1 + 1 - 1 = 1
    BY <1>0
  <2> HIDE DEF head
  <2> QED
    BY <1>0, <2>2, <2>3
<1>2. tail \in Seq(S)
  <2>1. k + 1 \in Int /\ Len(s) \in Int /\ \A i \in (k + 1)..Len(s) : s[i] \in S
    BY <1>0
  <2> QED
    BY <2>1, SubSeqProperties
<1>3. /\ RemoveAt(s, k) \in Seq(S)
      /\ Len(RemoveAt(s, k)) = Len(head) + Len(tail)
      /\ \A i \in 1..(Len(head) + Len(tail)) :
           RemoveAt(s, k)[i] = IF i <= Len(head) THEN head[i] ELSE tail[i - Len(head)]
      /\ DOMAIN RemoveAt(s, k) = 1..Len(RemoveAt(s, k))
  BY <1>1, <1>2, ConcatProperties, LenProperties DEF RemoveAt
<1>4. Len(tail) \in Nat
  BY <1>2, LenProperties
<1> HIDE DEF head, tail
<1>5. 1 \in 1..(Len(head) + Len(tail)) /\ 1 <= Len(head)
  BY <1>0, <1>1, <1>4
<1> QED
  BY <1>1, <1>3, <1>5

\* The first of a list stays the first when another member leaves it.
LEMMA RemoveFirstHead ==
  ASSUME NEW S, NEW s \in Seq(S), NEW e, s # <<>>, Head(s) # e
  PROVE  RemoveFirst(s, e) # <<>> /\ Head(RemoveFirst(s, e)) = Head(s)
<1>0. Len(s) \in Nat /\ Len(s) >= 1 /\ Head(s) = s[1] /\ DOMAIN s = 1..Len(s)
  BY LenProperties, EmptySeq, HeadTailProperties
<1>1. CASE ~ \E i \in 1..Len(s) : s[i] = e
  BY <1>0, <1>1 DEF RemoveFirst
<1>2. CASE \E i \in 1..Len(s) : s[i] = e
  <2>1. PICK k \in 1..Len(s) : s[k] = e /\ RemoveFirst(s, e) = RemoveAt(s, k)
    BY <1>2, RemoveFirstAt
  <2>2. k > 1
    BY <1>0, <2>1
  <2>3. RemoveAt(s, k)[1] = s[1] /\ 1 \in DOMAIN RemoveAt(s, k)
    BY <2>2, RemoveAtBefore
  <2>4. RemoveAt(s, k) \in Seq(S)
    BY RemoveAtQueue
  <2> QED
    BY <1>0, <2>1, <2>3, <2>4
<1> QED
  BY <1>1, <1>2

\* RemoveAt takes one member.
LEMMA RemoveAtLength ==
  ASSUME NEW S, NEW s \in Seq(S), NEW k \in 1..Len(s)
  PROVE  Len(RemoveAt(s, k)) = Len(s) - 1
<1> DEFINE head == SubSeq(s, 1, k - 1)
           tail == SubSeq(s, k + 1, Len(s))
<1>0. Len(s) \in Nat /\ k \in Nat /\ 1 <= k /\ k <= Len(s) /\ \A i \in 1..Len(s) : s[i] \in S
  BY LenProperties, ElementOfSeq
<1>1. head \in Seq(S) /\ Len(head) = k - 1
  <2>1. 1 \in Int /\ k - 1 \in Int /\ \A i \in 1..(k - 1) : s[i] \in S
    BY <1>0
  <2>2. head \in Seq(S) /\ Len(head) = IF 1 <= k - 1 THEN (k - 1) - 1 + 1 ELSE 0
    BY <2>1, SubSeqProperties
  <2> HIDE DEF head
  <2> QED
    BY <1>0, <2>2
<1>2. tail \in Seq(S) /\ Len(tail) = Len(s) - k
  <2>1. k + 1 \in Int /\ Len(s) \in Int /\ \A i \in (k + 1)..Len(s) : s[i] \in S
    BY <1>0
  <2>2. tail \in Seq(S) /\ Len(tail) = IF k + 1 <= Len(s) THEN Len(s) - (k + 1) + 1 ELSE 0
    BY <2>1, SubSeqProperties
  <2> HIDE DEF tail
  <2> QED
    BY <1>0, <2>2
<1>3. Len(RemoveAt(s, k)) = Len(head) + Len(tail)
  BY <1>1, <1>2, ConcatProperties DEF RemoveAt
<1> HIDE DEF head, tail
<1> QED
  BY <1>0, <1>1, <1>2, <1>3

LEMMA HeadInQueue ==
  ASSUME NEW S, NEW s \in Seq(S), s # <<>>
  PROVE  Head(s) \in ToSet(s)
<1>1. Len(s) \in Nat /\ Len(s) >= 1 /\ Head(s) = s[1] /\ DOMAIN s = 1..Len(s)
  BY LenProperties, EmptySeq, HeadTailProperties
<1> QED
  BY <1>1 DEF ToSet

=============================================================================
