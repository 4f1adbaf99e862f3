--------------------------- MODULE SequenceLemmas ---------------------------
(***************************************************************************)
(* What the list operations of the specifications do to the type, the      *)
(* length and the elements of a sequence.                                  *)
(***************************************************************************)
EXTENDS Integers, Sequences, SequencesExt, SequenceTheorems, TLAPS

\* Removing one element keeps the type and shortens the sequence by one.
LEMMA RemoveAtType ==
    ASSUME NEW S, NEW s \in Seq(S), NEW k \in DOMAIN s
    PROVE  /\ RemoveAt(s, k) \in Seq(S)
           /\ Len(RemoveAt(s, k)) = Len(s) - 1
BY DEF RemoveAt

\* The elements before the one removed stay where they are, the others move up.
LEMMA RemoveAtElements ==
    ASSUME NEW S, NEW s \in Seq(S), NEW k \in DOMAIN s, NEW i \in 1..(Len(s) - 1)
    PROVE  RemoveAt(s, k)[i] = IF i < k THEN s[i] ELSE s[i + 1]
<1>1. Len(s) \in Nat /\ k \in 1..Len(s)
  OBVIOUS
<1> DEFINE u == SubSeq(s, 1, k - 1)  v == SubSeq(s, k + 1, Len(s))
<1>2. /\ u \in Seq(S) /\ Len(u) = k - 1 /\ \A j \in 1..(k - 1) : u[j] = s[j]
  BY <1>1
<1>3. /\ v \in Seq(S) /\ Len(v) = Len(s) - k /\ \A j \in 1..(Len(s) - k) : v[j] = s[k + j]
  BY <1>1
<1> HIDE DEF u, v
<1>4. CASE i < k
  <2>1. i \in 1..(k - 1)
    BY <1>1, <1>4
  <2>2. (u \o v)[i] = u[i]
    BY <1>2, <1>3, <2>1
  <2> QED BY <1>2, <1>4, <2>1, <2>2 DEF RemoveAt, u, v
<1>5. CASE i >= k
  <2>1. i - (k - 1) \in 1..(Len(s) - k) /\ k + (i - (k - 1)) = i + 1 /\ ~(i < k) /\ i \in Nat
    BY <1>1, <1>5
  <2>2. (u \o v)[i] = v[i - (k - 1)]
    <3>1. u \in Seq(S) /\ v \in Seq(S)
      BY <1>2, <1>3
    <3>2. \A j \in 1..(Len(u) + Len(v)) : (u \o v)[j] = IF j <= Len(u) THEN u[j] ELSE v[j - Len(u)]
      BY <3>1, ConcatProperties
    <3>3. Len(u) = k - 1 /\ Len(v) = Len(s) - k /\ i \in 1..(Len(u) + Len(v)) /\ ~(i <= Len(u))
      BY <1>1, <1>2, <1>3, <1>5
    <3> QED BY <3>2, <3>3
  <2> QED BY <1>3, <2>1, <2>2 DEF RemoveAt, u, v
<1> QED BY <1>1, <1>4, <1>5

\* Removing the first element leaves the tail.
LEMMA RemoveAtHead ==
    ASSUME NEW S, NEW s \in Seq(S), s # <<>>
    PROVE  RemoveAt(s, 1) = Tail(s)
<1>1. Len(s) \in Nat /\ 1 \in 1..Len(s) /\ Tail(s) \in Seq(S) /\ Len(Tail(s)) = Len(s) - 1
      /\ \A i \in 1..(Len(s) - 1) : Tail(s)[i] = s[i + 1]
  OBVIOUS
<1>2. RemoveAt(s, 1) \in Seq(S) /\ Len(RemoveAt(s, 1)) = Len(s) - 1
  <2>1. 1 \in DOMAIN s
    BY <1>1
  <2> QED BY <2>1, RemoveAtType
<1>3. ASSUME NEW i \in 1..(Len(s) - 1) PROVE RemoveAt(s, 1)[i] = Tail(s)[i]
  <2>1. RemoveAt(s, 1)[i] = IF i < 1 THEN s[i] ELSE s[i + 1]
    <3>1. 1 \in DOMAIN s
      BY <1>1
    <3> QED BY <3>1, RemoveAtElements
  <2> QED BY <1>1, <2>1
<1> DEFINE u == RemoveAt(s, 1)  v == Tail(s)
<1>4. u \in Seq(S) /\ v \in Seq(S) /\ Len(u) = Len(v) /\ \A i \in 1..Len(u) : u[i] = v[i]
  BY <1>1, <1>2, <1>3
<1> HIDE DEF u, v
<1>5. u = v
  BY <1>4, SeqEqual
<1> QED BY <1>5 DEF u, v

\* The elements of a sequence.
LEMMA ToSetEmpty == ToSet(<<>>) = {}
BY DEF ToSet

LEMMA ToSetElement ==
    ASSUME NEW S, NEW s \in Seq(S)
    PROVE  ToSet(s) \subseteq S /\ \A x : x \in ToSet(s) <=> \E i \in 1..Len(s) : s[i] = x
BY DEF ToSet

LEMMA ToSetAppend ==
    ASSUME NEW S, NEW s \in Seq(S), NEW e \in S
    PROVE  ToSet(Append(s, e)) = ToSet(s) \cup {e}
<1>1. /\ Append(s, e) \in Seq(S) /\ Len(Append(s, e)) = Len(s) + 1 /\ Len(s) \in Nat
      /\ \A i \in 1..Len(s) : Append(s, e)[i] = s[i]
      /\ Append(s, e)[Len(s) + 1] = e
  OBVIOUS
<1>2. ASSUME NEW x PROVE x \in ToSet(Append(s, e)) <=> x \in ToSet(s) \cup {e}
  <2>1. x \in ToSet(Append(s, e)) <=> \E i \in 1..(Len(s) + 1) : Append(s, e)[i] = x
    <3>1. DOMAIN Append(s, e) = 1..(Len(s) + 1)
      BY <1>1
    <3> QED BY <3>1 DEF ToSet
  <2>2. x \in ToSet(s) <=> \E i \in 1..Len(s) : s[i] = x
    BY ToSetElement
  <2> QED BY <1>1, <2>1, <2>2
<1> QED BY <1>2

LEMMA ToSetConcat ==
    ASSUME NEW S, NEW s \in Seq(S), NEW z \in Seq(S)
    PROVE  ToSet(s \o z) = ToSet(s) \cup ToSet(z)
<1>1. /\ s \o z \in Seq(S) /\ Len(s \o z) = Len(s) + Len(z) /\ Len(s) \in Nat /\ Len(z) \in Nat
      /\ \A i \in 1..Len(s) : (s \o z)[i] = s[i]
      /\ \A i \in 1..Len(z) : (s \o z)[Len(s) + i] = z[i]
  OBVIOUS
<1>2. ASSUME NEW x PROVE x \in ToSet(s \o z) <=> x \in ToSet(s) \cup ToSet(z)
  <2>1. x \in ToSet(s \o z) <=> \E i \in 1..(Len(s) + Len(z)) : (s \o z)[i] = x
    <3>1. DOMAIN (s \o z) = 1..(Len(s) + Len(z))
      BY <1>1
    <3> QED BY <3>1 DEF ToSet
  <2>2. x \in ToSet(s) <=> \E i \in 1..Len(s) : s[i] = x
    BY ToSetElement
  <2>3. x \in ToSet(z) <=> \E i \in 1..Len(z) : z[i] = x
    BY ToSetElement
  <2>4. ASSUME NEW i \in 1..(Len(s) + Len(z)), (s \o z)[i] = x, i > Len(s)
        PROVE  z[i - Len(s)] = x /\ i - Len(s) \in 1..Len(z)
    <3>1. i - Len(s) \in 1..Len(z) /\ Len(s) + (i - Len(s)) = i
      BY <1>1, <2>4
    <3> QED BY <1>1, <2>4, <3>1
  <2>5. x \in ToSet(s \o z) => x \in ToSet(s) \cup ToSet(z)
    <3>1. ASSUME NEW i \in 1..(Len(s) + Len(z)), (s \o z)[i] = x PROVE x \in ToSet(s) \cup ToSet(z)
      <4>1. CASE i <= Len(s)
        BY <1>1, <2>2, <3>1, <4>1
      <4>2. CASE i > Len(s)
        BY <2>3, <2>4, <3>1, <4>2
      <4> QED BY <1>1, <4>1, <4>2
    <3> QED BY <2>1, <3>1
  <2>6. x \in ToSet(z) => x \in ToSet(s \o z)
    <3>1. ASSUME NEW i \in 1..Len(z), z[i] = x PROVE x \in ToSet(s \o z)
      <4>1. Len(s) + i \in 1..(Len(s) + Len(z)) /\ (s \o z)[Len(s) + i] = x
        BY <1>1, <3>1
      <4> QED BY <2>1, <4>1
    <3> QED BY <2>3, <3>1
  <2> QED BY <1>1, <2>1, <2>2, <2>5, <2>6
<1> QED BY <1>2

LEMMA ToSetTail ==
    ASSUME NEW S, NEW s \in Seq(S), s # <<>>
    PROVE  /\ Head(s) \in S /\ Tail(s) \in Seq(S) /\ Len(Tail(s)) = Len(s) - 1
           /\ ToSet(s) = {Head(s)} \cup ToSet(Tail(s))
<1>1. /\ Head(s) \in S /\ Tail(s) \in Seq(S) /\ Len(Tail(s)) = Len(s) - 1 /\ Len(s) \in Nat \ {0}
      /\ Head(s) = s[1] /\ \A i \in 1..(Len(s) - 1) : Tail(s)[i] = s[i + 1]
  OBVIOUS
<1>2. ASSUME NEW x PROVE x \in ToSet(s) <=> x \in {Head(s)} \cup ToSet(Tail(s))
  <2>1. x \in ToSet(s) <=> \E i \in 1..Len(s) : s[i] = x
    BY ToSetElement
  <2>2. x \in ToSet(Tail(s)) <=> \E i \in 1..(Len(s) - 1) : Tail(s)[i] = x
    <3>1. DOMAIN Tail(s) = 1..(Len(s) - 1)
      BY <1>1
    <3> QED BY <3>1 DEF ToSet
  <2>3. ASSUME NEW i \in 1..Len(s), s[i] = x, i # 1 PROVE x \in ToSet(Tail(s))
    <3>1. i - 1 \in 1..(Len(s) - 1) /\ (i - 1) + 1 = i
      BY <1>1, <2>3
    <3> QED BY <1>1, <2>2, <2>3, <3>1
  <2>4. ASSUME NEW i \in 1..(Len(s) - 1), Tail(s)[i] = x PROVE x \in ToSet(s)
    <3>1. i + 1 \in 1..Len(s) /\ s[i + 1] = x
      BY <1>1, <2>4
    <3> QED BY <2>1, <3>1
  <2>5. 1 \in 1..Len(s)
    BY <1>1
  <2> QED BY <1>1, <2>1, <2>2, <2>3, <2>4, <2>5
<1> QED BY <1>1, <1>2

LEMMA ToSetRemoveAt ==
    ASSUME NEW S, NEW s \in Seq(S), NEW k \in DOMAIN s
    PROVE  s[k] \in S /\ ToSet(s) = {s[k]} \cup ToSet(RemoveAt(s, k))
<1>1. /\ Len(s) \in Nat /\ k \in 1..Len(s) /\ s[k] \in S
      /\ RemoveAt(s, k) \in Seq(S) /\ Len(RemoveAt(s, k)) = Len(s) - 1
      /\ \A i \in 1..(Len(s) - 1) : RemoveAt(s, k)[i] = IF i < k THEN s[i] ELSE s[i + 1]
  BY RemoveAtType, RemoveAtElements
<1>2. ASSUME NEW x PROVE x \in ToSet(s) <=> x \in {s[k]} \cup ToSet(RemoveAt(s, k))
  <2>1. x \in ToSet(s) <=> \E i \in 1..Len(s) : s[i] = x
    BY ToSetElement
  <2>2. x \in ToSet(RemoveAt(s, k)) <=> \E i \in 1..(Len(s) - 1) : RemoveAt(s, k)[i] = x
    BY <1>1, ToSetElement
  <2>3. ASSUME NEW i \in 1..Len(s), s[i] = x, i # k PROVE x \in ToSet(RemoveAt(s, k))
    <3>1. CASE i < k
      BY <1>1, <2>2, <2>3, <3>1
    <3>2. CASE i > k
      <4>1. i - 1 \in 1..(Len(s) - 1) /\ ~(i - 1 < k) /\ (i - 1) + 1 = i
        BY <1>1, <2>3, <3>2
      <4> QED BY <1>1, <2>2, <2>3, <4>1
    <3> QED BY <1>1, <2>3, <3>1, <3>2
  <2>4. ASSUME NEW i \in 1..(Len(s) - 1), RemoveAt(s, k)[i] = x PROVE x \in ToSet(s)
    <3>1. i \in 1..Len(s) /\ i + 1 \in 1..Len(s)
      BY <1>1, <2>4
    <3> QED BY <1>1, <2>1, <2>4, <3>1
  <2> QED BY <1>1, <2>1, <2>2, <2>3, <2>4
<1> QED BY <1>1, <1>2

LEMMA RemoveAtKeeps ==
    ASSUME NEW S, NEW s \in Seq(S), NEW k \in DOMAIN s, NEW i \in DOMAIN s, i # k
    PROVE  s[i] \in ToSet(RemoveAt(s, k))
<1>1. /\ RemoveAt(s, k) \in Seq(S) /\ Len(RemoveAt(s, k)) = Len(s) - 1
      /\ \A n \in 1..(Len(s) - 1) : RemoveAt(s, k)[n] = IF n < k THEN s[n] ELSE s[n + 1]
  BY RemoveAtType, RemoveAtElements
<1>2. CASE i < k
  <2>1. i \in 1..(Len(s) - 1) /\ RemoveAt(s, k)[i] = s[i]
    BY <1>1, <1>2
  <2> QED BY <1>1, <2>1, ToSetElement
<1>3. CASE i > k
  <2>1. i - 1 \in 1..(Len(s) - 1) /\ RemoveAt(s, k)[i - 1] = s[i]
    BY <1>1, <1>3
  <2> QED BY <1>1, <2>1, ToSetElement
<1> QED BY <1>2, <1>3

\* A sequence cut in two loses none of its elements.
LEMMA ToSetSplit ==
    ASSUME NEW S, NEW s \in Seq(S), NEW n \in Nat, NEW i \in 1..Len(s)
    PROVE  IF i <= n THEN s[i] \in ToSet(SubSeq(s, 1, IF n < Len(s) THEN n ELSE Len(s)))
                     ELSE s[i] \in ToSet(SubSeq(s, n + 1, Len(s)))
<1>1. Len(s) \in Nat
  OBVIOUS
<1>2. CASE i <= n
  <2> DEFINE m == IF n < Len(s) THEN n ELSE Len(s)
  <2>1. m \in Nat /\ i <= m /\ m <= Len(s)
    BY <1>1, <1>2
  <2>2. SubSeq(s, 1, m) \in Seq(S) /\ Len(SubSeq(s, 1, m)) = m /\ SubSeq(s, 1, m)[i] = s[i]
    BY <1>1, <2>1
  <2> HIDE DEF m
  <2>3. s[i] \in ToSet(SubSeq(s, 1, m))
    <3>1. i \in DOMAIN SubSeq(s, 1, m)
      BY <2>1, <2>2
    <3> QED BY <2>2, <3>1 DEF ToSet
  <2> QED BY <1>2, <2>3 DEF m
<1>3. CASE i > n
  <2> DEFINE z == SubSeq(s, n + 1, Len(s))
  <2>1. z \in Seq(S) /\ Len(z) = Len(s) - n /\ i - n \in 1..(Len(s) - n) /\ z[i - n] = s[n + 1 + (i - n) - 1]
    BY <1>1, <1>3
  <2>2. n + 1 + (i - n) - 1 = i
    BY <1>1
  <2> HIDE DEF z
  <2>3. s[i] \in ToSet(z)
    BY <2>1, <2>2, ToSetElement
  <2> QED BY <1>3, <2>3 DEF z
<1> QED BY <1>1, <1>2, <1>3

\* The elements of a prefix, of a concatenation and of the two parts of a cut.
LEMMA PrefixElements ==
    ASSUME NEW S, NEW s \in Seq(S), NEW n \in 0..Len(s)
    PROVE  /\ SubSeq(s, 1, n) \in Seq(S) /\ Len(SubSeq(s, 1, n)) = n
           /\ \A i \in 1..n : SubSeq(s, 1, n)[i] = s[i]
<1>1. Len(s) \in Nat /\ n \in Nat /\ \A i \in 1..n : s[i] \in S
  OBVIOUS
<1>2. /\ SubSeq(s, 1, n) \in Seq(S) /\ Len(SubSeq(s, 1, n)) = IF 1 <= n THEN n - 1 + 1 ELSE 0
      /\ \A i \in 1..(n - 1 + 1) : SubSeq(s, 1, n)[i] = s[1 + i - 1]
  BY <1>1, SubSeqProperties
<1>3. \A i \in 1..n : i \in 1..(n - 1 + 1) /\ 1 + i - 1 = i
  BY <1>1
<1>4. (IF 1 <= n THEN n - 1 + 1 ELSE 0) = n
  BY <1>1
<1> QED BY <1>2, <1>3, <1>4

LEMMA ConcatElements ==
    ASSUME NEW S, NEW s \in Seq(S), NEW z \in Seq(S)
    PROVE  /\ s \o z \in Seq(S) /\ Len(s \o z) = Len(s) + Len(z) /\ Len(s) \in Nat /\ Len(z) \in Nat
           /\ \A i \in 1..Len(s) : (s \o z)[i] = s[i]
           /\ \A i \in 1..Len(z) : (s \o z)[Len(s) + i] = z[i]
<1>1. /\ s \o z \in Seq(S) /\ Len(s \o z) = Len(s) + Len(z)
      /\ \A i \in 1..(Len(s) + Len(z)) : (s \o z)[i] = IF i <= Len(s) THEN s[i] ELSE z[i - Len(s)]
  BY ConcatProperties
<1>2. Len(s) \in Nat /\ Len(z) \in Nat
  OBVIOUS
<1>3. \A i \in 1..Len(s) : i \in 1..(Len(s) + Len(z)) /\ i <= Len(s)
  BY <1>2
<1>4. \A i \in 1..Len(z) : Len(s) + i \in 1..(Len(s) + Len(z)) /\ ~(Len(s) + i <= Len(s)) /\ Len(s) + i - Len(s) = i
  BY <1>2
<1> QED BY <1>1, <1>2, <1>3, <1>4

LEMMA CutConcat ==
    ASSUME NEW S, NEW s \in Seq(S), NEW n \in 0..Len(s)
    PROVE  /\ SubSeq(s, n + 1, Len(s)) \in Seq(S) /\ Len(SubSeq(s, n + 1, Len(s))) = Len(s) - n
           /\ s = SubSeq(s, 1, n) \o SubSeq(s, n + 1, Len(s))
<1>1. Len(s) \in Nat /\ n \in Nat /\ n <= Len(s)
  OBVIOUS
<1>2. SubSeq(s, 1, Len(s)) = s
  BY SubSeqFull
<1>3. 1 \in 1..(Len(s) + 1) /\ n \in (1 - 1)..Len(s) /\ Len(s) \in n..Len(s)
  BY <1>1
<1>4. SubSeq(s, 1, n) \o SubSeq(s, n + 1, Len(s)) = SubSeq(s, 1, Len(s))
  BY <1>3, ConcatAdjacentSubSeq
<1>5. \A i \in (n + 1)..Len(s) : s[i] \in S
  BY <1>1
<1>6. SubSeq(s, n + 1, Len(s)) \in Seq(S)
  BY <1>1, <1>5, SubSeqProperties
<1>7. Len(SubSeq(s, n + 1, Len(s))) = IF n + 1 <= Len(s) THEN Len(s) - (n + 1) + 1 ELSE 0
  BY <1>1, <1>5, SubSeqProperties
<1>8. Len(SubSeq(s, n + 1, Len(s))) = Len(s) - n
  <2>1. \A a, b \in Nat : a <= b => (IF a + 1 <= b THEN b - (a + 1) + 1 ELSE 0) = b - a
    OBVIOUS
  <2>2. (IF n + 1 <= Len(s) THEN Len(s) - (n + 1) + 1 ELSE 0) = Len(s) - n
    BY <1>1, <2>1
  <2> QED BY <1>7, <2>2
<1>9. s = SubSeq(s, 1, n) \o SubSeq(s, n + 1, Len(s))
  BY <1>2, <1>4, Zenon
<1> QED BY <1>6, <1>8, <1>9

------------------------------------------------------------------------------
(* Sequences without repetition *)

LEMMA InjectiveEmpty == IsInjective(<<>>)
BY DEF IsInjective

LEMMA InjectiveAppend ==
    ASSUME NEW S, NEW s \in Seq(S), NEW e \in S, IsInjective(s), e \notin ToSet(s)
    PROVE  IsInjective(Append(s, e))
<1>1. /\ DOMAIN Append(s, e) = 1..(Len(s) + 1) /\ Len(s) \in Nat /\ DOMAIN s = 1..Len(s)
      /\ \A i \in 1..Len(s) : Append(s, e)[i] = s[i]
      /\ Append(s, e)[Len(s) + 1] = e
  OBVIOUS
<1>2. \A i \in 1..Len(s) : s[i] # e
  BY ToSetElement
<1>3. \A i, j \in 1..Len(s) : s[i] = s[j] => i = j
  BY <1>1 DEF IsInjective
<1>4. \A i \in 1..(Len(s) + 1) : i \in 1..Len(s) \/ i = Len(s) + 1
  BY <1>1
<1> QED BY <1>1, <1>2, <1>3, <1>4 DEF IsInjective

LEMMA InjectiveConcat ==
    ASSUME NEW S, NEW s \in Seq(S), NEW z \in Seq(S), IsInjective(s), IsInjective(z),
           ToSet(s) \cap ToSet(z) = {}
    PROVE  IsInjective(s \o z)
<1> DEFINE n == Len(s)  c == s \o z
<1>1. /\ DOMAIN c = 1..(n + Len(z)) /\ n \in Nat /\ Len(z) \in Nat
      /\ DOMAIN s = 1..n /\ DOMAIN z = 1..Len(z)
      /\ \A i \in 1..n : c[i] = s[i]
  OBVIOUS
<1>2. \A i \in 1..(n + Len(z)) : ~(i \in 1..n) => i - n \in 1..Len(z) /\ c[i] = z[i - n]
  <2>1. \A i \in 1..(n + Len(z)) : c[i] = IF i <= n THEN s[i] ELSE z[i - n]
    BY ConcatProperties
  <2> HIDE DEF n, c
  <2> QED BY <1>1, <2>1
<1>3. \A i, j \in 1..n : s[i] = s[j] => i = j
  BY <1>1 DEF IsInjective
<1>4. \A i, j \in 1..Len(z) : z[i] = z[j] => i = j
  BY <1>1 DEF IsInjective
<1>5. \A i \in 1..n, j \in 1..Len(z) : s[i] # z[j]
  BY <1>1 DEF ToSet
<1> HIDE DEF n, c
<1>6. ASSUME NEW i \in 1..(n + Len(z)), NEW j \in 1..(n + Len(z)), c[i] = c[j] PROVE i = j
  <2>1. CASE i \in 1..n /\ j \in 1..n
    BY <1>1, <1>3, <1>6, <2>1
  <2>2. CASE i \in 1..n /\ j \notin 1..n
    BY <1>1, <1>2, <1>5, <1>6, <2>2
  <2>3. CASE i \notin 1..n /\ j \in 1..n
    BY <1>1, <1>2, <1>5, <1>6, <2>3
  <2>4. CASE i \notin 1..n /\ j \notin 1..n
    <3>1. i - n = j - n
      BY <1>2, <1>4, <1>6, <2>4
    <3> QED BY <1>1, <3>1
  <2> QED BY <2>1, <2>2, <2>3, <2>4
<1> QED BY <1>1, <1>6 DEF IsInjective, c

LEMMA InjectiveSubSeq ==
    ASSUME NEW S, NEW s \in Seq(S), NEW m \in 1..(Len(s) + 1), NEW n \in 0..Len(s), IsInjective(s)
    PROVE  /\ SubSeq(s, m, n) \in Seq(S) /\ IsInjective(SubSeq(s, m, n))
           /\ ToSet(SubSeq(s, m, n)) = {s[i] : i \in m..n}
<1> DEFINE z == SubSeq(s, m, n)  l == IF m <= n THEN n - m + 1 ELSE 0
<1>1. /\ Len(s) \in Nat /\ m \in Int /\ n \in Int /\ l \in Nat /\ DOMAIN s = 1..Len(s)
      /\ \A i, j \in 1..Len(s) : s[i] = s[j] => i = j
  BY DEF IsInjective
<1>2. z \in Seq(S) /\ DOMAIN z = 1..l /\ \A i \in 1..l : z[i] = s[m + i - 1]
  OBVIOUS
<1>3. \A i \in 1..l : m + i - 1 \in m..n /\ m + i - 1 \in 1..Len(s)
  BY <1>1
<1> HIDE DEF z
<1>4. IsInjective(z)
  <2>1. ASSUME NEW i \in 1..l, NEW j \in 1..l, z[i] = z[j] PROVE i = j
    <3>1. m + i - 1 = m + j - 1
      BY <1>1, <1>2, <1>3, <2>1
    <3> QED BY <1>1, <3>1
  <2> QED BY <1>2, <2>1 DEF IsInjective
<1>5. ToSet(z) = {s[i] : i \in m..n}
  <2>1. ASSUME NEW x \in ToSet(z) PROVE x \in {s[i] : i \in m..n}
    BY <1>2, <1>3, <2>1 DEF ToSet
  <2>2. ASSUME NEW i \in m..n PROVE s[i] \in ToSet(z)
    <3>1. i - m + 1 \in 1..l /\ m + (i - m + 1) - 1 = i
      BY <1>1
    <3> QED BY <1>2, <3>1 DEF ToSet
  <2> QED BY <2>1, <2>2
<1> QED BY <1>2, <1>4, <1>5 DEF z

LEMMA InjectiveRemoveAt ==
    ASSUME NEW S, NEW s \in Seq(S), NEW k \in DOMAIN s, IsInjective(s)
    PROVE  /\ IsInjective(RemoveAt(s, k))
           /\ ToSet(RemoveAt(s, k)) = ToSet(s) \ {s[k]}
<1> DEFINE z == RemoveAt(s, k)
<1>1. /\ Len(s) \in Nat /\ k \in 1..Len(s) /\ DOMAIN s = 1..Len(s)
      /\ \A i, j \in 1..Len(s) : s[i] = s[j] => i = j
  BY DEF IsInjective
<1>2. DOMAIN z = 1..(Len(s) - 1) /\ \A i \in 1..(Len(s) - 1) : z[i] = IF i < k THEN s[i] ELSE s[i + 1]
  <2>1. z \in Seq(S) /\ Len(z) = Len(s) - 1
    BY RemoveAtType
  <2>2. \A i \in 1..(Len(s) - 1) : z[i] = IF i < k THEN s[i] ELSE s[i + 1]
    BY RemoveAtElements
  <2> HIDE DEF z
  <2> QED BY <1>1, <2>1, <2>2
<1> HIDE DEF z
<1>3. \A i \in 1..(Len(s) - 1) : \E j \in 1..Len(s) : j = (IF i < k THEN i ELSE i + 1) /\ j # k /\ z[i] = s[j]
  BY <1>1, <1>2
<1>4. IsInjective(z)
  <2>1. ASSUME NEW i \in 1..(Len(s) - 1), NEW j \in 1..(Len(s) - 1), z[i] = z[j] PROVE i = j
    <3>1. (IF i < k THEN i ELSE i + 1) = (IF j < k THEN j ELSE j + 1)
      BY <1>1, <1>3, <2>1
    <3> QED BY <1>1, <3>1
  <2> QED BY <1>2, <2>1 DEF IsInjective
<1>5. s[k] \notin ToSet(z)
  BY <1>1, <1>2, <1>3 DEF ToSet
<1>6. ToSet(s) = {s[k]} \cup ToSet(z)
  BY ToSetRemoveAt DEF z
<1> QED BY <1>4, <1>5, <1>6 DEF z

LEMMA InjectiveTail ==
    ASSUME NEW S, NEW s \in Seq(S), s # <<>>, IsInjective(s)
    PROVE  IsInjective(Tail(s)) /\ ToSet(Tail(s)) = ToSet(s) \ {Head(s)}
<1>1. 1 \in DOMAIN s /\ Head(s) = s[1]
  OBVIOUS
<1>2. Tail(s) = RemoveAt(s, 1)
  BY RemoveAtHead
<1> QED BY <1>1, <1>2, InjectiveRemoveAt

==============================================================================
