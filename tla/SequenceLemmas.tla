--------------------------- MODULE SequenceLemmas ---------------------------
(* What erasing, appending, cutting and concatenating do to sequences, and   *)
(* the induction over numbers that this needs.                              *)
EXTENDS SequencesExt, SequenceTheorems, FiniteSetTheorems, TLAPS

\* Removing position i of a sequence moves the later elements one down.
LEMMA RemoveAtProperties ==
  ASSUME NEW S, NEW s \in Seq(S), NEW i \in 1..Len(s)
  PROVE  /\ RemoveAt(s, i) \in Seq(S)
         /\ Len(RemoveAt(s, i)) = Len(s) - 1
         /\ \A j \in 1..Len(s)-1 :
              RemoveAt(s, i)[j] = IF j < i THEN s[j] ELSE s[j+1]
<1> DEFINE front == SubSeq(s, 1, i-1)
           back  == SubSeq(s, i+1, Len(s))
<1>1. /\ front \in Seq(S)
      /\ Len(front) = i-1
      /\ \A j \in 1..i-1 : front[j] = s[j]
  BY SubSeqProperties, ElementOfSeq
<1>2. /\ back \in Seq(S)
      /\ Len(back) = Len(s) - i
      /\ \A j \in 1..Len(s)-i : back[j] = s[i+j]
  BY SubSeqProperties, ElementOfSeq
<1>3. RemoveAt(s, i) = front \o back
  BY DEF RemoveAt
<1>. HIDE DEF front, back
<1>4. /\ front \o back \in Seq(S)
      /\ Len(front \o back) = Len(front) + Len(back)
      /\ \A j \in 1..Len(front)+Len(back) :
           (front \o back)[j] =
             IF j <= Len(front) THEN front[j] ELSE back[j - Len(front)]
  BY <1>1, <1>2, ConcatProperties, Zenon
<1>5. Len(front) + Len(back) = Len(s) - 1
  BY <1>1, <1>2
<1>6. ASSUME NEW j \in 1..Len(s)-1
      PROVE  (front \o back)[j] = IF j < i THEN s[j] ELSE s[j+1]
  <2>1. CASE j < i
    BY <1>1, <1>4, <1>5, <2>1
  <2>2. CASE ~(j < i)
    <3> DEFINE k == j - Len(front)
    <3>1. k \in 1..Len(s)-i /\ i + k = j + 1
      BY <1>1, <2>2
    <3>2. (front \o back)[j] = back[k]
      BY <1>1, <1>4, <1>5, <2>2
    <3>. HIDE DEF k
    <3>3. back[k] = s[i+k]
      BY <1>2, <3>1
    <3>. QED
      BY <2>2, <3>1, <3>2, <3>3
  <2>. QED
    BY <2>1, <2>2
<1>. QED
  BY <1>3, <1>4, <1>5, <1>6

\* Erasing the front is taking the tail.
LEMMA RemoveFront ==
  ASSUME NEW S, NEW s \in Seq(S), s # <<>>
  PROVE  RemoveAt(s, 1) = Tail(s)
<1>1. Len(s) \in Nat \ {0}
  BY EmptySeq
<1>2. /\ RemoveAt(s, 1) \in Seq(S)
      /\ Len(RemoveAt(s, 1)) = Len(s) - 1
      /\ \A j \in 1..Len(s)-1 : RemoveAt(s, 1)[j] = s[j+1]
  BY <1>1, RemoveAtProperties
<1>3. /\ Tail(s) \in Seq(S)
      /\ Len(Tail(s)) = Len(s) - 1
      /\ \A j \in 1..Len(s)-1 : Tail(s)[j] = s[j+1]
  BY HeadTailProperties
<1>. QED
  BY <1>2, <1>3, SeqEqual

\* Appending adds one element, at the end.
LEMMA AppendElements ==
  ASSUME NEW S, NEW s \in Seq(S), NEW e \in S
  PROVE  /\ ToSet(Append(s, e)) = ToSet(s) \cup {e}
         /\ IsInjective(s) /\ e \notin ToSet(s) => IsInjective(Append(s, e))
<1>1. /\ Append(s, e) \in Seq(S)
      /\ Len(Append(s, e)) = Len(s) + 1 /\ Len(s) \in Nat
      /\ \A j \in 1..Len(s) : Append(s, e)[j] = s[j]
      /\ Append(s, e)[Len(s) + 1] = e
  BY AppendProperties
<1>2. DOMAIN s = 1..Len(s) /\ DOMAIN Append(s, e) = 1..Len(s)+1
  BY <1>1
<1>. DEFINE t == Append(s, e)
<1>. HIDE DEF t
<1>3. ToSet(t) = ToSet(s) \cup {e}
  BY <1>1, <1>2 DEF ToSet, t
<1>4. ASSUME IsInjective(s), e \notin ToSet(s),
             NEW i \in 1..Len(s)+1, NEW j \in 1..Len(s)+1, t[i] = t[j]
      PROVE  i = j
  <2>1. \A k \in 1..Len(s) : t[k] = s[k] /\ s[k] # e
    BY <1>1, <1>2, <1>4 DEF ToSet, t
  <2>2. t[Len(s) + 1] = e
    BY <1>1 DEF t
  <2>3. CASE i \in 1..Len(s) /\ j \in 1..Len(s)
    BY <1>2, <1>4, <2>1, <2>3 DEF IsInjective
  <2>4. CASE i = Len(s) + 1 \/ j = Len(s) + 1
    BY <1>1, <1>4, <2>1, <2>2, <2>4
  <2>. QED
    BY <1>1, <2>3, <2>4
<1>5. DOMAIN t = 1..Len(s)+1
  BY <1>2 DEF t
<1>. QED
  BY <1>3, <1>4, <1>5 DEF IsInjective, t

\* Erasing an element adds none; where all differ, it leaves none equal to it.
LEMMA RemoveAtElements ==
  ASSUME NEW S, NEW s \in Seq(S), NEW i \in 1..Len(s)
  PROVE  /\ ToSet(RemoveAt(s, i)) \subseteq ToSet(s)
         /\ IsInjective(s) => IsInjective(RemoveAt(s, i))
         /\ IsInjective(s) => ToSet(RemoveAt(s, i)) = ToSet(s) \ {s[i]}
<1>. DEFINE t == RemoveAt(s, i)
            Old(j) == IF j < i THEN j ELSE j+1
<1>1. /\ DOMAIN s = 1..Len(s) /\ Len(s) \in Nat
      /\ DOMAIN t = 1..Len(s)-1
      /\ \A j \in 1..Len(s)-1 : t[j] = IF j < i THEN s[j] ELSE s[j+1]
  BY RemoveAtProperties
<1>. HIDE DEF t
<1>2. \A j \in DOMAIN t : /\ Old(j) \in DOMAIN s /\ Old(j) # i
                          /\ t[j] = s[Old(j)]
  BY <1>1
<1>3. \A j, k \in DOMAIN t : Old(j) = Old(k) => j = k
  BY <1>1
<1>4. \A k \in DOMAIN s : k # i => \E j \in DOMAIN t : Old(j) = k
  <2> SUFFICES ASSUME NEW k \in DOMAIN s, k # i
               PROVE  \E j \in DOMAIN t : Old(j) = k
    OBVIOUS
  <2>1. CASE k < i
    BY <1>1, <2>1
  <2>2. CASE k > i
    <3>1. k - 1 \in DOMAIN t /\ Old(k - 1) = k
      BY <1>1, <2>2
    <3>. QED
      BY <3>1
  <2>. QED
    BY <1>1, <2>1, <2>2
<1>5. i \in DOMAIN s
  BY <1>1
<1>. HIDE DEF Old
<1>6. ToSet(t) \subseteq ToSet(s)
  BY <1>2 DEF ToSet
<1>7. IsInjective(s) => IsInjective(t)
  BY <1>2, <1>3 DEF IsInjective
<1>8. IsInjective(s) => ToSet(t) = ToSet(s) \ {s[i]}
  <2> SUFFICES ASSUME IsInjective(s)
               PROVE  ToSet(t) = ToSet(s) \ {s[i]}
    OBVIOUS
  <2>1. \A j \in DOMAIN t : t[j] # s[i]
    BY <1>2, <1>5 DEF IsInjective
  <2>2. \A k \in DOMAIN s : s[k] # s[i] => \E j \in DOMAIN t : t[j] = s[k]
    BY <1>2, <1>4
  <2>. QED
    BY <1>6, <2>1, <2>2 DEF ToSet
<1>. QED
  BY <1>6, <1>7, <1>8 DEF t

\* Moving the front to the back keeps the elements, each as often as before.
LEMMA RotationElements ==
  ASSUME NEW S, NEW s \in Seq(S), s # <<>>
  PROVE  /\ Append(Tail(s), Head(s)) \in Seq(S)
         /\ ToSet(Append(Tail(s), Head(s))) = ToSet(s)
         /\ IsInjective(s) => IsInjective(Append(Tail(s), Head(s)))
<1>1. Tail(s) \in Seq(S) /\ Head(s) \in S /\ Head(s) = s[1] /\ 1 \in 1..Len(s)
  BY HeadTailProperties, EmptySeq
<1>2. Tail(s) = RemoveAt(s, 1)
  BY RemoveFront
<1>3. /\ DOMAIN s = 1..Len(s) /\ Len(s) \in Nat \ {0} /\ DOMAIN Tail(s) = 1..Len(s)-1
      /\ \A j \in 1..Len(s)-1 : Tail(s)[j] = s[j+1]
  BY HeadTailProperties, EmptySeq
<1>. DEFINE h == s[1]
            r == Tail(s)
<1>4. ToSet(r) \cup {h} = ToSet(s)
  <2>1. \A k \in DOMAIN s : k = 1 \/ \E j \in DOMAIN r : s[k] = r[j]
    <3>1. \A k \in 1..Len(s) : k = 1 \/ (k-1 \in 1..Len(s)-1 /\ s[k] = Tail(s)[k-1])
      BY <1>3
    <3>. QED
      BY <1>3, <3>1
  <2>2. \A j \in DOMAIN r : \E k \in DOMAIN s : r[j] = s[k]
    BY <1>3
  <2>3. 1 \in DOMAIN s
    BY <1>3
  <2>. HIDE DEF r
  <2>4. ASSUME NEW e \in ToSet(s)
        PROVE  e \in ToSet(r) \cup {h}
    <3>1. PICK k \in DOMAIN s : e = s[k]
      BY <2>4 DEF ToSet
    <3>. QED
      BY <2>1, <3>1 DEF ToSet
  <2>5. ASSUME NEW e \in ToSet(r) \cup {h}
        PROVE  e \in ToSet(s)
    BY <2>2, <2>3, <2>5 DEF ToSet
  <2>. QED
    BY <2>4, <2>5
<1>5. IsInjective(s) => IsInjective(r) /\ h \notin ToSet(r)
  <2>1. /\ IsInjective(s) => IsInjective(RemoveAt(s, 1))
        /\ IsInjective(s) => ToSet(RemoveAt(s, 1)) = ToSet(s) \ {s[1]}
    BY <1>1, RemoveAtElements, Zenon
  <2>. QED
    BY <1>2, <2>1, Zenon
<1>6. r \in Seq(S) /\ h \in S
  BY <1>1
<1>7. Append(Tail(s), Head(s)) = Append(r, h)
  BY <1>1
<1>. HIDE DEF r, h
<1>8. /\ ToSet(Append(r, h)) = ToSet(r) \cup {h}
      /\ IsInjective(r) /\ h \notin ToSet(r) => IsInjective(Append(r, h))
  BY <1>6, AppendElements
<1>9. Append(r, h) \in Seq(S)
  BY <1>6, AppendProperties
<1>. QED
  BY <1>4, <1>5, <1>7, <1>8, <1>9

\* Dropping the last element keeps the others where they are.
LEMMA FrontProperties ==
  ASSUME NEW S, NEW s \in Seq(S), s # <<>>
  PROVE  /\ Front(s) \in Seq(S)
         /\ Len(s) \in Nat \ {0} /\ Len(Front(s)) = Len(s) - 1
         /\ \A i \in 1..Len(s)-1 : Front(s)[i] = s[i]
         /\ Last(s) = s[Len(s)] /\ Last(s) \in S
<1>1. Len(s) \in Nat \ {0}
  BY EmptySeq
<1>. DEFINE a == 1
            b == Len(s) - 1
<1>2. a = 1 /\ b = Len(s) - 1 /\ a \in Int /\ b \in Int
  BY <1>1
<1>3. \A i \in a..b : s[i] \in S
  BY <1>1, ElementOfSeq
<1>4. Front(s) = SubSeq(s, a, b)
  BY DEF Front
<1>. HIDE DEF a, b
<1>5. /\ SubSeq(s, a, b) \in Seq(S)
      /\ Len(SubSeq(s, a, b)) = IF a <= b THEN b-a+1 ELSE 0
      /\ \A i \in 1..b-a+1 : SubSeq(s, a, b)[i] = s[a+i-1]
  BY <1>2, <1>3, SubSeqProperties
<1>. DEFINE f == SubSeq(s, a, b)
<1>6. f \in Seq(S) /\ f = Front(s)
  BY <1>4, <1>5
<1>. HIDE DEF f
<1>7. /\ Len(f) = IF a <= b THEN b-a+1 ELSE 0
      /\ \A i \in 1..b-a+1 : f[i] = s[a+i-1]
  BY <1>5 DEF f
<1>8. Len(f) = Len(s) - 1
  BY <1>1, <1>2, <1>7
<1>9. \A i \in 1..Len(s)-1 : f[i] = s[i]
  BY <1>1, <1>2, <1>7
<1>10. Last(s) = s[Len(s)] /\ Last(s) \in S
  BY <1>1, ElementOfSeq DEF Last
<1>. QED
  BY <1>1, <1>6, <1>8, <1>9, <1>10

\* A set of natural numbers has a least element.
LEMMA LeastElement ==
  ASSUME NEW S, S \subseteq Nat, S # {}
  PROVE  \E n \in S : \A m \in S : n <= m
<1>1. PICK b \in S : TRUE
  OBVIOUS
<1> DEFINE F == FiniteSubsetsOf(0 .. b)
<1>2. IsFiniteSet(0 .. b)
  BY FS_Interval
<1>3. \A X \in SUBSET (0 .. b) : IsFiniteSet(X)
  BY <1>2, FS_Subset
<1> DEFINE Below(n) == {k \in S : k <= n}
<1>4. ASSUME NEW n \in Below(b) PROVE Below(n) \subseteq 0 .. b
  <2>1. n \in Nat /\ b \in Nat /\ n <= b
    OBVIOUS
  <2>2. \A k \in Nat : k <= n => k \in 0 .. b
    BY <2>1
  <2> QED
    BY <2>2
<1> DEFINE All == {X \in F : \E n \in S : n \in X /\ X = Below(n)}
<1>5. All \subseteq F
  OBVIOUS
<1>6. \A n \in Below(b) : Below(n) \in All
  <2> SUFFICES ASSUME NEW n \in Below(b) PROVE Below(n) \in All OBVIOUS
  <2>1. Below(n) \subseteq 0 .. b
    BY <1>4
  <2>2. n \in Below(n)
    OBVIOUS
  <2> HIDE DEF Below
  <2>3. Below(n) \in F
    BY <2>1, <1>3 DEF FiniteSubsetsOf
  <2> QED
    BY <2>2, <2>3 DEF Below
<1>7. All # {} 
  <2>1. b \in Below(b)
    OBVIOUS
  <2> QED
    BY <2>1, <1>6
<1>8. IsWellFoundedOn(StrictSubsetOrdering(0 .. b), F)
  BY FS_StrictSubsetOrderingWellFounded
<1> HIDE DEF All, F
<1>9. PICK X \in All : \A Y \in All : <<Y, X>> \notin StrictSubsetOrdering(0 .. b)
  BY <1>5, <1>7, <1>8, WFMin, Zenon
<1>10. PICK n \in Below(b) : X = Below(n)
  BY DEF All, F, FiniteSubsetsOf
<1>11. ASSUME NEW m \in S, m < n PROVE FALSE
  <2>1. Below(m) \in All 
    BY <1>11, <1>6
  <2>4. Below(m) \subseteq 0 .. b /\ X \subseteq 0 .. b 
    <3>1. m \in Below(b) 
      <4>1. m \in Nat /\ n \in Nat /\ b \in Nat /\ n <= b /\ m < n
        BY <1>11
      <4> QED
        BY <4>1
    <3> HIDE DEF Below
    <3> QED
      BY <3>1, <1>10, <1>4
  <2>2. Below(m) \subseteq X /\ n \in X /\ n \notin Below(m)
    <3>1. m \in Nat /\ n \in Nat /\ m < n /\ n \in S
      BY <1>11
    <3>2. \A k \in Nat : k <= m => k <= n
      BY <3>1
    <3>3. Below(m) \subseteq Below(n)
      BY <3>2
    <3>4. n \in Below(n) /\ n \notin Below(m)
      BY <3>1
    <3> QED
      BY <3>3, <3>4, <1>10
  <2> HIDE DEF Below
  <2>3. <<Below(m), X>> \in StrictSubsetOrdering(0 .. b)
    BY <2>4, <2>2 DEF StrictSubsetOrdering
  <2> QED
    BY <2>1, <2>3, <1>9
<1> QED
  BY <1>10, <1>11

\* Min yields it.
LEMMA MinIsLeast ==
  ASSUME NEW S, S \subseteq Nat, S # {}
  PROVE  Min(S) \in S /\ \A m \in S : Min(S) <= m
  BY LeastElement, Zenon DEF Min

\* A suffix, by its elements.
LEMMA SuffixElements ==
  ASSUME NEW S, NEW s \in Seq(S), NEW t \in Seq(S)
  PROVE  IsSuffix(s, t) <=>
           /\ Len(s) <= Len(t)
           /\ \A i \in 1..Len(s) : s[Len(s) - i + 1] = t[Len(t) - i + 1]
<1> DEFINE r == Reverse(s)
           u == Reverse(t)
<1>1. /\ Len(s) \in Nat /\ Len(t) \in Nat
      /\ r \in Seq(S) /\ u \in Seq(S) /\ Len(r) = Len(s) /\ Len(u) = Len(t)
      /\ \A i \in 1..Len(s) : r[i] = s[Len(s) - i + 1]
      /\ \A i \in 1..Len(t) : u[i] = t[Len(t) - i + 1]
  BY DEF Reverse
<1>2. IsSuffix(s, t) <=> IsPrefix(r, u)
  BY DEF IsSuffix
<1> HIDE DEF r, u
<1>3. CASE Len(s) <= Len(t)
  <2>1. \A i \in 1..Len(s) : r[i] \in S /\ u[i] \in S
    BY <1>1, <1>3, ElementOfSeq
  <2>2. /\ SubSeq(r, 1, Len(s)) \in Seq(S) /\ SubSeq(u, 1, Len(s)) \in Seq(S)
        /\ Len(SubSeq(r, 1, Len(s))) = Len(s) /\ Len(SubSeq(u, 1, Len(s))) = Len(s)
        /\ \A i \in 1..Len(s) : /\ SubSeq(r, 1, Len(s))[i] = r[i] 
                                /\ SubSeq(u, 1, Len(s))[i] = u[i]
    BY <1>1, <1>3, <2>1, SubSeqProperties
  <2>3. SubSeq(r, 1, Len(s)) = SubSeq(u, 1, Len(s))
          <=> \A i \in 1..Len(s) : r[i] = u[i]
    BY <2>2, SeqEqual
  <2>4. \A i \in 1..Len(s) : i \in 1..Len(t)
    BY <1>1, <1>3
  <2> QED
    BY <1>1, <1>2, <1>3, <2>3, <2>4 DEF IsPrefix
<1>4. CASE ~(Len(s) <= Len(t))
  BY <1>1, <1>2, <1>4 DEF IsPrefix
<1> QED
  BY <1>3, <1>4

\* The empty sequence is a suffix of each, and each is one of itself.
LEMMA SuffixBasics ==
  ASSUME NEW S, NEW s \in Seq(S)
  PROVE  IsSuffix(<<>>, s) /\ IsSuffix(s, s)
<1>1. <<>> \in Seq(S) /\ Len(<<>>) = 0 /\ Len(s) \in Nat
  BY EmptySeq
<1>2. IsSuffix(<<>>, s)
  <2>. DEFINE e == <<>>
  <2>1. e \in Seq(S) /\ Len(e) = 0
    BY <1>1
  <2>. HIDE DEF e
  <2>2. Len(e) <= Len(s) /\ 1..Len(e) = {}
    BY <1>1, <2>1
  <2>3. IsSuffix(e, s)
    BY <2>1, <2>2, SuffixElements
  <2> QED
    BY <2>3 DEF e
<1>3. IsSuffix(s, s)
  BY <1>1, SuffixElements
<1> QED
  BY <1>2, <1>3

\* Appending the same element to both keeps a suffix one.
LEMMA SuffixAppend ==
  ASSUME NEW S, NEW s \in Seq(S), NEW t \in Seq(S), NEW e \in S, IsSuffix(s, t)
  PROVE  IsSuffix(Append(s, e), Append(t, e))
<1>. DEFINE r == Append(s, e)
            u == Append(t, e)
<1>1. /\ r \in Seq(S) /\ u \in Seq(S) /\ Len(s) \in Nat /\ Len(t) \in Nat
      /\ Len(r) = Len(s) + 1 /\ Len(u) = Len(t) + 1
      /\ \A i \in 1..Len(s) : r[i] = s[i]
      /\ \A i \in 1..Len(t) : u[i] = t[i]
      /\ r[Len(s) + 1] = e /\ u[Len(t) + 1] = e
  BY AppendProperties
<1>2. /\ Len(s) <= Len(t)
      /\ \A i \in 1..Len(s) : s[Len(s) - i + 1] = t[Len(t) - i + 1]
  BY SuffixElements
<1>. HIDE DEF r, u
<1>3. ASSUME NEW i \in 1..Len(r)
      PROVE  r[Len(r) - i + 1] = u[Len(u) - i + 1]
  <2>1. CASE i = 1
    BY <1>1, <2>1
  <2>2. CASE i # 1
    <3>. DEFINE j == i - 1
    <3>1. j \in 1..Len(s) /\ j \in 1..Len(t)
      BY <1>1, <1>2, <2>2
    <3>2. Len(r) - i + 1 = Len(s) - j + 1 /\ Len(u) - i + 1 = Len(t) - j + 1
      BY <1>1, <1>3
    <3>. HIDE DEF j
    <3>3. Len(s) - j + 1 \in 1..Len(s) /\ Len(t) - j + 1 \in 1..Len(t)
      BY <1>1, <3>1
    <3>4. s[Len(s) - j + 1] = t[Len(t) - j + 1]
      BY <1>2, <3>1
    <3>. DEFINE a == Len(s) - j + 1
                b == Len(t) - j + 1
    <3>5. Len(r) - i + 1 = a /\ Len(u) - i + 1 = b
      BY <3>2
    <3>6. a \in 1..Len(s) /\ b \in 1..Len(t) /\ s[a] = t[b]
      BY <3>3, <3>4
    <3>. HIDE DEF a, b
    <3>7. r[a] = s[a] /\ u[b] = t[b]
      BY <1>1, <3>6
    <3>. QED
      BY <3>5, <3>6, <3>7
  <2>. QED
    BY <2>1, <2>2
<1>4. Len(r) <= Len(u)
  BY <1>1, <1>2
<1>5. IsSuffix(r, u)
  BY <1>1, <1>3, <1>4, SuffixElements
<1>. QED
  BY <1>5 DEF r, u

\* The concatenation of the first elements of s, as FlattenSeq computes it.
IsFlattening(s, f) ==
  f = [i \in 1..Len(s) |-> IF i = 1 THEN s[i] ELSE f[i-1] \o s[i]]

\* A property of 0 that goes from each number to the next is one of all.
LEMMA ByInduction ==
  ASSUME NEW P, 0 \in P, \A n \in Nat : n \in P => n + 1 \in P
  PROVE  \A n \in Nat : n \in P
<1>. DEFINE Others == {n \in Nat : n \notin P}
<1>1. SUFFICES ASSUME Others # {} PROVE FALSE
  OBVIOUS
<1>2. PICK n \in Others : \A m \in Others : n <= m
  BY <1>1, LeastElement
<1>3. n # 0 /\ n - 1 \in Nat /\ n - 1 \notin Others
  BY <1>2
<1>. QED
  BY <1>2, <1>3

\* There is such a concatenation for each sequence.
LEMMA FlatteningExists ==
  ASSUME NEW S, NEW s \in Seq(Seq(S))
  PROVE  \E f : IsFlattening(s, f)
<1>. DEFINE Upto(f, n) ==
       \A i \in 1..n : f[i] = IF i = 1 THEN s[i] ELSE f[i-1] \o s[i]
            P == {n \in Nat : \E f : f = [i \in 1..n |-> f[i]] /\ Upto(f, n)}
<1>1. 0 \in P
  <2>. DEFINE f == [i \in 1..0 |-> 0]
  <2>1. f = [i \in 1..0 |-> f[i]] /\ Upto(f, 0)
    OBVIOUS
  <2>. QED
    BY <2>1
<1>2. ASSUME NEW n \in Nat, n \in P
      PROVE  n + 1 \in P
  <2>1. PICK f : f = [i \in 1..n |-> f[i]] /\ Upto(f, n)
    BY <1>2
  <2>. DEFINE g == [i \in 1..n+1 |->
                     IF i <= n THEN f[i] ELSE IF i = 1 THEN s[i] ELSE f[i-1] \o s[i]]
  <2>2. g = [i \in 1..n+1 |-> g[i]]
    OBVIOUS
  <2>3. ASSUME NEW i \in 1..n+1
        PROVE  g[i] = IF i = 1 THEN s[i] ELSE g[i-1] \o s[i]
    <3>1. i # 1 => i-1 \in 1..n+1 /\ i-1 <= n
      OBVIOUS
    <3>2. i # 1 => g[i-1] = f[i-1]
      BY <3>1
    <3>. DEFINE T(h) == IF i = 1 THEN s[i] ELSE h[i-1] \o s[i]
    <3>3. g[i] = IF i <= n THEN f[i] ELSE T(f)
      OBVIOUS
    <3>4. ASSUME i <= n
          PROVE  f[i] = T(f)
      <4>1. i \in 1..n
        BY <3>4
      <4>2. Upto(f, n)
        BY <2>1, Zenon
      <4>. QED
        BY ONLY <4>1, <4>2
    <3>. HIDE DEF g
    <3>5. T(g) = T(f)
      BY <3>2
    <3>. QED
      BY <3>3, <3>4, <3>5
  <2>4. Upto(g, n+1)
    BY <2>3
  <2>. HIDE DEF g, Upto
  <2>. QED
    BY <2>2, <2>4
<1>3. \A n \in Nat : n \in P
  <2>. HIDE DEF P
  <2>. QED
    BY <1>1, <1>2, ByInduction
<1>4. Len(s) \in Nat
  OBVIOUS
<1>5. PICK f : f = [i \in 1..Len(s) |-> f[i]] /\ Upto(f, Len(s))
  BY <1>3, <1>4
<1>6. f = [i \in 1..Len(s) |-> IF i = 1 THEN s[i] ELSE f[i-1] \o s[i]]
  BY <1>5
<1>. QED
  BY <1>6 DEF IsFlattening

\* Its values are concatenations, and one more element leaves them as they are.
LEMMA FlatteningValues ==
  ASSUME NEW S, NEW s \in Seq(Seq(S)), NEW e \in Seq(S), NEW f, NEW g,
         IsFlattening(s, f), IsFlattening(Append(s, e), g)
  PROVE  \A i \in 1..Len(s) : f[i] \in Seq(S) /\ f[i] = g[i]
<1>. DEFINE t == Append(s, e)
<1>0. /\ Len(s) <= Len(t) /\ Len(t) \in Nat /\ t \in Seq(Seq(S))
      /\ \A i \in 1..Len(s) : s[i] = t[i]
  BY AppendProperties
<1>t. IsFlattening(t, g)
  OBVIOUS
<1>. HIDE DEF t
<1>. DEFINE P == {n \in Nat : n \in 1..Len(s) => f[n] \in Seq(S) /\ f[n] = g[n]}
<1>1. 0 \in P
  OBVIOUS
<1>2. ASSUME NEW n \in Nat, n \in P
      PROVE  n + 1 \in P
  <2>1. SUFFICES ASSUME n + 1 \in 1..Len(s)
                 PROVE  f[n+1] \in Seq(S) /\ f[n+1] = g[n+1]
    OBVIOUS
  <2>. DEFINE m == n + 1
  <2>2. m \in 1..Len(s) /\ m \in 1..Len(t) /\ m - 1 = n /\ (m # 1 => n \in 1..Len(s))
    BY <1>0, <2>1
  <2>3. s[m] \in Seq(S) /\ s[m] = t[m]
    BY <1>0, <2>2, ElementOfSeq
  <2>. HIDE DEF m
  <2>4. /\ f[m] = IF m = 1 THEN s[m] ELSE f[m-1] \o s[m]
        /\ g[m] = IF m = 1 THEN t[m] ELSE g[m-1] \o t[m]
    BY <1>t, <2>2 DEF IsFlattening
  <2>5. m # 1 => f[n] \in Seq(S) /\ f[n] = g[n]
    BY <1>2, <2>2
  <2>6. m # 1 => f[n] \o s[m] \in Seq(S)
    BY <2>3, <2>5, ConcatProperties
  <2>7. f[m] \in Seq(S) /\ f[m] = g[m]
    BY <2>2, <2>3, <2>4, <2>5, <2>6
  <2>. QED
    BY <2>7 DEF m
<1>3. \A n \in Nat : n \in P
  <2>. HIDE DEF P
  <2>. QED
    BY <1>1, <1>2, ByInduction
<1>. QED
  BY <1>3

\* FlattenSeq concatenates: one more sequence at the end comes after the others.
LEMMA FlattenAppend ==
  ASSUME NEW S, NEW s \in Seq(Seq(S)), NEW e \in Seq(S)
  PROVE  /\ FlattenSeq(s) \in Seq(S)
         /\ FlattenSeq(Append(s, e)) = FlattenSeq(s) \o e
<1>. DEFINE t == Append(s, e)
            n == Len(s)
<1>1. /\ t \in Seq(Seq(S)) /\ n \in Nat /\ Len(t) = n + 1
      /\ \A i \in 1..n : t[i] = s[i]
      /\ t[n+1] = e
  BY AppendProperties
<1>2. ASSUME NEW r \in Seq(Seq(S))
      PROVE  \E f : IsFlattening(r, f) /\ (Len(r) # 0 => FlattenSeq(r) = f[Len(r)])
  <2>. DEFINE f == CHOOSE g : IsFlattening(r, g)
  <2>1. IsFlattening(r, f)
    BY FlatteningExists, Zenon
  <2>2. Len(r) # 0 => FlattenSeq(r) = f[Len(r)]
    BY Zenon DEF FlattenSeq, IsFlattening
  <2>. QED
    BY <2>1, <2>2, Zenon
<1>. HIDE DEF t
<1>3. PICK f : IsFlattening(s, f) /\ (Len(s) # 0 => FlattenSeq(s) = f[Len(s)])
  BY <1>2
<1>4. PICK g : IsFlattening(t, g) /\ (Len(t) # 0 => FlattenSeq(t) = g[Len(t)])
  BY <1>1, <1>2
<1>5. \A i \in 1..n : f[i] \in Seq(S) /\ f[i] = g[i]
  BY <1>3, <1>4, FlatteningValues DEF t
<1>6. FlattenSeq(t) = IF n = 0 THEN e ELSE g[n] \o e
  <2>1. n + 1 \in 1..Len(t) /\ (n+1)-1 = n /\ (n + 1 = 1 <=> n = 0) /\ Len(t) # 0
    BY <1>1
  <2>2. g[n+1] = IF n+1 = 1 THEN t[n+1] ELSE g[(n+1)-1] \o t[n+1]
    BY <1>4, <2>1 DEF IsFlattening
  <2>. QED
    BY <1>1, <1>4, <2>1, <2>2
<1>7. CASE n = 0
  <2>1. s = <<>>
    BY <1>7, EmptySeq
  <2>2. FlattenSeq(s) = s
    BY <1>7 DEF FlattenSeq
  <2>3. <<>> \o e = e /\ <<>> \in Seq(S)
    BY ConcatEmptySeq, EmptySeq
  <2>. QED
    BY <1>6, <1>7, <2>1, <2>2, <2>3 DEF t
<1>8. CASE n # 0
  <2>1. n \in 1..n
    BY <1>1, <1>8
  <2>2. FlattenSeq(s) = f[n]
    BY <1>3, <1>8
  <2>. QED
    BY <1>5, <1>6, <1>8, <2>1, <2>2 DEF t
<1>. QED
  BY <1>7, <1>8

\* Moving the first element of d to the end of c leaves what they make together.
LEMMA HeadMoves ==
  ASSUME NEW S, NEW c \in Seq(S), NEW d \in Seq(S), d # <<>>
  PROVE  Append(c, Head(d)) \o Tail(d) = c \o d
<1>. DEFINE h == Head(d)
            t == Tail(d)
<1>1. h \in S /\ t \in Seq(S) /\ Len(d) \in Nat \ {0} /\ h = d[1]
  BY HeadTailProperties, EmptySeq
<1>2. <<h>> \o t = d
  <2>1. 1 \in 1..Len(d) /\ Len(d) \in 1..Len(d)
    BY <1>1
  <2>2. SubSeq(d, 1, Len(d)) = <<d[1]>> \o SubSeq(d, 1+1, Len(d))
    BY <2>1, SubSeqRecursiveFirst
  <2>3. SubSeq(d, 1, Len(d)) = d /\ t = SubSeq(d, 2, Len(d))
    BY SubSeqFull, TailIsSubSeq
  <2>. QED
    BY <1>1, <2>2, <2>3
<1>. HIDE DEF h, t
<1>3. Append(c, h) = c \o <<h>> /\ <<h>> \in Seq(S)
  BY <1>1, AppendIsConcat
<1>4. (c \o <<h>>) \o t = c \o (<<h>> \o t)
  BY <1>1, <1>3, ConcatAssociative
<1>. QED
  BY <1>2, <1>3, <1>4 DEF h, t
=============================================================================
