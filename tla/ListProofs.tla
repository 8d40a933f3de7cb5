----------------------------- MODULE ListProofs -----------------------------
(***************************************************************************)
(* Lemmas about lists and their members, induction on the subsets of a     *)
(* finite set, sums over them, and products and quotients of numbers, for  *)
(* all the modules with proofs.                                            *)
(***************************************************************************)
EXTENDS Lists, Functions, TLAPS, FiniteSetTheorems, SequenceTheorems

-----------------------------------------------------------------------------
(* Lists without duplicates *)

\* A list without its i-th element is a list of the others, in their order.
LEMMA WithoutFacts ==
    ASSUME NEW S, NEW q \in Seq(S), NEW i \in DOMAIN q
    PROVE  /\ Without(q, i) \in Seq(S)
           /\ DOMAIN Without(q, i) = 1..Len(q) - 1
           /\ \A j, k \in DOMAIN Without(q, i) : j < k =>
                 \E x, y \in DOMAIN q :
                     x < y /\ Without(q, i)[j] = q[x] /\ Without(q, i)[k] = q[y]
           /\ q[i] \in S
<1> DEFINE w == Without(q, i)
<1>1. /\ Len(q) \in Nat /\ i \in 1..Len(q) /\ DOMAIN q = 1..Len(q)
      /\ \A j \in 1..Len(q) : q[j] \in S
  OBVIOUS
<1>2. /\ DOMAIN w = 1..Len(q) - 1
      /\ \A j \in 1..Len(q) - 1 : w[j] = q[IF j < i THEN j ELSE j + 1]
  BY <1>1 DEF Without
<1>3. \A j \in 1..Len(q) - 1 : w[j] \in S
  BY <1>1, <1>2
<1>4. w \in [1..Len(q) - 1 -> S] /\ Len(q) - 1 \in Nat
  BY <1>1, <1>2, <1>3 DEF Without
<1>5. w \in Seq(S)
  BY <1>4
<1> HIDE DEF w
<1>6. ASSUME NEW j \in DOMAIN w, NEW k \in DOMAIN w, j < k
      PROVE  \E x, y \in DOMAIN q : x < y /\ w[j] = q[x] /\ w[k] = q[y]
  <2> DEFINE x == IF j < i THEN j ELSE j + 1
             y == IF k < i THEN k ELSE k + 1
  <2>1. x \in DOMAIN q /\ y \in DOMAIN q /\ x < y
    BY <1>1, <1>2, <1>6
  <2>2. w[j] = q[x] /\ w[k] = q[y]
    BY <1>2
  <2> QED BY <2>1, <2>2
<1> QED BY <1>1, <1>2, <1>5, <1>6 DEF w

\* What is left of a list is what was in it but for the element taken out.
LEMMA WithoutRange ==
    ASSUME NEW S, NEW q \in Seq(S), NEW i \in DOMAIN q
    PROVE  /\ Range(Without(q, i)) \subseteq Range(q)
           /\ Range(q) = Range(Without(q, i)) \cup {q[i]}
           /\ NoDuplicates(q) => /\ NoDuplicates(Without(q, i))
                                 /\ Range(Without(q, i)) = Range(q) \ {q[i]}
<1> DEFINE w == Without(q, i)
<1>1. Len(q) \in Nat /\ i \in 1..Len(q) /\ DOMAIN q = 1..Len(q)
  OBVIOUS
<1>2. /\ DOMAIN w = 1..Len(q) - 1
      /\ \A j \in 1..Len(q) - 1 : w[j] = q[IF j < i THEN j ELSE j + 1]
  BY <1>1 DEF Without
<1> HIDE DEF w
<1>3. ASSUME NEW e \in Range(w) PROVE e \in Range(q)
  <2>1. PICK j \in 1..Len(q) - 1 : e = w[j]
    BY <1>2 DEF Range
  <2> DEFINE x == IF j < i THEN j ELSE j + 1
  <2>2. x \in 1..Len(q) /\ e = q[x]
    BY <1>1, <1>2, <2>1
  <2> QED BY <1>1, <2>2 DEF Range
<1>4. ASSUME NEW e \in Range(q), e # q[i] PROVE e \in Range(w)
  <2>1. PICK x \in 1..Len(q) : e = q[x]
    BY <1>1 DEF Range
  <2> DEFINE j == IF x < i THEN x ELSE x - 1
  <2>2. x # i
    BY <1>4, <2>1
  <2>3. j \in 1..Len(q) - 1 /\ (IF j < i THEN j ELSE j + 1) = x
    BY <1>1, <2>2
  <2>4. w[j] = e
    BY <1>2, <2>1, <2>3
  <2> QED BY <1>2, <2>3, <2>4 DEF Range
<1>5. q[i] \in Range(q)
  BY <1>1 DEF Range
<1>6. ASSUME NoDuplicates(q) PROVE NoDuplicates(w) /\ q[i] \notin Range(w)
  <2>1. ASSUME NEW j \in DOMAIN w, NEW k \in DOMAIN w, w[j] = w[k] PROVE j = k
    <3> DEFINE x == IF j < i THEN j ELSE j + 1
               y == IF k < i THEN k ELSE k + 1
    <3>1. x \in DOMAIN q /\ y \in DOMAIN q /\ q[x] = q[y]
      BY <1>1, <1>2, <2>1
    <3>2. x = y
      BY <1>6, <3>1 DEF NoDuplicates
    <3> QED BY <1>1, <1>2, <3>2
  <2>2. ASSUME NEW j \in DOMAIN w, w[j] = q[i] PROVE FALSE
    <3> DEFINE x == IF j < i THEN j ELSE j + 1
    <3>1. x \in DOMAIN q /\ q[x] = q[i] /\ x # i
      BY <1>1, <1>2, <2>2
    <3> QED BY <1>6, <3>1 DEF NoDuplicates
  <2>3. NoDuplicates(w)
    BY <2>1 DEF NoDuplicates
  <2> QED BY <2>2, <2>3 DEF Range
<1> QED BY <1>3, <1>4, <1>5, <1>6 DEF w

\* Append adds one element, behind the others.
LEMMA AppendFacts ==
    ASSUME NEW S, NEW q \in Seq(S), NEW e \in S
    PROVE  /\ Append(q, e) \in Seq(S)
           /\ Range(Append(q, e)) = Range(q) \cup {e}
           /\ NoDuplicates(q) /\ e \notin Range(q) => NoDuplicates(Append(q, e))
<1> DEFINE w == Append(q, e)
<1>1. /\ Len(q) \in Nat /\ DOMAIN q = 1..Len(q)
      /\ w \in Seq(S) /\ DOMAIN w = 1..Len(q) + 1
      /\ \A j \in 1..Len(q) : w[j] = q[j]
      /\ w[Len(q) + 1] = e
  OBVIOUS
<1> HIDE DEF w
<1>2. ASSUME NEW x \in Range(w) PROVE x \in Range(q) \cup {e}
  <2>1. PICK j \in 1..Len(q) + 1 : x = w[j]
    BY <1>1 DEF Range
  <2>2. CASE j = Len(q) + 1
    BY <1>1, <2>1, <2>2
  <2>3. CASE j \in 1..Len(q)
    BY <1>1, <2>1, <2>3 DEF Range
  <2> QED BY <1>1, <2>2, <2>3
<1>3. Range(q) \subseteq Range(w)
  BY <1>1 DEF Range
<1>4. e \in Range(w)
  <2>1. Len(q) + 1 \in DOMAIN w
    BY <1>1
  <2> QED BY <1>1, <2>1 DEF Range
<1>5. ASSUME NoDuplicates(q), e \notin Range(q) PROVE NoDuplicates(w)
  <2>1. \A j \in 1..Len(q) : q[j] # e
    BY <1>1, <1>5 DEF Range
  <2>2. ASSUME NEW j \in DOMAIN w, NEW k \in DOMAIN w, w[j] = w[k] PROVE j = k
    <3>1. CASE j \in 1..Len(q) /\ k \in 1..Len(q)
      BY <1>1, <1>5, <2>2, <3>1 DEF NoDuplicates
    <3>2. CASE j = Len(q) + 1 /\ k \in 1..Len(q)
      BY <1>1, <2>1, <2>2, <3>2
    <3>3. CASE j \in 1..Len(q) /\ k = Len(q) + 1
      BY <1>1, <2>1, <2>2, <3>3
    <3>4. CASE j = Len(q) + 1 /\ k = Len(q) + 1
      BY <3>4
    <3> QED BY <1>1, <3>1, <3>2, <3>3, <3>4
  <2> QED BY <2>2 DEF NoDuplicates
<1> QED BY <1>1, <1>2, <1>3, <1>4, <1>5 DEF w

\* A list is its head, and behind it the rest.
LEMMA HeadFacts ==
    ASSUME NEW S, NEW q \in Seq(S), q # <<>>
    PROVE  /\ Head(q) \in S
           /\ Tail(q) \in Seq(S)
           /\ Head(q) = q[1] /\ 1 \in DOMAIN q
           /\ \A j \in DOMAIN Tail(q) : Tail(q)[j] = q[j + 1] /\ j + 1 \in DOMAIN q
           /\ Range(q) = {Head(q)} \cup Range(Tail(q))
           /\ NoDuplicates(q) => NoDuplicates(Tail(q)) /\ Head(q) \notin Range(Tail(q))
<1> DEFINE t == Tail(q)
           h == Head(q)
<1>1. /\ Len(q) \in Nat \ {0} /\ DOMAIN q = 1..Len(q)
      /\ t \in Seq(S) /\ DOMAIN t = 1..Len(q) - 1
      /\ \A j \in 1..Len(q) - 1 : t[j] = q[j + 1]
      /\ h = q[1] /\ h \in S
  BY EmptySeq, HeadTailProperties
<1> HIDE DEF t, h
<1>2. \A j \in DOMAIN t : t[j] = q[j + 1] /\ j + 1 \in DOMAIN q
  BY <1>1
<1>3. 1 \in DOMAIN q
  BY <1>1
<1>4. ASSUME NEW x \in Range(q) PROVE x \in {h} \cup Range(t)
  <2>1. PICK j \in 1..Len(q) : x = q[j]
    BY <1>1 DEF Range
  <2>2. CASE j = 1
    BY <1>1, <2>1, <2>2
  <2>3. CASE j # 1
    <3>1. j - 1 \in DOMAIN t /\ t[j - 1] = q[j]
      BY <1>1, <2>3
    <3> QED BY <2>1, <3>1 DEF Range
  <2> QED BY <2>2, <2>3
<1>5. Range(t) \subseteq Range(q) /\ h \in Range(q)
  BY <1>1, <1>2, <1>3 DEF Range
<1>6. ASSUME NoDuplicates(q) PROVE NoDuplicates(t) /\ h \notin Range(t)
  <2>1. ASSUME NEW j \in DOMAIN t, NEW k \in DOMAIN t, t[j] = t[k] PROVE j = k
    <3>1. j + 1 \in DOMAIN q /\ k + 1 \in DOMAIN q /\ q[j + 1] = q[k + 1]
      BY <1>2, <2>1
    <3>2. j + 1 = k + 1
      BY <1>6, <3>1 DEF NoDuplicates
    <3> QED BY <1>1, <3>2
  <2>2. ASSUME NEW j \in DOMAIN t, t[j] = h PROVE FALSE
    <3>1. j + 1 \in DOMAIN q /\ q[j + 1] = q[1] /\ j + 1 # 1
      BY <1>1, <1>2, <2>2
    <3> QED BY <1>3, <1>6, <3>1 DEF NoDuplicates
  <2>3. NoDuplicates(t)
    BY <2>1 DEF NoDuplicates
  <2> QED BY <2>2, <2>3 DEF Range
<1> QED BY <1>1, <1>2, <1>3, <1>4, <1>5, <1>6 DEF t, h

\* Two lists in a row.
LEMMA ConcatFacts ==
    ASSUME NEW S, NEW p \in Seq(S), NEW q \in Seq(S)
    PROVE  /\ p \o q \in Seq(S)
           /\ DOMAIN (p \o q) = 1..Len(p) + Len(q)
           /\ \A j \in DOMAIN (p \o q) :
                 \/ j \in DOMAIN p /\ (p \o q)[j] = p[j]
                 \/ j > Len(p) /\ j - Len(p) \in DOMAIN q /\ (p \o q)[j] = q[j - Len(p)]
           /\ Range(p \o q) = Range(p) \cup Range(q)
           /\ NoDuplicates(p) /\ NoDuplicates(q) /\ Range(p) \cap Range(q) = {}
                 => NoDuplicates(p \o q)
<1> DEFINE w == p \o q
<1>1. /\ Len(p) \in Nat /\ DOMAIN p = 1..Len(p)
      /\ Len(q) \in Nat /\ DOMAIN q = 1..Len(q)
      /\ w \in Seq(S) /\ DOMAIN w = 1..Len(p) + Len(q)
  OBVIOUS
<1>2. \A j \in 1..Len(p) + Len(q) : w[j] = IF j <= Len(p) THEN p[j] ELSE q[j - Len(p)]
  BY ConcatProperties
<1> HIDE DEF w
<1>3. \A j \in DOMAIN w :
          \/ j \in DOMAIN p /\ w[j] = p[j]
          \/ j > Len(p) /\ j - Len(p) \in DOMAIN q /\ w[j] = q[j - Len(p)]
  BY <1>1, <1>2
<1>4. ASSUME NEW x \in Range(w) PROVE x \in Range(p) \cup Range(q)
  BY <1>3, <1>4 DEF Range
<1>5. ASSUME NEW x \in Range(p) PROVE x \in Range(w)
  <2>1. PICK j \in 1..Len(p) : x = p[j]
    BY <1>1 DEF Range
  <2>2. j \in DOMAIN w /\ w[j] = x
    BY <1>1, <1>2, <2>1
  <2> QED BY <2>2 DEF Range
<1>6. ASSUME NEW x \in Range(q) PROVE x \in Range(w)
  <2>1. PICK j \in 1..Len(q) : x = q[j]
    BY <1>1 DEF Range
  <2>2. j + Len(p) \in DOMAIN w /\ w[j + Len(p)] = x
    BY <1>1, <1>2, <2>1
  <2> QED BY <2>2 DEF Range
<1>7. ASSUME NoDuplicates(p), NoDuplicates(q), Range(p) \cap Range(q) = {}
      PROVE  NoDuplicates(w)
  <2>1. \A j \in DOMAIN p, k \in DOMAIN q : p[j] # q[k]
    BY <1>7 DEF Range
  <2>2. ASSUME NEW j \in DOMAIN w, NEW k \in DOMAIN w, w[j] = w[k] PROVE j = k
    <3>1. CASE j \in DOMAIN p /\ k \in DOMAIN p
      <4>1. p[j] = p[k]
        BY <1>1, <1>2, <2>2, <3>1
      <4> QED BY <1>7, <3>1, <4>1 DEF NoDuplicates
    <3>2. CASE j > Len(p) /\ k > Len(p)
      <4>1. j - Len(p) \in DOMAIN q /\ k - Len(p) \in DOMAIN q
        BY <1>1, <3>2
      <4>2. q[j - Len(p)] = q[k - Len(p)]
        BY <1>1, <1>2, <2>2, <3>2
      <4>3. j - Len(p) = k - Len(p)
        BY <1>7, <4>1, <4>2 DEF NoDuplicates
      <4> QED BY <1>1, <4>3
    <3>3. CASE j \in DOMAIN p /\ k > Len(p)
      <4>1. k - Len(p) \in DOMAIN q /\ p[j] = q[k - Len(p)]
        BY <1>1, <1>2, <2>2, <3>3
      <4> QED BY <2>1, <3>3, <4>1
    <3>4. CASE j > Len(p) /\ k \in DOMAIN p
      <4>1. j - Len(p) \in DOMAIN q /\ p[k] = q[j - Len(p)]
        BY <1>1, <1>2, <2>2, <3>4
      <4> QED BY <2>1, <3>4, <4>1
    <3> QED BY <1>1, <3>1, <3>2, <3>3, <3>4
  <2> QED BY <2>2 DEF NoDuplicates
<1> QED BY <1>1, <1>3, <1>4, <1>5, <1>6, <1>7 DEF w

\* The elements of a list.
LEMMA RangeOfList ==
    ASSUME NEW S, NEW q \in Seq(S)
    PROVE  /\ Range(q) \subseteq S
           /\ \A i \in DOMAIN q : q[i] \in Range(q)
           /\ Range(<<>>) = {} /\ NoDuplicates(<<>>)
           /\ q # <<>> => Range(q) # {}
<1>1. DOMAIN q = 1..Len(q) /\ Len(q) \in Nat /\ (q # <<>> => Len(q) # 0)
  BY EmptySeq
<1>2. q # <<>> => 1 \in DOMAIN q
  BY <1>1
<1> QED BY <1>1, <1>2 DEF Range, NoDuplicates

-----------------------------------------------------------------------------
\* A nonempty set of naturals has a least element.
LEMMA HasLeast ==
    ASSUME NEW M, M \subseteq Nat, M # {}
    PROVE  \E m \in M : \A n \in M : m <= n
<1>1. PICK m \in M : \A n \in M : ~ (<<n, m>> \in OpToRel(<, Nat))
  BY NatLessThanWellFounded, WFMin
<1>2. \A n \in M : ~ (n < m)
  BY <1>1 DEF OpToRel
<1> QED BY <1>2

\* A list that grows at its end grows what ends in it.
LEMMA ConcatAppend ==
    ASSUME NEW S, NEW p \in Seq(S), NEW q \in Seq(S), NEW e \in S
    PROVE  p \o Append(q, e) = Append(p \o q, e)
<1>1. p \o q \in Seq(S) /\ <<e>> \in Seq(S)
  BY ConcatProperties
<1>2. Append(q, e) = q \o <<e>> /\ Append(p \o q, e) = (p \o q) \o <<e>>
  BY <1>1, AppendIsConcat
<1>3. (p \o q) \o <<e>> = p \o (q \o <<e>>)
  BY <1>1, ConcatAssociative
<1> QED BY <1>2, <1>3

\* A prefix of a list, its own prefixes, and the prefix one longer.
LEMMA PrefixProperties ==
    ASSUME NEW S, NEW q \in Seq(S), NEW n \in 1..Len(q)
    PROVE  /\ SubSeq(q, 1, n) \in Seq(S) /\ Len(SubSeq(q, 1, n)) = n
           /\ SubSeq(q, 1, n) # <<>>
           /\ \A i \in 1..n : SubSeq(SubSeq(q, 1, n), 1, i) = SubSeq(q, 1, i)
           /\ n < Len(q) => /\ SubSeq(q, 1, n) \o <<q[n + 1]>> = SubSeq(q, 1, n + 1)
                            /\ Append(SubSeq(q, 1, n), q[n + 1]) = SubSeq(q, 1, n + 1)
<1>1. Len(q) \in Nat /\ n \in Nat \ {0} /\ n <= Len(q)
  OBVIOUS
<1>2. SubSeq(q, 1, n) \in Seq(S) /\ Len(SubSeq(q, 1, n)) = n
  <2>1. \A i \in 1..n : q[i] \in S
    BY <1>1
  <2> QED BY <1>1, <2>1, SubSeqProperties
<1>3. SubSeq(q, 1, n) # <<>>
  BY <1>1, <1>2
<1>4. ASSUME NEW i \in 1..n PROVE SubSeq(SubSeq(q, 1, n), 1, i) = SubSeq(q, 1, i)
  <2>1. 1 \in 1..Len(q) /\ n \in 1..Len(q) /\ 1 \in 1..n - 1 + 1 /\ i \in 1..n - 1 + 1
    BY <1>1
  <2>2. SubSeq(SubSeq(q, 1, n), 1, i) = SubSeq(q, 1 + 1 - 1, 1 + i - 1)
    BY <2>1, SubSeqOfSubSeq
  <2>3. 1 + 1 - 1 = 1 /\ 1 + i - 1 = i
    BY <1>1
  <2> QED BY <2>2, <2>3
<1>5. ASSUME n < Len(q)
      PROVE  /\ SubSeq(q, 1, n) \o <<q[n + 1]>> = SubSeq(q, 1, n + 1)
             /\ Append(SubSeq(q, 1, n), q[n + 1]) = SubSeq(q, 1, n + 1)
  <2> DEFINE k == n + 1
  <2>1. 1 \in 1..Len(q) /\ k \in 1..Len(q) /\ k - 1 = n
    BY <1>1, <1>5
  <2> HIDE DEF k
  <2>2. q[k] \in S
    BY <2>1
  <2>3. SubSeq(q, 1, k) = SubSeq(q, 1, k - 1) \o <<q[k]>>
    BY <2>1, SubSeqRecursiveSecond
  <2>4. Append(SubSeq(q, 1, n), q[k]) = SubSeq(q, 1, n) \o <<q[k]>>
    BY <1>2, <2>2, AppendIsConcat
  <2> QED BY <2>1, <2>3, <2>4 DEF k
<1> QED BY <1>2, <1>3, <1>4, <1>5

\* The first k members of a list.
LEMMA FirstMembers ==
    ASSUME NEW S, NEW q \in Seq(S), NEW k \in 0..Len(q)
    PROVE  /\ SubSeq(q, 1, k) \in Seq(S) /\ Len(SubSeq(q, 1, k)) = k
           /\ \A i \in 1..k : SubSeq(q, 1, k)[i] = q[i]
<1>1. \A i \in 1..k : q[i] \in S
  OBVIOUS
<1>2. /\ SubSeq(q, 1, k) \in Seq(S)
      /\ Len(SubSeq(q, 1, k)) = IF 1 <= k THEN k - 1 + 1 ELSE 0
      /\ \A i \in 1..k - 1 + 1 : SubSeq(q, 1, k)[i] = q[1 + i - 1]
  BY <1>1, SubSeqProperties
<1>3. k \in Nat /\ k - 1 + 1 = k /\ \A i \in Int : 1 + i - 1 = i
  OBVIOUS
<1> DEFINE u == SubSeq(q, 1, k)
<1> HIDE DEF u
<1>4. u \in Seq(S) /\ Len(u) = k /\ \A i \in 1..k : u[i] = q[i]
  BY <1>2, <1>3 DEF u
<1> QED BY <1>4 DEF u

\* The prefixes of a concatenation.
LEMMA PrefixOfConcat ==
    ASSUME NEW S, NEW p \in Seq(S), NEW q \in Seq(S)
    PROVE  /\ \A k \in 0..Len(p) : SubSeq(p \o q, 1, k) = SubSeq(p, 1, k)
           /\ \A k \in 0..Len(q) : SubSeq(p \o q, 1, Len(p) + k) = p \o SubSeq(q, 1, k)
<1> DEFINE m == Len(p)
           n == Len(q)
<1>1. /\ m \in Nat /\ n \in Nat
      /\ p \o q \in Seq(S) /\ Len(p \o q) = m + n
      /\ \A i \in 1..m + n : (p \o q)[i] = IF i <= m THEN p[i] ELSE q[i - m]
      /\ \A i \in 1..m + n : (p \o q)[i] \in S
      /\ \A i \in 1..m : p[i] \in S
      /\ \A i \in 1..n : q[i] \in S
  <2>1. p \o q \in Seq(S) /\ Len(p \o q) = m + n
    BY ConcatProperties
  <2> QED BY <2>1, ConcatProperties
<1> HIDE DEF m, n
<1>2. ASSUME NEW k \in 0..m PROVE SubSeq(p \o q, 1, k) = SubSeq(p, 1, k)
  <2>1. CASE k = 0
    BY <2>1, SubSeqEmpty
  <2>2. CASE k # 0
    <3>1. 1 \in 1..m /\ k \in 1..m
      BY <1>1, <2>2
    <3> QED BY <3>1, SubSeqOfConcat1 DEF m
  <2> QED BY <2>1, <2>2
<1>3. ASSUME NEW k \in 0..n PROVE SubSeq(p \o q, 1, m + k) = p \o SubSeq(q, 1, k)
  <2>1. /\ SubSeq(q, 1, k) \in Seq(S) /\ Len(SubSeq(q, 1, k)) = k
        /\ \A i \in 1..k : SubSeq(q, 1, k)[i] = q[i]
    BY FirstMembers DEF n
  <2> DEFINE u == SubSeq(q, 1, k)
             l == m + k
             v == SubSeq(p \o q, 1, l)
  <2>2. l \in Nat /\ \A i \in 1..l : i \in 1..m + n
    BY <1>1
  <2> HIDE DEF u, l
  <2>3. v \in Seq(S) /\ Len(v) = l /\ \A i \in 1..l : v[i] = (p \o q)[i]
    <3>1. \A c \in Seq(S) : \A j \in 0..Len(c) :
             /\ SubSeq(c, 1, j) \in Seq(S) /\ Len(SubSeq(c, 1, j)) = j
             /\ \A i \in 1..j : SubSeq(c, 1, j)[i] = c[i]
      BY FirstMembers
    <3>2. p \o q \in Seq(S) /\ l \in 0..Len(p \o q)
      BY <1>1 DEF l
    <3> QED BY <3>1, <3>2
  <2>4. /\ p \o u \in Seq(S) /\ Len(p \o u) = l
        /\ \A i \in 1..l : (p \o u)[i] = IF i <= m THEN p[i] ELSE u[i - m]
    <3>1. u \in Seq(S) /\ Len(u) = k
      BY <2>1 DEF u
    <3> QED BY <3>1, ConcatProperties DEF l, m
  <2>5. \A i \in 1..l : (p \o u)[i] = v[i]
    <3> SUFFICES ASSUME NEW i \in 1..l PROVE (p \o u)[i] = v[i]
      OBVIOUS
    <3>4. \A j \in 1..k : u[j] = q[j]
      BY <2>1 DEF u
    <3> HIDE DEF v
    <3>1. v[i] = IF i <= m THEN p[i] ELSE q[i - m]
      BY <1>1, <2>2, <2>3
    <3>2. ~(i <= m) => i - m \in 1..k
      BY <1>1 DEF l
    <3>3. ~(i <= m) => u[i - m] = q[i - m]
      BY <3>2, <3>4
    <3> QED BY <2>4, <3>1, <3>3
  <2> HIDE DEF v
  <2>6. v = p \o u
    BY <2>3, <2>4, <2>5, SeqEqual
  <2> QED BY <2>6 DEF v, l, u
<1> QED BY <1>2, <1>3 DEF m, n

\* A bounded set has a largest member.
LEMMA HasGreatest ==
    ASSUME NEW d \in Nat, NEW M, M \subseteq 0..d, M # {}
    PROVE  \E m \in M : \A n \in M : n <= m
<1> DEFINE N == {d - m : m \in M}
<1>1. N \subseteq Nat /\ N # {}
  OBVIOUS
<1>2. PICK k \in N : \A l \in N : k <= l
  <2> HIDE DEF N
  <2> QED BY <1>1, HasLeast
<1>3. PICK m \in M : k = d - m
  BY <1>2
<1>4. ASSUME NEW n \in M PROVE n <= m
  <2>1. d - n \in N
    OBVIOUS
  <2>2. k <= d - n
    BY <1>2, <2>1
  <2> QED BY <1>3, <2>2
<1> QED BY <1>4

\* The same, for one prefix.
LEMMA PrefixBefore ==
    ASSUME NEW S, NEW p \in Seq(S), NEW q \in Seq(S), NEW k \in 0..Len(p)
    PROVE  SubSeq(p \o q, 1, k) = SubSeq(p, 1, k)
BY PrefixOfConcat

\* A prefix of a concatenation that reaches into its second part.
LEMMA PrefixPast ==
    ASSUME NEW S, NEW p \in Seq(S), NEW q \in Seq(S), NEW k \in 0..Len(q)
    PROVE  SubSeq(p \o q, 1, Len(p) + k) = p \o SubSeq(q, 1, k)
BY PrefixOfConcat

-----------------------------------------------------------------------------
(* Induction in the form of sets, and sums over finite sets *)

\* Induction over the naturals, on the set of those that have the property.
LEMMA NatSetInduct ==
    ASSUME NEW G, 0 \in G, \A n \in Nat : n \in G => n + 1 \in G
    PROVE  Nat \subseteq G
<1> DEFINE M == Nat \ G
<1> SUFFICES ASSUME M # {} PROVE FALSE
  OBVIOUS
<1>1. PICK m \in M : \A n \in M : m <= n
  <2>1. M \subseteq Nat
    OBVIOUS
  <2> HIDE DEF M
  <2> QED BY <2>1, HasLeast
<1>2. m \in Nat /\ m # 0 /\ m - 1 \in Nat
  OBVIOUS
<1>3. m - 1 \in G
  BY <1>1, <1>2
<1>4. m - 1 + 1 = m
  BY <1>2
<1> QED BY <1>2, <1>3, <1>4

\* Induction over the subsets of a finite set, smaller ones first.
LEMMA SubsetInduct ==
    ASSUME NEW S, IsFiniteSet(S), NEW G,
           \A T \in SUBSET S : (\A x \in T : T \ {x} \in G) => T \in G
    PROVE  SUBSET S \subseteq G
<1> DEFINE H == {n \in Nat : \A T \in SUBSET S : Cardinality(T) = n => T \in G}
<1>1. \A T \in SUBSET S : IsFiniteSet(T) /\ Cardinality(T) \in Nat
  BY FS_Subset, FS_CardinalityType
<1>2. 0 \in H
  <2> SUFFICES ASSUME NEW T \in SUBSET S, Cardinality(T) = 0 PROVE T \in G
    OBVIOUS
  <2>1. T = {}
    BY <1>1, FS_EmptySet
  <2> QED BY <2>1
<1>3. ASSUME NEW n \in Nat, n \in H PROVE n + 1 \in H
  <2> SUFFICES ASSUME NEW T \in SUBSET S, Cardinality(T) = n + 1 PROVE T \in G
    BY <1>3
  <2>1. ASSUME NEW x \in T PROVE T \ {x} \in G
    <3>1. Cardinality(T \ {x}) = n
      BY <1>1, FS_RemoveElement
    <3>2. T \ {x} \in SUBSET S
      OBVIOUS
    <3> QED BY <1>3, <3>1, <3>2
  <2> QED BY <2>1
<1>4. Nat \subseteq H
  <2> HIDE DEF H
  <2> QED BY <1>2, <1>3, NatSetInduct
<1> QED BY <1>1, <1>4

-----------------------------------------------------------------------------
(* Sums *)

\* A function that adds up f over the subsets of S, an element at a time.
Adds(f, S, g) ==
    g = [s \in SUBSET S |->
            IF s = {} THEN 0 ELSE f[CHOOSE x \in s : TRUE] + g[s \ {CHOOSE x \in s : TRUE}]]

\* There is one.
LEMMA AddsExists ==
    ASSUME NEW S, IsFiniteSet(S), NEW f
    PROVE  \E g : Adds(f, S, g)
<1> DEFINE Sets(n) == {s \in SUBSET S : Cardinality(s) <= n}
           Sum(g, s) == IF s = {} THEN 0 ELSE f[CHOOSE x \in s : TRUE] + g[s \ {CHOOSE x \in s : TRUE}]
           H == {n \in Nat : \E g : g = [s \in Sets(n) |-> Sum(g, s)]}
<1>1. \A s \in SUBSET S : IsFiniteSet(s) /\ Cardinality(s) \in Nat /\ Cardinality(s) <= Cardinality(S)
  BY FS_Subset, FS_CardinalityType
<1>2. 0 \in H
  <2> DEFINE g == [s \in Sets(0) |-> 0]
  <2>1. \A s \in Sets(0) : s = {}
    BY <1>1, FS_EmptySet
  <2>2. g = [s \in Sets(0) |-> Sum(g, s)]
    BY <2>1
  <2> QED BY <2>2
<1>3. ASSUME NEW n \in Nat, n \in H PROVE n + 1 \in H
  <2>1. PICK g : g = [s \in Sets(n) |-> Sum(g, s)]
    BY <1>3
  <2> DEFINE h == [s \in Sets(n + 1) |-> Sum(g, s)]
  <2>2. \A s \in Sets(n) : s \in Sets(n + 1) /\ h[s] = g[s]
    <3>1. \A s \in Sets(n) : s \in Sets(n + 1)
      BY <1>1
    <3>2. \A s \in Sets(n) : g[s] = Sum(g, s)
      BY <2>1
    <3> QED BY <3>1, <3>2
  <2>3. ASSUME NEW s \in Sets(n + 1), s # {} PROVE s \ {CHOOSE x \in s : TRUE} \in Sets(n)
    <3> DEFINE c == CHOOSE x \in s : TRUE
    <3>1. c \in s
      BY <2>3
    <3> HIDE DEF c
    <3>2. s \in SUBSET S /\ IsFiniteSet(s) /\ Cardinality(s) \in Nat /\ Cardinality(s) <= n + 1
      BY <1>1
    <3>3. Cardinality(s \ {c}) = Cardinality(s) - 1
      BY <3>1, <3>2, FS_RemoveElement
    <3>4. s \ {c} \in Sets(n)
      BY <3>2, <3>3
    <3> QED BY <3>4 DEF c
  <2>4. \A s \in Sets(n + 1) : Sum(h, s) = Sum(g, s)
    <3> HIDE DEF h
    <3> QED BY <2>2, <2>3
  <2>5. h = [s \in Sets(n + 1) |-> Sum(h, s)]
    <3>1. [s \in Sets(n + 1) |-> Sum(h, s)] = [s \in Sets(n + 1) |-> Sum(g, s)]
      <4> HIDE DEF Sets, Sum, h
      <4> QED BY <2>4
    <3> QED BY <3>1
  <2> HIDE DEF h
  <2>6. n + 1 \in Nat
    OBVIOUS
  <2> QED BY <2>5, <2>6
<1>4. Nat \subseteq H
  <2> HIDE DEF H
  <2> QED BY <1>2, <1>3, NatSetInduct
<1>5. Cardinality(S) \in H
  BY <1>4, FS_CardinalityType
<1>6. Sets(Cardinality(S)) = SUBSET S
  BY <1>1
<1> QED BY <1>5, <1>6 DEF Adds

\* Two of them agree.
LEMMA AddsUnique ==
    ASSUME NEW f, NEW S, IsFiniteSet(S), NEW S2, NEW g, NEW h, Adds(f, S, g), Adds(f, S2, h)
    PROVE  \A T \in SUBSET S : T \subseteq S2 => g[T] = h[T]
<1> DEFINE G == {T \in SUBSET S : T \subseteq S2 => g[T] = h[T]}
<1>1. ASSUME NEW T \in SUBSET S, \A x \in T : T \ {x} \in G PROVE T \in G
  <2> SUFFICES ASSUME T \subseteq S2 PROVE g[T] = h[T]
    OBVIOUS
  <2> DEFINE c == CHOOSE x \in T : TRUE
  <2>1. g[T] = IF T = {} THEN 0 ELSE f[c] + g[T \ {c}]
    BY DEF Adds
  <2>2. h[T] = IF T = {} THEN 0 ELSE f[c] + h[T \ {c}]
    BY DEF Adds
  <2>3. T # {} => g[T \ {c}] = h[T \ {c}]
    <3>1. T # {} => c \in T
      OBVIOUS
    <3> HIDE DEF c
    <3> QED BY <1>1, <3>1
  <2> QED BY <2>1, <2>2, <2>3
<1>2. SUBSET S \subseteq G
  <2> HIDE DEF G
  <2> QED BY <1>1, SubsetInduct
<1> QED BY <1>2

\* The sum over a finite set of values.
LEMMA SumAdds ==
    ASSUME NEW f, NEW S, IsFiniteSet(S)
    PROVE  \E g : Adds(f, S, g) /\ \A T \in SUBSET S : SumFunctionOnSet(f, T) = g[T]
<1>1. PICK g : Adds(f, S, g)
  BY AddsExists
<1>2. ASSUME NEW T \in SUBSET S PROVE SumFunctionOnSet(f, T) = g[T]
  <2> DEFINE it == CHOOSE h : Adds(f, T, h)
  <2>1. IsFiniteSet(T)
    BY FS_Subset
  <2>2. Adds(f, T, it)
    BY <2>1, AddsExists
  <2>3. SumFunctionOnSet(f, T) = it[T]
    BY DEF SumFunctionOnSet, FoldFunctionOnSet, MapThenFoldSet, Adds
  <2> HIDE DEF it
  <2>4. it[T] = g[T]
    BY <1>1, <2>1, <2>2, AddsUnique
  <2> QED BY <2>3, <2>4
<1> QED BY <1>1, <1>2

\* Sums of natural numbers are such.
LEMMA SumIsNat ==
    ASSUME NEW f, NEW S, IsFiniteSet(S), \A x \in S : f[x] \in Nat,
           NEW g, Adds(f, S, g)
    PROVE  \A T \in SUBSET S : g[T] \in Nat
<1> DEFINE G == {T \in SUBSET S : g[T] \in Nat}
<1>1. ASSUME NEW T \in SUBSET S, \A x \in T : T \ {x} \in G PROVE T \in G
  <2> DEFINE c == CHOOSE x \in T : TRUE
  <2>1. g[T] = IF T = {} THEN 0 ELSE f[c] + g[T \ {c}]
    BY DEF Adds
  <2>2. T # {} => c \in T
    OBVIOUS
  <2> HIDE DEF c
  <2>3. T # {} => g[T \ {c}] \in Nat /\ f[c] \in Nat
    BY <1>1, <2>2
  <2>4. g[T] \in Nat
    <3> HIDE DEF G
    <3> QED BY <2>1, <2>3
  <2> QED BY <2>4
<1>2. SUBSET S \subseteq G
  <2> HIDE DEF G
  <2> QED BY <1>1, SubsetInduct
<1> QED BY <1>2

\* Any element may be taken out of a sum.
LEMMA SumFacts ==
    ASSUME NEW f, NEW S, IsFiniteSet(S), \A x \in S : f[x] \in Nat
    PROVE  /\ SumFunctionOnSet(f, {}) = 0
           /\ SumFunctionOnSet(f, S) \in Nat
           /\ \A x \in S : SumFunctionOnSet(f, S) = f[x] + SumFunctionOnSet(f, S \ {x})
<1>1. PICK g : Adds(f, S, g) /\ \A T \in SUBSET S : SumFunctionOnSet(f, T) = g[T]
  BY SumAdds
<1>2. \A T \in SUBSET S : g[T] = IF T = {} THEN 0
                                 ELSE f[CHOOSE x \in T : TRUE] + g[T \ {CHOOSE x \in T : TRUE}]
  BY <1>1 DEF Adds
<1>3. \A T \in SUBSET S : g[T] \in Nat
  BY <1>1, SumIsNat
<1> DEFINE G == {T \in SUBSET S : \A x \in T : g[T] = f[x] + g[T \ {x}]}
<1>4. ASSUME NEW T \in SUBSET S, \A x \in T : T \ {x} \in G PROVE T \in G
  <2> DEFINE c == CHOOSE x \in T : TRUE
  <2> SUFFICES ASSUME NEW x \in T PROVE g[T] = f[x] + g[T \ {x}]
    OBVIOUS
  <2>1. c \in T
    OBVIOUS
  <2>2. g[T] = f[c] + g[T \ {c}]
    BY <1>2
  <2> HIDE DEF c
  <2>3. CASE x = c
    BY <2>2, <2>3
  <2>4. CASE x # c
    <3>1. g[T \ {c}] = f[x] + g[(T \ {c}) \ {x}]
      BY <1>4, <2>1, <2>4
    <3>2. g[T \ {x}] = f[c] + g[(T \ {x}) \ {c}]
      BY <1>4, <2>1, <2>4
    <3>3. (T \ {x}) \ {c} = (T \ {c}) \ {x} /\ (T \ {x}) \ {c} \in SUBSET S
      OBVIOUS
    <3>4. f[x] \in Nat /\ f[c] \in Nat /\ g[(T \ {x}) \ {c}] \in Nat
      BY <1>3, <2>1, <3>3
    <3> HIDE DEF G
    <3>5. g[T] = f[c] + (f[x] + g[(T \ {c}) \ {x}])
      BY <2>2, <3>1
    <3>6. g[T \ {x}] = f[c] + g[(T \ {c}) \ {x}]
      BY <3>2, <3>3
    <3>7. \A a, b, r \in Nat : a + (b + r) = b + (a + r)
      OBVIOUS
    <3>8. g[(T \ {c}) \ {x}] \in Nat
      BY <3>3, <3>4
    <3>9. f[c] + (f[x] + g[(T \ {c}) \ {x}]) = f[x] + (f[c] + g[(T \ {c}) \ {x}])
      BY <3>4, <3>7, <3>8
    <3> QED BY <3>5, <3>6, <3>9
  <2> QED BY <2>3, <2>4
<1>5. SUBSET S \subseteq G
  <2> HIDE DEF G
  <2> QED BY <1>4, SubsetInduct
<1>6. \A x \in S : SumFunctionOnSet(f, S \ {x}) = g[S \ {x}]
  BY <1>1
<1>7. SumFunctionOnSet(f, S) = g[S] /\ SumFunctionOnSet(f, {}) = g[{}]
  BY <1>1
<1>8. g[{}] = 0
  BY <1>2
<1> QED BY <1>3, <1>5, <1>6, <1>7, <1>8

\* A sum depends on the values in its set only.
LEMMA SumSame ==
    ASSUME NEW f, NEW h, NEW S, IsFiniteSet(S), \A x \in S : f[x] \in Nat /\ f[x] = h[x]
    PROVE  SumFunctionOnSet(f, S) = SumFunctionOnSet(h, S)
<1> DEFINE G == {T \in SUBSET S : SumFunctionOnSet(f, T) = SumFunctionOnSet(h, T)}
<1>1. ASSUME NEW T \in SUBSET S, \A x \in T : T \ {x} \in G PROVE T \in G
  <2>1. IsFiniteSet(T) /\ \A x \in T : f[x] \in Nat /\ h[x] \in Nat /\ f[x] = h[x]
    BY FS_Subset
  <2>2. CASE T = {}
    BY <2>1, <2>2, SumFacts
  <2>3. CASE T # {}
    <3>1. PICK x \in T : TRUE
      BY <2>3
    <3>2. SumFunctionOnSet(f, T) = f[x] + SumFunctionOnSet(f, T \ {x})
      BY <2>1, SumFacts
    <3>3. SumFunctionOnSet(h, T) = h[x] + SumFunctionOnSet(h, T \ {x})
      BY <2>1, SumFacts
    <3> QED BY <1>1, <2>1, <3>2, <3>3
  <2> QED BY <2>2, <2>3
<1>2. SUBSET S \subseteq G
  <2> HIDE DEF G
  <2> QED BY <1>1, SubsetInduct
<1> QED BY <1>2

\* A sum over two sets: what the second adds is at most its own sum, and no
\* less where they are disjoint.
LEMMA SumUnion ==
    ASSUME NEW f, NEW S, NEW R, IsFiniteSet(S), IsFiniteSet(R), \A x \in S \cup R : f[x] \in Nat
    PROVE  /\ SumFunctionOnSet(f, S) <= SumFunctionOnSet(f, S \cup R)
           /\ SumFunctionOnSet(f, S \cup R) <= SumFunctionOnSet(f, S) + SumFunctionOnSet(f, R)
           /\ S \cap R = {} => SumFunctionOnSet(f, S \cup R) =
                                   SumFunctionOnSet(f, S) + SumFunctionOnSet(f, R)
<1> DEFINE s(T) == SumFunctionOnSet(f, T)
           P(T) == /\ s(S) <= s(S \cup T)
                   /\ s(S \cup T) <= s(S) + s(T)
                   /\ S \cap T = {} => s(S \cup T) = s(S) + s(T)
           G == {T \in SUBSET R : P(T)}
<1>1. ASSUME NEW T \in SUBSET R, \A x \in T : T \ {x} \in G PROVE T \in G
  <2>1. IsFiniteSet(T) /\ IsFiniteSet(S \cup T)
    BY FS_Subset, FS_Union
  <2>2. s({}) = 0 /\ s(S) \in Nat
    BY SumFacts
  <2>3. CASE T = {}
    <3>1. S \cup T = S
      BY <2>3
    <3> QED BY <2>2, <2>3, <3>1
  <2>4. CASE T # {}
    <3>1. PICK x \in T : TRUE
      BY <2>4
    <3>2. P(T \ {x})
      BY <1>1
    <3>3. s(T) = f[x] + s(T \ {x})
      <4>1. \A y \in T : f[y] \in Nat
        OBVIOUS
      <4> QED BY <2>1, <4>1, SumFacts
    <3>4. s(S \cup T) = f[x] + s((S \cup T) \ {x})
      <4>1. \A y \in S \cup T : f[y] \in Nat
        OBVIOUS
      <4> QED BY <2>1, <4>1, SumFacts
    <3>5. IsFiniteSet(T \ {x}) /\ IsFiniteSet(S \cup (T \ {x}))
      BY <2>1, FS_Subset, FS_Union
    <3>6. s(T \ {x}) \in Nat /\ s(S \cup (T \ {x})) \in Nat /\ f[x] \in Nat
      BY <3>5, SumFacts
    <3>7. CASE x \in S
      <4>1. S \cup T = S \cup (T \ {x})
        BY <3>7
      <4>2. S \cap T # {}
        BY <3>7
      <4> HIDE DEF s
      <4> QED BY <2>2, <3>2, <3>3, <3>6, <4>1, <4>2
    <3>8. CASE x \notin S
      <4>1. (S \cup T) \ {x} = S \cup (T \ {x})
        BY <3>8
      <4>2. S \cap T = {} => S \cap (T \ {x}) = {}
        OBVIOUS
      <4> HIDE DEF s
      <4> QED BY <2>2, <3>2, <3>3, <3>4, <3>6, <4>1, <4>2
    <3> QED BY <3>7, <3>8
  <2> QED BY <2>3, <2>4
<1>2. SUBSET R \subseteq G
  <2> HIDE DEF G
  <2> QED BY <1>1, SubsetInduct
<1>3. P(R)
  BY <1>2
<1> QED BY <1>3

\* A sum over a union of sets is at most the sum of the sums over them.
LEMMA SumOfUnion ==
    ASSUME NEW w, NEW S, IsFiniteSet(S), NEW F, NEW v,
           \A t \in S : /\ IsFiniteSet(F[t])
                        /\ v[t] \in Nat
                        /\ \A x \in F[t] : w[x] \in Nat
                        /\ SumFunctionOnSet(w, F[t]) <= v[t]
    PROVE  /\ IsFiniteSet(UNION {F[t] : t \in S})
           /\ SumFunctionOnSet(w, UNION {F[t] : t \in S}) \in Nat
           /\ SumFunctionOnSet(w, UNION {F[t] : t \in S}) <= SumFunctionOnSet(v, S)
<1> DEFINE U(T) == UNION {F[t] : t \in T}
           P(T) == /\ IsFiniteSet(U(T))
                   /\ SumFunctionOnSet(w, U(T)) \in Nat
                   /\ SumFunctionOnSet(w, U(T)) <= SumFunctionOnSet(v, T)
           G == {T \in SUBSET S : P(T)}
<1>1. ASSUME NEW T \in SUBSET S, \A x \in T : T \ {x} \in G PROVE T \in G
  <2>1. IsFiniteSet(T) /\ \A t \in T : v[t] \in Nat
    BY FS_Subset
  <2>2. CASE T = {}
    <3>1. U(T) = {} /\ IsFiniteSet({})
      BY <2>2, FS_EmptySet
    <3>2. SumFunctionOnSet(w, {}) = 0 /\ SumFunctionOnSet(v, {}) = 0
      BY <3>1, SumFacts
    <3> QED BY <2>2, <3>1, <3>2
  <2>3. CASE T # {}
    <3>1. PICK t \in T : TRUE
      BY <2>3
    <3>2. P(T \ {t})
      BY <1>1
    <3>3. U(T) = U(T \ {t}) \cup F[t]
      OBVIOUS
    <3>4. \A x \in U(T \ {t}) \cup F[t] : w[x] \in Nat
      OBVIOUS
    <3> HIDE DEF U
    <3>5. IsFiniteSet(U(T))
      BY <3>2, <3>3, FS_Union
    <3>6. SumFunctionOnSet(w, U(T)) \in Nat
      BY <3>3, <3>4, <3>5, SumFacts
    <3>7. SumFunctionOnSet(w, U(T)) <= SumFunctionOnSet(w, U(T \ {t})) + SumFunctionOnSet(w, F[t])
      BY <3>2, <3>3, <3>4, SumUnion
    <3>8. SumFunctionOnSet(v, T) = v[t] + SumFunctionOnSet(v, T \ {t})
      BY <2>1, SumFacts
    <3>9. SumFunctionOnSet(w, F[t]) \in Nat
      BY <3>4, SumFacts
    <3>10. SumFunctionOnSet(v, T \ {t}) \in Nat
      <4>1. IsFiniteSet(T \ {t})
        BY <2>1, FS_Subset
      <4> QED BY <2>1, <4>1, SumFacts
    <3> QED BY <3>2, <3>5, <3>6, <3>7, <3>8, <3>9, <3>10
  <2> QED BY <2>2, <2>3
<1>2. SUBSET S \subseteq G
  <2> HIDE DEF G
  <2> QED BY <1>1, SubsetInduct
<1>3. P(S)
  BY <1>2
<1> QED BY <1>3

\* A sum with one value changed.
LEMMA SumChange ==
    ASSUME NEW S, IsFiniteSet(S), NEW a \in S, NEW f, NEW h,
           \A x \in S : f[x] \in Nat /\ h[x] \in Nat,
           \A x \in S \ {a} : f[x] = h[x]
    PROVE  SumFunctionOnSet(h, S) + f[a] = SumFunctionOnSet(f, S) + h[a]
<1>1. SumFunctionOnSet(f, S) = f[a] + SumFunctionOnSet(f, S \ {a})
  BY SumFacts
<1>2. SumFunctionOnSet(h, S) = h[a] + SumFunctionOnSet(h, S \ {a})
  BY SumFacts
<1>3. IsFiniteSet(S \ {a})
  BY FS_Subset
<1>4. SumFunctionOnSet(f, S \ {a}) = SumFunctionOnSet(h, S \ {a})
  BY <1>3, SumSame
<1>5. SumFunctionOnSet(f, S \ {a}) \in Nat
  BY <1>3, SumFacts
<1> QED BY <1>1, <1>2, <1>4, <1>5

\* The values of a function on a finite set are finitely many.
LEMMA FiniteImage ==
    ASSUME NEW S, IsFiniteSet(S), NEW f
    PROVE  IsFiniteSet({f[x] : x \in S})
<1> DEFINE T == {f[x] : x \in S}
           g == [x \in S |-> f[x]]
<1>1. g \in Surjection(S, T)
  BY DEF Surjection
<1> HIDE DEF g, T
<1>2. IsFiniteSet(T)
  BY <1>1, FS_Surjection
<1> QED BY <1>2 DEF T

-----------------------------------------------------------------------------
(* Lists as sets *)

\* A list without its last element, and that element.
LEMMA LastFacts ==
    ASSUME NEW S, NEW q \in Seq(S), q # <<>>
    PROVE  LET e == q[Len(q)]  f == SubSeq(q, 1, Len(q) - 1) IN
           /\ e \in S /\ f \in Seq(S)
           /\ Range(q) = Range(f) \cup {e}
           /\ NoDuplicates(q) => NoDuplicates(f) /\ e \notin Range(f)
<1> DEFINE n == Len(q)  f == SubSeq(q, 1, n - 1)
<1>1. n \in Nat /\ n # 0 /\ DOMAIN q = 1..n
  BY EmptySeq
<1>2. q[n] \in S
  BY <1>1
<1>3. f \in Seq(S) /\ Len(f) = n - 1 /\ \A i \in 1..n - 1 : f[i] = q[i]
  BY <1>1, FirstMembers
<1> HIDE DEF f
<1>4. DOMAIN f = 1..n - 1
  BY <1>3
<1>5. 1..n = (1..n - 1) \cup {n}
  BY <1>1
<1>6. Range(q) = Range(f) \cup {q[n]}
  <2>1. \A x : x \in Range(q) <=> \E i \in 1..n : q[i] = x
    BY <1>1 DEF Range
  <2>2. \A x : x \in Range(f) <=> \E i \in 1..n - 1 : q[i] = x
    BY <1>3, <1>4 DEF Range
  <2> HIDE DEF n
  <2> QED BY <1>5, <2>1, <2>2
<1>7. NoDuplicates(q) => NoDuplicates(f)
  BY <1>1, <1>3, <1>4 DEF NoDuplicates
<1>8. NoDuplicates(q) => q[n] \notin Range(f)
  <2> SUFFICES ASSUME NoDuplicates(q), NEW i \in 1..n - 1, f[i] = q[n] PROVE FALSE
    BY <1>4 DEF Range
  <2> QED BY <1>1, <1>3 DEF NoDuplicates
<1> QED BY <1>2, <1>3, <1>6, <1>7, <1>8 DEF f

\* A finite set has lists of its elements, and each of them has all.
LEMMA ListsOfSet ==
    ASSUME NEW S, IsFiniteSet(S)
    PROVE  /\ \E f \in [1..Cardinality(S) -> S] : IsInjective(f)
           /\ \A f \in [1..Cardinality(S) -> S] : IsInjective(f) =>
                f \in Seq(S) /\ NoDuplicates(f) /\ Range(f) = S
<1> DEFINE n == Cardinality(S)
<1>1. n \in Nat /\ ExistsBijection(1..n, S)
  BY FS_CardinalityType
<1>2. \E f \in [1..n -> S] : IsInjective(f)
  BY <1>1 DEF ExistsBijection, Bijection, Injection
<1>3. ASSUME NEW f \in [1..n -> S], IsInjective(f)
      PROVE  f \in Seq(S) /\ NoDuplicates(f) /\ Range(f) = S
  <2>1. f \in Seq(S) /\ DOMAIN f = 1..n
    BY <1>1
  <2>2. f \in Injection(1..n, S)
    BY <1>3 DEF Injection
  <2>3. Cardinality(1..n) = n
    BY <1>1, FS_Interval
  <2>4. f \in Surjection(1..n, S)
    BY <2>2, <2>3, FS_Injection
  <2>5. Range(f) = S
    BY <2>1, <2>4 DEF Surjection, Range
  <2> QED BY <1>3, <2>1, <2>5 DEF NoDuplicates, IsInjective
<1> QED BY <1>2, <1>3

\* A list without duplicates is no longer than the set of its elements.
LEMMA ListFits ==
    ASSUME NEW n \in Nat, NEW q \in Seq(1..n), NoDuplicates(q)
    PROVE  Len(q) <= n
<1>1. Len(q) \in Nat /\ DOMAIN q = 1..Len(q) /\ q \in [1..Len(q) -> 1..n]
  OBVIOUS
<1>2. q \in Injection(1..Len(q), 1..n)
  BY <1>1 DEF Injection, IsInjective, NoDuplicates
<1>3. \A k \in Nat : IsFiniteSet(1..k) /\ Cardinality(1..k) = k
  BY FS_Interval
<1> QED BY <1>1, <1>2, <1>3, FS_Injection

\* What has at most as many elements as it has indices.
LEMMA RangeCardinality ==
    ASSUME NEW S, NEW q \in Seq(S)
    PROVE  IsFiniteSet(Range(q)) /\ Cardinality(Range(q)) <= Len(q)
<1>1. Len(q) \in Nat /\ DOMAIN q = 1..Len(q)
  OBVIOUS
<1>2. q \in [1..Len(q) -> Range(q)]
  BY <1>1 DEF Range
<1>3. q \in Surjection(1..Len(q), Range(q))
  BY <1>1, <1>2 DEF Surjection, Range
<1>4. IsFiniteSet(1..Len(q)) /\ Cardinality(1..Len(q)) = Len(q)
  BY <1>1, FS_Interval
<1> QED BY <1>3, <1>4, FS_Surjection

\* Picking every position of a list picks the list.
LEMMA PickedAll ==
    ASSUME NEW S, NEW q \in Seq(S)
    PROVE  Picked(q, DOMAIN q) = q
<1> DEFINE n == Len(q)
<1>1. n \in Nat /\ DOMAIN q = 1..n
  OBVIOUS
<1>2. Cardinality(1..n) = n
  BY <1>1, FS_Interval
<1>3. ASSUME NEW j \in 1..n
      PROVE  (CHOOSE i \in 1..n : Cardinality({k \in 1..n : k < i}) = j - 1) = j
  <2>1. ASSUME NEW i \in 1..n PROVE Cardinality({k \in 1..n : k < i}) = i - 1
    <3>1. {k \in 1..n : k < i} = 1..i - 1
      BY <1>1
    <3>2. Cardinality(1..i - 1) = i - 1
      <4>1. 1 \in Int /\ i - 1 \in Int /\ i >= 1
        BY <1>1
      <4>2. Cardinality(1..i - 1) = IF 1 > i - 1 THEN 0 ELSE (i - 1) - 1 + 1
        BY <4>1, FS_Interval
      <4> QED BY <4>1, <4>2
    <3> QED BY <3>1, <3>2
  <2> DEFINE c(i) == Cardinality({k \in 1..n : k < i})
  <2>2. \A i \in 1..n : c(i) = i - 1
    BY <2>1
  <2> HIDE DEF c
  <2>3. \A i \in 1..n : c(i) = j - 1 <=> i = j
    BY <1>1, <2>2
  <2>4. (CHOOSE i \in 1..n : c(i) = j - 1) = j
    BY <2>3
  <2> QED BY <2>4 DEF c
<1> DEFINE at(j) == CHOOSE i \in 1..n : Cardinality({k \in 1..n : k < i}) = j - 1
<1>4. Picked(q, DOMAIN q) = [j \in 1..n |-> q[j]]
  <2>1. Picked(q, DOMAIN q) = [j \in 1..n |-> q[at(j)]]
    BY <1>1, <1>2 DEF Picked
  <2>2. \A j \in 1..n : at(j) = j
    BY <1>3
  <2> HIDE DEF at
  <2> QED BY <2>1, <2>2
<1> QED BY <1>1, <1>4

\* Ranks that no two elements of a finite set share are all taken.
LEMMA RanksTaken ==
    ASSUME NEW D, IsFiniteSet(D), NEW r \in [D -> 1..Cardinality(D)], \A x, y \in D : r[x] = r[y] => x = y
    PROVE  \A k \in 1..Cardinality(D) : \E x \in D : r[x] = k
<1> DEFINE n == Cardinality(D)
<1>1. n \in Nat
  BY FS_CardinalityType
<1>2. IsFiniteSet(1..n) /\ Cardinality(1..n) = n
  BY <1>1, FS_Interval
<1>3. r \in Injection(D, 1..n)
  BY DEF Injection, IsInjective
<1>4. r \in Surjection(D, 1..n)
  BY <1>2, <1>3, FS_Injection
<1> QED BY <1>4 DEF Surjection

\* What picking positions of a list picks.
LEMMA PickedFacts ==
    ASSUME NEW S, NEW q \in Seq(S), NEW K \in SUBSET DOMAIN q
    PROVE  /\ Picked(q, K) \in Seq(S)
           /\ \A j \in DOMAIN Picked(q, K) : \E i \in K : Picked(q, K)[j] = q[i]
           /\ NoDuplicates(q) => NoDuplicates(Picked(q, K))
<1> DEFINE n == Cardinality(K)
           below(i) == {k \in K : k < i}
<1>1. Len(q) \in Nat /\ DOMAIN q = 1..Len(q)
  OBVIOUS
<1>2. IsFiniteSet(K) /\ n \in Nat
  <2>1. 1 \in Int /\ Len(q) \in Int
    BY <1>1
  <2>2. IsFiniteSet(1..Len(q))
    BY <2>1, FS_Interval
  <2> QED BY <1>1, <2>2, FS_Subset, FS_CardinalityType
<1>3. ASSUME NEW i \in K
      PROVE  /\ IsFiniteSet(below(i)) /\ Cardinality(below(i)) \in Nat
             /\ Cardinality(below(i)) \in 0..n - 1
  <2>1. below(i) \subseteq K /\ i \in K /\ i \notin below(i)
    BY <1>1
  <2>2. IsFiniteSet(below(i)) /\ Cardinality(below(i)) <= n /\ Cardinality(below(i)) # n
    BY <1>2, <2>1, FS_Subset
  <2>3. Cardinality(below(i)) \in Nat
    BY <2>2, FS_CardinalityType
  <2> HIDE DEF below
  <2> QED BY <1>2, <2>2, <2>3
<1>4. ASSUME NEW i \in K, NEW j \in K, i < j PROVE Cardinality(below(i)) < Cardinality(below(j))
  <2>1. below(i) \subseteq below(j) /\ i \in below(j) /\ i \notin below(i)
    BY <1>1, <1>4
  <2>2. Cardinality(below(i)) <= Cardinality(below(j)) /\ Cardinality(below(i)) # Cardinality(below(j))
    BY <1>3, <2>1, FS_Subset
  <2> DEFINE a == Cardinality(below(i))  b == Cardinality(below(j))
  <2>3. a \in Nat /\ b \in Nat
    BY <1>3
  <2>4. a <= b /\ a # b
    BY <2>2
  <2> HIDE DEF a, b
  <2>5. a < b
    BY <2>3, <2>4
  <2> QED BY <2>5 DEF a, b
<1> HIDE DEF below
<1> DEFINE r == [i \in K |-> Cardinality(below(i)) + 1]
<1>5. r \in [K -> 1..n]
  BY <1>2, <1>3
<1>6. \A x, y \in K : r[x] = r[y] => x = y
  <2> SUFFICES ASSUME NEW x \in K, NEW y \in K, x # y PROVE r[x] # r[y]
    OBVIOUS
  <2>1. x \in Nat /\ y \in Nat
    BY <1>1
  <2>2. x < y \/ y < x
    BY <2>1
  <2> DEFINE a == Cardinality(below(x))  b == Cardinality(below(y))
  <2>3. a \in Nat /\ b \in Nat /\ (a < b \/ b < a)
    BY <1>3, <1>4, <2>2
  <2>4. r[x] = a + 1 /\ r[y] = b + 1
    OBVIOUS
  <2> HIDE DEF a, b, r
  <2> QED BY <2>3, <2>4
<1>7. \A k \in 1..n : \E x \in K : r[x] = k
  BY <1>2, <1>5, <1>6, RanksTaken
<1>8. \A k \in 1..n : \E x \in K : Cardinality(below(x)) = k - 1
  <2> SUFFICES ASSUME NEW k \in 1..n PROVE \E x \in K : Cardinality(below(x)) = k - 1
    OBVIOUS
  <2>1. PICK x \in K : r[x] = k
    BY <1>7
  <2> DEFINE a == Cardinality(below(x))
  <2>2. a \in Nat /\ a + 1 = k
    BY <1>3, <2>1
  <2> HIDE DEF a
  <2>3. a = k - 1
    BY <2>2
  <2> QED BY <2>3 DEF a
<1> DEFINE at(k) == CHOOSE i \in K : Cardinality(below(i)) = k - 1
<1>9. \A k \in 1..n : at(k) \in K /\ Cardinality(below(at(k))) = k - 1
  BY <1>8
<1> DEFINE p == Picked(q, K)
<1>10. p = [k \in 1..n |-> q[at(k)]]
  BY DEF Picked, below
<1> HIDE DEF at
<1>11. \A k \in 1..n : q[at(k)] \in S
  BY <1>1, <1>9
<1>12. p \in Seq(S) /\ DOMAIN p = 1..n /\ \A k \in 1..n : p[k] = q[at(k)]
  BY <1>2, <1>10, <1>11
<1> HIDE DEF p
<1>13. \A j \in DOMAIN p : \E i \in K : p[j] = q[i]
  BY <1>9, <1>12
<1>14. ASSUME NoDuplicates(q) PROVE NoDuplicates(p)
  <2> SUFFICES ASSUME NEW j \in 1..n, NEW k \in 1..n, p[j] = p[k] PROVE j = k
    BY <1>12 DEF NoDuplicates
  <2>1. q[at(j)] = q[at(k)] /\ at(j) \in DOMAIN q /\ at(k) \in DOMAIN q
    BY <1>9, <1>12
  <2>2. at(j) = at(k)
    BY <1>14, <2>1 DEF NoDuplicates
  <2>3. j - 1 = k - 1
    BY <1>9, <2>2
  <2> QED BY <2>3
<1> QED BY <1>12, <1>13, <1>14 DEF p
-----------------------------------------------------------------------------
(* Numbers *)

\* Products of naturals, as the provers need them.
LEMMA TimesNat == \A a, b \in Nat : a * b \in Nat
OBVIOUS

\* Products are monotonic.
LEMMA TimesLe == \A a, b, c, d \in Nat : a <= b /\ c <= d => a * c <= b * d
<1> SUFFICES ASSUME NEW a \in Nat, NEW b \in Nat, NEW c \in Nat, NEW d \in Nat, a <= b, c <= d
             PROVE  a * c <= b * d
  OBVIOUS
<1>1. \A x, y, z \in Nat : y <= z => x * y <= x * z
  OBVIOUS
<1>2. a * c <= a * d
  BY <1>1
<1>3. a * d <= b * d
  <2>1. d * a <= d * b
    BY <1>1
  <2> QED BY <2>1
<1>4. a * c \in Nat /\ a * d \in Nat /\ b * d \in Nat
  BY TimesNat
<1> QED BY <1>2, <1>3, <1>4

\* A square with a factor is in the order of the root.
LEMMA RootLe ==
    ASSUME NEW x \in Nat, NEW y \in Nat, NEW g \in Nat \ {0}, (x * x) * g <= (y * y) * g
    PROVE  x <= y
<1> SUFFICES ASSUME y + 1 <= x PROVE FALSE
  OBVIOUS
<1>1. (y + 1) * (y + 1) <= x * x
  BY TimesLe
<1>2. (y + 1) * (y + 1) = y * y + 2 * y + 1
  OBVIOUS
<1>3. x * x \in Nat /\ y * y \in Nat
  BY TimesNat
<1>4. y * y + 1 <= x * x
  BY <1>1, <1>2, <1>3
<1>5. (y * y + 1) * g <= (x * x) * g
  BY <1>3, <1>4, TimesLe
<1>6. (y * y + 1) * g = (y * y) * g + g
  BY <1>3
<1>7. (x * x) * g \in Nat /\ (y * y) * g \in Nat
  BY <1>3, TimesNat
<1> QED BY <1>5, <1>6, <1>7

\* Two sides within the roots of their ratios have a product within the limit.
LEMMA ProductLe ==
    ASSUME NEW a \in Nat, NEW b \in Nat, NEW h \in Nat \ {0}, NEW w \in Nat \ {0}, NEW X \in Nat,
           (a * a) * w <= h * X, (b * b) * h <= w * X
    PROVE  a * b <= X
<1>1. a * a \in Nat /\ b * b \in Nat /\ h * X \in Nat /\ w * X \in Nat /\ a * b \in Nat
      /\ h * w \in Nat \ {0}
  <2>1. h * w \in Nat /\ h * w >= 1 * 1
    BY TimesNat, TimesLe
  <2> QED BY <2>1, TimesNat
<1>2. (a * a) * w \in Nat /\ (b * b) * h \in Nat
  BY <1>1, TimesNat
<1>3. ((a * a) * w) * ((b * b) * h) <= (h * X) * (w * X)
  BY <1>1, <1>2, TimesLe
<1>4. ((a * a) * w) * ((b * b) * h) = ((a * b) * (a * b)) * (h * w)
  OBVIOUS
<1>5. (h * X) * (w * X) = (X * X) * (h * w)
  OBVIOUS
<1> QED BY <1>1, <1>3, <1>4, <1>5, RootLe

\* The same, the other way.
LEMMA ProductGe ==
    ASSUME NEW a \in Nat, NEW b \in Nat, NEW h \in Nat \ {0}, NEW w \in Nat \ {0}, NEW X \in Nat,
           h * X <= (a * a) * w, w * X <= (b * b) * h
    PROVE  X <= a * b
<1>1. a * a \in Nat /\ b * b \in Nat /\ h * X \in Nat /\ w * X \in Nat /\ a * b \in Nat
      /\ h * w \in Nat \ {0}
  <2>1. h * w \in Nat /\ h * w >= 1 * 1
    BY TimesNat, TimesLe
  <2> QED BY <2>1, TimesNat
<1>2. (a * a) * w \in Nat /\ (b * b) * h \in Nat
  BY <1>1, TimesNat
<1>3. (h * X) * (w * X) <= ((a * a) * w) * ((b * b) * h)
  BY <1>1, <1>2, TimesLe
<1>4. ((a * a) * w) * ((b * b) * h) = ((a * b) * (a * b)) * (h * w)
  OBVIOUS
<1>5. (h * X) * (w * X) = (X * X) * (h * w)
  OBVIOUS
<1> QED BY <1>1, <1>3, <1>4, <1>5, RootLe

\* Division with remainder.
LEMMA Divided ==
    ASSUME NEW d \in Nat \ {0}, NEW n \in Nat
    PROVE  n \div d \in Nat /\ n % d \in 0..d - 1 /\ n = d * (n \div d) + (n % d)
OBVIOUS

\* Quotient and remainder are the only ones.
LEMMA DividesOnce ==
    ASSUME NEW d \in Nat \ {0}, NEW q \in Nat, NEW r \in 0..d - 1
    PROVE  (d * q + r) \div d = q /\ (d * q + r) % d = r
<1> DEFINE n == d * q + r
           u == n \div d
           v == n % d
<1>1. n \in Nat
  BY TimesNat
<1>2. u \in Nat /\ v \in 0..d - 1 /\ n = d * u + v
  BY <1>1, Divided
<1>3. n = d * q + r
  OBVIOUS
<1> HIDE DEF n, u, v
<1>4. \A x, y \in Nat : x + 1 <= y => d * x + d <= d * y
  <2> SUFFICES ASSUME NEW x \in Nat, NEW y \in Nat, x + 1 <= y PROVE d * x + d <= d * y
    OBVIOUS
  <2>1. d * (x + 1) <= d * y
    BY TimesLe
  <2>2. d * (x + 1) = d * x + d
    OBVIOUS
  <2> QED BY <2>1, <2>2
<1>5. d * u \in Nat /\ d * q \in Nat
  BY <1>2, TimesNat
<1>6. ~(u + 1 <= q)
  BY <1>2, <1>3, <1>4, <1>5
<1>7. ~(q + 1 <= u)
  BY <1>2, <1>3, <1>4, <1>5
<1>8. u = q
  BY <1>2, <1>6, <1>7
<1>9. v = r
  BY <1>2, <1>3, <1>5, <1>8
<1> QED BY <1>8, <1>9 DEF n, u, v

\* A number below a product, by its quotient and remainder.
LEMMA DigitsBelow ==
    ASSUME NEW d \in Nat \ {0}, NEW m \in Nat, NEW n \in 0..d * m - 1
    PROVE  n \in Nat /\ n \div d \in 0..m - 1 /\ n % d \in 0..d - 1 /\ n = d * (n \div d) + (n % d)
<1> DEFINE q == n \div d
<1>1. d * m \in Nat
  BY TimesNat
<1>2. n \in Nat /\ n <= d * m - 1
  BY <1>1
<1>3. q \in Nat /\ n % d \in 0..d - 1 /\ n = d * q + (n % d)
  BY <1>2, Divided
<1> HIDE DEF q
<1>4. ~(m <= q)
  <2> SUFFICES ASSUME m <= q PROVE FALSE
    OBVIOUS
  <2>1. d * m <= d * q /\ d * q \in Nat
    BY <1>3, TimesLe, TimesNat
  <2> QED BY <1>1, <1>2, <1>3, <2>1
<1> QED BY <1>2, <1>3, <1>4 DEF q

\* And back.
LEMMA DigitsMake ==
    ASSUME NEW d \in Nat \ {0}, NEW m \in Nat, NEW q \in 0..m - 1, NEW r \in 0..d - 1
    PROVE  d * q + r \in 0..d * m - 1
<1>1. d * (q + 1) <= d * m
  BY TimesLe
<1>2. d * (q + 1) = d * q + d
  OBVIOUS
<1>3. d * q \in Nat /\ d * m \in Nat
  BY TimesNat
<1> QED BY <1>1, <1>2, <1>3
=============================================================================
