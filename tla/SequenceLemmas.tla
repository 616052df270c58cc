--------------------------- MODULE SequenceLemmas ---------------------------
(***************************************************************************)
(* Lemmas that the proofs of several components rest on: induction over    *)
(* sets of naturals, and what sequences, their parts and the folds over    *)
(* them are.                                                               *)
(***************************************************************************)
EXTENDS Naturals, Sequences, FiniteSets, SequencesExt, SequenceTheorems,
        FiniteSetTheorems, WellFoundedInduction, TLAPS

-----------------------------------------------------------------------------
(* Induction. A property of naturals is the set of those that have it.     *)

\* A set of naturals has a least element.
LEMMA LeastNatural ==
    ASSUME NEW S \in SUBSET Nat, S # {}
    PROVE  \E n \in S : \A m \in S : n <= m
  <1> DEFINE Below(n) == 1..n
             T == {Below(n) : n \in S}
  <1>1. T \in SUBSET FiniteSubsetsOf(Nat) /\ T # {}
    <2>1. ASSUME NEW n \in S PROVE IsFiniteSet(Below(n)) /\ Below(n) \in SUBSET Nat
      <3>1. n \in Int /\ 1 \in Int
        OBVIOUS
      <3> QED
        BY <3>1, FS_Interval
    <2> HIDE DEF Below
    <2> QED
      BY <2>1 DEF FiniteSubsetsOf
  <1>2. \E x \in T : \A y \in T : ~(<<y, x>> \in StrictSubsetOrdering(Nat))
    <2> HIDE DEF T
    <2> QED
      BY <1>1, FS_StrictSubsetOrderingWellFounded, WFMin
  <1>3. PICK n \in S : \A m \in S : ~(<<Below(m), Below(n)>> \in StrictSubsetOrdering(Nat))
    <2> HIDE DEF Below
    <2> QED
      BY <1>2
  <1>4. ASSUME NEW m \in S, m < n PROVE FALSE
    <2>1. Below(m) \subseteq Below(n) /\ n \in Below(n) /\ n \notin Below(m)
      BY <1>4
    <2>2. Below(m) \in SUBSET Nat /\ Below(n) \in SUBSET Nat
      OBVIOUS
    <2> HIDE DEF Below
    <2>3. <<Below(m), Below(n)>> \in StrictSubsetOrdering(Nat)
      BY <2>1, <2>2 DEF StrictSubsetOrdering
    <2> QED
      BY <2>3, <1>3
  <1> QED
    BY <1>4

\* A set that has zero and the successor of each of its naturals has them all.
LEMMA Induction ==
    ASSUME NEW S, 0 \in S, \A n \in Nat : n \in S => n + 1 \in S
    PROVE  \A n \in Nat : n \in S
  <1>1. SUFFICES ASSUME NEW k \in Nat, k \notin S PROVE FALSE
    OBVIOUS
  <1>2. PICK n \in Nat \ S : \A m \in Nat \ S : n <= m
    BY LeastNatural, <1>1
  <1>3. n # 0 /\ n - 1 \in Nat /\ n - 1 \in S /\ (n - 1) + 1 = n
    BY <1>2
  <1> QED
    BY <1>2, <1>3

\* The same up to a bound.
LEMMA BoundedInduction ==
    ASSUME NEW S, NEW n \in Nat, 0 \in S, \A i \in 1..n : i - 1 \in S => i \in S
    PROVE  \A i \in 0..n : i \in S
  <1> DEFINE K == {k \in Nat : k <= n => k \in S}
  <1>1. 0 \in K
    OBVIOUS
  <1>2. ASSUME NEW k \in Nat, k \in K PROVE k + 1 \in K
    <2>1. CASE k + 1 <= n
      <3>1. k + 1 \in 1..n /\ (k + 1) - 1 = k /\ k \in S
        BY <1>2, <2>1
      <3> QED
        BY <3>1
    <2> QED
      BY <2>1
  <1>3. \A k \in Nat : k \in K
    <2> HIDE DEF K
    <2> QED
      BY <1>1, <1>2, Induction
  <1> QED
    BY <1>3

-----------------------------------------------------------------------------
(* Folds.                                                                  *)

\* The greatest element, where there is one.
LEMMA MaxIs ==
    ASSUME NEW S \in SUBSET Int, NEW m \in S, \A x \in S : x <= m
    PROVE  Max(S) = m
  <1>1. \A x \in S : m >= x
    OBVIOUS
  <1>2. Max(S) \in S /\ \A x \in S : Max(S) >= x
    BY <1>1 DEF Max
  <1>3. Max(S) \in Int /\ m \in Int /\ Max(S) >= m /\ Max(S) <= m
    BY <1>2
  <1> QED
    BY <1>3

\* Between bounds there is one.
LEMMA MaxExists ==
    ASSUME NEW n \in Nat, NEW S \in SUBSET (1..n), S # {}
    PROVE  Max(S) \in S /\ \A x \in S : x <= Max(S)
  <1> DEFINE Above == {k \in Nat : \A x \in S : x <= k}
  <1>1. n \in Above
    OBVIOUS
  <1>2. PICK m \in Above : \A k \in Above : m <= k
    <2>1. Above \in SUBSET Nat /\ Above # {}
      BY <1>1
    <2> HIDE DEF Above
    <2> QED
      BY <2>1, LeastNatural
  <1>3. m \in S
    <2>1. SUFFICES ASSUME m \notin S PROVE FALSE
      OBVIOUS
    <2>2. PICK x \in S : x \in 1..n
      OBVIOUS
    <2>3. m - 1 \in Nat /\ \A y \in S : y <= m - 1
      BY <2>1, <2>2
    <2> QED
      BY <1>2, <2>3
  <1>4. S \in SUBSET Int /\ \A x \in S : x <= m
    OBVIOUS
  <1>5. Max(S) = m
    BY <1>3, <1>4, MaxIs
  <1> QED
    BY <1>3, <1>4, <1>5

\* The least element.
LEMMA MinIs ==
    ASSUME NEW S \in SUBSET Int, NEW m \in S, \A x \in S : m <= x
    PROVE  Min(S) = m
  <1>1. Min(S) \in S /\ \A x \in S : Min(S) <= x
    BY DEF Min
  <1>2. Min(S) \in Int /\ m \in Int /\ Min(S) >= m /\ Min(S) <= m
    BY <1>1
  <1> QED
    BY <1>2

\* What a fold over 1..n from the left with values in T is defined by: G gives
\* the next value from the last one and the index.
IsFold(h, T, base, n, G) ==
    /\ h \in [SUBSET (1..n) -> T]
    /\ \A s \in SUBSET (1..n) :
          h[s] = IF s = {} THEN base ELSE G[<<h[s \ {Max(s)}], Max(s)>>]

\* There is such a function.
LEMMA FoldExists ==
    ASSUME NEW T, NEW base \in T, NEW n \in Nat, NEW G \in [T \X (1..n) -> T]
    PROVE  \E h : IsFold(h, T, base, n, G)
  <1> DEFINE Folds(k, h) ==
               \A s \in SUBSET (1..k) :
                  h[s] = IF s = {} THEN base ELSE G[<<h[s \ {Max(s)}], Max(s)>>]
             K == {k \in Nat : \E h \in [SUBSET (1..k) -> T] : Folds(k, h)}
  <1>1. 0 \in K
    <2>1. Folds(0, [s \in SUBSET (1..0) |-> base])
      OBVIOUS
    <2> QED
      BY <2>1
  <1>2. ASSUME NEW i \in 1..n, i - 1 \in K PROVE i \in K
    <2>1. PICK h \in [SUBSET (1..(i - 1)) -> T] : Folds(i - 1, h)
      BY <1>2
    <2> DEFINE f == [s \in SUBSET (1..i) |->
                        IF i \in s THEN G[<<h[s \ {i}], i>>] ELSE h[s]]
    <2>2. \A s \in SUBSET (1..i) : s \ {i} \in SUBSET (1..(i - 1))
      OBVIOUS
    <2>3. f \in [SUBSET (1..i) -> T]
      BY <2>2
    <2>4. ASSUME NEW s \in SUBSET (1..i), s # {}
          PROVE  f[s] = G[<<f[s \ {Max(s)}], Max(s)>>]
      <3>1. CASE i \in s
        <4>1. Max(s) = i
          BY <3>1, MaxIs
        <4>2. f[s \ {i}] = h[s \ {i}]
          BY <2>2
        <4> QED
          BY <3>1, <4>1, <4>2
      <3>2. CASE i \notin s
        <4>1. s \in SUBSET (1..(i - 1)) /\ s \ {Max(s)} \in SUBSET (1..(i - 1))
          <5>1. s \ {i} = s
            BY <3>2
          <5> QED
            BY <5>1, <2>2
        <4>2. h[s] = G[<<h[s \ {Max(s)}], Max(s)>>]
          BY <2>1, <2>4, <4>1
        <4>3. f[s \ {Max(s)}] = h[s \ {Max(s)}] /\ f[s] = h[s]
          BY <3>2, <4>1
        <4> QED
          BY <4>2, <4>3
      <3> QED
        BY <3>1, <3>2
    <2>5. f[{}] = base
      BY <2>1
    <2>6. Folds(i, f)
      <3> HIDE DEF f
      <3> QED
        BY <2>4, <2>5
    <2> HIDE DEF f, Folds
    <2>7. \E g \in [SUBSET (1..i) -> T] : Folds(i, g)
      BY <2>3, <2>6
    <2> QED
      BY <2>7
  <1>3. n \in K
    <2> HIDE DEF K
    <2>1. \A i \in 0..n : i \in K
      BY <1>1, <1>2, BoundedInduction
    <2> QED
      BY <2>1
  <1> QED
    BY <1>3 DEF IsFold

\* A function that is defined like that, if only for values in T.
FollowsFold(g, T, base, n, G) ==
    /\ g[{}] = base
    /\ \A s \in SUBSET (1..n) :
          s # {} /\ g[s \ {Max(s)}] \in T => g[s] = G[<<g[s \ {Max(s)}], Max(s)>>]

\* The steps of a fold.
IsFolded(f, T, base, n, G) ==
    /\ f \in [0..n -> T]
    /\ f[0] = base
    /\ \A i \in 1..n : f[i] = G[<<f[i - 1], i>>]

\* They are its values at 1..0, 1..1 and so on.
Steps(g, n) == [i \in 0..n |-> g[1..i]]

LEMMA FoldSteps ==
    ASSUME NEW T, NEW base \in T, NEW n \in Nat, NEW G \in [T \X (1..n) -> T], NEW g,
           FollowsFold(g, T, base, n, G)
    PROVE  IsFolded(Steps(g, n), T, base, n, G)
  <1> DEFINE f == Steps(g, n)
             K == {i \in 0..n : f[i] \in T}
  <1>1. f[0] = base
    <2>1. 1..0 = {}
      OBVIOUS
    <2> QED
      BY <2>1 DEF FollowsFold, Steps
  <1>2. ASSUME NEW i \in 1..n, f[i - 1] \in T PROVE f[i] = G[<<f[i - 1], i>>]
    <2>1. 1..i \in SUBSET (1..n) /\ i \in 1..i
      OBVIOUS
    <2>2. Max(1..i) = i
      <3>1. 1..i \in SUBSET Int /\ \A x \in 1..i : x <= i
        OBVIOUS
      <3> QED
        BY <2>1, <3>1, MaxIs
    <2>3. (1..i) \ {i} = 1..(i - 1)
      OBVIOUS
    <2>4. g[(1..i) \ {Max(1..i)}] = f[i - 1] /\ g[1..i] = f[i]
      <3>1. i \in 0..n /\ i - 1 \in 0..n
        OBVIOUS
      <3> QED
        BY <2>2, <2>3, <3>1 DEF Steps
    <2> HIDE DEF f
    <2> QED
      BY <1>2, <2>1, <2>2, <2>4 DEF FollowsFold
  <1> HIDE DEF f
  <1>3. 0 \in K
    BY <1>1
  <1>4. ASSUME NEW i \in 1..n, i - 1 \in K PROVE i \in K
    <2>1. f[i] = G[<<f[i - 1], i>>] /\ f[i - 1] \in T
      BY <1>2, <1>4
    <2> QED
      BY <2>1
  <1>5. \A i \in 0..n : f[i] \in T
    <2>1. \A i \in 0..n : i \in K
      <3> HIDE DEF K
      <3> QED
        BY <1>3, <1>4, BoundedInduction
    <2> QED
      BY <2>1
  <1>6. f \in [0..n -> T]
    BY <1>5 DEF f, Steps
  <1>7. \A i \in 1..n : f[i] = G[<<f[i - 1], i>>]
    BY <1>2, <1>5
  <1> QED
    BY <1>1, <1>6, <1>7 DEF IsFolded, f

\* G and H take the same steps up to m.
SameSteps(T, m, G, H) == \A v \in T, i \in 1..m : G[<<v, i>>] = H[<<v, i>>]

\* Two folds that take the same steps have the same values.
LEMMA FoldsAgree ==
    ASSUME NEW T, NEW base \in T, NEW n \in Nat, NEW m \in 0..n, NEW G, NEW H, NEW f, NEW g,
           IsFolded(f, T, base, n, G), IsFolded(g, T, base, m, H),
           SameSteps(T, m, G, H)
    PROVE  \A i \in 0..m : f[i] = g[i]
  <1> DEFINE K == {i \in 0..m : f[i] = g[i]}
  <1>1. 0 \in K
    BY DEF IsFolded
  <1>2. ASSUME NEW i \in 1..m, i - 1 \in K PROVE i \in K
    <2>1. i \in 1..n /\ i - 1 \in 0..m /\ m \in Nat
      OBVIOUS
    <2>2. g[i - 1] \in T /\ f[i - 1] = g[i - 1]
      BY <2>1, <1>2 DEF IsFolded
    <2>3. f[i] = G[<<f[i - 1], i>>] /\ g[i] = H[<<g[i - 1], i>>]
      BY <2>1 DEF IsFolded
    <2>4. f[i] = g[i] /\ i \in 0..m
      BY <2>1, <2>2, <2>3 DEF SameSteps
    <2> QED
      BY <2>4
  <1>3. \A i \in 0..m : i \in K
    <2> HIDE DEF K
    <2> QED
      BY <1>1, <1>2, BoundedInduction
  <1> QED
    BY <1>3

-----------------------------------------------------------------------------
(* Sequences: the oldest event is delivered, a write adds the newest.      *)

\* What taking the oldest element leaves of a sequence.
LEMMA HeadAndTail ==
    ASSUME NEW S, NEW s \in Seq(S), s # <<>>
    PROVE  /\ Head(s) \in S
           /\ Tail(s) \in Seq(S)
           /\ Len(Tail(s)) = Len(s) - 1
           /\ Tail(s) = <<>> => Head(s) = s[Len(s)]
           /\ Tail(s) # <<>> => Tail(s)[Len(Tail(s))] = s[Len(s)]
  <1>1. /\ Tail(s) \in Seq(S) /\ Len(s) \in Nat \ {0}
        /\ Len(Tail(s)) = Len(s) - 1
        /\ \A i \in 1..Len(Tail(s)) : Tail(s)[i] = s[i + 1]
    BY EmptySeq, HeadTailProperties
  <1>2. Head(s) \in S /\ Head(s) = s[1]
    OBVIOUS
  <1>3. ASSUME Tail(s) = <<>> PROVE Len(s) = 1
    <2>1. Len(Tail(s)) = 0
      BY <1>3, EmptySeq, Zenon
    <2>2. \A n \in Nat \ {0} : n - 1 = 0 => n = 1
      OBVIOUS
    <2> QED
      BY <1>1, <2>1, <2>2, Zenon
  <1>4. ASSUME Tail(s) # <<>> PROVE Len(Tail(s)) \in 1..Len(Tail(s))
    <2>1. Len(Tail(s)) \in Nat \ {0}
      BY <1>1, <1>4, EmptySeq
    <2>2. \A n \in Nat \ {0} : n \in 1..n
      OBVIOUS
    <2> QED
      BY <2>1, <2>2, Zenon
  <1> QED
    BY <1>1, <1>2, <1>3, <1>4

\* What adding an element leaves of one.
LEMMA NewestAdded ==
    ASSUME NEW S, NEW s \in Seq(S), NEW e \in S
    PROVE  /\ Append(s, e) \in Seq(S)
           /\ Len(Append(s, e)) = Len(s) + 1
           /\ Append(s, e) # <<>>
           /\ Append(s, e)[Len(Append(s, e))] = e
  BY AppendProperties

-----------------------------------------------------------------------------
(* Parts of sequences.                                                     *)

\* Prefixes of equal length are equal if their elements are.
LEMMA PrefixesEqual ==
    ASSUME NEW S, NEW a \in Seq(S), NEW b \in Seq(S),
           NEW n \in Nat, n <= Len(a), n <= Len(b)
    PROVE  SubSeq(a, 1, n) = SubSeq(b, 1, n) <=> \A i \in 1..n : a[i] = b[i]
  OBVIOUS

\* The elements from the k-th to the l-th.
LEMMA Slice ==
    ASSUME NEW S, NEW s \in Seq(S), NEW k \in Nat, NEW l \in Nat, 1 <= k, k <= l + 1, l <= Len(s)
    PROVE  /\ SubSeq(s, k, l) \in Seq(S)
           /\ Len(SubSeq(s, k, l)) = l - k + 1
           /\ \A i \in 1..(l - k + 1) : SubSeq(s, k, l)[i] = s[(k - 1) + i]
  <1>1. k \in Int /\ l \in Int /\ \A i \in k..l : s[i] \in S
    OBVIOUS
  <1>2. /\ SubSeq(s, k, l) \in Seq(S)
        /\ Len(SubSeq(s, k, l)) = IF k <= l THEN l - k + 1 ELSE 0
        /\ \A i \in 1..(l - k + 1) : SubSeq(s, k, l)[i] = s[k + i - 1]
    BY <1>1, SubSeqProperties
  <1>3. (~(k <= l) => l - k + 1 = 0) /\ \A i \in 1..(l - k + 1) : k + i - 1 = (k - 1) + i
    OBVIOUS
  <1> QED
    BY <1>2, <1>3

\* The first l elements.
LEMMA Prefix ==
    ASSUME NEW S, NEW s \in Seq(S), NEW l \in Nat, l <= Len(s)
    PROVE  /\ SubSeq(s, 1, l) \in Seq(S) /\ Len(SubSeq(s, 1, l)) = l
           /\ \A i \in 1..l : SubSeq(s, 1, l)[i] = s[i]
  <1>1. 1 \in Nat /\ 1 <= 1 /\ 1 <= l + 1 /\ l - 1 + 1 = l /\ \A i \in 1..l : (1 - 1) + i = i
    OBVIOUS
  <1>2. /\ SubSeq(s, 1, l) \in Seq(S)
        /\ Len(SubSeq(s, 1, l)) = l - 1 + 1
        /\ \A i \in 1..(l - 1 + 1) : SubSeq(s, 1, l)[i] = s[(1 - 1) + i]
    BY <1>1, Slice
  <1> QED
    BY <1>1, <1>2

\* The elements after the m-th.
LEMMA Suffix ==
    ASSUME NEW S, NEW s \in Seq(S), NEW m \in Nat, NEW l \in Nat, m <= l, l <= Len(s)
    PROVE  /\ SubSeq(s, m + 1, l) \in Seq(S) /\ Len(SubSeq(s, m + 1, l)) = l - m
           /\ \A i \in 1..(l - m) : SubSeq(s, m + 1, l)[i] = s[m + i]
  <1> DEFINE k == m + 1
  <1>1. k \in Nat /\ 1 <= k /\ k <= l + 1 /\ l - k + 1 = l - m /\ k - 1 = m
    OBVIOUS
  <1> HIDE DEF k
  <1>2. /\ SubSeq(s, k, l) \in Seq(S)
        /\ Len(SubSeq(s, k, l)) = l - k + 1
        /\ \A i \in 1..(l - k + 1) : SubSeq(s, k, l)[i] = s[(k - 1) + i]
    BY <1>1, Slice
  <1> QED
    BY <1>1, <1>2 DEF k

\* One more element of those after the m-th.
LEMMA SliceGrows ==
    ASSUME NEW S, NEW s \in Seq(S), NEW m \in Nat, NEW l \in Nat, m < l, l <= Len(s)
    PROVE  SubSeq(s, m + 1, l) = Append(SubSeq(s, m + 1, l - 1), s[l])
  <1> DEFINE j == l - 1
             p == SubSeq(s, m + 1, j)
             q == SubSeq(s, m + 1, l)
             e == s[l]
             k == j - m
  <1>1. /\ j \in Nat /\ m <= j /\ j <= Len(s) /\ m <= l /\ e \in S
        /\ k \in Nat /\ l - m = k + 1 /\ m + (k + 1) = l
    OBVIOUS
  <1>2. p \in Seq(S) /\ Len(p) = k /\ \A i \in 1..k : p[i] = s[m + i]
    <2> HIDE DEF j
    <2> QED
      BY <1>1, Suffix
  <1>3. q \in Seq(S) /\ Len(q) = k + 1 /\ \A i \in 1..(k + 1) : q[i] = s[m + i]
    <2>1. q \in Seq(S) /\ Len(q) = l - m /\ \A i \in 1..(l - m) : q[i] = s[m + i]
      BY <1>1, Suffix
    <2> HIDE DEF k, q
    <2> QED
      BY <1>1, <2>1
  <1> HIDE DEF k, p, q, e
  <1>4. /\ Append(p, e) \in Seq(S) /\ Len(Append(p, e)) = Len(p) + 1
        /\ \A i \in 1..Len(p) : Append(p, e)[i] = p[i]
        /\ Append(p, e)[Len(p) + 1] = e
    BY <1>1, <1>2, AppendProperties
  <1>5. ASSUME NEW i \in 1..(k + 1) PROVE q[i] = Append(p, e)[i]
    <2>1. i \in 1..k \/ i = k + 1
      BY <1>1
    <2>2. q[i] = s[m + i]
      BY <1>3
    <2>3. q[k + 1] = e
      BY <1>1, <1>3 DEF e
    <2> QED
      BY <1>2, <1>4, <2>1, <2>2, <2>3
  <1>6. Len(Append(p, e)) = k + 1
    BY <1>2, <1>4
  <1>7. q = Append(p, e)
    BY <1>3, <1>4, <1>5, <1>6, SeqEqual
  <1> QED
    BY <1>7 DEF p, q, e

\* A suffix of a sequence with one more element.
LEMMA SubSeqAppend ==
    ASSUME NEW S, NEW s \in Seq(S), NEW e \in S, NEW k \in 1..(Len(s) + 1)
    PROVE  SubSeq(Append(s, e), k, Len(s) + 1) = Append(SubSeq(s, k, Len(s)), e)
  <1> DEFINE n == Len(s)
             t == Append(s, e)
             p == SubSeq(t, k, n + 1)
             q == SubSeq(s, k, n)
  <1>1. n \in Nat /\ t \in Seq(S) /\ Len(t) = n + 1 /\ t[n + 1] = e /\ \A i \in 1..n : t[i] = s[i]
    BY AppendProperties
  <1> HIDE DEF n, t
  <1>2. p \in Seq(S) /\ Len(p) = n - k + 2 /\ \A i \in 1..(n - k + 2) : p[i] = t[k + i - 1]
    <2>1. k \in Int /\ n + 1 \in Int /\ \A i \in k..(n + 1) : t[i] \in S
      BY <1>1 DEF n
    <2> QED
      BY <1>1, <2>1, SubSeqProperties DEF n
  <1>3. q \in Seq(S) /\ Len(q) = n - k + 1 /\ \A i \in 1..(n - k + 1) : q[i] = s[k + i - 1]
    <2>1. k \in Int /\ n \in Int /\ \A i \in k..n : s[i] \in S
      BY <1>1 DEF n
    <2> QED
      BY <1>1, <2>1, SubSeqProperties DEF n
  <1> HIDE DEF p, q
  <1>4. /\ Append(q, e) \in Seq(S) /\ Len(Append(q, e)) = (n - k + 1) + 1
        /\ \A i \in 1..(n - k + 1) : Append(q, e)[i] = q[i]
        /\ Append(q, e)[(n - k + 1) + 1] = e
    BY <1>3, AppendProperties
  <1>5. ASSUME NEW i \in 1..(n - k + 2) PROVE p[i] = Append(q, e)[i]
    <2>1. CASE i = n - k + 2
      <3>1. k + i - 1 = n + 1 /\ i = (n - k + 1) + 1
        BY <1>1, <2>1 DEF n
      <3> QED
        BY <1>1, <1>2, <1>4, <3>1
    <2>2. CASE i # n - k + 2
      <3>1. i \in 1..(n - k + 1) /\ k + i - 1 \in 1..n
        BY <1>1, <2>2 DEF n
      <3> QED
        BY <1>1, <1>2, <1>3, <1>4, <3>1
    <2> QED
      BY <2>1, <2>2
  <1>6. Len(p) = Len(Append(q, e))
    BY <1>1, <1>2, <1>4 DEF n
  <1>7. p = Append(q, e)
    BY <1>2, <1>4, <1>5, <1>6, SeqEqual
  <1> QED
    BY <1>7 DEF n, t, p, q

\* All but the last element, and the last one.
LEMMA FrontProperties ==
    ASSUME NEW S, NEW s \in Seq(S), s # <<>>
    PROVE  /\ Front(s) \in Seq(S) /\ Len(Front(s)) = Len(s) - 1
           /\ \A i \in 1..(Len(s) - 1) : Front(s)[i] = s[i]
           /\ Last(s) \in S
  <1>1. Len(s) \in Nat \ {0} /\ \A i \in 1..Len(s) : s[i] \in S
    BY EmptySeq
  <1> DEFINE m == Len(s) - 1
  <1>2. m \in Nat /\ m <= Len(s) /\ Front(s) = SubSeq(s, 1, m)
    BY <1>1 DEF Front
  <1> HIDE DEF m
  <1>3. Front(s) \in Seq(S) /\ Len(Front(s)) = m /\ \A i \in 1..m : Front(s)[i] = s[i]
    BY <1>2, Prefix
  <1> QED
    BY <1>1, <1>3 DEF Last, m

\* What was added last is the last.
LEMMA FrontAppend ==
    ASSUME NEW S, NEW s \in Seq(S), NEW e \in S
    PROVE  Front(Append(s, e)) = s /\ Last(Append(s, e)) = e
  <1> DEFINE t == Append(s, e)
  <1>1. t \in Seq(S) /\ Len(t) = Len(s) + 1 /\ Len(s) \in Nat /\ t[Len(s) + 1] = e
        /\ \A i \in 1..Len(s) : t[i] = s[i]
    BY AppendProperties
  <1>2. t # <<>>
    BY <1>1, EmptySeq
  <1> HIDE DEF t
  <1>3. Front(t) \in Seq(S) /\ Len(Front(t)) = Len(t) - 1 /\ \A i \in 1..(Len(t) - 1) : Front(t)[i] = t[i]
    BY <1>1, <1>2, FrontProperties
  <1>4. Len(Front(t)) = Len(s) /\ \A i \in 1..Len(s) : Front(t)[i] = s[i]
    BY <1>1, <1>3
  <1>5. Front(t) = s
    BY <1>3, <1>4, SeqEqual
  <1>6. Last(t) = e
    BY <1>1 DEF Last
  <1> QED
    BY <1>5, <1>6 DEF t

\* What a sequence with one more element in front is.
LEMMA ConsProperties ==
    ASSUME NEW S, NEW x \in S, NEW c \in Seq(S)
    PROVE  /\ <<x>> \o c \in Seq(S) /\ Len(<<x>> \o c) = Len(c) + 1
           /\ (<<x>> \o c)[1] = x
           /\ \A i \in 1..Len(c) : (<<x>> \o c)[i + 1] = c[i]
  <1>1. <<x>> \in Seq(S) /\ Len(<<x>>) = 1 /\ <<x>>[1] = x /\ Len(c) \in Nat
    OBVIOUS
  <1>2. /\ <<x>> \o c \in Seq(S) /\ Len(<<x>> \o c) = Len(<<x>>) + Len(c)
        /\ \A i \in 1..(Len(<<x>>) + Len(c)) :
              (<<x>> \o c)[i] = IF i <= Len(<<x>>) THEN <<x>>[i] ELSE c[i - Len(<<x>>)]
    BY <1>1, ConcatProperties
  <1>3. 1 \in 1..(1 + Len(c)) /\ \A i \in 1..Len(c) :
           i + 1 \in 1..(1 + Len(c)) /\ ~(i + 1 <= 1) /\ (i + 1) - 1 = i
    BY <1>1
  <1> QED
    BY <1>1, <1>2, <1>3

\* It does not matter at which end one adds first.
LEMMA ConsAppend ==
    ASSUME NEW S, NEW x \in S, NEW c \in Seq(S), NEW e \in S
    PROVE  Append(<<x>> \o c, e) = <<x>> \o Append(c, e)
  <1> DEFINE s == Append(<<x>> \o c, e)
             t == <<x>> \o Append(c, e)
  <1>1. /\ Append(c, e) \in Seq(S) /\ Len(Append(c, e)) = Len(c) + 1 /\ Len(c) \in Nat
        /\ \A i \in 1..Len(c) : Append(c, e)[i] = c[i]
        /\ Append(c, e)[Len(c) + 1] = e
    BY AppendProperties
  <1>2. /\ t \in Seq(S) /\ Len(t) = Len(c) + 2 /\ t[1] = x
        /\ \A i \in 1..(Len(c) + 1) : t[i + 1] = Append(c, e)[i]
    <2>1. Len(Append(c, e)) + 1 = Len(c) + 2
      BY <1>1
    <2> QED
      BY <1>1, <2>1, ConsProperties
  <1>3. /\ <<x>> \o c \in Seq(S) /\ Len(<<x>> \o c) = Len(c) + 1 /\ (<<x>> \o c)[1] = x
        /\ \A i \in 1..Len(c) : (<<x>> \o c)[i + 1] = c[i]
    BY ConsProperties
  <1>4. /\ s \in Seq(S) /\ Len(s) = Len(c) + 2
        /\ \A i \in 1..(Len(c) + 1) : s[i] = (<<x>> \o c)[i]
        /\ s[Len(c) + 2] = e
    <2>1. /\ s \in Seq(S) /\ Len(s) = Len(<<x>> \o c) + 1
          /\ \A i \in 1..Len(<<x>> \o c) : s[i] = (<<x>> \o c)[i]
          /\ s[Len(<<x>> \o c) + 1] = e
      BY <1>3, AppendProperties
    <2>2. Len(<<x>> \o c) + 1 = Len(c) + 2
      BY <1>1, <1>3
    <2> QED
      BY <1>3, <2>1, <2>2
  <1> HIDE DEF s, t
  <1>5. ASSUME NEW i \in 1..(Len(c) + 2) PROVE s[i] = t[i]
    <2>1. CASE i = 1
      <3>1. 1 \in 1..(Len(c) + 1)
        BY <1>1
      <3> QED
        BY <1>2, <1>3, <1>4, <2>1, <3>1
    <2>2. CASE i = Len(c) + 2
      <3>1. Len(c) + 1 \in 1..(Len(c) + 1) /\ (Len(c) + 1) + 1 = Len(c) + 2
        BY <1>1
      <3> QED
        BY <1>1, <1>2, <1>4, <2>2, <3>1
    <2>3. CASE i # 1 /\ i # Len(c) + 2
      <3>1. i \in 1..(Len(c) + 1) /\ i - 1 \in 1..Len(c) /\ i - 1 \in 1..(Len(c) + 1) /\ (i - 1) + 1 = i
        BY <1>1, <2>3
      <3> QED
        BY <1>1, <1>2, <1>3, <1>4, <3>1
    <2> QED
      BY <2>1, <2>2, <2>3
  <1>6. s = t
    BY <1>1, <1>2, <1>4, <1>5, SeqEqual
  <1> QED
    BY <1>6 DEF s, t

\* An element in front changes nothing at the end.
LEMMA ConsFront ==
    ASSUME NEW S, NEW x \in S, NEW c \in Seq(S), c # <<>>
    PROVE  Last(<<x>> \o c) = Last(c) /\ Front(<<x>> \o c) = <<x>> \o Front(c)
  <1>1. PICK d \in Seq(S), e \in S : c = Append(d, e)
    BY SequenceEmptyOrAppend
  <1> DEFINE p == <<x>> \o d
  <1>2. p \in Seq(S) /\ <<x>> \o c = Append(p, e)
    BY <1>1, ConsProperties, ConsAppend
  <1> HIDE DEF p
  <1>3. Front(Append(p, e)) = p /\ Last(Append(p, e)) = e
    BY <1>2, FrontAppend
  <1>4. Front(c) = d /\ Last(c) = e
    BY <1>1, FrontAppend
  <1> QED
    BY <1>2, <1>3, <1>4 DEF p

-----------------------------------------------------------------------------
(* Elements of sequences.                                                  *)

\* The first i elements.
Taken(s, i) == {s[j] : j \in 1..i}

\* They are taken one by one.
LEMMA TakenIs ==
    ASSUME NEW S, NEW s \in Seq(S)
    PROVE  /\ Taken(s, 0) = {} /\ Taken(s, Len(s)) = ToSet(s)
           /\ \A i \in 1..Len(s) : Taken(s, i) = Taken(s, i - 1) \cup {s[i]} /\ s[i] \in S
  <1>1. Len(s) \in Nat /\ DOMAIN s = 1..Len(s)
    OBVIOUS
  <1>2. \A i \in 1..Len(s) : 1..i = (1..(i - 1)) \cup {i} /\ s[i] \in S
    OBVIOUS
  <1> QED
    BY <1>1, <1>2 DEF Taken, ToSet

\* Append adds one to the set of the elements.
LEMMA AppendElements ==
    ASSUME NEW S, NEW s \in Seq(S), NEW e \in S
    PROVE  ToSet(Append(s, e)) = ToSet(s) \cup {e}
  <1> DEFINE n == Len(s)
             t == Append(s, e)
  <1>1. /\ t \in Seq(S) /\ DOMAIN t = 1..(n + 1) /\ DOMAIN s = 1..n /\ n \in Nat
        /\ t[n + 1] = e /\ \A i \in 1..n : t[i] = s[i]
    <2>1. /\ t \in Seq(S) /\ Len(t) = n + 1 /\ n \in Nat
          /\ t[n + 1] = e /\ \A i \in 1..n : t[i] = s[i]
      BY AppendProperties
    <2> HIDE DEF t
    <2> QED
      BY <2>1
  <1> HIDE DEF t, n
  <1>2. \A i \in 1..(n + 1) : i \in 1..n \/ i = n + 1
    BY <1>1
  <1>3. n + 1 \in 1..(n + 1) /\ \A i \in 1..n : i \in 1..(n + 1)
    BY <1>1
  <1>4. ToSet(t) = ToSet(s) \cup {e}
    BY <1>1, <1>2, <1>3 DEF ToSet
  <1> QED
    BY <1>4 DEF t

\* The elements of a listing.
LEMMA Elements ==
    ASSUME NEW S, NEW s \in Seq(S)
    PROVE  ToSet(s) \subseteq S /\ (ToSet(s) = {} <=> s = <<>>)
  <1>1. /\ DOMAIN s = 1..Len(s) /\ Len(s) \in Nat /\ (Len(s) = 0 <=> s = <<>>)
        /\ \A i \in 1..Len(s) : s[i] \in S
    BY EmptySeq
  <1>2. Len(s) # 0 => 1 \in 1..Len(s)
    BY <1>1
  <1> DEFINE n == Len(s)
  <1>3. ToSet(s) = {s[i] : i \in 1..n}
    BY <1>1 DEF ToSet
  <1>4. n = 0 => 1..n = {}
    OBVIOUS
  <1> HIDE DEF n
  <1>5. {s[i] : i \in 1..n} \subseteq S
    BY <1>1 DEF n
  <1>6. n = 0 => {s[i] : i \in 1..n} = {}
    BY <1>4
  <1>7. n # 0 => s[1] \in {s[i] : i \in 1..n}
    BY <1>2 DEF n
  <1> QED
    BY <1>1, <1>3, <1>5, <1>6, <1>7 DEF n

\* A sequence over a smaller set.
LEMMA SeqOfElements ==
    ASSUME NEW S, NEW s \in Seq(S), NEW U, ToSet(s) \subseteq U
    PROVE  s \in Seq(U)
  <1>1. DOMAIN s = 1..Len(s) /\ Len(s) \in Nat /\ s = [i \in 1..Len(s) |-> s[i]]
    OBVIOUS
  <1>2. \A i \in 1..Len(s) : s[i] \in U
    BY <1>1 DEF ToSet
  <1>3. [i \in 1..Len(s) |-> s[i]] \in Seq(U)
    BY <1>1, <1>2, IsASeq
  <1> QED
    BY <1>1, <1>3

\* What InsertAt does to the elements,
LEMMA InsertAtProperties ==
    ASSUME NEW S, NEW s \in Seq(S), NEW e \in S, NEW i \in 1..(Len(s) + 1)
    PROVE  /\ InsertAt(s, i, e) \in Seq(S)
           /\ Len(InsertAt(s, i, e)) = Len(s) + 1
           /\ \A j \in 1..(Len(s) + 1) :
                 InsertAt(s, i, e)[j] = IF j < i THEN s[j] ELSE IF j = i THEN e ELSE s[j - 1]
  <1> DEFINE n == Len(s)
             k == i - 1
             p == SubSeq(s, 1, k)
             q == SubSeq(s, i, n)
             m == n - k
  <1>1. /\ n \in Nat /\ k \in Nat /\ i \in Nat /\ m \in Nat /\ i = k + 1 /\ k <= n /\ m = n - k
        /\ \A j \in 1..n : s[j] \in S
    OBVIOUS
  <1>2. p \in Seq(S) /\ Len(p) = k /\ \A j \in 1..k : p[j] = s[j]
    <2> HIDE DEF k
    <2> QED
      BY <1>1, Prefix
  <1>3. q \in Seq(S) /\ Len(q) = m /\ \A j \in 1..m : q[j] = s[k + j]
    <2>1. q = SubSeq(s, k + 1, n)
      BY <1>1
    <2> HIDE DEF k, q
    <2> QED
      BY <1>1, <2>1, Suffix
  <1> DEFINE pe == p \o <<e>>
             out == pe \o q
  <1> HIDE DEF p, q, n, k, m
  <1>4. /\ pe \in Seq(S) /\ Len(pe) = i
        /\ \A j \in 1..k : pe[j] = s[j]
        /\ pe[i] = e
    <2>1. <<e>> \in Seq(S) /\ Len(<<e>>) = 1 /\ <<e>>[1] = e
      OBVIOUS
    <2>2. /\ pe \in Seq(S) /\ Len(pe) = Len(p) + Len(<<e>>)
          /\ \A j \in 1..(Len(p) + Len(<<e>>)) : pe[j] = IF j <= Len(p) THEN p[j] ELSE <<e>>[j - Len(p)]
      BY <1>2, <2>1, ConcatProperties
    <2>3. Len(p) + Len(<<e>>) = i /\ i \in 1..i /\ ~(i <= Len(p)) /\ i - Len(p) = 1
          /\ \A j \in 1..k : j \in 1..i /\ j <= Len(p)
      BY <1>1, <1>2, <2>1
    <2> QED
      BY <1>2, <2>1, <2>2, <2>3
  <1> HIDE DEF pe
  <1>5. /\ out \in Seq(S) /\ Len(out) = i + m
        /\ \A j \in 1..(i + m) : out[j] = IF j <= i THEN pe[j] ELSE q[j - i]
    <2>1. /\ out \in Seq(S) /\ Len(out) = Len(pe) + Len(q)
          /\ \A j \in 1..(Len(pe) + Len(q)) :
                out[j] = IF j <= Len(pe) THEN pe[j] ELSE q[j - Len(pe)]
      <3>1. pe \in Seq(S) /\ q \in Seq(S)
        BY <1>3, <1>4
      <3> QED
        BY <3>1, ConcatProperties
    <2>2. Len(pe) = i /\ Len(q) = m
      BY <1>3, <1>4
    <2> HIDE DEF out
    <2> QED
      BY <2>1, <2>2
  <1>6. InsertAt(s, i, e) = out
    BY DEF InsertAt, out, pe, p, q, n, k
  <1> HIDE DEF out
  <1>7. i + m = n + 1
    BY <1>1
  <1>8. ASSUME NEW j \in 1..(n + 1)
        PROVE  out[j] = IF j < i THEN s[j] ELSE IF j = i THEN e ELSE s[j - 1]
    <2>1. CASE j < i
      <3>1. j \in 1..k /\ j <= i /\ j \in 1..(i + m)
        BY <1>1, <1>7, <2>1
      <3> QED
        BY <1>4, <1>5, <2>1, <3>1
    <2>2. CASE j = i
      <3>1. j <= i /\ j \in 1..(i + m) /\ ~(j < i)
        BY <1>1, <1>7, <2>2
      <3> QED
        BY <1>4, <1>5, <2>2, <3>1
    <2>3. CASE j > i
      <3>1. ~(j <= i) /\ j \in 1..(i + m) /\ ~(j < i) /\ j # i /\ j - i \in 1..m /\ k + (j - i) = j - 1
        BY <1>1, <1>7, <2>3
      <3> QED
        BY <1>3, <1>5, <3>1
    <2> QED
      BY <1>1, <2>1, <2>2, <2>3
  <1> QED
    BY <1>5, <1>6, <1>7, <1>8 DEF n

\* and RemoveAt.
LEMMA RemoveAtProperties ==
    ASSUME NEW S, NEW s \in Seq(S), NEW i \in 1..Len(s)
    PROVE  /\ RemoveAt(s, i) \in Seq(S)
           /\ Len(RemoveAt(s, i)) = Len(s) - 1
           /\ \A j \in 1..(Len(s) - 1) :
                 RemoveAt(s, i)[j] = IF j < i THEN s[j] ELSE s[j + 1]
  <1> DEFINE n == Len(s)
             k == i - 1
             l == i + 1
             p == SubSeq(s, 1, k)
             q == SubSeq(s, l, n)
             m == n - i
  <1>1. /\ n \in Nat /\ k \in Nat /\ i \in Nat /\ m \in Nat /\ i = k + 1 /\ i <= n /\ m = n - i
        /\ l = i + 1 /\ \A j \in 1..n : s[j] \in S
    OBVIOUS
  <1>2. p \in Seq(S) /\ Len(p) = k /\ \A j \in 1..k : p[j] = s[j]
    <2>1. k <= n
      BY <1>1
    <2> HIDE DEF k
    <2> QED
      BY <1>1, <2>1, Prefix
  <1>3. q \in Seq(S) /\ Len(q) = m /\ \A j \in 1..m : q[j] = s[i + j]
    BY <1>1, Suffix
  <1> DEFINE out == p \o q
  <1> HIDE DEF p, q, n, k, m, l
  <1>4. /\ out \in Seq(S) /\ Len(out) = k + m
        /\ \A j \in 1..(k + m) : out[j] = IF j <= k THEN p[j] ELSE q[j - k]
    <2>1. /\ out \in Seq(S) /\ Len(out) = Len(p) + Len(q)
          /\ \A j \in 1..(Len(p) + Len(q)) :
                out[j] = IF j <= Len(p) THEN p[j] ELSE q[j - Len(p)]
      <3>1. p \in Seq(S) /\ q \in Seq(S)
        BY <1>2, <1>3
      <3> QED
        BY <3>1, ConcatProperties
    <2>2. Len(p) = k /\ Len(q) = m
      BY <1>2, <1>3
    <2> HIDE DEF out
    <2> QED
      BY <2>1, <2>2
  <1>5. RemoveAt(s, i) = out
    BY DEF RemoveAt, out, p, q, n, k, l
  <1> HIDE DEF out
  <1>6. k + m = n - 1
    BY <1>1
  <1>7. ASSUME NEW j \in 1..(n - 1)
        PROVE  out[j] = IF j < i THEN s[j] ELSE s[j + 1]
    <2>1. CASE j < i
      <3>1. j \in 1..k /\ j <= k /\ j \in 1..(k + m)
        BY <1>1, <1>6, <2>1
      <3> QED
        BY <1>2, <1>4, <2>1, <3>1
    <2>2. CASE ~(j < i)
      <3>1. ~(j <= k) /\ j \in 1..(k + m) /\ j - k \in 1..m /\ i + (j - k) = j + 1
        BY <1>1, <1>6, <2>2
      <3> QED
        BY <1>3, <1>4, <2>2, <3>1
    <2> QED
      BY <2>1, <2>2
  <1> QED
    BY <1>4, <1>5, <1>6, <1>7 DEF n

\* InsertAt adds one to the set of the elements, and repeats none.
LEMMA InsertAtElements ==
    ASSUME NEW S, NEW s \in Seq(S), NEW e \in S, NEW i \in 1..(Len(s) + 1)
    PROVE  /\ ToSet(InsertAt(s, i, e)) = ToSet(s) \cup {e}
           /\ IsInjective(s) /\ e \notin ToSet(s) => IsInjective(InsertAt(s, i, e))
  <1> DEFINE n == Len(s)
             out == InsertAt(s, i, e)
             Old(j) == IF j < i THEN j ELSE j - 1
             New(j) == IF j < i THEN j ELSE j + 1
  <1>1. /\ out \in Seq(S) /\ DOMAIN out = 1..(n + 1) /\ DOMAIN s = 1..n /\ n \in Nat /\ i \in 1..(n + 1)
        /\ \A j \in 1..(n + 1) : out[j] = IF j < i THEN s[j] ELSE IF j = i THEN e ELSE s[j - 1]
    <2>1. /\ out \in Seq(S) /\ Len(out) = n + 1 /\ n \in Nat
          /\ \A j \in 1..(n + 1) : out[j] = IF j < i THEN s[j] ELSE IF j = i THEN e ELSE s[j - 1]
      BY InsertAtProperties
    <2> HIDE DEF out
    <2> QED
      BY <2>1
  <1> HIDE DEF out, n
  <1>2. \A j \in 1..(n + 1) : j # i => Old(j) \in 1..n /\ out[j] = s[Old(j)]
    BY <1>1
  <1>3. \A j \in 1..n : New(j) \in 1..(n + 1) /\ out[New(j)] = s[j]
    BY <1>1
  <1>4. out[i] = e
    BY <1>1
  <1>5. ToSet(out) = ToSet(s) \cup {e}
    <2>1. \A j \in 1..(n + 1) : out[j] \in ToSet(s) \cup {e}
      <3> HIDE DEF Old
      <3> QED
        BY <1>1, <1>2, <1>4 DEF ToSet
    <2>2. \A j \in 1..n : s[j] \in ToSet(out)
      <3> HIDE DEF New
      <3> QED
        BY <1>1, <1>3 DEF ToSet
    <2>3. e \in ToSet(out)
      BY <1>1, <1>4 DEF ToSet
    <2> QED
      BY <1>1, <2>1, <2>2, <2>3 DEF ToSet
  <1>6. ASSUME IsInjective(s), e \notin ToSet(s) PROVE IsInjective(out)
    <2>1. ASSUME NEW j \in 1..(n + 1), NEW k \in 1..(n + 1), out[j] = out[k] PROVE j = k
      <3>1. ASSUME NEW l \in 1..(n + 1), l # i PROVE out[l] # e
        <4>1. Old(l) \in 1..n /\ out[l] = s[Old(l)]
          BY <1>2, <3>1
        <4> HIDE DEF Old
        <4> QED
          BY <1>1, <1>6, <4>1 DEF ToSet
      <3>2. CASE j = i \/ k = i
        BY <1>4, <2>1, <3>1, <3>2
      <3>3. CASE j # i /\ k # i
        <4>1. Old(j) \in 1..n /\ Old(k) \in 1..n /\ s[Old(j)] = s[Old(k)]
          BY <1>2, <2>1, <3>3
        <4>2. Old(j) = Old(k)
          <5> HIDE DEF Old
          <5> QED
            BY <1>1, <1>6, <4>1 DEF IsInjective
        <4> QED
          BY <1>1, <3>3, <4>2
      <3> QED
        BY <3>2, <3>3
    <2> QED
      BY <1>1, <2>1 DEF IsInjective
  <1> QED
    BY <1>5, <1>6 DEF out

\* RemoveAt repeats none.
LEMMA RemoveAtInjective ==
    ASSUME NEW S, NEW s \in Seq(S), NEW i \in 1..Len(s), IsInjective(s)
    PROVE  IsInjective(RemoveAt(s, i))
  <1> DEFINE n == Len(s)
             out == RemoveAt(s, i)
             New(j) == IF j < i THEN j ELSE j + 1
  <1>1. /\ DOMAIN out = 1..(n - 1) /\ DOMAIN s = 1..n /\ n \in Nat /\ i \in 1..n
        /\ \A j \in 1..(n - 1) : out[j] = IF j < i THEN s[j] ELSE s[j + 1]
    <2>1. /\ out \in Seq(S) /\ Len(out) = n - 1 /\ n \in Nat
          /\ \A j \in 1..(n - 1) : out[j] = IF j < i THEN s[j] ELSE s[j + 1]
      BY RemoveAtProperties
    <2> HIDE DEF out
    <2> QED
      BY <2>1
  <1> HIDE DEF out, n
  <1>2. \A j \in 1..(n - 1) : New(j) \in 1..n /\ out[j] = s[New(j)]
    BY <1>1
  <1>3. \A j, k \in 1..(n - 1) : New(j) = New(k) => j = k
    BY <1>1
  <1> HIDE DEF New
  <1>4. \A j, k \in 1..(n - 1) : out[j] = out[k] => j = k
    BY <1>1, <1>2, <1>3 DEF IsInjective
  <1> QED
    BY <1>1, <1>4 DEF IsInjective, out

\* Equivalent truth values are equal.
LEMMA BooleansEqual ==
    ASSUME NEW p \in BOOLEAN, NEW q \in BOOLEAN, p <=> q
    PROVE  p = q
  OBVIOUS

=============================================================================
