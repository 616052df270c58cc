------------------------- MODULE TagSelectionProofs -------------------------
(***************************************************************************)
(* Proofs about TagSelection, for every set of tags, every rule and every  *)
(* listing. naturalCompare, which cuts both texts into chunks and compares *)
(* numbers by length and digits, is shown to be the reference Precedes,    *)
(* which compares values, and a strict weak order; the sort on top of it   *)
(* is shown to sort, and Select to pick what no other candidate outranks.  *)
(***************************************************************************)
EXTENDS TagSelection, SequenceLemmas

-----------------------------------------------------------------------------
(* Text.                                                                   *)

\* b is greater than a at the end of their first n characters.
LexAt(a, b, n) ==
    /\ n <= Len(a) /\ n < Len(b)
    /\ \A i \in 1..n : a[i] = b[i]
    /\ n < Len(a) => a[n + 1] < b[n + 1]

\* lexLess decides at the first difference, or at the end of the shorter text.
LEMMA LexLessAt ==
    ASSUME NEW a \in Seq(Nat), NEW b \in Seq(Nat)
    PROVE  LexLess(a, b) <=> \E n \in Nat : LexAt(a, b, n)
  <1>1. IsStrictPrefix(a, b) => LexAt(a, b, Len(a))
    <2> SUFFICES ASSUME IsPrefix(a, b), a # b PROVE LexAt(a, b, Len(a))
      BY DEF IsStrictPrefix
    <2>1. Len(a) <= Len(b) /\ \A i \in 1..Len(a) : a[i] = b[i]
      BY PrefixesEqual DEF IsPrefix
    <2>2. Len(a) # Len(b)
      BY <2>1, SeqEqual
    <2> QED
      BY <2>1, <2>2 DEF LexAt
  <1>2. ASSUME NEW n \in Nat, LexAt(a, b, n), n = Len(a) PROVE IsStrictPrefix(a, b)
    BY <1>2, PrefixesEqual DEF LexAt, IsStrictPrefix, IsPrefix
  <1>3. ASSUME NEW i \in DOMAIN a \cap DOMAIN b
        PROVE  a[i] < b[i] /\ SubSeq(a, 1, i - 1) = SubSeq(b, 1, i - 1) <=> LexAt(a, b, i - 1)
    <2>1. i - 1 \in Nat /\ i - 1 <= Len(a) /\ i - 1 <= Len(b)
      OBVIOUS
    <2>2. SubSeq(a, 1, i - 1) = SubSeq(b, 1, i - 1) <=> \A j \in 1..(i - 1) : a[j] = b[j]
      BY <2>1, PrefixesEqual
    <2>3. /\ i - 1 < Len(a) /\ i - 1 < Len(b) /\ (i - 1) + 1 = i
      OBVIOUS
    <2>4. LexAt(a, b, i - 1) <=> (\A j \in 1..(i - 1) : a[j] = b[j]) /\ a[i] < b[i]
      BY <2>1, <2>3 DEF LexAt
    <2> QED
      BY <2>2, <2>4
  <1>4. ASSUME NEW n \in Nat, LexAt(a, b, n), n # Len(a) PROVE LexLess(a, b)
    <2>1. n + 1 \in DOMAIN a \cap DOMAIN b /\ (n + 1) - 1 = n
      BY <1>4 DEF LexAt
    <2> QED
      BY <1>3, <1>4, <2>1 DEF LexLess
  <1>5. LexLess(a, b) => \E n \in Nat : LexAt(a, b, n)
    <2>1. \A i \in DOMAIN a \cap DOMAIN b : i - 1 \in Nat
      OBVIOUS
    <2> QED
      BY <1>1, <1>3, <2>1 DEF LexLess
  <1> QED
    BY <1>2, <1>4, <1>5 DEF LexLess

\* lexLess is asymmetric, and irreflexive,
LEMMA LexLessAsymmetric ==
    ASSUME NEW a \in Seq(Nat), NEW b \in Seq(Nat), LexLess(a, b)
    PROVE  ~LexLess(b, a) /\ a # b
  <1>1. PICK n \in Nat : LexAt(a, b, n)
    BY LexLessAt
  <1>2. ASSUME NEW m \in Nat, LexAt(b, a, m) PROVE FALSE
    <2>1. CASE n < m
      BY <1>1, <1>2, <2>1 DEF LexAt
    <2>2. CASE m < n
      BY <1>1, <1>2, <2>2 DEF LexAt
    <2>3. CASE m = n
      BY <1>1, <1>2, <2>3 DEF LexAt
    <2> QED
      BY <2>1, <2>2, <2>3
  <1>3. a # b
    BY <1>1 DEF LexAt
  <1> QED
    BY <1>2, <1>3, LexLessAt

\* transitive
LEMMA LexLessTransitive ==
    ASSUME NEW a \in Seq(Nat), NEW b \in Seq(Nat), NEW c \in Seq(Nat),
           LexLess(a, b), LexLess(b, c)
    PROVE  LexLess(a, c)
  <1>1. PICK n \in Nat : LexAt(a, b, n)
    BY LexLessAt
  <1>2. PICK m \in Nat : LexAt(b, c, m)
    BY LexLessAt
  <1>3. CASE n <= m
    <2>1. n <= Len(a) /\ n < Len(c) /\ \A i \in 1..n : i \in 1..m
      <3>1. n <= Len(a) /\ m < Len(c)
        BY <1>1, <1>2 DEF LexAt
      <3> QED
        BY <1>3, <3>1
    <2>2. \A i \in 1..n : a[i] = c[i]
      BY <1>1, <1>2, <2>1 DEF LexAt
    <2>3. ASSUME n < Len(a) PROVE a[n + 1] < c[n + 1]
      <3>0. n < Len(b)
        BY <1>1 DEF LexAt
      <3>1. n + 1 \in 1..Len(a) /\ n + 1 \in 1..Len(b) /\ n + 1 \in 1..Len(c)
        BY <2>1, <2>3, <3>0
      <3>2. a[n + 1] \in Nat /\ b[n + 1] \in Nat /\ c[n + 1] \in Nat
        BY <3>1
      <3>3. a[n + 1] < b[n + 1]
        BY <1>1, <2>3 DEF LexAt
      <3>4. b[n + 1] <= c[n + 1]
        <4>1. CASE n = m
          <5>1. m < Len(b) => b[m + 1] < c[m + 1]
            BY <1>2 DEF LexAt
          <5> QED
            BY <3>0, <3>2, <4>1, <5>1
        <4>2. CASE n < m
          <5>1. n + 1 \in 1..m
            BY <4>2
          <5>2. \A i \in 1..m : b[i] = c[i]
            BY <1>2 DEF LexAt
          <5>3. b[n + 1] = c[n + 1]
            BY <5>1, <5>2
          <5> QED
            BY <3>2, <5>3
        <4> QED
          BY <1>3, <4>1, <4>2
      <3> QED
        BY <3>2, <3>3, <3>4
    <2>4. LexAt(a, c, n)
      BY <2>1, <2>2, <2>3 DEF LexAt
    <2> QED
      BY <2>4, LexLessAt
  <1>4. CASE m < n
    <2>1. /\ n <= Len(a) /\ m < Len(c)
          /\ \A i \in 1..n : a[i] = b[i]
          /\ \A i \in 1..m : b[i] = c[i]
          /\ m < Len(b) => b[m + 1] < c[m + 1]
      BY <1>1, <1>2 DEF LexAt
    <2>2. m <= Len(a) /\ m < Len(b) /\ m + 1 \in 1..n /\ \A i \in 1..m : i \in 1..n
      <3>1. n <= Len(b)
        BY <1>1 DEF LexAt
      <3> QED
        BY <1>4, <2>1, <3>1
    <2>3. a[m + 1] < c[m + 1] /\ \A i \in 1..m : a[i] = c[i]
      BY <2>1, <2>2
    <2>4. LexAt(a, c, m)
      BY <2>1, <2>2, <2>3 DEF LexAt
    <2> QED
      BY <2>4, LexLessAt
  <1> QED
    BY <1>3, <1>4

\* and total.
LEMMA LexLessTotal ==
    ASSUME NEW a \in Seq(Nat), NEW b \in Seq(Nat), a # b
    PROVE  LexLess(a, b) \/ LexLess(b, a)
  <1> DEFINE Differ == {n \in Nat : \/ n = Len(a) \/ n = Len(b)
                                    \/ n < Len(a) /\ n < Len(b) /\ a[n + 1] # b[n + 1]}
  <1>1. PICK n \in Differ : \A m \in Differ : n <= m
    <2>1. Differ \in SUBSET Nat
      OBVIOUS
    <2>2. Len(a) \in Differ
      OBVIOUS
    <2> HIDE DEF Differ
    <2> QED
      BY <2>1, <2>2, LeastNatural
  <1>2. n <= Len(a) /\ n <= Len(b)
    BY <1>1
  <1>3. ASSUME NEW i \in 1..n PROVE a[i] = b[i]
    <2>1. i - 1 \in Nat /\ ~(i - 1 \in Differ)
      BY <1>1
    <2> QED
      BY <2>1, <1>2
  <1>4. CASE n = Len(a) /\ n = Len(b)
    BY <1>3, <1>4, SeqEqual
  <1>5. CASE n < Len(a) \/ n < Len(b)
    <2>1. LexAt(a, b, n) \/ LexAt(b, a, n)
      BY <1>2, <1>3, <1>5 DEF LexAt
    <2> QED
      BY <2>1, LexLessAt
  <1> QED
    BY <1>2, <1>4, <1>5

\* One character more.
LEMMA LexLessAppend ==
    ASSUME NEW p \in Seq(Nat), NEW q \in Seq(Nat), Len(p) = Len(q), NEW c \in Nat, NEW d \in Nat
    PROVE  LexLess(Append(p, c), Append(q, d)) <=> LexLess(p, q) \/ (p = q /\ c < d)
  <1> DEFINE n == Len(p)
             a == Append(p, c)
             b == Append(q, d)
  <1>1. /\ n \in Nat /\ Len(q) = n
        /\ a \in Seq(Nat) /\ Len(a) = n + 1 /\ a[n + 1] = c /\ \A i \in 1..n : a[i] = p[i]
        /\ b \in Seq(Nat) /\ Len(b) = n + 1 /\ b[n + 1] = d /\ \A i \in 1..n : b[i] = q[i]
    BY AppendProperties
  <1> HIDE DEF n, a, b
  <1>2. ASSUME NEW m \in Nat, LexAt(p, q, m) PROVE LexAt(a, b, m)
    <2>1. m < n /\ \A i \in 1..(m + 1) : i \in 1..n
      BY <1>1, <1>2 DEF LexAt, n
    <2>2. \A i \in 1..m : i \in 1..(m + 1)
      OBVIOUS
    <2>3. m + 1 \in 1..(m + 1) /\ m < Len(a) /\ m < Len(b)
      BY <1>1, <2>1
    <2>4. a[m + 1] < b[m + 1]
      BY <1>1, <1>2, <2>1, <2>3 DEF LexAt, n
    <2>5. \A i \in 1..m : a[i] = b[i]
      BY <1>1, <1>2, <2>1, <2>2 DEF LexAt
    <2> QED
      BY <2>3, <2>4, <2>5 DEF LexAt
  <1>3. ASSUME p = q, c < d PROVE LexAt(a, b, n)
    BY <1>1, <1>3 DEF LexAt
  <1>4. ASSUME NEW m \in Nat, LexAt(a, b, m) PROVE LexAt(p, q, m) \/ (p = q /\ c < d)
    <2>1. m <= n
      BY <1>1, <1>4 DEF LexAt
    <2>2. CASE m = n
      <3>1. \A i \in 1..Len(p) : p[i] = q[i]
        BY <1>1, <1>4, <2>2 DEF LexAt, n
      <3>2. p = q
        BY <3>1, SeqEqual
      <3>3. c < d
        BY <1>1, <1>4, <2>2 DEF LexAt
      <3> QED
        BY <3>2, <3>3
    <2>3. CASE m < n
      <3>1. a[m + 1] < b[m + 1] /\ a[m + 1] = p[m + 1] /\ b[m + 1] = q[m + 1]
        BY <1>1, <1>4, <2>3 DEF LexAt
      <3>2. \A i \in 1..m : p[i] = q[i]
        BY <1>1, <1>4, <2>3 DEF LexAt
      <3> QED
        BY <1>1, <2>3, <3>1, <3>2 DEF LexAt, n
    <2> QED
      BY <1>1, <2>1, <2>2, <2>3
  <1>5. LexLess(a, b) <=> \E m \in Nat : LexAt(a, b, m)
    BY <1>1, LexLessAt
  <1>6. LexLess(p, q) <=> \E m \in Nat : LexAt(p, q, m)
    BY LexLessAt
  <1>7. LexLess(a, b) <=> LexLess(p, q) \/ (p = q /\ c < d)
    BY <1>1, <1>2, <1>3, <1>4, <1>5, <1>6
  <1> QED
    BY <1>7 DEF a, b

-----------------------------------------------------------------------------
(* Numbers: comparing lengths and then digits compares values.             *)

\* Digits.
Number == Seq(48..57)

\* The steps of Value.
DigitStep(x) == [p \in Nat \X (1..Len(x)) |-> 10 * p[1] + (x[p[2]] - 48)]

\* Value is such a fold:
LEMMA ValueSteps ==
    ASSUME NEW x \in Number
    PROVE  \E f : /\ IsFolded(f, Nat, 0, Len(x), DigitStep(x))
                  /\ f[Len(x)] = Value(x)
  <1> DEFINE n == Len(x)
             T == Nat
             G == DigitStep(x)
             Body(g, s) == IF s = {} THEN 0
                           ELSE 10 * g[s \ {Max(s)}] + (x[Max(s)] - 48)
             iter == CHOOSE g : g = [s \in SUBSET DOMAIN x |-> Body(g, s)]
  <1>1. Value(x) = iter[DOMAIN x]
    BY DEF Value, FoldLeft, MapThenFoldSet
  <1>2. n \in Nat /\ DOMAIN x = 1..n /\ 0 \in T
    BY DEF Number
  <1>3. G \in [T \X (1..n) -> T]
    <2>1. \A i \in 1..n : x[i] - 48 \in Nat
      BY DEF Number
    <2>2. \A p \in T \X (1..n) : 10 * p[1] + (x[p[2]] - 48) \in T
      BY <2>1
    <2> QED
      BY <2>2 DEF DigitStep
  <1>4. ASSUME NEW g, NEW s \in SUBSET (1..n), s # {}, g[s \ {Max(s)}] \in T
        PROVE  Body(g, s) = G[<<g[s \ {Max(s)}], Max(s)>>]
    <2>1. Max(s) \in 1..n
      <3> HIDE DEF n
      <3> QED
        BY <1>2, <1>4, MaxExists
    <2> QED
      BY <1>4, <2>1 DEF DigitStep
  <1>5. \A g : Body(g, {}) = 0
    OBVIOUS
  <1> HIDE DEF n, T, G, Body
  <1>6. PICK h : IsFold(h, T, 0, n, G)
    BY <1>2, <1>3, FoldExists
  <1>7. h = [s \in SUBSET DOMAIN x |-> Body(h, s)]
    BY <1>2, <1>4, <1>5, <1>6 DEF IsFold
  <1>8. iter = [s \in SUBSET DOMAIN x |-> Body(iter, s)]
    BY <1>7
  <1> HIDE DEF iter
  <1>9. FollowsFold(iter, T, 0, n, G)
    BY <1>2, <1>4, <1>5, <1>8 DEF FollowsFold
  <1>10. IsFolded(Steps(iter, n), T, 0, n, G)
    BY <1>2, <1>3, <1>9, FoldSteps
  <1>11. Steps(iter, n)[n] = iter[1..n]
    BY <1>2 DEF Steps
  <1> QED
    BY <1>1, <1>2, <1>10, <1>11 DEF n, T, G

\* Horner's rule.
LEMMA ValueIs ==
    /\ Value(<<>>) = 0
    /\ \A x \in Number : Value(x) \in Nat
    /\ \A x \in Number, d \in 48..57 : Value(Append(x, d)) = 10 * Value(x) + (d - 48)
  <1>1. Value(<<>>) = 0
    <2>1. <<>> \in Number /\ Len(<<>>) = 0
      BY DEF Number
    <2>2. PICK f : IsFolded(f, Nat, 0, 0, DigitStep(<<>>)) /\ f[0] = Value(<<>>)
      BY <2>1, ValueSteps
    <2> QED
      BY <2>2 DEF IsFolded
  <1>2. ASSUME NEW x \in Number PROVE Value(x) \in Nat
    <2>1. PICK f : IsFolded(f, Nat, 0, Len(x), DigitStep(x)) /\ f[Len(x)] = Value(x)
      BY ValueSteps
    <2>2. Len(x) \in 0..Len(x)
      BY DEF Number
    <2> QED
      BY <2>1, <2>2 DEF IsFolded
  <1>3. ASSUME NEW x \in Number, NEW d \in 48..57
        PROVE  Value(Append(x, d)) = 10 * Value(x) + (d - 48)
    <2> DEFINE y == Append(x, d)
               n == Len(x)
    <2>1. y \in Number /\ Len(y) = n + 1 /\ n \in Nat /\ y[n + 1] = d
          /\ \A i \in 1..n : y[i] = x[i]
      BY AppendProperties DEF Number
    <2>2. PICK f : IsFolded(f, Nat, 0, n + 1, DigitStep(y)) /\ f[n + 1] = Value(y)
      <3> HIDE DEF y, n
      <3> QED
        BY <2>1, ValueSteps
    <2>3. PICK g : IsFolded(g, Nat, 0, n, DigitStep(x)) /\ g[n] = Value(x)
      BY ValueSteps
    <2>4. SameSteps(Nat, n, DigitStep(y), DigitStep(x))
      <3> HIDE DEF y, n
      <3>1. \A v \in Nat, i \in 1..n : <<v, i>> \in Nat \X (1..Len(y))
        BY <2>1
      <3> QED
        BY <2>1, <3>1 DEF DigitStep, SameSteps, n
    <2> HIDE DEF y, n
    <2>5. f[n] = g[n]
      <3>1. n + 1 \in Nat /\ n \in 0..(n + 1) /\ n \in 0..n /\ 0 \in Nat
        BY <2>1
      <3>2. \A i \in 0..n : f[i] = g[i]
        <4> DEFINE k == n + 1
                   G == DigitStep(y)
                   H == DigitStep(x)
        <4>1. k \in Nat /\ n \in 0..k /\ 0 \in Nat
          BY <3>1
        <4>2. IsFolded(f, Nat, 0, k, G) /\ IsFolded(g, Nat, 0, n, H) /\ SameSteps(Nat, n, G, H)
          BY <2>2, <2>3, <2>4
        <4> HIDE DEF k, G, H
        <4> QED
          BY <4>1, <4>2, FoldsAgree
      <3> QED
        BY <3>1, <3>2
    <2>6. f[n + 1] = DigitStep(y)[<<f[n], n + 1>>]
      <3>1. n + 1 \in 1..(n + 1) /\ (n + 1) - 1 = n
        BY <2>1
      <3> QED
        BY <2>2, <3>1 DEF IsFolded
    <2>7. <<f[n], n + 1>> \in Nat \X (1..Len(y))
      BY <1>2, <2>1, <2>3, <2>5
    <2>8. Value(y) = 10 * f[n] + (y[n + 1] - 48)
      BY <2>2, <2>6, <2>7 DEF DigitStep
    <2> QED
      BY <2>1, <2>3, <2>5, <2>8 DEF y
  <1> QED
    BY <1>1, <1>2, <1>3

\* Without leading zeros: what begins with the first other digit.
LEMMA TrimmedIs ==
    ASSUME NEW x \in Seq(Nat)
    PROVE  \/ /\ Trimmed(x) = <<>>
              /\ \A i \in 1..Len(x) : x[i] = 48
           \/ \E k \in 1..Len(x) :
                 /\ x[k] # 48 /\ \A i \in 1..(k - 1) : x[i] = 48
                 /\ Trimmed(x) = SubSeq(x, k, Len(x))
  <1> DEFINE I == {i \in 1..Len(x) : x[i] # 48}
             first == IF I # {} THEN Min(I) ELSE 0
  <1>1. Trimmed(x) = IF first = 0 THEN <<>> ELSE SubSeq(x, first, Len(x))
    BY DEF Trimmed, SelectInSeq
  <1>2. CASE I = {}
    BY <1>1, <1>2
  <1>3. CASE I # {}
    <2>1. PICK k \in I : \A i \in I : k <= i
      <3>1. I \in SUBSET Nat
        OBVIOUS
      <3> HIDE DEF I
      <3> QED
        BY <1>3, <3>1, LeastNatural
    <2>2. Min(I) = k
      <3>1. I \in SUBSET Int
        OBVIOUS
      <3> HIDE DEF I
      <3> QED
        BY <2>1, <3>1, MinIs
    <2>3. k \in 1..Len(x) /\ x[k] # 48 /\ \A i \in 1..(k - 1) : x[i] = 48
      BY <2>1
    <2>4. first = k /\ k # 0
      BY <1>3, <2>2, <2>3
    <2> HIDE DEF I, first
    <2> QED
      BY <1>1, <2>3, <2>4
  <1> QED
    BY <1>2, <1>3

\* One digit more.
LEMMA TrimmedAppend ==
    ASSUME NEW x \in Seq(Nat), NEW d \in Nat
    PROVE  Trimmed(Append(x, d)) = IF Trimmed(x) = <<>> /\ d = 48 THEN <<>>
                                   ELSE Append(Trimmed(x), d)
  <1> DEFINE y == Append(x, d)
             n == Len(x)
  <1>1. /\ y \in Seq(Nat) /\ Len(y) = n + 1 /\ n \in Nat /\ y[n + 1] = d
        /\ \A i \in 1..n : y[i] = x[i]
    BY AppendProperties
  <1>2. CASE \A i \in 1..n : x[i] = 48
    <2>1. Trimmed(x) = <<>>
      BY <1>2, TrimmedIs
    <2>2. CASE d = 48
      <3>1. \A i \in 1..Len(y) : y[i] = 48
        BY <1>1, <1>2, <2>2
      <3>2. Trimmed(y) = <<>>
        <4> HIDE DEF y
        <4> QED
          BY <1>1, <3>1, TrimmedIs
      <3> QED
        BY <2>1, <2>2, <3>2
    <2>3. CASE d # 48
      <3>1. PICK k \in 1..Len(y) : /\ y[k] # 48 /\ \A i \in 1..(k - 1) : y[i] = 48
                                   /\ Trimmed(y) = SubSeq(y, k, Len(y))
        <4> HIDE DEF y
        <4>1. n + 1 \in 1..Len(y) /\ y[n + 1] # 48
          BY <1>1, <2>3
        <4> QED
          BY <1>1, <4>1, TrimmedIs
      <3>2. k = n + 1
        BY <1>1, <1>2, <3>1
      <3>3. SubSeq(y, n + 1, n + 1) = Append(SubSeq(x, n + 1, n), d) /\ SubSeq(x, n + 1, n) = <<>>
        <4>1. n + 1 \in 1..(n + 1) /\ n \in Int /\ n + 1 \in Int /\ n < n + 1
          BY <1>1
        <4> QED
          BY <4>1, SubSeqAppend, SubSeqEmpty
      <3>4. Trimmed(y) = Append(Trimmed(x), d)
        <4>1. Trimmed(y) = SubSeq(y, n + 1, n + 1)
          <5> HIDE DEF y
          <5> QED
            BY <1>1, <3>1, <3>2
        <4> QED
          BY <2>1, <3>3, <4>1
      <3> QED
        BY <2>3, <3>4
    <2> QED
      BY <2>2, <2>3
  <1>3. CASE \E i \in 1..n : x[i] # 48
    <2>1. PICK k \in 1..n : /\ x[k] # 48 /\ \A i \in 1..(k - 1) : x[i] = 48
                            /\ Trimmed(x) = SubSeq(x, k, n)
      BY <1>3, TrimmedIs
    <2>2. PICK l \in 1..Len(y) : /\ y[l] # 48 /\ \A i \in 1..(l - 1) : y[i] = 48
                                 /\ Trimmed(y) = SubSeq(y, l, Len(y))
      <3>1. k \in 1..Len(y) /\ y[k] # 48
        BY <1>1, <2>1
      <3> HIDE DEF y
      <3> QED
        BY <1>1, <3>1, TrimmedIs
    <2>3. l = k
      <3>0. l \in 1..(n + 1) /\ y[k] = x[k] /\ k \in 1..n
        BY <1>1
      <3>1. ~(l < k)
        <4>1. l < k => y[l] = x[l] /\ l \in 1..(k - 1)
          BY <1>1, <3>0
        <4> QED
          BY <2>1, <2>2, <4>1
      <3>2. ~(k < l)
        <4>1. k < l => k \in 1..(l - 1)
          BY <1>1, <3>0
        <4> QED
          BY <2>1, <2>2, <3>0, <4>1
      <3> QED
        BY <1>1, <3>0, <3>1, <3>2
    <2>4. SubSeq(y, k, n + 1) = Append(SubSeq(x, k, n), d)
      <3>1. k \in 1..(n + 1)
        BY <1>1
      <3> QED
        BY <3>1, SubSeqAppend
    <2>5. Trimmed(x) # <<>>
      <3>1. Len(SubSeq(x, k, n)) = n - k + 1 /\ n - k + 1 # 0
        <4>1. k \in Int /\ n \in Int /\ k <= n /\ \A i \in k..n : x[i] \in Nat
          OBVIOUS
        <4> QED
          BY <4>1, SubSeqProperties
      <3> QED
        BY <2>1, <3>1, EmptySeq
    <2>6. Trimmed(y) = Append(Trimmed(x), d)
      <3> HIDE DEF y
      <3> QED
        BY <1>1, <2>1, <2>2, <2>3, <2>4
    <2> QED
      BY <2>5, <2>6
  <1> QED
    BY <1>2, <1>3

\* A trimmed text is a text.
LEMMA TrimmedType ==
    ASSUME NEW x \in Number
    PROVE  Trimmed(x) \in Number /\ Number \subseteq Seq(Nat)
  <1>1. Number \subseteq Seq(Nat)
    <2>1. 48..57 \subseteq Nat
      OBVIOUS
    <2> QED
      BY <2>1, SeqMonotonic DEF Number
  <1>2. ASSUME NEW k \in 1..Len(x) PROVE SubSeq(x, k, Len(x)) \in Number
    BY DEF Number
  <1>3. x \in Seq(Nat) /\ <<>> \in Number
    BY <1>1 DEF Number
  <1>4. CASE \A i \in 1..Len(x) : x[i] = 48
    <2>1. Trimmed(x) = <<>>
      BY <1>3, <1>4, TrimmedIs
    <2> QED
      BY <1>1, <1>3, <2>1
  <1>5. CASE \E i \in 1..Len(x) : x[i] # 48
    <2>1. PICK k \in 1..Len(x) : Trimmed(x) = SubSeq(x, k, Len(x))
      BY <1>3, <1>5, TrimmedIs
    <2> QED
      BY <1>1, <1>2, <2>1
  <1> QED
    BY <1>4, <1>5

\* Two numbers without leading zeros.
Lower(p, q) == Len(p) < Len(q) \/ (Len(p) = Len(q) /\ LexLess(p, q))

\* One digit more on both.
LEMMA LowerAppend ==
    ASSUME NEW p \in Seq(Nat), NEW q \in Seq(Nat), NEW c \in Nat, NEW d \in Nat
    PROVE  /\ Lower(Append(p, c), Append(q, d)) <=> Lower(p, q) \/ (p = q /\ c < d)
           /\ Append(p, c) = Append(q, d) <=> p = q /\ c = d
  <1>1. /\ Len(Append(p, c)) = Len(p) + 1 /\ Len(Append(q, d)) = Len(q) + 1
        /\ Len(p) \in Nat /\ Len(q) \in Nat
    BY AppendProperties
  <1>2. Append(p, c) = Append(q, d) <=> p = q /\ c = d
    BY AppendInjective, SMTT(30)
  <1>3. CASE Len(p) = Len(q)
    <2>1. LexLess(Append(p, c), Append(q, d)) <=> LexLess(p, q) \/ (p = q /\ c < d)
      BY <1>3, LexLessAppend
    <2>2. Len(Append(p, c)) = Len(Append(q, d)) /\ ~(Len(p) < Len(q))
          /\ ~(Len(Append(p, c)) < Len(Append(q, d)))
      BY <1>1, <1>3
    <2> QED
      BY <1>2, <1>3, <2>1, <2>2 DEF Lower
  <1>4. CASE Len(p) # Len(q)
    BY <1>1, <1>2, <1>4 DEF Lower
  <1> QED
    BY <1>3, <1>4

\* No digits are the lowest number.
LEMMA LowerEmpty ==
    ASSUME NEW p \in Seq(Nat)
    PROVE  /\ ~Lower(p, <<>>)
           /\ Lower(<<>>, p) <=> p # <<>>
  <1>1. ~LexLess(<<>>, <<>>)
    BY LexLessAsymmetric, EmptySeq
  <1> QED
    BY <1>1, EmptySeq DEF Lower

\* NumberLess, with one digit more on both.
LEMMA NumberLessAppend ==
    ASSUME NEW x \in Number, NEW y \in Number, NEW c \in 48..57, NEW d \in 48..57
    PROVE  /\ NumberLess(Append(x, c), Append(y, d)) <=>
                 NumberLess(x, y) \/ (Trimmed(x) = Trimmed(y) /\ c < d)
           /\ Trimmed(Append(x, c)) = Trimmed(Append(y, d)) <=>
                 Trimmed(x) = Trimmed(y) /\ c = d
  <1> DEFINE p == Trimmed(x)
             q == Trimmed(y)
             p1 == Trimmed(Append(x, c))
             q1 == Trimmed(Append(y, d))
  <1>1. p \in Seq(Nat) /\ q \in Seq(Nat) /\ c \in Nat /\ d \in Nat
        /\ x \in Seq(Nat) /\ y \in Seq(Nat)
    BY TrimmedType
  <1>2. /\ p1 = IF p = <<>> /\ c = 48 THEN <<>> ELSE Append(p, c)
        /\ q1 = IF q = <<>> /\ d = 48 THEN <<>> ELSE Append(q, d)
    BY <1>1, TrimmedAppend
  <1>3. /\ NumberLess(x, y) <=> Lower(p, q)
        /\ NumberLess(Append(x, c), Append(y, d)) <=> Lower(p1, q1)
    BY DEF NumberLess, Lower
  <1> HIDE DEF p, q, p1, q1
  <1>4. /\ Lower(p1, q1) <=> Lower(p, q) \/ (p = q /\ c < d)
        /\ p1 = q1 <=> p = q /\ c = d
    <2>1. \A s \in Seq(Nat), e \in Nat : Append(s, e) \in Seq(Nat) /\ Append(s, e) # <<>>
      BY AppendProperties
    <2>2. CASE (p = <<>> /\ c = 48) /\ (q = <<>> /\ d = 48)
      BY <1>1, <1>2, <2>2, LowerEmpty
    <2>3. CASE (p = <<>> /\ c = 48) /\ ~(q = <<>> /\ d = 48)
      <3>1. p1 = <<>> /\ q1 = Append(q, d)
        BY <1>2, <2>3
      <3>2. Lower(p1, q1) /\ p1 # q1
        BY <1>1, <2>1, <3>1, LowerEmpty
      <3>3. Lower(p, q) \/ (p = q /\ c < d)
        BY <1>1, <2>3, LowerEmpty
      <3> QED
        BY <2>3, <3>2, <3>3
    <2>4. CASE ~(p = <<>> /\ c = 48) /\ (q = <<>> /\ d = 48)
      <3>1. p1 = Append(p, c) /\ q1 = <<>>
        BY <1>2, <2>4
      <3>2. ~Lower(p1, q1) /\ p1 # q1
        BY <1>1, <2>1, <3>1, LowerEmpty
      <3>3. ~Lower(p, q) /\ ~(c < d)
        BY <1>1, <2>4, LowerEmpty
      <3> QED
        BY <2>4, <3>2, <3>3
    <2>5. CASE ~(p = <<>> /\ c = 48) /\ ~(q = <<>> /\ d = 48)
      <3>1. p1 = Append(p, c) /\ q1 = Append(q, d)
        BY <1>2, <2>5
      <3>2. /\ Lower(Append(p, c), Append(q, d)) <=> Lower(p, q) \/ (p = q /\ c < d)
            /\ Append(p, c) = Append(q, d) <=> p = q /\ c = d
        BY <1>1, LowerAppend
      <3> QED
        BY <3>1, <3>2
    <2> QED
      BY <2>2, <2>3, <2>4, <2>5
  <1> QED
    BY <1>3, <1>4 DEF p, q, p1, q1

\* A number is zero if it has no other digits.
LEMMA ValueZero ==
    \A x \in Number : Value(x) = 0 <=> Trimmed(x) = <<>>
  <1> DEFINE K == {n \in Nat : \A x \in Number : Len(x) = n => (Value(x) = 0 <=> Trimmed(x) = <<>>)}
  <1>1. 0 \in K
    <2>1. Trimmed(<<>>) = <<>>
      <3>1. <<>> \in Seq(Nat) /\ ~(\E k \in 1..Len(<<>>) : TRUE)
        OBVIOUS
      <3> QED
        BY <3>1, TrimmedIs
    <2>2. \A x \in Number : Len(x) = 0 => x = <<>>
      BY DEF Number
    <2> QED
      BY <2>1, <2>2, ValueIs
  <1>2. ASSUME NEW n \in Nat, n \in K PROVE n + 1 \in K
    <2>1. ASSUME NEW y \in Number, Len(y) = n + 1
          PROVE  Value(y) = 0 <=> Trimmed(y) = <<>>
      <3>1. PICK x \in Number, d \in 48..57 : y = Append(x, d)
        <4>1. y # <<>>
          BY <2>1, EmptySeq
        <4> QED
          BY <4>1, SequenceEmptyOrAppend DEF Number
      <3>2. Len(x) = n
        <4>1. Len(Append(x, d)) = Len(x) + 1 /\ Len(x) \in Nat
          BY AppendProperties DEF Number
        <4> QED
          BY <2>1, <3>1, <4>1
      <3>3. Value(x) = 0 <=> Trimmed(x) = <<>>
        BY <1>2, <3>2
      <3>4. Value(y) = 10 * Value(x) + (d - 48) /\ Value(x) \in Nat
        BY <3>1, ValueIs
      <3>5. Value(y) = 0 <=> Value(x) = 0 /\ d = 48
        BY <3>4
      <3>6. x \in Seq(Nat) /\ d \in Nat /\ Trimmed(x) \in Seq(Nat)
        BY TrimmedType
      <3>7. Trimmed(y) = <<>> <=> Trimmed(x) = <<>> /\ d = 48
        BY <3>1, <3>6, TrimmedAppend, AppendProperties
      <3> QED
        BY <3>3, <3>5, <3>7
    <2> QED
      BY <2>1
  <1>3. \A n \in Nat : n \in K
    <2> HIDE DEF K
    <2> QED
      BY <1>1, <1>2, Induction
  <1> QED
    <2> SUFFICES ASSUME NEW x \in Number PROVE Value(x) = 0 <=> Trimmed(x) = <<>>
      OBVIOUS
    <2>1. Len(x) \in Nat
      BY DEF Number
    <2> QED
      BY <1>3, <2>1

\* NumberLess, which compares lengths and then digits, compares values.
LEMMA NumberLessIsLess ==
    ASSUME NEW x \in Number, NEW y \in Number
    PROVE  /\ NumberLess(x, y) <=> Value(x) < Value(y)
           /\ Trimmed(x) = Trimmed(y) <=> Value(x) = Value(y)
  <1> DEFINE Same(a, b) == /\ NumberLess(a, b) <=> Value(a) < Value(b)
                           /\ Trimmed(a) = Trimmed(b) <=> Value(a) = Value(b)
             K == {n \in Nat : \A a, b \in Number : Len(a) = n => Same(a, b)}
  <1>1. ASSUME NEW a \in Number, NEW b \in Number, a = <<>> \/ b = <<>> PROVE Same(a, b)
    <2>1. Trimmed(a) \in Seq(Nat) /\ Trimmed(b) \in Seq(Nat)
      BY TrimmedType
    <2>2. Value(a) \in Nat /\ Value(b) \in Nat /\ Value(<<>>) = 0 /\ <<>> \in Number
      BY ValueIs DEF Number
    <2>3. /\ Value(a) = 0 <=> Trimmed(a) = <<>>
          /\ Value(b) = 0 <=> Trimmed(b) = <<>>
          /\ Trimmed(<<>>) = <<>>
      BY <2>2, ValueZero
    <2>4. NumberLess(a, b) <=> Lower(Trimmed(a), Trimmed(b))
      BY DEF NumberLess, Lower
    <2>5. CASE a = <<>>
      BY <2>1, <2>2, <2>3, <2>4, <2>5, LowerEmpty
    <2>6. CASE b = <<>>
      BY <2>1, <2>2, <2>3, <2>4, <2>6, LowerEmpty
    <2> QED
      BY <1>1, <2>5, <2>6
  <1>2. ASSUME NEW a \in Number, NEW b \in Number, Same(a, b), NEW c \in 48..57, NEW d \in 48..57
        PROVE  Same(Append(a, c), Append(b, d))
    <2>1. /\ Value(Append(a, c)) = 10 * Value(a) + (c - 48) /\ Value(a) \in Nat
          /\ Value(Append(b, d)) = 10 * Value(b) + (d - 48) /\ Value(b) \in Nat
      <3>1. /\ \A x1 \in Number : Value(x1) \in Nat
            /\ \A x1 \in Number, e \in 48..57 : Value(Append(x1, e)) = 10 * Value(x1) + (e - 48)
        BY ValueIs
      <3> QED
        BY <3>1, Zenon
    <2>2. /\ Value(Append(a, c)) < Value(Append(b, d)) <=>
                Value(a) < Value(b) \/ (Value(a) = Value(b) /\ c < d)
          /\ Value(Append(a, c)) = Value(Append(b, d)) <=> Value(a) = Value(b) /\ c = d
      BY <2>1
    <2> QED
      BY <1>2, <2>2, NumberLessAppend
  <1> HIDE DEF Same
  <1>3. 0 \in K
    <2>1. \A a \in Number : Len(a) = 0 => a = <<>>
      BY DEF Number
    <2> QED
      BY <1>1, <2>1
  <1>4. ASSUME NEW n \in Nat, n \in K PROVE n + 1 \in K
    <2>1. ASSUME NEW a \in Number, NEW b \in Number, Len(a) = n + 1 PROVE Same(a, b)
      <3>1. CASE b = <<>>
        BY <1>1, <3>1
      <3>2. CASE b # <<>>
        <4>1. a # <<>>
          BY <2>1, EmptySeq
        <4>2. PICK a1 \in Number, c \in 48..57 : a = Append(a1, c)
          BY <4>1, SequenceEmptyOrAppend DEF Number
        <4>3. PICK b1 \in Number, d \in 48..57 : b = Append(b1, d)
          BY <3>2, SequenceEmptyOrAppend DEF Number
        <4>4. Len(a1) = n
          <5>1. Len(Append(a1, c)) = Len(a1) + 1 /\ Len(a1) \in Nat
            BY AppendProperties DEF Number
          <5> QED
            BY <2>1, <4>2, <5>1
        <4>5. Same(a1, b1)
          BY <1>4, <4>4
        <4> QED
          BY <1>2, <4>2, <4>3, <4>5
      <3> QED
        BY <3>1, <3>2
    <2> QED
      BY <2>1
  <1>5. \A n \in Nat : n \in K
    <2> HIDE DEF K
    <2> QED
      BY <1>3, <1>4, Induction
  <1>6. Len(x) \in Nat
    BY DEF Number
  <1>7. Same(x, y)
    BY <1>5, <1>6
  <1> QED
    BY <1>7 DEF Same

-----------------------------------------------------------------------------
(* Chunks.                                                                 *)

\* A text of digits only, or of other characters only.
Chunk == {x \in Seq(Nat) : x # <<>> /\ \A i \in 1..Len(x) : IsDigit(x[i]) <=> IsDigit(x[1])}

\* The steps of Chunks.
ChunkStep(s) == [p \in Seq(Chunk) \X (1..Len(s)) |-> Chunked(p[1], s[p[2]])]

\* A chunk with one more character of its kind, and one of a single character.
LEMMA ChunkGrows ==
    ASSUME NEW x \in Chunk, NEW ch \in Nat, IsDigit(x[1]) <=> IsDigit(ch)
    PROVE  Append(x, ch) \in Chunk
  <1>1. x \in Seq(Nat) /\ x # <<>> /\ Len(x) \in Nat \ {0}
    BY EmptySeq DEF Chunk
  <1>2. /\ Append(x, ch) \in Seq(Nat) /\ Append(x, ch) # <<>>
        /\ Len(Append(x, ch)) = Len(x) + 1
        /\ \A i \in 1..Len(x) : Append(x, ch)[i] = x[i]
        /\ Append(x, ch)[Len(x) + 1] = ch
    BY <1>1, AppendProperties
  <1>3. Append(x, ch)[1] = x[1] /\ \A i \in 1..Len(x) : IsDigit(x[i]) <=> IsDigit(x[1])
    BY <1>1, <1>2 DEF Chunk
  <1>4. ASSUME NEW i \in 1..(Len(x) + 1)
        PROVE  IsDigit(Append(x, ch)[i]) <=> IsDigit(Append(x, ch)[1])
    <2>1. i \in 1..Len(x) \/ i = Len(x) + 1
      BY <1>1
    <2> QED
      BY <1>2, <1>3, <2>1
  <1> QED
    BY <1>2, <1>4 DEF Chunk

\* A character is a chunk.
LEMMA ChunkStarts ==
    ASSUME NEW ch \in Nat
    PROVE  <<ch>> \in Chunk /\ <<ch>>[1] = ch
  BY DEF Chunk

\* A step leads from chunks to chunks.
LEMMA ChunkedType ==
    ASSUME NEW c \in Seq(Chunk), NEW ch \in Nat
    PROVE  Chunked(c, ch) \in Seq(Chunk) /\ Chunked(c, ch) # <<>>
  <1>1. CASE c # <<>> /\ (IsDigit(Last(c)[1]) <=> IsDigit(ch))
    <2>1. Front(c) \in Seq(Chunk) /\ Last(c) \in Chunk
      BY <1>1, FrontProperties
    <2>2. Append(Last(c), ch) \in Chunk
      BY <1>1, <2>1, ChunkGrows
    <2>3. Chunked(c, ch) = Append(Front(c), Append(Last(c), ch))
      BY <1>1 DEF Chunked
    <2> DEFINE d == Front(c)
               e == Append(Last(c), ch)
    <2>4. d \in Seq(Chunk) /\ e \in Chunk
      BY <2>1, <2>2
    <2> HIDE DEF d, e
    <2>5. Append(d, e) \in Seq(Chunk) /\ Append(d, e) # <<>>
      BY <2>4, AppendProperties
    <2> QED
      BY <2>3, <2>5 DEF d, e
  <1>2. CASE ~(c # <<>> /\ (IsDigit(Last(c)[1]) <=> IsDigit(ch)))
    BY <1>2, ChunkStarts, AppendProperties DEF Chunked
  <1> QED
    BY <1>1, <1>2

\* Chunks is such a fold:
LEMMA ChunksSteps ==
    ASSUME NEW x \in Seq(Nat)
    PROVE  \E f : /\ IsFolded(f, Seq(Chunk), <<>>, Len(x), ChunkStep(x))
                  /\ f[Len(x)] = Chunks(x)
  <1> DEFINE n == Len(x)
             T == Seq(Chunk)
             G == ChunkStep(x)
             Body(g, s) == IF s = {} THEN <<>> ELSE Chunked(g[s \ {Max(s)}], x[Max(s)])
             iter == CHOOSE g : g = [s \in SUBSET DOMAIN x |-> Body(g, s)]
  <1>1. Chunks(x) = iter[DOMAIN x]
    BY DEF Chunks, FoldLeft, MapThenFoldSet
  <1>2. n \in Nat /\ DOMAIN x = 1..n /\ <<>> \in T
    OBVIOUS
  <1>3. G \in [T \X (1..n) -> T]
    <2>1. ASSUME NEW v \in T, NEW i \in 1..n PROVE Chunked(v, x[i]) \in T
      <3>1. x[i] \in Nat
        OBVIOUS
      <3> QED
        BY <3>1, ChunkedType
    <2> QED
      BY <2>1 DEF ChunkStep
  <1>4. ASSUME NEW g, NEW s \in SUBSET (1..n), s # {}, g[s \ {Max(s)}] \in T
        PROVE  Body(g, s) = G[<<g[s \ {Max(s)}], Max(s)>>]
    <2>1. Max(s) \in 1..n
      <3> HIDE DEF n
      <3> QED
        BY <1>2, <1>4, MaxExists
    <2> QED
      BY <1>4, <2>1 DEF ChunkStep
  <1>5. \A g : Body(g, {}) = <<>>
    OBVIOUS
  <1> HIDE DEF n, T, G, Body
  <1>6. PICK h : IsFold(h, T, <<>>, n, G)
    BY <1>2, <1>3, FoldExists
  <1>7. h = [s \in SUBSET DOMAIN x |-> Body(h, s)]
    BY <1>2, <1>4, <1>5, <1>6 DEF IsFold
  <1>8. iter = [s \in SUBSET DOMAIN x |-> Body(iter, s)]
    BY <1>7
  <1> HIDE DEF iter
  <1>9. FollowsFold(iter, T, <<>>, n, G)
    BY <1>2, <1>4, <1>5, <1>8 DEF FollowsFold
  <1>10. IsFolded(Steps(iter, n), T, <<>>, n, G)
    BY <1>2, <1>3, <1>9, FoldSteps
  <1>11. Steps(iter, n)[n] = iter[1..n]
    BY <1>2 DEF Steps
  <1> QED
    BY <1>1, <1>2, <1>10, <1>11 DEF n, T, G

\* it may be computed character by character.
LEMMA ChunksIs ==
    /\ Chunks(<<>>) = <<>>
    /\ \A x \in Seq(Nat) : Chunks(x) \in Seq(Chunk)
    /\ \A x \in Seq(Nat), ch \in Nat : Chunks(Append(x, ch)) = Chunked(Chunks(x), ch)
  <1>1. Chunks(<<>>) = <<>>
    <2>1. <<>> \in Seq(Nat) /\ Len(<<>>) = 0
      OBVIOUS
    <2>2. PICK f : IsFolded(f, Seq(Chunk), <<>>, 0, ChunkStep(<<>>)) /\ f[0] = Chunks(<<>>)
      BY <2>1, ChunksSteps
    <2> QED
      BY <2>2 DEF IsFolded
  <1>2. ASSUME NEW x \in Seq(Nat) PROVE Chunks(x) \in Seq(Chunk)
    <2>1. PICK f : IsFolded(f, Seq(Chunk), <<>>, Len(x), ChunkStep(x)) /\ f[Len(x)] = Chunks(x)
      BY ChunksSteps
    <2>2. Len(x) \in 0..Len(x)
      OBVIOUS
    <2> QED
      BY <2>1, <2>2 DEF IsFolded
  <1>3. ASSUME NEW x \in Seq(Nat), NEW ch \in Nat
        PROVE  Chunks(Append(x, ch)) = Chunked(Chunks(x), ch)
    <2> DEFINE y == Append(x, ch)
               n == Len(x)
               k == n + 1
               T == Seq(Chunk)
    <2>1. y \in Seq(Nat) /\ Len(y) = n + 1 /\ n \in Nat /\ y[n + 1] = ch
          /\ \A i \in 1..n : y[i] = x[i]
      BY AppendProperties
    <2>2. PICK f : IsFolded(f, T, <<>>, k, ChunkStep(y)) /\ f[k] = Chunks(y)
      <3> HIDE DEF y, n, T
      <3> QED
        BY <2>1, ChunksSteps DEF T
    <2>3. PICK g : IsFolded(g, T, <<>>, n, ChunkStep(x)) /\ g[n] = Chunks(x)
      BY ChunksSteps
    <2>4. SameSteps(T, n, ChunkStep(y), ChunkStep(x))
      <3> HIDE DEF y, n, T
      <3>1. \A v \in T, i \in 1..n : <<v, i>> \in T \X (1..Len(y))
        BY <2>1
      <3> QED
        BY <2>1, <3>1 DEF ChunkStep, SameSteps, n, T
    <2>5. f[n] = g[n]
      <3>1. k \in Nat /\ n \in 0..k /\ n \in 0..n /\ <<>> \in T
        BY <2>1
      <3> DEFINE G == ChunkStep(y)
                 H == ChunkStep(x)
      <3>2. IsFolded(f, T, <<>>, k, G) /\ IsFolded(g, T, <<>>, n, H) /\ SameSteps(T, n, G, H)
        BY <2>2, <2>3, <2>4
      <3> HIDE DEF k, G, H, n, T
      <3>3. \A i \in 0..n : f[i] = g[i]
        BY <3>1, <3>2, FoldsAgree
      <3> QED
        BY <3>1, <3>3
    <2>6. f[k] = ChunkStep(y)[<<f[n], k>>]
      <3>1. k \in 1..k /\ k - 1 = n
        BY <2>1
      <3> QED
        BY <2>2, <3>1 DEF IsFolded
    <2>7. <<f[n], k>> \in T \X (1..Len(y))
      BY <1>2, <2>1, <2>3, <2>5
    <2>8. Chunks(y) = Chunked(f[n], y[k])
      BY <2>2, <2>6, <2>7 DEF ChunkStep
    <2> QED
      BY <2>1, <2>3, <2>5, <2>8
  <1> QED
    BY <1>1, <1>2, <1>3

\* A chunk of digits is a number; chunks of both kinds differ in their first
\* characters, and all digits are on one side of the other character.
LEMMA ChunkKinds ==
    /\ \A x \in Chunk : x \in Seq(Nat) /\ x # <<>> /\ Len(x) \in Nat \ {0} /\ x[1] \in Nat
    /\ \A x \in Chunk : IsDigit(x[1]) => x \in Number
  <1>1. ASSUME NEW x \in Chunk
        PROVE  x \in Seq(Nat) /\ x # <<>> /\ Len(x) \in Nat \ {0} /\ x[1] \in Nat
    <2>1. x \in Seq(Nat) /\ x # <<>> /\ Len(x) \in Nat \ {0}
      BY EmptySeq DEF Chunk
    <2> QED
      BY <2>1
  <1>2. ASSUME NEW x \in Chunk, IsDigit(x[1]) PROVE x \in Number
    <2>1. x \in Seq(Nat) /\ \A i \in 1..Len(x) : x[i] \in 48..57
      BY <1>2 DEF Chunk, IsDigit
    <2>2. x = [i \in 1..Len(x) |-> x[i]] /\ Len(x) \in Nat
      BY <2>1
    <2>3. [i \in 1..Len(x) |-> x[i]] \in Seq(48..57)
      BY <2>1, <2>2, IsASeq
    <2> QED
      BY <2>2, <2>3 DEF Number
  <1> QED
    BY <1>1, <1>2

\* Chunks that begin differently are ordered by their first characters.
LEMMA MixedByFirst ==
    ASSUME NEW x \in Chunk, NEW y \in Chunk, x[1] # y[1]
    PROVE  LexLess(x, y) <=> x[1] < y[1]
  <1>1. /\ x \in Seq(Nat) /\ Len(x) \in Nat \ {0} /\ x[1] \in Nat
        /\ y \in Seq(Nat) /\ Len(y) \in Nat \ {0} /\ y[1] \in Nat
    BY ChunkKinds
  <1>2. ASSUME NEW n \in Nat, LexAt(x, y, n) PROVE x[1] < y[1]
    <2>1. n = 0
      <3>1. n # 0 => n <= Len(x) /\ 1 \in 1..n
        BY <1>1, <1>2 DEF LexAt
      <3> QED
        BY <1>2, <3>1 DEF LexAt
    <2> QED
      BY <1>1, <1>2, <2>1 DEF LexAt
  <1>3. x[1] < y[1] => LexAt(x, y, 0)
    BY <1>1 DEF LexAt
  <1> QED
    BY <1>1, <1>2, <1>3, LexLessAt

\* The comparison of two chunks is asymmetric.
LEMMA ChunkLessAsymmetric ==
    ASSUME NEW x \in Chunk, NEW y \in Chunk, ChunkLess(x, y)
    PROVE  ~ChunkLess(y, x)
  <1>1. x \in Seq(Nat) /\ y \in Seq(Nat)
    BY ChunkKinds
  <1>2. CASE IsDigit(x[1]) /\ IsDigit(y[1])
    <2>1. x \in Number /\ y \in Number
      BY <1>2, ChunkKinds
    <2>2. Value(x) < Value(y) /\ Value(x) \in Nat /\ Value(y) \in Nat
      BY <1>2, <2>1, NumberLessIsLess, ValueIs DEF ChunkLess
    <2> QED
      BY <1>2, <2>1, <2>2, NumberLessIsLess DEF ChunkLess
  <1>3. CASE ~(IsDigit(x[1]) /\ IsDigit(y[1]))
    BY <1>1, <1>3, LexLessAsymmetric DEF ChunkLess
  <1> QED
    BY <1>2, <1>3

\* Chunks that ChunkLess does not tell apart.
Alike(x, y) == ~ChunkLess(x, y) /\ ~ChunkLess(y, x)

\* Numbers are alike if they have the same value, texts only if they are equal.
LEMMA AlikeIs ==
    ASSUME NEW x \in Chunk, NEW y \in Chunk
    PROVE  Alike(x, y) <=> IF IsDigit(x[1]) /\ IsDigit(y[1]) THEN Value(x) = Value(y) ELSE x = y
  <1>1. x \in Seq(Nat) /\ y \in Seq(Nat)
    BY ChunkKinds
  <1>2. CASE IsDigit(x[1]) /\ IsDigit(y[1])
    <2>1. x \in Number /\ y \in Number
      BY <1>2, ChunkKinds
    <2>2. /\ ChunkLess(x, y) <=> Value(x) < Value(y)
          /\ ChunkLess(y, x) <=> Value(y) < Value(x)
      BY <1>2, <2>1, NumberLessIsLess DEF ChunkLess
    <2>3. Value(x) \in Nat /\ Value(y) \in Nat
      BY <2>1, ValueIs
    <2> QED
      BY <1>2, <2>2, <2>3 DEF Alike
  <1>3. CASE ~(IsDigit(x[1]) /\ IsDigit(y[1]))
    <2>1. /\ ChunkLess(x, y) <=> LexLess(x, y)
          /\ ChunkLess(y, x) <=> LexLess(y, x)
      BY <1>3 DEF ChunkLess
    <2>2. x = y => ~LexLess(x, y)
      BY <1>1, LexLessAsymmetric
    <2>3. x # y => LexLess(x, y) \/ LexLess(y, x)
      BY <1>1, LexLessTotal
    <2> QED
      BY <1>3, <2>1, <2>2, <2>3 DEF Alike
  <1> QED
    BY <1>2, <1>3

\* Nothing is between two chunks without being told apart from one of them.
LEMMA ChunkLessWeak ==
    ASSUME NEW x \in Chunk, NEW y \in Chunk, NEW z \in Chunk, ChunkLess(x, y)
    PROVE  ChunkLess(x, z) \/ ChunkLess(z, y)
  <1> DEFINE D(a) == IsDigit(a[1])
  <1>1. /\ x \in Seq(Nat) /\ y \in Seq(Nat) /\ z \in Seq(Nat)
        /\ x[1] \in Nat /\ y[1] \in Nat /\ z[1] \in Nat
    BY ChunkKinds
  <1>2. ASSUME NEW a \in Chunk, NEW b \in Chunk, D(a), ~D(b)
        PROVE  /\ ChunkLess(a, b) <=> b[1] > 57
               /\ ChunkLess(b, a) <=> b[1] < 48
    <2>1. a[1] \in 48..57 /\ b[1] \in Nat /\ b[1] \notin 48..57 /\ a[1] # b[1]
      BY <1>2, ChunkKinds DEF IsDigit
    <2>2. /\ ChunkLess(a, b) <=> LexLess(a, b)
          /\ ChunkLess(b, a) <=> LexLess(b, a)
      BY <1>2 DEF ChunkLess
    <2>3. /\ LexLess(a, b) <=> a[1] < b[1]
          /\ LexLess(b, a) <=> b[1] < a[1]
      BY <2>1, MixedByFirst
    <2> QED
      BY <2>1, <2>2, <2>3
  <1>3. CASE D(x) /\ D(y) /\ D(z)
    <2>1. x \in Number /\ y \in Number /\ z \in Number
      BY <1>3, ChunkKinds
    <2>2. /\ ChunkLess(x, y) <=> Value(x) < Value(y)
          /\ ChunkLess(x, z) <=> Value(x) < Value(z)
          /\ ChunkLess(z, y) <=> Value(z) < Value(y)
      BY <1>3, <2>1, NumberLessIsLess DEF ChunkLess
    <2>3. Value(x) \in Nat /\ Value(y) \in Nat /\ Value(z) \in Nat
      BY <2>1, ValueIs
    <2> QED
      BY <2>2, <2>3
  <1>4. CASE ~(D(x) /\ D(y)) /\ ~(D(x) /\ D(z)) /\ ~(D(y) /\ D(z))
    <2>1. /\ ChunkLess(x, y) <=> LexLess(x, y)
          /\ ChunkLess(x, z) <=> LexLess(x, z)
          /\ ChunkLess(z, y) <=> LexLess(z, y)
      BY <1>4 DEF ChunkLess
    <2>2. LexLess(x, z) \/ x = z \/ LexLess(z, x)
      BY <1>1, LexLessTotal
    <2>3. LexLess(z, x) => LexLess(z, y)
      BY <1>1, <2>1, LexLessTransitive
    <2> QED
      BY <2>1, <2>2, <2>3
  <1>5. CASE D(x) /\ D(y) /\ ~D(z)
    <2>1. z[1] < 48 \/ z[1] > 57
      <3>1. z[1] \in Nat /\ ~IsDigit(z[1])
        BY <1>1, <1>5
      <3> QED
        BY <3>1 DEF IsDigit
    <2>2. (ChunkLess(x, z) <=> z[1] > 57) /\ (ChunkLess(z, y) <=> z[1] < 48)
      BY <1>2, <1>5
    <2> QED
      BY <2>1, <2>2
  <1>6. CASE D(x) /\ ~D(y) /\ D(z)
    <2>1. (ChunkLess(x, y) <=> y[1] > 57) /\ (ChunkLess(z, y) <=> y[1] > 57)
      BY <1>2, <1>6
    <2> QED
      BY <2>1
  <1>7. CASE ~D(x) /\ D(y) /\ D(z)
    <2>1. (ChunkLess(x, y) <=> x[1] < 48) /\ (ChunkLess(x, z) <=> x[1] < 48)
      BY <1>2, <1>7
    <2> QED
      BY <2>1
  <1> QED
    BY <1>3, <1>4, <1>5, <1>6, <1>7

\* What follows: chunks that are not told apart compare alike with every other.
LEMMA AlikeCompares ==
    ASSUME NEW x \in Chunk, NEW y \in Chunk, NEW z \in Chunk, Alike(x, y)
    PROVE  /\ ChunkLess(x, z) => ChunkLess(y, z)
           /\ ChunkLess(z, x) => ChunkLess(z, y)
           /\ Alike(y, x)
           /\ Alike(y, z) => Alike(x, z)
  BY ChunkLessWeak DEF Alike

-----------------------------------------------------------------------------
(* naturalCompare is a strict weak order.                                  *)

\* cb is greater than ca after their first n chunks.
ChunksAt(ca, cb, n) ==
    /\ n <= Len(ca) /\ n < Len(cb)
    /\ \A i \in 1..n : Alike(ca[i], cb[i])
    /\ n < Len(ca) => ChunkLess(ca[n + 1], cb[n + 1])

\* The body of NumericLess.
ChunksLess(ca, cb) ==
    LET Differ == {i \in DOMAIN ca \cap DOMAIN cb :
                       ChunkLess(ca[i], cb[i]) \/ ChunkLess(cb[i], ca[i])}
    IN  IF Differ = {} THEN Len(ca) < Len(cb)
        ELSE \E i \in Differ : /\ \A j \in Differ : i <= j
                               /\ ChunkLess(ca[i], cb[i])

\* The first chunks that are told apart decide, or the end of the shorter text.
LEMMA ChunksLessAt ==
    ASSUME NEW ca \in Seq(Chunk), NEW cb \in Seq(Chunk)
    PROVE  ChunksLess(ca, cb) <=> \E n \in Nat : ChunksAt(ca, cb, n)
  <1> DEFINE Differ == {i \in DOMAIN ca \cap DOMAIN cb : ~Alike(ca[i], cb[i])}
             First(i) == i \in Differ /\ \A j \in Differ : i <= j
  <1>1. /\ Len(ca) \in Nat /\ Len(cb) \in Nat
        /\ \A i : i \in DOMAIN ca \cap DOMAIN cb <=> i \in 1..Len(ca) /\ i \in 1..Len(cb)
    OBVIOUS
  <1>2. ChunksLess(ca, cb) <=>
          IF Differ = {} THEN Len(ca) < Len(cb)
          ELSE \E i \in Differ : First(i) /\ ChunkLess(ca[i], cb[i])
    BY DEF ChunksLess, Alike
  <1>3. \A i : i \in Differ <=> i \in 1..Len(ca) /\ i \in 1..Len(cb) /\ ~Alike(ca[i], cb[i])
    BY <1>1
  <1>4. Differ \in SUBSET Nat
    OBVIOUS
  <1> HIDE DEF Differ
  <1>5. CASE Differ = {}
    <2>1. \A i \in 1..Len(ca) : i \in 1..Len(cb) => Alike(ca[i], cb[i])
      BY <1>3, <1>5
    <2>2. Len(ca) < Len(cb) => ChunksAt(ca, cb, Len(ca))
      BY <1>1, <2>1 DEF ChunksAt
    <2>3. ASSUME NEW n \in Nat, ChunksAt(ca, cb, n) PROVE Len(ca) < Len(cb)
      <3>1. CASE n < Len(ca)
        <4>1. n + 1 \in 1..Len(ca) /\ n + 1 \in 1..Len(cb)
          BY <1>1, <2>3, <3>1 DEF ChunksAt
        <4> QED
          BY <2>1, <2>3, <3>1, <4>1 DEF ChunksAt, Alike
      <3> QED
        BY <1>1, <2>3, <3>1 DEF ChunksAt
    <2> QED
      BY <1>1, <1>2, <1>5, <2>2, <2>3
  <1>6. CASE Differ # {}
    <2>1. PICK i \in Differ : First(i)
      BY <1>4, <1>6, LeastNatural
    <2>2. /\ i \in 1..Len(ca) /\ i \in 1..Len(cb) /\ ~Alike(ca[i], cb[i])
          /\ i - 1 \in Nat /\ (i - 1) + 1 = i
          /\ i - 1 < Len(ca) /\ i - 1 < Len(cb)
      BY <1>1, <1>3
    <2>3. \A j \in 1..(i - 1) : Alike(ca[j], cb[j])
      <3>1. \A j \in 1..(i - 1) : j \in 1..Len(ca) /\ j \in 1..Len(cb) /\ ~(i <= j)
        BY <1>1, <2>2
      <3> QED
        BY <1>3, <2>1, <3>1
    <2>4. ChunksLess(ca, cb) <=> ChunkLess(ca[i], cb[i])
      <3>1. \A j \in Differ : First(j) => j = i
        BY <1>4, <2>1
      <3> QED
        BY <1>2, <1>6, <2>1, <3>1
    <2>5. ChunkLess(ca[i], cb[i]) => ChunksAt(ca, cb, i - 1)
      BY <2>2, <2>3 DEF ChunksAt
    <2>6. ASSUME NEW n \in Nat, ChunksAt(ca, cb, n) PROVE ChunkLess(ca[i], cb[i])
      <3>1. ~(i \in 1..n)
        BY <2>2, <2>6 DEF ChunksAt
      <3>2. n < Len(ca)
        BY <1>1, <2>2, <3>1
      <3>3. ~(n + 1 < i)
        <4>1. n + 1 < i => n + 1 \in 1..(i - 1)
          BY <2>2
        <4> QED
          BY <2>3, <2>6, <3>2, <4>1 DEF ChunksAt, Alike
      <3>4. n + 1 = i
        BY <2>2, <3>1, <3>3
      <3> QED
        BY <2>6, <3>2, <3>4 DEF ChunksAt
    <2> QED
      BY <2>2, <2>4, <2>5, <2>6
  <1> QED
    BY <1>5, <1>6

\* The order of sequences of chunks is asymmetric
LEMMA ChunksLessAsymmetric ==
    ASSUME NEW ca \in Seq(Chunk), NEW cb \in Seq(Chunk), ChunksLess(ca, cb)
    PROVE  ~ChunksLess(cb, ca)
  <1>1. PICK n \in Nat : ChunksAt(ca, cb, n)
    BY ChunksLessAt
  <1>2. Len(ca) \in Nat /\ Len(cb) \in Nat
    OBVIOUS
  <1>3. \A i \in Nat : i < Len(ca) /\ i < Len(cb) => ca[i + 1] \in Chunk /\ cb[i + 1] \in Chunk
    OBVIOUS
  <1>4. ASSUME NEW m \in Nat, ChunksAt(cb, ca, m) PROVE FALSE
    <2>1. CASE n < m
      <3>1. n + 1 \in 1..m /\ n < Len(ca) /\ n < Len(cb)
        BY <1>1, <1>2, <1>4, <2>1 DEF ChunksAt
      <3> QED
        BY <1>1, <1>4, <3>1 DEF ChunksAt, Alike
    <2>2. CASE m < n
      <3>1. m + 1 \in 1..n /\ m < Len(ca) /\ m < Len(cb)
        BY <1>1, <1>2, <1>4, <2>2 DEF ChunksAt
      <3> QED
        BY <1>1, <1>4, <3>1 DEF ChunksAt, Alike
    <2>3. CASE m = n
      <3>1. n < Len(ca) /\ n < Len(cb)
        BY <1>1, <1>4, <2>3 DEF ChunksAt
      <3> QED
        BY <1>1, <1>3, <1>4, <2>3, <3>1, ChunkLessAsymmetric DEF ChunksAt
    <2> QED
      BY <2>1, <2>2, <2>3
  <1> QED
    BY <1>4, ChunksLessAt

\* and weak.
LEMMA ChunksLessWeak ==
    ASSUME NEW ca \in Seq(Chunk), NEW cb \in Seq(Chunk), NEW cc \in Seq(Chunk),
           ChunksLess(ca, cb)
    PROVE  ChunksLess(ca, cc) \/ ChunksLess(cc, cb)
  <1>1. PICK n \in Nat : ChunksAt(ca, cb, n)
    BY ChunksLessAt
  <1>2. Len(ca) \in Nat /\ Len(cb) \in Nat /\ Len(cc) \in Nat
    OBVIOUS
  <1>3. /\ \A i \in 1..Len(ca) : ca[i] \in Chunk
        /\ \A i \in 1..Len(cb) : cb[i] \in Chunk
        /\ \A i \in 1..Len(cc) : cc[i] \in Chunk
    OBVIOUS
  <1> DEFINE Stop == {m \in Nat : \/ m = n \/ m = Len(cc)
                                  \/ m < n /\ m < Len(cc) /\ ~Alike(ca[m + 1], cc[m + 1])}
  <1>4. PICK m \in Stop : \A k \in Stop : m <= k
    <2>1. Stop \in SUBSET Nat /\ n \in Stop
      OBVIOUS
    <2> HIDE DEF Stop
    <2> QED
      BY <2>1, LeastNatural
  <1>5. m \in Nat /\ m <= n /\ m <= Len(cc) /\ m <= Len(ca) /\ m < Len(cb)
    BY <1>1, <1>2, <1>4 DEF ChunksAt
  <1>6. ASSUME NEW i \in 1..m
        PROVE  Alike(ca[i], cc[i]) /\ Alike(cc[i], cb[i])
    <2>1. i - 1 \in Nat /\ (i - 1) + 1 = i /\ i - 1 < n /\ i - 1 < Len(cc) /\ i - 1 < m
      BY <1>2, <1>5
    <2>2. Alike(ca[i], cc[i])
      <3>1. i - 1 \notin Stop
        <4> HIDE DEF Stop
        <4> QED
          BY <1>4, <1>5, <2>1
      <3> QED
        BY <2>1, <3>1
    <2>3. Alike(ca[i], cb[i])
      BY <1>1, <1>5 DEF ChunksAt
    <2>4. ca[i] \in Chunk /\ cb[i] \in Chunk /\ cc[i] \in Chunk
      BY <1>2, <1>3, <1>5
    <2>5. Alike(cc[i], ca[i])
      BY <2>2 DEF Alike
    <2> QED
      BY <2>2, <2>3, <2>4, <2>5, AlikeCompares
  <1>7. CASE m = Len(cc)
    <2>1. ChunksAt(cc, cb, m)
      BY <1>5, <1>6, <1>7 DEF ChunksAt
    <2> QED
      BY <1>5, <2>1, ChunksLessAt
  <1>8. CASE m < n /\ m < Len(cc)
    <2>1. ~Alike(ca[m + 1], cc[m + 1])
      BY <1>4, <1>8
    <2>2. m + 1 \in 1..n /\ m + 1 \in 1..Len(ca) /\ m + 1 \in 1..Len(cb) /\ m + 1 \in 1..Len(cc)
      BY <1>1, <1>2, <1>5, <1>8 DEF ChunksAt
    <2>3. Alike(ca[m + 1], cb[m + 1])
      BY <1>1, <2>2 DEF ChunksAt
    <2>4. ChunkLess(cc[m + 1], ca[m + 1]) => ChunkLess(cc[m + 1], cb[m + 1])
      BY <1>3, <2>2, <2>3, AlikeCompares
    <2>5. \/ ChunkLess(ca[m + 1], cc[m + 1]) \/ ChunkLess(cc[m + 1], cb[m + 1])
      BY <2>1, <2>4 DEF Alike
    <2>6. ChunksAt(ca, cc, m) \/ ChunksAt(cc, cb, m)
      BY <1>5, <1>6, <1>8, <2>5 DEF ChunksAt
    <2> QED
      BY <1>5, <2>6, ChunksLessAt
  <1>9. CASE m = n /\ m < Len(cc)
    <2>1. CASE n = Len(ca)
      <3>1. ChunksAt(ca, cc, m)
        BY <1>5, <1>6, <1>9, <2>1 DEF ChunksAt
      <3> QED
        BY <1>5, <3>1, ChunksLessAt
    <2>2. CASE n < Len(ca)
      <3>1. m + 1 \in 1..Len(ca) /\ m + 1 \in 1..Len(cb) /\ m + 1 \in 1..Len(cc)
        BY <1>2, <1>5, <1>9, <2>2
      <3>2. ChunkLess(ca[m + 1], cb[m + 1])
        BY <1>1, <1>9, <2>2 DEF ChunksAt
      <3>3. ChunkLess(ca[m + 1], cc[m + 1]) \/ ChunkLess(cc[m + 1], cb[m + 1])
        BY <1>3, <3>1, <3>2, ChunkLessWeak
      <3>4. ChunksAt(ca, cc, m) \/ ChunksAt(cc, cb, m)
        BY <1>5, <1>6, <1>9, <3>3 DEF ChunksAt
      <3> QED
        BY <1>5, <3>4, ChunksLessAt
    <2> QED
      BY <1>1, <2>1, <2>2 DEF ChunksAt
  <1> QED
    BY <1>2, <1>5, <1>7, <1>8, <1>9

\* naturalCompare orders texts.
THEOREM NumericLessOrders ==
    ASSUME NEW a \in Seq(Nat), NEW b \in Seq(Nat), NumericLess(a, b)
    PROVE  /\ ~NumericLess(b, a)
           /\ \A c \in Seq(Nat) : NumericLess(a, c) \/ NumericLess(c, b)
  <1>1. \A s, t : NumericLess(s, t) <=> ChunksLess(Chunks(s), Chunks(t))
    BY DEF NumericLess, ChunksLess
  <1>2. \A s \in Seq(Nat) : Chunks(s) \in Seq(Chunk)
    BY ChunksIs
  <1> QED
    BY <1>1, <1>2, ChunksLessAsymmetric, ChunksLessWeak

-----------------------------------------------------------------------------
(* naturalCompare is the reference.                                        *)

\* The first m characters are the run of equal kind that a begins with.
IsRun(a, m) ==
    /\ \A i \in 1..m : IsDigit(a[i]) <=> IsDigit(a[1])
    /\ m < Len(a) => (IsDigit(a[m + 1]) <=> ~IsDigit(a[1]))

\* RunLength is the length of that run.
LEMMA RunLengthIs ==
    ASSUME NEW a \in Seq(Nat), a # <<>>
    PROVE  RunLength(a) \in 1..Len(a) /\ IsRun(a, RunLength(a))
  <1>1. Len(a) \in Nat \ {0} /\ DOMAIN a = 1..Len(a)
    BY EmptySeq
  <1> DEFINE E == {m \in 1..Len(a) : m = Len(a) \/ (m < Len(a) /\ (IsDigit(a[m + 1]) <=> ~IsDigit(a[1])))}
  <1>2. PICK m \in E : \A k \in E : m <= k
    <2>1. E \in SUBSET Nat /\ Len(a) \in E
      BY <1>1
    <2> HIDE DEF E
    <2> QED
      BY <2>1, LeastNatural
  <1>3. m \in 1..Len(a) /\ (m < Len(a) => (IsDigit(a[m + 1]) <=> ~IsDigit(a[1])))
    <2>1. m \in 1..Len(a) /\ (m = Len(a) \/ (m < Len(a) /\ (IsDigit(a[m + 1]) <=> ~IsDigit(a[1]))))
      BY Zenon
    <2>2. m = Len(a) => ~(m < Len(a))
      BY <1>1
    <2> QED
      BY <2>1, <2>2, Zenon
  <1>4. ASSUME NEW i \in 1..m PROVE IsDigit(a[i]) <=> IsDigit(a[1])
    <2>1. CASE i = 1
      BY <2>1
    <2>2. CASE i # 1
      <3>0. m \in Nat /\ m <= Len(a)
        <4> HIDE DEF E
        <4> QED
          BY <1>1, <1>3
      <3>1. i - 1 \in 1..Len(a) /\ i - 1 < Len(a) /\ (i - 1) + 1 = i /\ i - 1 < m
        <4> HIDE DEF E
        <4> QED
          BY <1>1, <2>2, <3>0
      <3>2. i - 1 \notin E
        <4>1. m \in Nat
          BY <1>3
        <4> HIDE DEF E
        <4> QED
          BY <1>2, <3>1, <4>1
      <3> QED
        BY <3>1, <3>2
    <2> QED
      BY <2>1, <2>2
  <1>5. m \in DOMAIN a /\ IsRun(a, m)
    BY <1>1, <1>3, <1>4 DEF IsRun
  <1>6. RunLength(a) = CHOOSE n \in DOMAIN a : IsRun(a, n)
    BY DEF RunLength, IsRun
  <1> QED
    BY <1>1, <1>5, <1>6

\* The chunks of a text are its first run and the chunks of the rest.
LEMMA ChunksPeel ==
    ASSUME NEW a \in Seq(Nat), NEW m \in 1..Len(a), IsRun(a, m)
    PROVE  /\ SubSeq(a, 1, m) \in Chunk /\ SubSeq(a, 1, m)[1] = a[1]
           /\ SubSeq(a, m + 1, Len(a)) \in Seq(Nat)
           /\ Len(SubSeq(a, m + 1, Len(a))) = Len(a) - m
           /\ Chunks(a) = <<SubSeq(a, 1, m)>> \o Chunks(SubSeq(a, m + 1, Len(a)))
  <1> DEFINE n == Len(a)
             L(k) == SubSeq(a, 1, k)
             R(k) == SubSeq(a, m + 1, k)
             x == L(m)
  <1>1. n \in Nat /\ m \in Nat /\ 1 <= m /\ m <= n /\ \A i \in 1..n : a[i] \in Nat
    OBVIOUS
  <1>2. ASSUME NEW k \in 0..n
        PROVE  /\ L(k) \in Seq(Nat) /\ Len(L(k)) = k
               /\ \A i \in 1..k : L(k)[i] = a[i]
    <2>1. k \in Nat /\ k <= Len(a)
      BY <1>1
    <2> HIDE DEF n
    <2> QED
      BY <2>1, Prefix
  <1>3. ASSUME NEW k \in m..n
        PROVE  /\ R(k) \in Seq(Nat) /\ Len(R(k)) = k - m
               /\ \A i \in 1..(k - m) : R(k)[i] = a[m + i]
    <2>1. k \in Nat /\ m \in Nat /\ m <= k /\ k <= Len(a)
      BY <1>1
    <2> HIDE DEF n
    <2> QED
      BY <2>1, Suffix
  <1>4. ASSUME NEW k \in 1..n
        PROVE  L(k) = Append(L(k - 1), a[k]) /\ (k > m => R(k) = Append(R(k - 1), a[k]))
    <2>1. k \in Nat /\ 0 \in Nat /\ 0 < k /\ k <= Len(a) /\ 0 + 1 = 1
      BY <1>1
    <2>2. SubSeq(a, 0 + 1, k) = Append(SubSeq(a, 0 + 1, k - 1), a[k])
      BY <2>1, SliceGrows
    <2>3. k > m => R(k) = Append(R(k - 1), a[k])
      <3> HIDE DEF n
      <3> QED
        BY <1>1, <2>1, SliceGrows
    <2> QED
      BY <2>1, <2>2, <2>3
  <1>5. L(0) = <<>> /\ R(m) = <<>> /\ L(n) = a
    <2>1. Len(L(0)) = 0 /\ L(0) \in Seq(Nat) /\ Len(R(m)) = 0 /\ R(m) \in Seq(Nat)
      BY <1>1, <1>2, <1>3
    <2>2. /\ L(n) \in Seq(Nat) /\ Len(L(n)) = n /\ \A i \in 1..n : L(n)[i] = a[i]
      BY <1>1, <1>2
    <2> HIDE DEF L, R
    <2>3. L(n) = a
      BY <2>2, SeqEqual DEF n
    <2> QED
      BY <2>1, <2>3, EmptySeq
  <1> HIDE DEF L, R
  <1>6. \A i \in 1..m : IsDigit(a[i]) <=> IsDigit(a[1])
    BY DEF IsRun
  <1>7. x \in Chunk /\ x[1] = a[1]
    <2>1. m \in 0..n /\ 1 \in 1..m
      BY <1>1
    <2>2. x \in Seq(Nat) /\ Len(x) = m /\ \A i \in 1..m : x[i] = a[i]
      BY <1>2, <2>1
    <2>3. x # <<>>
      BY <1>1, <2>2, EmptySeq
    <2>4. x[1] = a[1]
      BY <2>1, <2>2
    <2> QED
      BY <1>6, <2>2, <2>3, <2>4 DEF Chunk
  <1>12. \A u \in Chunk, v \in Seq(Chunk), w \in Chunk :
            Append(<<u>> \o v, w) = <<u>> \o Append(v, w)
    BY ConsAppend
  <1>8. ASSUME NEW k \in 1..m PROVE Chunks(L(k)) = <<L(k)>>
    <2> DEFINE K == {i \in 0..m : i # 0 => Chunks(L(i)) = <<L(i)>>}
    <2>1. 0 \in K
      BY <1>1
    <2>2. ASSUME NEW i \in 1..m, i - 1 \in K PROVE i \in K
      <3> DEFINE p == L(i - 1)
      <3>1. i \in 1..n /\ i - 1 \in 0..n /\ a[i] \in Nat /\ i \in 0..m
        BY <1>1
      <3>2. p \in Seq(Nat) /\ Len(p) = i - 1 /\ \A j \in 1..(i - 1) : p[j] = a[j]
        BY <1>2, <3>1
      <3>3. L(i) = Append(p, a[i])
        BY <1>4, <3>1
      <3> HIDE DEF p
      <3>4. Chunks(L(i)) = Chunked(Chunks(p), a[i])
        BY <3>1, <3>2, <3>3, ChunksIs
      <3>5. CASE i = 1
        <4>1. p = <<>>
          BY <3>2, <3>5, EmptySeq
        <4>2. Chunks(L(i)) = Append(<<>>, <<a[i]>>)
          BY <3>4, <4>1, ChunksIs DEF Chunked
        <4>3. L(i) = <<a[i]>> /\ Append(<<>>, <<a[i]>>) = <<<<a[i]>>>>
          BY <3>1, <3>3, <4>1
        <4> QED
          BY <3>1, <4>2, <4>3
      <3>6. CASE i # 1
        <4>1. Chunks(p) = <<p>>
          BY <2>2, <3>6 DEF p
        <4>2. p # <<>> /\ p[1] = a[1]
          <5>1. i - 1 # 0 /\ 1 \in 1..(i - 1)
            BY <3>6
          <5> QED
            BY <3>2, <5>1, EmptySeq
        <4>3. Last(<<p>>) = p /\ Front(<<p>>) = <<>> /\ <<p>> # <<>>
          <5>1. <<p>> = Append(<<>>, p) /\ <<>> \in Seq(Seq(Nat)) /\ p \in Seq(Nat)
            BY <3>2
          <5>2. Front(Append(<<>>, p)) = <<>> /\ Last(Append(<<>>, p)) = p
            BY <5>1, FrontAppend
          <5> QED
            BY <5>1, <5>2
        <4>4. IsDigit(p[1]) <=> IsDigit(a[i])
          BY <1>6, <4>2
        <4>5. Chunked(<<p>>, a[i]) = Append(<<>>, Append(p, a[i]))
          BY <4>3, <4>4 DEF Chunked
        <4>6. Append(<<>>, L(i)) = <<L(i)>>
          OBVIOUS
        <4> QED
          BY <3>1, <3>3, <3>4, <4>1, <4>5, <4>6
      <3> QED
        BY <3>5, <3>6
    <2>3. \A i \in 0..m : i \in K
      <3> HIDE DEF K
      <3> QED
        BY <1>1, <2>1, <2>2, BoundedInduction
    <2> QED
      BY <1>1, <2>3
  <1>9. ASSUME NEW k \in m..n PROVE Chunks(L(k)) = <<x>> \o Chunks(R(k))
    <2> DEFINE K == {i \in 0..n : i >= m => Chunks(L(i)) = <<x>> \o Chunks(R(i))}
    <2>0. Chunks(L(m)) = <<x>> \o Chunks(R(m))
      <3>1. Chunks(L(m)) = <<x>> /\ Chunks(R(m)) = <<>> /\ <<x>> \o <<>> = <<x>>
        BY <1>1, <1>5, <1>8, ChunksIs
      <3> QED
        BY <3>1
    <2>1. 0 \in K
      BY <1>1
    <2>2. ASSUME NEW i \in 1..n, i - 1 \in K PROVE i \in K
      <3>1. CASE i < m
        BY <1>1, <3>1
      <3>2. CASE i = m
        BY <1>1, <2>0, <3>2
      <3>3. CASE i > m
        <4> DEFINE c == Chunks(R(i - 1))
        <4>1. /\ i \in 1..n /\ i - 1 \in 0..n /\ i - 1 \in m..n /\ a[i] \in Nat /\ i - 1 >= m
              /\ i \in 0..n /\ 1 \in 1..m
          BY <1>1, <3>3
        <4>2. Chunks(L(i - 1)) = <<x>> \o c
          BY <2>2, <4>1
        <4>3. /\ L(i - 1) \in Seq(Nat) /\ L(i) = Append(L(i - 1), a[i])
              /\ R(i - 1) \in Seq(Nat) /\ R(i) = Append(R(i - 1), a[i])
              /\ Len(R(i - 1)) = i - 1 - m
          BY <1>2, <1>3, <1>4, <3>3, <4>1
        <4>4. /\ Chunks(L(i)) = Chunked(<<x>> \o c, a[i])
              /\ Chunks(R(i)) = Chunked(c, a[i])
              /\ c \in Seq(Chunk)
          BY <4>1, <4>2, <4>3, ChunksIs
        <4>5. Chunked(<<x>> \o c, a[i]) = <<x>> \o Chunked(c, a[i])
          <5>0. <<x>> \o c # <<>>
            <6>1. Len(<<x>> \o c) = Len(c) + 1 /\ Len(c) \in Nat /\ <<x>> \o c \in Seq(Chunk)
              BY <1>7, <4>4, ConsProperties
            <6> QED
              BY <6>1, EmptySeq
          <5>1. CASE R(i - 1) = <<>>
            <6>1. i - 1 = m /\ m < n /\ i = m + 1
              BY <1>1, <4>1, <4>3, <5>1
            <6>2. IsDigit(a[i]) <=> ~IsDigit(a[1])
              BY <6>1 DEF IsRun
            <6>3. c = <<>> /\ <<x>> \o c = <<x>>
              <7>1. c = <<>>
                BY <5>1, ChunksIs
              <7>2. <<x>> \o <<>> = <<x>>
                OBVIOUS
              <7> QED
                BY <7>1, <7>2
            <6>4. Last(<<x>>) = x
              BY DEF Last
            <6>5. Chunked(<<x>>, a[i]) = Append(<<x>>, <<a[i]>>)
              BY <1>7, <6>2, <6>4 DEF Chunked
            <6>6. Chunked(<<>>, a[i]) = <<<<a[i]>>>>
              BY DEF Chunked
            <6>7. Append(<<x>>, <<a[i]>>) = <<x>> \o <<<<a[i]>>>>
              OBVIOUS
            <6> QED
              BY <6>3, <6>5, <6>6, <6>7
          <5>2. CASE R(i - 1) # <<>>
            <6>1. c # <<>>
              <7>1. PICK s \in Seq(Nat), e \in Nat : R(i - 1) = Append(s, e)
                <8> DEFINE r == R(i - 1)
                <8>1. r \in Seq(Nat) /\ r # <<>>
                  BY <4>3, <5>2
                <8> HIDE DEF r
                <8>2. \E s \in Seq(Nat), e \in Nat : r = Append(s, e)
                  BY <8>1, SequenceEmptyOrAppend
                <8> QED
                  BY <8>2 DEF r
              <7>2. c = Chunked(Chunks(s), e) /\ Chunks(s) \in Seq(Chunk)
                BY <7>1, ChunksIs
              <7> QED
                BY <7>2, ChunkedType
            <6>2. Last(<<x>> \o c) = Last(c) /\ Front(<<x>> \o c) = <<x>> \o Front(c)
              BY <1>7, <4>4, <6>1, ConsFront
            <6>3. Front(c) \in Seq(Chunk) /\ Last(c) \in Chunk
              BY <4>4, <6>1, FrontProperties
            <6>4. CASE IsDigit(Last(c)[1]) <=> IsDigit(a[i])
              <7>1. Append(Last(c), a[i]) \in Chunk
                BY <4>1, <6>3, <6>4, ChunkGrows
              <7>2. Append(<<x>> \o Front(c), Append(Last(c), a[i]))
                      = <<x>> \o Append(Front(c), Append(Last(c), a[i]))
                <8> DEFINE d == Front(c)
                           e == Append(Last(c), a[i])
                <8>1. x \in Chunk /\ d \in Seq(Chunk) /\ e \in Chunk
                  BY <1>7, <6>3, <7>1
                <8> HIDE DEF d, e, x
                <8>2. Append(<<x>> \o d, e) = <<x>> \o Append(d, e)
                  BY <1>12, <8>1
                <8> QED
                  BY <8>2 DEF d, e
              <7> QED
                BY <5>0, <6>1, <6>2, <6>4, <7>2 DEF Chunked
            <6>5. CASE ~(IsDigit(Last(c)[1]) <=> IsDigit(a[i]))
              <7>1. <<a[i]>> \in Chunk
                BY <4>1, ChunkStarts
              <7>2. Append(<<x>> \o c, <<a[i]>>) = <<x>> \o Append(c, <<a[i]>>)
                <8> DEFINE e == <<a[i]>>
                <8>1. x \in Chunk /\ c \in Seq(Chunk) /\ e \in Chunk
                  BY <1>7, <4>4, <7>1
                <8> HIDE DEF c, e, x
                <8>2. Append(<<x>> \o c, e) = <<x>> \o Append(c, e)
                  BY <1>12, <8>1
                <8> QED
                  BY <8>2 DEF e
              <7> QED
                BY <6>2, <6>5, <7>2 DEF Chunked
            <6> QED
              BY <6>4, <6>5
          <5> QED
            BY <5>1, <5>2
        <4>6. Chunks(L(i)) = <<x>> \o Chunks(R(i))
          BY <4>4, <4>5
        <4> QED
          BY <4>1, <4>6
      <3> QED
        BY <1>1, <3>1, <3>2, <3>3
    <2>3. \A i \in 0..n : i \in K
      <3> HIDE DEF K
      <3> QED
        BY <1>1, <2>1, <2>2, BoundedInduction
    <2> QED
      BY <1>1, <2>3
  <1>10. n \in m..n
    BY <1>1
  <1>11. Chunks(a) = <<x>> \o Chunks(R(n)) /\ R(n) \in Seq(Nat) /\ Len(R(n)) = n - m
    BY <1>3, <1>5, <1>9, <1>10
  <1> QED
    BY <1>7, <1>11 DEF L, R

\* ChunksLess, from the front.
LEMMA ChunksLessCons ==
    ASSUME NEW x \in Chunk, NEW y \in Chunk, NEW ra \in Seq(Chunk), NEW rb \in Seq(Chunk)
    PROVE  ChunksLess(<<x>> \o ra, <<y>> \o rb) <=>
             ChunkLess(x, y) \/ (Alike(x, y) /\ ChunksLess(ra, rb))
  <1> DEFINE ca == <<x>> \o ra
             cb == <<y>> \o rb
  <1>1. /\ ca \in Seq(Chunk) /\ Len(ca) = Len(ra) + 1 /\ ca[1] = x
        /\ \A i \in 1..Len(ra) : ca[i + 1] = ra[i]
    BY ConsProperties
  <1>2. /\ cb \in Seq(Chunk) /\ Len(cb) = Len(rb) + 1 /\ cb[1] = y
        /\ \A i \in 1..Len(rb) : cb[i + 1] = rb[i]
    BY ConsProperties
  <1>3. Len(ra) \in Nat /\ Len(rb) \in Nat
    OBVIOUS
  <1> HIDE DEF ca, cb
  <1>4. ChunksAt(ca, cb, 0) <=> ChunkLess(x, y)
    BY <1>1, <1>2, <1>3 DEF ChunksAt
  <1>5. ASSUME NEW n \in Nat
        PROVE  ChunksAt(ca, cb, n + 1) <=> Alike(x, y) /\ ChunksAt(ra, rb, n)
    <2>1. /\ n + 1 <= Len(ca) <=> n <= Len(ra)
          /\ n + 1 < Len(cb) <=> n < Len(rb)
          /\ n + 1 < Len(ca) <=> n < Len(ra)
      BY <1>1, <1>2, <1>3
    <2>2. ASSUME n < Len(ra), n < Len(rb)
          PROVE  ca[(n + 1) + 1] = ra[n + 1] /\ cb[(n + 1) + 1] = rb[n + 1]
      <3>1. n + 1 \in 1..Len(ra) /\ n + 1 \in 1..Len(rb)
        BY <1>3, <2>2
      <3> QED
        BY <1>1, <1>2, <3>1
    <2>3. ASSUME n <= Len(ra), n < Len(rb)
          PROVE  (\A i \in 1..(n + 1) : Alike(ca[i], cb[i])) <=>
                    Alike(x, y) /\ \A i \in 1..n : Alike(ra[i], rb[i])
      <3>1. ASSUME NEW i \in 1..n
            PROVE  ca[i + 1] = ra[i] /\ cb[i + 1] = rb[i] /\ i + 1 \in 1..(n + 1)
        <4>1. i \in 1..Len(ra) /\ i \in 1..Len(rb) /\ i + 1 \in 1..(n + 1)
          BY <1>3, <2>3
        <4> QED
          BY <1>1, <1>2, <4>1
      <3>2. ASSUME \A i \in 1..(n + 1) : Alike(ca[i], cb[i])
            PROVE  Alike(x, y) /\ \A i \in 1..n : Alike(ra[i], rb[i])
        <4>1. 1 \in 1..(n + 1)
          OBVIOUS
        <4>2. Alike(x, y)
          BY <1>1, <1>2, <3>2, <4>1
        <4>3. ASSUME NEW i \in 1..n PROVE Alike(ra[i], rb[i])
          BY <3>1, <3>2
        <4> QED
          BY <4>2, <4>3
      <3>3. ASSUME Alike(x, y), \A i \in 1..n : Alike(ra[i], rb[i]), NEW j \in 1..(n + 1)
            PROVE  Alike(ca[j], cb[j])
        <4>1. CASE j = 1
          BY <1>1, <1>2, <3>3, <4>1
        <4>2. CASE j # 1
          <5>1. j - 1 \in 1..n /\ (j - 1) + 1 = j
            BY <4>2
          <5> QED
            BY <3>1, <3>3, <5>1
        <4> QED
          BY <4>1, <4>2
      <3> QED
        BY <3>2, <3>3
    <2> QED
      BY <2>1, <2>2, <2>3 DEF ChunksAt
  <1>6. ASSUME NEW n \in Nat, ChunksAt(ca, cb, n)
        PROVE  ChunkLess(x, y) \/ (Alike(x, y) /\ ChunksLess(ra, rb))
    <2>1. CASE n = 0
      BY <1>4, <1>6, <2>1
    <2>2. CASE n # 0
      <3> DEFINE m == n - 1
      <3>1. m \in Nat /\ m + 1 = n
        BY <2>2
      <3> HIDE DEF m
      <3>2. Alike(x, y) /\ ChunksAt(ra, rb, m)
        BY <1>5, <1>6, <3>1
      <3> QED
        BY <3>1, <3>2, ChunksLessAt
    <2> QED
      BY <2>1, <2>2
  <1>7. ASSUME Alike(x, y), ChunksLess(ra, rb)
        PROVE  \E n \in Nat : ChunksAt(ca, cb, n)
    <2>1. PICK m \in Nat : ChunksAt(ra, rb, m)
      BY <1>7, ChunksLessAt
    <2>2. m + 1 \in Nat /\ ChunksAt(ca, cb, m + 1)
      BY <1>5, <1>7, <2>1
    <2> QED
      BY <2>2
  <1>8. ChunksLess(ca, cb) <=> \E n \in Nat : ChunksAt(ca, cb, n)
    BY <1>1, <1>2, ChunksLessAt
  <1>9. ChunksLess(ca, cb) <=> ChunkLess(x, y) \/ (Alike(x, y) /\ ChunksLess(ra, rb))
    BY <1>4, <1>6, <1>7, <1>8
  <1> QED
    BY <1>9 DEF ca, cb

\* No chunks are before any others.
LEMMA ChunksLessEmpty ==
    ASSUME NEW ca \in Seq(Chunk)
    PROVE  /\ ~ChunksLess(ca, <<>>)
           /\ ChunksLess(<<>>, ca) <=> ca # <<>>
  <1>1. Len(ca) \in Nat /\ <<>> \in Seq(Chunk) /\ Len(<<>>) = 0 /\ (Len(ca) = 0 <=> ca = <<>>)
    BY EmptySeq
  <1>2. \A n \in Nat : ~ChunksAt(ca, <<>>, n)
    BY <1>1 DEF ChunksAt
  <1>3. ca # <<>> => ChunksAt(<<>>, ca, 0)
    BY <1>1 DEF ChunksAt
  <1>4. ca = <<>> => \A n \in Nat : ~ChunksAt(<<>>, ca, n)
    BY <1>1 DEF ChunksAt
  <1> QED
    BY <1>1, <1>2, <1>3, <1>4, ChunksLessAt

\* The equation of Precedes.
Ahead(f, texts) ==
    LET a == texts[1]
        b == texts[2]
        m == RunLength(a)
        n == RunLength(b)
        x == SubSeq(a, 1, m)
        y == SubSeq(b, 1, n)
        numbers == IsDigit(a[1]) /\ IsDigit(b[1])
        same == IF numbers THEN Value(x) = Value(y) ELSE x = y
    IN  IF a = <<>> \/ b = <<>> THEN a = <<>> /\ b # <<>>
        ELSE IF same
        THEN f[<<SubSeq(a, m + 1, Len(a)), SubSeq(b, n + 1, Len(b))>>]
        ELSE IF numbers THEN Value(x) < Value(y) ELSE LexLess(x, y)

\* naturalCompare, as a function.
Texts == Seq(Nat) \X Seq(Nat)
Numeric == [texts \in Texts |-> NumericLess(texts[1], texts[2])]

\* Precedes is a solution of that equation.
LEMMA PrecedesIs ==
    Precedes = CHOOSE f : f = [texts \in Texts |-> Ahead(f, texts)]
  BY DEF Precedes, Ahead, Texts

\* The value of that function.
LEMMA NumericAt ==
    \A a \in Seq(Nat), b \in Seq(Nat) : Numeric[<<a, b>>] = NumericLess(a, b)
  BY DEF Numeric, Texts

\* naturalCompare gives a truth value.
LEMMA NumericLessIsBoolean ==
    ASSUME NEW a \in Seq(Nat), NEW b \in Seq(Nat)
    PROVE  NumericLess(a, b) \in BOOLEAN
  <1> DEFINE ca == Chunks(a)
             cb == Chunks(b)
             D == {i \in DOMAIN ca \cap DOMAIN cb : ChunkLess(ca[i], cb[i]) \/ ChunkLess(cb[i], ca[i])}
             P == \E i \in D : (\A j \in D : i <= j) /\ ChunkLess(ca[i], cb[i])
             L == Len(ca) < Len(cb)
  <1>1. NumericLess(a, b) = IF D = {} THEN L ELSE P
    BY DEF NumericLess
  <1>2. L \in BOOLEAN /\ P \in BOOLEAN
    <2>1. ca \in Seq(Chunk) /\ cb \in Seq(Chunk)
      BY ChunksIs
    <2>2. Len(ca) \in Nat /\ Len(cb) \in Nat
      BY <2>1
    <2>3. L \in BOOLEAN
      BY <2>2
    <2>4. P \in BOOLEAN
      <3> HIDE DEF D
      <3> QED
        OBVIOUS
    <2> QED
      BY <2>3, <2>4
  <1> HIDE DEF D, P, L
  <1> QED
    BY <1>1, <1>2

\* naturalCompare solves the equation of Precedes.
LEMMA NumericEquation ==
    ASSUME NEW a \in Seq(Nat), NEW b \in Seq(Nat)
    PROVE  Numeric[<<a, b>>] = Ahead(Numeric, <<a, b>>)
  <1>1. \A s, t : NumericLess(s, t) <=> ChunksLess(Chunks(s), Chunks(t))
    BY DEF NumericLess, ChunksLess
  <1>2. /\ Chunks(a) \in Seq(Chunk) /\ Chunks(b) \in Seq(Chunk)
        /\ Chunks(<<>>) = <<>>
    BY ChunksIs
  <1> DEFINE m == RunLength(a)
             n == RunLength(b)
             x == SubSeq(a, 1, m)
             y == SubSeq(b, 1, n)
             ra == SubSeq(a, m + 1, Len(a))
             rb == SubSeq(b, n + 1, Len(b))
             numbers == IsDigit(a[1]) /\ IsDigit(b[1])
             same == IF numbers THEN Value(x) = Value(y) ELSE x = y
             less == IF numbers THEN Value(x) < Value(y) ELSE LexLess(x, y)
  <1>3. ASSUME a # <<>>
        PROVE  /\ x \in Chunk /\ x[1] = a[1] /\ ra \in Seq(Nat)
               /\ Chunks(a) = <<x>> \o Chunks(ra)
    BY <1>3, RunLengthIs, ChunksPeel
  <1>4. ASSUME b # <<>>
        PROVE  /\ y \in Chunk /\ y[1] = b[1] /\ rb \in Seq(Nat)
               /\ Chunks(b) = <<y>> \o Chunks(rb)
    BY <1>4, RunLengthIs, ChunksPeel
  <1>5. ASSUME NEW s \in Seq(Nat), s # <<>> PROVE Chunks(s) # <<>>
    <2>1. PICK p \in Seq(Nat), e \in Nat : s = Append(p, e)
      BY <1>5, SequenceEmptyOrAppend
    <2>2. Chunks(s) = Chunked(Chunks(p), e) /\ Chunks(p) \in Seq(Chunk)
      BY <2>1, ChunksIs
    <2> QED
      BY <2>2, ChunkedType
  <1>6. CASE a = <<>> \/ b = <<>>
    <2>1. NumericLess(a, b) <=> (a = <<>> /\ b # <<>>)
      <3>1. CASE a = <<>>
        BY <1>1, <1>2, <1>5, <3>1, ChunksLessEmpty
      <3>2. CASE b = <<>>
        BY <1>1, <1>2, <1>5, <3>2, ChunksLessEmpty
      <3> QED
        BY <1>6, <3>1, <3>2
    <2>2. Ahead(Numeric, <<a, b>>) = (a = <<>> /\ b # <<>>)
      BY <1>6 DEF Ahead
    <2>3. NumericLess(a, b) \in BOOLEAN
      BY NumericLessIsBoolean
    <2>4. NumericLess(a, b) = (a = <<>> /\ b # <<>>)
      <3>1. (a = <<>> /\ b # <<>>) \in BOOLEAN
        OBVIOUS
      <3> QED
        BY <2>1, <2>3, <3>1, BooleansEqual
    <2> QED
      BY <2>2, <2>4, NumericAt
  <1>7. CASE a # <<>> /\ b # <<>>
    <2>1. /\ x \in Chunk /\ x[1] = a[1] /\ ra \in Seq(Nat) /\ Chunks(a) = <<x>> \o Chunks(ra)
          /\ y \in Chunk /\ y[1] = b[1] /\ rb \in Seq(Nat) /\ Chunks(b) = <<y>> \o Chunks(rb)
      BY <1>3, <1>4, <1>7
    <2>2. Ahead(Numeric, <<a, b>>) = IF same THEN Numeric[<<ra, rb>>] ELSE less
      <3>1. Ahead(Numeric, <<a, b>>) =
               IF a = <<>> \/ b = <<>> THEN a = <<>> /\ b # <<>>
               ELSE IF same THEN Numeric[<<ra, rb>>] ELSE less
        BY DEF Ahead
      <3> HIDE DEF same, less, ra, rb
      <3> QED
        BY <1>7, <3>1
    <2>3. Numeric[<<ra, rb>>] = NumericLess(ra, rb) /\ Numeric[<<a, b>>] = NumericLess(a, b)
      BY <2>1, NumericAt
    <2> HIDE DEF x, y, ra, rb, m, n
    <2>4. Chunks(ra) \in Seq(Chunk) /\ Chunks(rb) \in Seq(Chunk)
      BY <2>1, ChunksIs
    <2>5. NumericLess(a, b) <=> ChunkLess(x, y) \/ (Alike(x, y) /\ NumericLess(ra, rb))
      <3> DEFINE ca == Chunks(ra)
                 cb == Chunks(rb)
      <3>1. x \in Chunk /\ y \in Chunk /\ ca \in Seq(Chunk) /\ cb \in Seq(Chunk)
        BY <2>1, <2>4
      <3>2. /\ NumericLess(a, b) <=> ChunksLess(<<x>> \o ca, <<y>> \o cb)
            /\ NumericLess(ra, rb) <=> ChunksLess(ca, cb)
        BY <1>1, <2>1
      <3> HIDE DEF ca, cb
      <3>3. ChunksLess(<<x>> \o ca, <<y>> \o cb) <=>
              ChunkLess(x, y) \/ (Alike(x, y) /\ ChunksLess(ca, cb))
        BY <3>1, ChunksLessCons
      <3> QED
        BY <3>2, <3>3
    <2>6. numbers <=> IsDigit(x[1]) /\ IsDigit(y[1])
      BY <2>1
    <2>7. Alike(x, y) <=> same
      BY <2>1, <2>6, AlikeIs
    <2>8. ChunkLess(x, y) <=> less
      <3>1. CASE numbers
        <4>1. x \in Number /\ y \in Number
          BY <2>1, <2>6, <3>1, ChunkKinds
        <4> QED
          BY <2>6, <3>1, <4>1, NumberLessIsLess DEF ChunkLess
      <3>2. CASE ~numbers
        BY <2>6, <3>2 DEF ChunkLess
      <3> QED
        BY <3>1, <3>2
    <2>9. same => ~ChunkLess(x, y)
      BY <2>7 DEF Alike
    <2>10. less \in BOOLEAN
      <3>1. LexLess(x, y) \in BOOLEAN
        BY DEF LexLess
      <3>2. ASSUME numbers PROVE (Value(x) < Value(y)) \in BOOLEAN
        <4>1. x \in Number /\ y \in Number
          BY <2>1, <2>6, <3>2, ChunkKinds
        <4> QED
          BY <4>1, ValueIs
      <3> QED
        BY <3>1, <3>2
    <2> HIDE DEF same, less
    <2>11. NumericLess(a, b) \in BOOLEAN /\ NumericLess(ra, rb) \in BOOLEAN
      BY <2>1, NumericLessIsBoolean
    <2>12. CASE same
      <3>1. NumericLess(a, b) <=> NumericLess(ra, rb)
        BY <2>5, <2>7, <2>9, <2>12
      <3>2. NumericLess(a, b) = NumericLess(ra, rb)
        BY <2>11, <3>1, BooleansEqual
      <3> QED
        BY <2>2, <2>3, <2>12, <3>2
    <2>13. CASE ~same
      <3>1. NumericLess(a, b) <=> less
        BY <2>5, <2>7, <2>8, <2>13
      <3>2. NumericLess(a, b) = less
        BY <2>10, <2>11, <3>1, BooleansEqual
      <3> QED
        BY <2>2, <2>3, <2>13, <3>2
    <2> QED
      BY <2>12, <2>13
  <1> QED
    BY <1>6, <1>7

\* naturalCompare is the order the reference defines.
THEOREM PrecedesIsNumeric ==
    ASSUME NEW a \in Seq(Nat), NEW b \in Seq(Nat)
    PROVE  Precedes[<<a, b>>] = NumericLess(a, b)
  <1>1. Numeric = [texts \in Texts |-> Ahead(Numeric, texts)]
    <2>1. ASSUME NEW texts \in Texts PROVE Numeric[texts] = Ahead(Numeric, texts)
      <3>1. texts[1] \in Seq(Nat) /\ texts[2] \in Seq(Nat) /\ texts = <<texts[1], texts[2]>>
        BY DEF Texts
      <3> DEFINE s == texts[1]
                 u == texts[2]
      <3> HIDE DEF s, u
      <3>2. s \in Seq(Nat) /\ u \in Seq(Nat) /\ texts = <<s, u>>
        BY <3>1 DEF s, u
      <3>3. Numeric[<<s, u>>] = Ahead(Numeric, <<s, u>>)
        BY <3>2, NumericEquation
      <3> QED
        BY <3>2, <3>3
    <2>2. Numeric = [texts \in Texts |-> Numeric[texts]]
      BY DEF Numeric
    <2> QED
      BY <2>1, <2>2
  <1>2. Precedes = [texts \in Texts |-> Ahead(Precedes, texts)]
    BY <1>1, PrecedesIs
  <1> DEFINE Agree(n) == \A s, u \in Seq(Nat) : Len(s) < n => Precedes[<<s, u>>] = Numeric[<<s, u>>]
             J == {n \in Nat : Agree(n)}
  <1>3. 0 \in J
    OBVIOUS
  <1>4. ASSUME NEW n \in Nat, n \in J PROVE n + 1 \in J
    <2>1. ASSUME NEW s \in Seq(Nat), NEW u \in Seq(Nat), Len(s) < n + 1
          PROVE  Precedes[<<s, u>>] = Numeric[<<s, u>>]
      <3> DEFINE k == RunLength(s)
                 l == RunLength(u)
                 rs == SubSeq(s, k + 1, Len(s))
                 ru == SubSeq(u, l + 1, Len(u))
                 numbers == IsDigit(s[1]) /\ IsDigit(u[1])
                 x == SubSeq(s, 1, k)
                 y == SubSeq(u, 1, l)
                 same == IF numbers THEN Value(x) = Value(y) ELSE x = y
                 less == IF numbers THEN Value(x) < Value(y) ELSE LexLess(x, y)
      <3>1. <<s, u>> \in Texts
        BY DEF Texts
      <3>2. Precedes[<<s, u>>] = Ahead(Precedes, <<s, u>>) /\ Numeric[<<s, u>>] = Ahead(Numeric, <<s, u>>)
        BY <1>1, <1>2, <3>1
      <3>3. \A f : Ahead(f, <<s, u>>) =
                IF s = <<>> \/ u = <<>> THEN s = <<>> /\ u # <<>>
                ELSE IF same THEN f[<<rs, ru>>] ELSE less
        BY DEF Ahead
      <3>4. CASE s = <<>> \/ u = <<>>
        <4> HIDE DEF same, less, rs, ru
        <4> QED
          BY <3>2, <3>3, <3>4
      <3>5. CASE s # <<>> /\ u # <<>>
        <4>1. rs \in Seq(Nat) /\ Len(rs) = Len(s) - k /\ k \in 1..Len(s)
          BY <3>5, RunLengthIs, ChunksPeel
        <4>2. ru \in Seq(Nat)
          BY <3>5, RunLengthIs, ChunksPeel
        <4>3. Len(rs) < n
          BY <2>1, <4>1
        <4>4. Precedes[<<rs, ru>>] = Numeric[<<rs, ru>>]
          <5> HIDE DEF rs, ru
          <5> QED
            BY <1>4, <4>1, <4>2, <4>3
        <4> HIDE DEF same, less, rs, ru
        <4> QED
          BY <3>2, <3>3, <3>5, <4>4
      <3> QED
        BY <3>4, <3>5
    <2> QED
      BY <2>1
  <1>5. \A n \in Nat : n \in J
    <2> HIDE DEF J
    <2> QED
      BY <1>3, <1>4, Induction
  <1>6. Len(a) \in Nat /\ Len(a) + 1 \in J /\ Len(a) < Len(a) + 1
    <2>1. Len(a) \in Nat /\ Len(a) + 1 \in Nat
      OBVIOUS
    <2> HIDE DEF J
    <2> QED
      BY <1>5, <2>1
  <1>7. Precedes[<<a, b>>] = Numeric[<<a, b>>]
    BY <1>6
  <1> QED
    BY <1>7, NumericAt

-----------------------------------------------------------------------------
(* The filters.                                                            *)

\* The steps of Filter.
KeepStep(tags, S, matches) ==
    [p \in Seq(S) \X (1..Len(tags)) |->
        IF tags[p[2]] \in matches THEN Append(p[1], tags[p[2]]) ELSE p[1]]

\* Filter is such a fold.
LEMMA FilterSteps ==
    ASSUME NEW S, NEW tags \in Seq(S), NEW matches
    PROVE  \E f : /\ IsFolded(f, Seq(S), <<>>, Len(tags), KeepStep(tags, S, matches))
                  /\ f[Len(tags)] = Filter(tags, matches)
  <1> DEFINE n == Len(tags)
             T == Seq(S)
             G == KeepStep(tags, S, matches)
             Body(g, s) == IF s = {} THEN <<>>
                           ELSE IF tags[Max(s)] \in matches
                                THEN Append(g[s \ {Max(s)}], tags[Max(s)])
                                ELSE g[s \ {Max(s)}]
             iter == CHOOSE g : g = [s \in SUBSET DOMAIN tags |-> Body(g, s)]
  <1>1. Filter(tags, matches) = iter[DOMAIN tags]
    BY DEF Filter, FoldLeft, MapThenFoldSet
  <1>2. n \in Nat /\ DOMAIN tags = 1..n /\ <<>> \in T
    OBVIOUS
  <1>3. G \in [T \X (1..n) -> T]
    BY DEF KeepStep
  <1>4. ASSUME NEW g, NEW s \in SUBSET (1..n), s # {}, g[s \ {Max(s)}] \in T
        PROVE  Body(g, s) = G[<<g[s \ {Max(s)}], Max(s)>>]
    <2>1. Max(s) \in 1..n
      <3> HIDE DEF n
      <3> QED
        BY <1>2, <1>4, MaxExists
    <2> QED
      BY <1>4, <2>1 DEF KeepStep
  <1>5. \A g : Body(g, {}) = <<>>
    OBVIOUS
  <1> HIDE DEF n, T, G, Body
  <1>6. PICK h : IsFold(h, T, <<>>, n, G)
    BY <1>2, <1>3, FoldExists
  <1>7. h = [s \in SUBSET DOMAIN tags |-> Body(h, s)]
    BY <1>2, <1>4, <1>5, <1>6 DEF IsFold
  <1>8. iter = [s \in SUBSET DOMAIN tags |-> Body(iter, s)]
    BY <1>7
  <1> HIDE DEF iter
  <1>9. FollowsFold(iter, T, <<>>, n, G)
    BY <1>2, <1>4, <1>5, <1>8 DEF FollowsFold
  <1>10. IsFolded(Steps(iter, n), T, <<>>, n, G)
    BY <1>2, <1>3, <1>9, FoldSteps
  <1>11. Steps(iter, n)[n] = iter[1..n]
    BY <1>2 DEF Steps
  <1> QED
    BY <1>1, <1>2, <1>10, <1>11 DEF n, T, G

\* Filter keeps the tags that match.
LEMMA FilterIs ==
    ASSUME NEW S, NEW tags \in Seq(S), NEW matches
    PROVE  /\ Filter(tags, matches) \in Seq(S)
           /\ ToSet(Filter(tags, matches)) = ToSet(tags) \cap matches
  <1> DEFINE n == Len(tags)
             G == KeepStep(tags, S, matches)
  <1>1. PICK f : IsFolded(f, Seq(S), <<>>, n, G) /\ f[n] = Filter(tags, matches)
    BY FilterSteps
  <1> DEFINE K == {i \in 0..n : ToSet(f[i]) = Taken(tags, i) \cap matches}
  <1>2. n \in Nat /\ f \in [0..n -> Seq(S)] /\ f[0] = <<>> /\ n \in 0..n
    BY <1>1 DEF IsFolded
  <1>3. 0 \in K
    <2>1. ToSet(<<>>) = {}
      BY DEF ToSet
    <2> QED
      BY <1>2, <2>1, TakenIs
  <1>4. ASSUME NEW i \in 1..n, i - 1 \in K PROVE i \in K
    <2>1. f[i - 1] \in Seq(S) /\ i \in 0..n /\ f[i] = G[<<f[i - 1], i>>]
      <3>1. i - 1 \in 0..n
        BY <1>2
      <3> QED
        BY <1>1, <1>2, <3>1 DEF IsFolded
    <2>2. f[i] = IF tags[i] \in matches THEN Append(f[i - 1], tags[i]) ELSE f[i - 1]
      BY <2>1 DEF KeepStep
    <2>3. Taken(tags, i) = Taken(tags, i - 1) \cup {tags[i]} /\ tags[i] \in S
      BY TakenIs
    <2>4. ToSet(Append(f[i - 1], tags[i])) = ToSet(f[i - 1]) \cup {tags[i]}
      BY <2>1, <2>3, AppendElements
    <2> QED
      BY <1>4, <2>1, <2>2, <2>3, <2>4
  <1>5. \A i \in 0..n : i \in K
    <2> HIDE DEF K
    <2> QED
      BY <1>2, <1>3, <1>4, BoundedInduction
  <1> QED
    BY <1>1, <1>2, <1>5, TakenIs

-----------------------------------------------------------------------------
(* The sort and its ends.                                                  *)

\* A rule ranks the tags of S: a strict weak order.
RanksAll(S, r) ==
    \A t, u \in S : TagLess(t, u, r) =>
        /\ ~TagLess(u, t, r)
        /\ \A v \in S : TagLess(t, v, r) \/ TagLess(v, u, r)

\* Whatever the rule, texts are ordered.
LEMMA TagsRanked ==
    ASSUME NEW S, NEW r, \A t \in S : Key(t, r) \in Seq(Nat)
    PROVE  RanksAll(S, r)
  <1>1. CASE r.numeric \/ r.kind = "numerical"
    <2>1. \A t, u : TagLess(t, u, r) <=> NumericLess(Key(t, r), Key(u, r))
      BY <1>1 DEF TagLess
    <2> QED
      BY <2>1, NumericLessOrders DEF RanksAll
  <1>2. CASE ~(r.numeric \/ r.kind = "numerical")
    <2>1. \A t, u : TagLess(t, u, r) <=> LexLess(Key(t, r), Key(u, r))
      BY <1>2 DEF TagLess
    <2>2. ASSUME NEW a \in Seq(Nat), NEW b \in Seq(Nat), LexLess(a, b)
          PROVE  ~LexLess(b, a) /\ \A c \in Seq(Nat) : LexLess(a, c) \/ LexLess(c, b)
      <3>1. ~LexLess(b, a)
        BY <2>2, LexLessAsymmetric
      <3>2. ASSUME NEW c \in Seq(Nat), ~LexLess(a, c) PROVE LexLess(c, b)
        <4>1. CASE a = c
          BY <2>2, <4>1
        <4>2. CASE a # c
          <5>1. LexLess(c, a)
            BY <3>2, <4>2, LexLessTotal
          <5> QED
            BY <2>2, <5>1, LexLessTransitive
        <4> QED
          BY <4>1, <4>2
      <3> QED
        BY <3>1, <3>2
    <2> QED
      BY <2>1, <2>2 DEF RanksAll
  <1> QED
    BY <1>1, <1>2

\* No tag is less than one in front of it.
SortedBy(s, r) == \A j, k \in 1..Len(s) : j < k => ~TagLess(s[k], s[j], r)

\* Where Insert puts a tag.
Place(sorted, t, r) == SelectLastInSeq(sorted, LAMBDA u : ~TagLess(t, u, r)) + 1

\* All behind that place are greater, the one in front of it is not.
LEMMA PlaceIs ==
    ASSUME NEW S, NEW s \in Seq(S), NEW t \in S, NEW r
    PROVE  /\ Place(s, t, r) \in 1..(Len(s) + 1)
           /\ Place(s, t, r) > 1 => ~TagLess(t, s[Place(s, t, r) - 1], r)
           /\ \A i \in Place(s, t, r)..Len(s) : TagLess(t, s[i], r)
           /\ Insert(s, t, r) = InsertAt(s, Place(s, t, r), t)
  <1> DEFINE I == {i \in 1..Len(s) : ~TagLess(t, s[i], r)}
             p == Place(s, t, r)
  <1>1. p = (IF I # {} THEN Max(I) ELSE 0) + 1
    BY DEF Place, SelectLastInSeq
  <1>2. Insert(s, t, r) = InsertAt(s, p, t)
    BY DEF Insert, Place
  <1>3. Len(s) \in Nat /\ I \in SUBSET (1..Len(s))
    OBVIOUS
  <1>4. \A i \in 1..Len(s) : i \in I <=> ~TagLess(t, s[i], r)
    OBVIOUS
  <1> HIDE DEF I, p
  <1>5. I # {} => Max(I) \in I /\ \A x \in I : x <= Max(I)
    BY <1>3, MaxExists
  <1>6. CASE I = {}
    <2>1. p = 1
      BY <1>1, <1>6
    <2>2. \A i \in 1..Len(s) : TagLess(t, s[i], r)
      BY <1>4, <1>6
    <2> QED
      BY <1>2, <1>3, <2>1, <2>2 DEF p
  <1>7. CASE I # {}
    <2> DEFINE m == Max(I)
    <2>1. p = m + 1 /\ m \in I /\ \A x \in I : x <= m
      BY <1>1, <1>5, <1>7
    <2> HIDE DEF m
    <2>2. m \in 1..Len(s) /\ p \in 1..(Len(s) + 1) /\ p - 1 = m
      BY <1>3, <2>1
    <2>3. ~TagLess(t, s[m], r)
      BY <1>4, <2>1, <2>2
    <2>4. ASSUME NEW i \in p..Len(s) PROVE TagLess(t, s[i], r)
      <3>1. i \in 1..Len(s) /\ ~(i <= m)
        BY <1>3, <2>1, <2>2
      <3> QED
        BY <1>4, <2>1, <3>1
    <2> QED
      BY <1>2, <2>2, <2>3, <2>4 DEF p
  <1> QED
    BY <1>6, <1>7

\* Insert keeps a list sorted and adds the tag to it.
LEMMA InsertSorted ==
    ASSUME NEW S, NEW r, RanksAll(S, r), NEW s \in Seq(S), NEW t \in S
    PROVE  /\ Insert(s, t, r) \in Seq(S)
           /\ ToSet(Insert(s, t, r)) = ToSet(s) \cup {t}
           /\ SortedBy(s, r) => SortedBy(Insert(s, t, r), r)
  <1> DEFINE n == Len(s)
             p == Place(s, t, r)
             out == InsertAt(s, p, t)
  <1>1. /\ n \in Nat /\ p \in 1..(n + 1)
        /\ p > 1 => ~TagLess(t, s[p - 1], r)
        /\ \A i \in p..n : TagLess(t, s[i], r)
        /\ Insert(s, t, r) = out
    BY PlaceIs
  <1> HIDE DEF p
  <1>2. /\ out \in Seq(S) /\ Len(out) = n + 1
        /\ \A j \in 1..(n + 1) : out[j] = IF j < p THEN s[j] ELSE IF j = p THEN t ELSE s[j - 1]
    <2>1. p \in 1..(Len(s) + 1)
      BY <1>1
    <2>2. /\ InsertAt(s, p, t) \in Seq(S)
          /\ Len(InsertAt(s, p, t)) = Len(s) + 1
          /\ \A j \in 1..(Len(s) + 1) : InsertAt(s, p, t)[j] =
               IF j < p THEN s[j] ELSE IF j = p THEN t ELSE s[j - 1]
      BY <2>1, InsertAtProperties, SMTT(30)
    <2> QED
      BY <2>2
  <1>3. ToSet(out) = ToSet(s) \cup {t}
    BY <1>1, InsertAtElements
  <1>4. \A i \in 1..n : s[i] \in S
    OBVIOUS
  <1> HIDE DEF out, n
  <1>5. ASSUME SortedBy(s, r) PROVE SortedBy(out, r)
    <2>1. \A j, k \in 1..n : j < k => ~TagLess(s[k], s[j], r)
      BY <1>5 DEF SortedBy, n
    <2>2. ASSUME NEW i \in 1..n, i < p PROVE ~TagLess(t, s[i], r)
      <3>1. p - 1 \in 1..n /\ p > 1 /\ i <= p - 1
        BY <1>1, <2>2
      <3>2. ~TagLess(t, s[p - 1], r)
        BY <1>1, <3>1
      <3>3. CASE i = p - 1
        BY <3>2, <3>3
      <3>4. CASE i < p - 1
        <4>1. ~TagLess(s[p - 1], s[i], r)
          BY <2>1, <3>1, <3>4
        <4>2. t \in S /\ s[i] \in S /\ s[p - 1] \in S
          BY <1>4, <3>1
        <4> QED
          BY <3>2, <4>1, <4>2 DEF RanksAll
      <3> QED
        BY <1>1, <3>1, <3>3, <3>4
    <2>3. ASSUME NEW i \in 1..n, i >= p PROVE ~TagLess(s[i], t, r)
      <3>1. TagLess(t, s[i], r) /\ s[i] \in S
        BY <1>1, <1>4, <2>3
      <3> QED
        BY <3>1 DEF RanksAll
    <2>4. ASSUME NEW j \in 1..(n + 1), NEW k \in 1..(n + 1), j < k
          PROVE  ~TagLess(out[k], out[j], r)
      <3>1. CASE k < p
        <4>1. out[k] = s[k] /\ out[j] = s[j] /\ j \in 1..n /\ k \in 1..n
          BY <1>1, <1>2, <2>4, <3>1
        <4> QED
          BY <2>1, <2>4, <4>1
      <3>2. CASE k = p
        <4>1. out[k] = t /\ out[j] = s[j] /\ j \in 1..n /\ j < p
          BY <1>1, <1>2, <2>4, <3>2
        <4> QED
          BY <2>2, <4>1
      <3>3. CASE k > p /\ j < p
        <4>1. out[k] = s[k - 1] /\ out[j] = s[j] /\ j \in 1..n /\ k - 1 \in 1..n /\ j < k - 1
          BY <1>1, <1>2, <2>4, <3>3
        <4> QED
          BY <2>1, <4>1
      <3>4. CASE k > p /\ j = p
        <4>1. out[k] = s[k - 1] /\ out[j] = t /\ k - 1 \in 1..n /\ k - 1 >= p
          BY <1>1, <1>2, <2>4, <3>4
        <4> QED
          BY <2>3, <4>1
      <3>5. CASE k > p /\ j > p
        <4>1. out[k] = s[k - 1] /\ out[j] = s[j - 1] /\ k - 1 \in 1..n /\ j - 1 \in 1..n /\ j - 1 < k - 1
          BY <1>1, <1>2, <2>4, <3>5
        <4> QED
          BY <2>1, <4>1
      <3> QED
        BY <1>1, <3>1, <3>2, <3>3, <3>4, <3>5
    <2> QED
      BY <1>2, <2>4 DEF SortedBy
  <1> QED
    BY <1>1, <1>2, <1>3, <1>5

\* The steps of StableSort.
SortStep(tags, S, r) ==
    [p \in Seq(S) \X (1..Len(tags)) |-> Insert(p[1], tags[p[2]], r)]

\* StableSort is such a fold.
LEMMA SortSteps ==
    ASSUME NEW S, NEW tags \in Seq(S), NEW r
    PROVE  \E f : /\ IsFolded(f, Seq(S), <<>>, Len(tags), SortStep(tags, S, r))
                  /\ f[Len(tags)] = StableSort(tags, r)
  <1> DEFINE n == Len(tags)
             T == Seq(S)
             G == SortStep(tags, S, r)
             Body(g, s) == IF s = {} THEN <<>> ELSE Insert(g[s \ {Max(s)}], tags[Max(s)], r)
             iter == CHOOSE g : g = [s \in SUBSET DOMAIN tags |-> Body(g, s)]
  <1>1. StableSort(tags, r) = iter[DOMAIN tags]
    BY DEF StableSort, FoldLeft, MapThenFoldSet
  <1>2. n \in Nat /\ DOMAIN tags = 1..n /\ <<>> \in T
    OBVIOUS
  <1>3. G \in [T \X (1..n) -> T]
    <2>1. ASSUME NEW v \in T, NEW i \in 1..n PROVE Insert(v, tags[i], r) \in T
      <3> DEFINE t == tags[i]
                 p == Place(v, t, r)
      <3>1. t \in S
        OBVIOUS
      <3> HIDE DEF t, p
      <3>2. p \in 1..(Len(v) + 1) /\ Insert(v, t, r) = InsertAt(v, p, t)
        BY <3>1, PlaceIs DEF p
      <3>3. InsertAt(v, p, t) \in Seq(S)
        BY <3>1, <3>2, InsertAtProperties
      <3> QED
        BY <3>2, <3>3 DEF t
    <2> QED
      BY <2>1 DEF SortStep
  <1>4. ASSUME NEW g, NEW s \in SUBSET (1..n), s # {}, g[s \ {Max(s)}] \in T
        PROVE  Body(g, s) = G[<<g[s \ {Max(s)}], Max(s)>>]
    <2>1. Max(s) \in 1..n
      <3> HIDE DEF n
      <3> QED
        BY <1>2, <1>4, MaxExists
    <2> QED
      BY <1>4, <2>1 DEF SortStep
  <1>5. \A g : Body(g, {}) = <<>>
    OBVIOUS
  <1> HIDE DEF n, T, G, Body
  <1>6. PICK h : IsFold(h, T, <<>>, n, G)
    BY <1>2, <1>3, FoldExists
  <1>7. h = [s \in SUBSET DOMAIN tags |-> Body(h, s)]
    BY <1>2, <1>4, <1>5, <1>6 DEF IsFold
  <1>8. iter = [s \in SUBSET DOMAIN tags |-> Body(iter, s)]
    BY <1>7
  <1> HIDE DEF iter
  <1>9. FollowsFold(iter, T, <<>>, n, G)
    BY <1>2, <1>4, <1>5, <1>8 DEF FollowsFold
  <1>10. IsFolded(Steps(iter, n), T, <<>>, n, G)
    BY <1>2, <1>3, <1>9, FoldSteps
  <1>11. Steps(iter, n)[n] = iter[1..n]
    BY <1>2 DEF Steps
  <1> QED
    BY <1>1, <1>2, <1>10, <1>11 DEF n, T, G

\* StableSort keeps the tags and sorts them.
LEMMA StableSortIs ==
    ASSUME NEW S, NEW tags \in Seq(S), NEW r, RanksAll(S, r)
    PROVE  /\ StableSort(tags, r) \in Seq(S)
           /\ ToSet(StableSort(tags, r)) = ToSet(tags)
           /\ SortedBy(StableSort(tags, r), r)
  <1> DEFINE n == Len(tags)
             G == SortStep(tags, S, r)
  <1>1. PICK f : IsFolded(f, Seq(S), <<>>, n, G) /\ f[n] = StableSort(tags, r)
    BY SortSteps
  <1> DEFINE K == {i \in 0..n : ToSet(f[i]) = Taken(tags, i) /\ SortedBy(f[i], r)}
  <1>2. n \in Nat /\ f \in [0..n -> Seq(S)] /\ f[0] = <<>> /\ n \in 0..n
    BY <1>1 DEF IsFolded
  <1>3. 0 \in K
    <2>1. ToSet(<<>>) = {}
      BY DEF ToSet
    <2>2. SortedBy(<<>>, r)
      BY DEF SortedBy
    <2>3. Taken(tags, 0) = {} /\ 0 \in 0..n
      BY <1>2, TakenIs
    <2>4. ToSet(f[0]) = Taken(tags, 0) /\ SortedBy(f[0], r)
      BY <1>2, <2>1, <2>2, <2>3
    <2> QED
      BY <2>3, <2>4
  <1>4. ASSUME NEW i \in 1..n, i - 1 \in K PROVE i \in K
    <2>1. f[i - 1] \in Seq(S) /\ i \in 0..n /\ f[i] = G[<<f[i - 1], i>>]
      <3>1. i - 1 \in 0..n /\ i \in 0..n
        BY <1>2
      <3> HIDE DEF K, G, n
      <3>2. f[i - 1] \in Seq(S)
        BY <1>2, <3>1
      <3>3. f[i] = G[<<f[i - 1], i>>]
        BY <1>1 DEF IsFolded
      <3> QED
        BY <3>1, <3>2, <3>3
    <2> DEFINE s == f[i - 1]
               t == tags[i]
    <2>2. Taken(tags, i) = Taken(tags, i - 1) \cup {t} /\ t \in S
      BY TakenIs
    <2>3. f[i] = Insert(s, t, r)
      BY <2>1 DEF SortStep
    <2>4. s \in Seq(S) /\ ToSet(s) = Taken(tags, i - 1) /\ SortedBy(s, r)
      BY <1>4, <2>1
    <2> HIDE DEF s, t
    <2>5. ToSet(Insert(s, t, r)) = ToSet(s) \cup {t} /\ SortedBy(Insert(s, t, r), r)
      BY <2>2, <2>4, InsertSorted
    <2> QED
      BY <2>1, <2>2, <2>3, <2>4, <2>5
  <1>5. \A i \in 0..n : i \in K
    <2> HIDE DEF K
    <2> QED
      BY <1>2, <1>3, <1>4, BoundedInduction
  <1> QED
    BY <1>1, <1>2, <1>5, TakenIs

\* The end of a sorted list that a rule takes.
LEMMA EndOfIs ==
    ASSUME NEW S, NEW r, RanksAll(S, r), NEW s \in Seq(S), SortedBy(s, r), s # <<>>
    PROVE  LET best == EndOf(s, r.order)
           IN  /\ best \in ToSet(s)
               /\ \A t \in ToSet(s) : IF r.order = "asc" THEN ~TagLess(t, best, r)
                                      ELSE ~TagLess(best, t, r)
  <1> DEFINE n == Len(s)
             best == EndOf(s, r.order)
  <1>1. n \in Nat \ {0} /\ DOMAIN s = 1..n /\ 1 \in 1..n /\ n \in 1..n
    BY EmptySeq
  <1>2. Head(s) = s[1] /\ Last(s) = s[n]
    BY HeadTailProperties DEF Last
  <1>3. best = IF r.order = "asc" THEN s[1] ELSE s[n]
    BY <1>2 DEF EndOf
  <1>4. \A t \in S : ~TagLess(t, t, r)
    BY DEF RanksAll
  <1>5. \A i \in 1..n : s[i] \in S
    OBVIOUS
  <1>6. \A i \in 1..n : ~TagLess(s[i], s[1], r) /\ ~TagLess(s[n], s[i], r)
    <2>1. ASSUME NEW i \in 1..n PROVE ~TagLess(s[i], s[1], r)
      <3>1. CASE i = 1
        BY <1>4, <1>5, <3>1
      <3>2. CASE i # 1
        BY <1>1, <3>2 DEF SortedBy
      <3> QED
        BY <3>1, <3>2
    <2>2. ASSUME NEW i \in 1..n PROVE ~TagLess(s[n], s[i], r)
      <3>1. CASE i = n
        BY <1>4, <1>5, <3>1
      <3>2. CASE i # n
        <4>1. i < n
          <5> HIDE DEF n, best
          <5> QED
            BY <1>1, <3>2
        <4> QED
          BY <1>1, <4>1 DEF SortedBy
      <3> QED
        BY <3>1, <3>2
    <2> QED
      BY <2>1, <2>2
  <1> HIDE DEF best, n
  <1>7. best \in ToSet(s)
    BY <1>1, <1>3 DEF ToSet
  <1>8. ASSUME NEW t \in ToSet(s)
        PROVE  IF r.order = "asc" THEN ~TagLess(t, best, r) ELSE ~TagLess(best, t, r)
    <2>1. PICK i \in 1..n : t = s[i]
      BY <1>1 DEF ToSet
    <2> QED
      BY <1>3, <1>6, <2>1
  <1> QED
    BY <1>7, <1>8 DEF best

-----------------------------------------------------------------------------
(* Versions.                                                               *)

\* The steps of SelectSemver.
BetterOf(best, t) ==
    IF Version[t] \in InRange /\ (best # None => Version[t] > Version[best])
    THEN t ELSE best

\* One step of it.
BetterStep(tags, S) ==
    [p \in (S \cup {None}) \X (1..Len(tags)) |-> BetterOf(p[1], tags[p[2]])]

\* SelectSemver is such a fold.
LEMMA SemverSteps ==
    ASSUME NEW S, NEW tags \in Seq(S)
    PROVE  \E f : /\ IsFolded(f, S \cup {None}, None, Len(tags), BetterStep(tags, S))
                  /\ f[Len(tags)] = SelectSemver(tags)
  <1> DEFINE n == Len(tags)
             T == S \cup {None}
             G == BetterStep(tags, S)
             Body(g, s) == IF s = {} THEN None ELSE BetterOf(g[s \ {Max(s)}], tags[Max(s)])
             iter == CHOOSE g : g = [s \in SUBSET DOMAIN tags |-> Body(g, s)]
  <1>1. SelectSemver(tags) = iter[DOMAIN tags]
    BY DEF SelectSemver, FoldLeft, MapThenFoldSet, BetterOf
  <1>2. n \in Nat /\ DOMAIN tags = 1..n /\ None \in T
    OBVIOUS
  <1>3. G \in [T \X (1..n) -> T]
    <2>1. ASSUME NEW v \in T, NEW i \in 1..n PROVE BetterOf(v, tags[i]) \in T
      BY DEF BetterOf
    <2> QED
      BY <2>1 DEF BetterStep
  <1>4. ASSUME NEW g, NEW s \in SUBSET (1..n), s # {}, g[s \ {Max(s)}] \in T
        PROVE  Body(g, s) = G[<<g[s \ {Max(s)}], Max(s)>>]
    <2>1. Max(s) \in 1..n
      <3> HIDE DEF n
      <3> QED
        BY <1>2, <1>4, MaxExists
    <2> QED
      BY <1>4, <2>1 DEF BetterStep
  <1>5. \A g : Body(g, {}) = None
    OBVIOUS
  <1> HIDE DEF n, T, G, Body
  <1>6. PICK h : IsFold(h, T, None, n, G)
    BY <1>2, <1>3, FoldExists
  <1>7. h = [s \in SUBSET DOMAIN tags |-> Body(h, s)]
    BY <1>2, <1>4, <1>5, <1>6 DEF IsFold
  <1>8. iter = [s \in SUBSET DOMAIN tags |-> Body(iter, s)]
    BY <1>7
  <1> HIDE DEF iter
  <1>9. FollowsFold(iter, T, None, n, G)
    BY <1>2, <1>4, <1>5, <1>8 DEF FollowsFold
  <1>10. IsFolded(Steps(iter, n), T, None, n, G)
    BY <1>2, <1>3, <1>9, FoldSteps
  <1>11. Steps(iter, n)[n] = iter[1..n]
    BY <1>2 DEF Steps
  <1> QED
    BY <1>1, <1>2, <1>10, <1>11 DEF n, T, G

\* best is the newest version of T in range, or nothing is.
NewestOf(best, T) ==
    \/ best = None /\ \A t \in T : Version[t] \notin InRange
    \/ /\ best \in T /\ Version[best] \in InRange
       /\ \A t \in T : Version[t] \in InRange => ~(Version[t] > Version[best])

\* SelectSemver finds it.
LEMMA SemverIs ==
    ASSUME NEW tags \in Seq(Tags)
    PROVE  NewestOf(SelectSemver(tags), ToSet(tags))
  <1> DEFINE n == Len(tags)
             T == Tags \cup {None}
             G == BetterStep(tags, Tags)
  <1>1. PICK f : IsFolded(f, T, None, n, G) /\ f[n] = SelectSemver(tags)
    BY SemverSteps
  <1> DEFINE K == {i \in 0..n : NewestOf(f[i], Taken(tags, i))}
  <1>2. n \in Nat /\ f \in [0..n -> T] /\ f[0] = None /\ n \in 0..n /\ 0 \in 0..n
    BY <1>1 DEF IsFolded
  <1>3. 0 \in K
    <2>1. Taken(tags, 0) = {}
      BY TakenIs
    <2>2. NewestOf(f[0], Taken(tags, 0))
      BY <1>2, <2>1 DEF NewestOf
    <2> QED
      BY <1>2, <2>2
  <1>4. ASSUME NEW i \in 1..n, i - 1 \in K PROVE i \in K
    <2> DEFINE s == f[i - 1]
               t == tags[i]
               U == Taken(tags, i - 1)
    <2>1. i - 1 \in 0..n /\ i \in 0..n
      BY <1>2
    <2>2. NewestOf(s, U)
      BY <1>4
    <2>3. Taken(tags, i) = U \cup {t} /\ t \in Tags
      BY TakenIs
    <2>4. f[i] = BetterOf(s, t)
      <3> HIDE DEF K, G, n, T
      <3>1. f[i - 1] \in T
        BY <1>2, <2>1
      <3>2. f[i] = G[<<f[i - 1], i>>]
        BY <1>1 DEF IsFolded
      <3> QED
        BY <3>1, <3>2 DEF G, T, n, BetterStep
    <2> HIDE DEF s, t, U
    <2>5. NewestOf(BetterOf(s, t), U \cup {t})
      <3>1. t # None
        BY <2>3, TagsAreTexts
      <3>2. InRange \subseteq Nat
        BY VersionsAreRanked
      <3>5. \A k \in Nat : ~(k > k)
        OBVIOUS
      <3>3. CASE s = None /\ \A u \in U : Version[u] \notin InRange
        <4>1. CASE Version[t] \in InRange
          <5>1. BetterOf(s, t) = t
            BY <3>3, <4>1 DEF BetterOf
          <5>2. ~(Version[t] > Version[t])
            BY <3>2, <3>5, <4>1
          <5> QED
            BY <3>3, <4>1, <5>1, <5>2 DEF NewestOf
        <4>2. CASE Version[t] \notin InRange
          <5>1. BetterOf(s, t) = s
            BY <4>2 DEF BetterOf
          <5> QED
            BY <3>3, <4>2, <5>1 DEF NewestOf
        <4> QED
          BY <4>1, <4>2
      <3>4. CASE /\ s \in U /\ Version[s] \in InRange
                 /\ \A u \in U : Version[u] \in InRange => ~(Version[u] > Version[s])
        <4>1. s # None
          <5>1. U \subseteq Tags
            BY <2>1 DEF U, Taken
          <5> QED
            BY <3>4, <5>1, TagsAreTexts
        <4>2. CASE Version[t] \in InRange /\ Version[t] > Version[s]
          <5>1. BetterOf(s, t) = t
            BY <4>2 DEF BetterOf
          <5>2. \A u \in U \cup {t} : Version[u] \in InRange => ~(Version[u] > Version[t])
            <6>1. ASSUME NEW u \in U, Version[u] \in InRange PROVE ~(Version[u] > Version[t])
              <7>1. Version[u] \in Nat /\ Version[t] \in Nat /\ Version[s] \in Nat
                BY <3>2, <3>4, <4>2, <6>1
              <7>2. ~(Version[u] > Version[s])
                BY <3>4, <6>1
              <7> QED
                BY <4>2, <7>1, <7>2
            <6>2. ~(Version[t] > Version[t])
              BY <3>2, <3>5, <4>2
            <6> QED
              BY <6>1, <6>2
          <5> QED
            BY <4>2, <5>1, <5>2 DEF NewestOf
        <4>3. CASE ~(Version[t] \in InRange /\ Version[t] > Version[s])
          <5>1. BetterOf(s, t) = s
            BY <4>1, <4>3 DEF BetterOf
          <5> QED
            BY <3>4, <4>3, <5>1 DEF NewestOf
        <4> QED
          BY <4>2, <4>3
      <3> QED
        BY <2>2, <3>3, <3>4 DEF NewestOf
    <2> QED
      BY <2>1, <2>3, <2>4, <2>5
  <1>5. \A i \in 0..n : i \in K
    <2> HIDE DEF K
    <2> QED
      BY <1>2, <1>3, <1>4, BoundedInduction
  <1>6. NewestOf(f[n], Taken(tags, n))
    BY <1>2, <1>5
  <1> QED
    BY <1>1, <1>6, TakenIs

-----------------------------------------------------------------------------
(* Select.                                                                 *)

\* What Select picks from.
Picked(r) == LET candidates == IF r.filtered THEN Filter(listing, Passing) ELSE listing
             IN  IF r.kind = "regex" THEN Filter(candidates, Matching) ELSE candidates

\* The best of s by the order of r, or nothing.
BestOf(best, s, r) ==
    \/ s = {} /\ best = None
    \/ /\ best \in s
       /\ \A t \in s : IF r.order = "asc" THEN ~TagLess(t, best, r) ELSE ~TagLess(best, t, r)

\* These are the listed tags that pass the filter and match.
LEMMA PickedIs ==
    ASSUME listing \in Seq(Tags), NEW r
    PROVE  /\ Picked(r) \in Seq(Tags)
           /\ ToSet(Picked(r)) = {t \in ToSet(listing) :
                                     /\ r.filtered => t \in Passing
                                     /\ r.kind = "regex" => t \in Matching}
  <1> DEFINE c == IF r.filtered THEN Filter(listing, Passing) ELSE listing
  <1>1. /\ c \in Seq(Tags)
        /\ ToSet(c) = {t \in ToSet(listing) : r.filtered => t \in Passing}
    BY FilterIs
  <1>2. Picked(r) = IF r.kind = "regex" THEN Filter(c, Matching) ELSE c
    BY DEF Picked
  <1> HIDE DEF c
  <1>3. Filter(c, Matching) \in Seq(Tags) /\ ToSet(Filter(c, Matching)) = ToSet(c) \cap Matching
    BY <1>1, FilterIs
  <1> QED
    BY <1>1, <1>2, <1>3

\* The fields of a rule.
LEMMA RuleFields ==
    ASSUME NEW r \in Rules
    PROVE  /\ r.kind \in Kinds /\ r.numeric \in BOOLEAN /\ r.extract \in BOOLEAN
           /\ r.order \in {"asc", "desc", "unset"}
           /\ r.kind # "regex" => ~r.numeric /\ ~r.extract
  BY DEF Rules

\* Select fails, finds the newest version, or finds the best by the order.
LEMMA SelectIs ==
    ASSUME listing \in Seq(Tags), NEW r \in Rules
    PROVE  /\ ~r.valid \/ r.kind = "unset" => Select(listing, r) = Failure
           /\ r.valid /\ r.kind = "semver" => NewestOf(Select(listing, r), ToSet(Picked(r)))
           /\ r.valid /\ r.kind \in {"regex", "numerical", "alphabetical"} =>
                 BestOf(Select(listing, r), ToSet(Picked(r)), r)
  <1>1. ~r.valid \/ r.kind = "unset" => Select(listing, r) = Failure
    BY DEF Select
  <1>2. ASSUME r.valid, r.kind = "semver"
        PROVE  NewestOf(Select(listing, r), ToSet(Picked(r)))
    <2>1. Select(listing, r) = SelectSemver(Picked(r))
      BY <1>2 DEF Select, Picked
    <2> QED
      BY <2>1, PickedIs, SemverIs
  <1>3. ASSUME r.valid, r.kind \in {"regex", "numerical", "alphabetical"}
        PROVE  BestOf(Select(listing, r), ToSet(Picked(r)), r)
    <2> DEFINE p == Picked(r)
               s == StableSort(p, r)
               U == {t \in Tags : Key(t, r) \in Seq(Nat)}
    <2>1. Select(listing, r) = EndOf(s, r.order)
      <3>1. CASE r.kind = "regex"
        BY <1>3, <3>1 DEF Select, Picked, SelectRegex
      <3>2. CASE r.kind \in {"numerical", "alphabetical"}
        BY <1>3, <3>2 DEF Select, Picked, SelectOrdered
      <3> QED
        BY <1>3, <3>1, <3>2
    <2>2. p \in Seq(Tags) /\ ToSet(p) \subseteq Tags /\ (r.kind = "regex" => ToSet(p) \subseteq Matching)
      BY PickedIs, Elements
    <2>3. ToSet(p) \subseteq U
      <3>1. ASSUME NEW t \in ToSet(p) PROVE Key(t, r) \in Seq(Nat)
        <4>1. CASE r.extract
          <5>1. r.kind = "regex"
            BY <4>1, RuleFields
          <5> QED
            BY <2>2, <4>1, <5>1, ExtractsAreTexts DEF Key
        <4>2. CASE ~r.extract
          BY <2>2, <4>2, TagsAreTexts DEF Key
        <4> QED
          BY <4>1, <4>2
      <3> QED
        BY <2>2, <3>1
    <2>4. p \in Seq(U)
      BY <2>2, <2>3, SeqOfElements
    <2>5. RanksAll(U, r)
      <3>1. \A t \in U : Key(t, r) \in Seq(Nat)
        OBVIOUS
      <3> HIDE DEF U
      <3> QED
        BY <3>1, TagsRanked
    <2> HIDE DEF p, U
    <2>6. s \in Seq(U) /\ ToSet(s) = ToSet(p) /\ SortedBy(s, r)
      BY <2>4, <2>5, StableSortIs
    <2> HIDE DEF s
    <2>7. CASE s = <<>>
      <3>1. ToSet(p) = {} /\ EndOf(s, r.order) = None
        BY <2>6, <2>7, Elements DEF EndOf
      <3> QED
        BY <2>1, <3>1 DEF BestOf, p
    <2>8. CASE s # <<>>
      <3> DEFINE best == EndOf(s, r.order)
      <3>1. /\ best \in ToSet(s)
            /\ \A t \in ToSet(s) : IF r.order = "asc" THEN ~TagLess(t, best, r)
                                   ELSE ~TagLess(best, t, r)
        BY <2>5, <2>6, <2>8, EndOfIs
      <3> HIDE DEF best
      <3>2. BestOf(best, ToSet(p), r)
        BY <2>6, <3>1 DEF BestOf
      <3> QED
        BY <2>1, <3>2 DEF p, best
    <2> QED
      BY <2>7, <2>8
  <1> QED
    BY <1>1, <1>2, <1>3

\* A scan selects a tag, or nothing, or fails.
LEMMA SelectType ==
    ASSUME listing \in Seq(Tags), NEW r \in Rules
    PROVE  Select(listing, r) \in Tags \cup {None, Failure}
  <1>1. ToSet(Picked(r)) \subseteq Tags
    BY PickedIs, Elements
  <1>2. r.kind \in Kinds
    BY RuleFields
  <1> QED
    BY <1>1, <1>2, SelectIs DEF BestOf, NewestOf, Kinds

-----------------------------------------------------------------------------
(* The theorems.                                                           *)

\* SelectionTypeOK is inductive.
LEMMA SelectionTypeInit ==
    Init => SelectionTypeOK
  <1> SUFFICES ASSUME Init PROVE SelectionTypeOK
    OBVIOUS
  <1>1. listing \in Seq(Tags) /\ Len(listing) <= MaxTags /\ IsInjective(listing)
    BY MaxTagsIsNat DEF Init, IsInjective
  <1> QED
    BY <1>1 DEF Init, SelectionTypeOK

\* Every step keeps it: a push inserts a new tag, a tag is removed, a scan selects.
LEMMA SelectionTypeStep ==
    SelectionTypeOK /\ [Next]_vars => SelectionTypeOK'
  <1> SUFFICES ASSUME SelectionTypeOK, [Next]_vars PROVE SelectionTypeOK'
    OBVIOUS
  <1>1. /\ listing \in Seq(Tags) /\ Len(listing) \in Nat /\ Len(listing) <= MaxTags
        /\ IsInjective(listing) /\ MaxTags \in Nat
    BY MaxTagsIsNat DEF SelectionTypeOK
  <1>2. ASSUME NEW t \in Tags, Push(t) PROVE SelectionTypeOK'
    <2>1. PICK i \in 1..(Len(listing) + 1) : listing' = InsertAt(listing, i, t)
      BY <1>2 DEF Push
    <2>2. t \notin ToSet(listing)
      BY <1>1, <1>2 DEF Push, Contains, ToSet
    <2>3. InsertAt(listing, i, t) \in Seq(Tags) /\ Len(InsertAt(listing, i, t)) = Len(listing) + 1
      BY <1>1, InsertAtProperties
    <2>4. IsInjective(InsertAt(listing, i, t))
      BY <1>1, <2>2, InsertAtElements
    <2>5. Len(listing) + 1 <= MaxTags
      BY <1>1, <1>2 DEF Push
    <2>6. listing' \in Seq(Tags) /\ Len(listing') <= MaxTags /\ IsInjective(listing')
      BY <2>1, <2>3, <2>4, <2>5
    <2> QED
      BY <1>2, <2>6 DEF Push, SelectionTypeOK
  <1>3. ASSUME NEW i \in DOMAIN listing, Untag(i) PROVE SelectionTypeOK'
    <2>1. i \in 1..Len(listing) /\ listing' = RemoveAt(listing, i)
      BY <1>1, <1>3 DEF Untag
    <2>2. RemoveAt(listing, i) \in Seq(Tags) /\ Len(RemoveAt(listing, i)) = Len(listing) - 1
      BY <1>1, <2>1, RemoveAtProperties
    <2>3. IsInjective(RemoveAt(listing, i))
      BY <1>1, <2>1, RemoveAtInjective
    <2>4. listing' \in Seq(Tags) /\ Len(listing') <= MaxTags /\ IsInjective(listing')
      BY <1>1, <2>1, <2>2, <2>3
    <2> QED
      BY <1>3, <2>4 DEF Untag, SelectionTypeOK
  <1>4. CASE Scan
    <2>1. rule \in Rules
      BY DEF SelectionTypeOK
    <2>2. Select(listing, rule) \in Tags \cup {None, Failure}
      BY <1>1, <2>1, SelectType
    <2> QED
      BY <1>4, <2>2 DEF Scan, SelectionTypeOK
  <1>5. CASE UNCHANGED vars
    BY <1>5 DEF vars, SelectionTypeOK
  <1> QED
    BY <1>2, <1>3, <1>4, <1>5 DEF Next

\* However the registry orders its list, a scan selects one of the listed tags,
\* never the text extracted from it, or nothing, or fails.
THEOREM SelectionType ==
    Spec => []SelectionTypeOK
  BY SelectionTypeInit, SelectionTypeStep, PTL DEF Spec

\* naturalCompare is a strict weak order on whatever texts a registry lists.
THEOREM ComparisonOrders ==
    Spec => []ComparisonIsAnOrder
  <1>1. SelectionTypeOK => ComparisonIsAnOrder
    <2> SUFFICES ASSUME SelectionTypeOK PROVE ComparisonIsAnOrder
      OBVIOUS
    <2>1. ToSet(listing) \subseteq Tags /\ Tags \subseteq Seq(Nat)
      BY Elements, TagsAreTexts DEF SelectionTypeOK
    <2> QED
      BY <2>1, NumericLessOrders DEF ComparisonIsAnOrder
  <1> QED
    BY <1>1, SelectionType, PTL

\* Which of two tags a rule ranks first, by the reference and by the code.
LEMMA OutranksIs ==
    ASSUME NEW r \in Rules, r.kind # "semver", NEW t \in Tags, NEW u \in Tags,
           r.kind = "regex" => t \in Matching /\ u \in Matching
    PROVE  Outranks(t, u, r) <=> IF r.order = "asc" THEN TagLess(t, u, r) ELSE TagLess(u, t, r)
  <1> DEFINE a == Key(t, r)
             b == Key(u, r)
             low == IF r.order = "asc" THEN a ELSE b
             high == IF r.order = "asc" THEN b ELSE a
             text == IF r.kind = "regex" /\ r.extract THEN <<Extracted[t], Extracted[u]>> ELSE <<t, u>>
             numeric == r.numeric \/ r.kind = "numerical"
  <1>1. r.extract => r.kind = "regex"
    BY RuleFields
  <1>2. text = <<a, b>>
    BY <1>1 DEF Key
  <1>3. a \in Seq(Nat) /\ b \in Seq(Nat)
    BY <1>1, TagsAreTexts, ExtractsAreTexts DEF Key
  <1>4. Outranks(t, u, r) <=>
          IF numeric THEN Precedes[<<(IF r.order = "asc" THEN text[1] ELSE text[2]),
                                     (IF r.order = "asc" THEN text[2] ELSE text[1])>>]
          ELSE LexLess(IF r.order = "asc" THEN text[1] ELSE text[2],
                       IF r.order = "asc" THEN text[2] ELSE text[1])
    BY DEF Outranks
  <1>5. \A v, w : TagLess(v, w, r) <=> IF numeric THEN NumericLess(Key(v, r), Key(w, r))
                                      ELSE LexLess(Key(v, r), Key(w, r))
    BY DEF TagLess
  <1> HIDE DEF a, b, text, numeric
  <1>6. text[1] = a /\ text[2] = b
    BY <1>2
  <1>7. CASE r.order = "asc"
    <2>1. Outranks(t, u, r) <=> IF numeric THEN Precedes[<<a, b>>] ELSE LexLess(a, b)
      BY <1>4, <1>6, <1>7
    <2>2. Precedes[<<a, b>>] = NumericLess(a, b)
      BY <1>3, PrecedesIsNumeric
    <2> QED
      BY <1>5, <1>7, <2>1, <2>2 DEF a, b
  <1>8. CASE r.order # "asc"
    <2>1. Outranks(t, u, r) <=> IF numeric THEN Precedes[<<b, a>>] ELSE LexLess(b, a)
      BY <1>4, <1>6, <1>8
    <2>2. Precedes[<<b, a>>] = NumericLess(b, a)
      BY <1>3, PrecedesIsNumeric
    <2> QED
      BY <1>5, <1>8, <2>1, <2>2 DEF a, b
  <1> QED
    BY <1>7, <1>8

\* A scan does what SelectionIsNewest says of it.
LEMMA ScanStep ==
    ASSUME SelectionTypeOK, Scan, rule.valid, rule.kind # "unset"
    PROVE  \/ Candidates(rule) = {} /\ selected' = None
           \/ /\ selected' \in Candidates(rule)
              /\ \A t \in Candidates(rule) : ~Outranks(t, selected', rule)
  <1> DEFINE best == Select(listing, rule)
             P == ToSet(Picked(rule))
             C == Candidates(rule)
  <1>1. listing \in Seq(Tags) /\ rule \in Rules /\ rule.kind \in Kinds /\ selected' = best
    BY RuleFields DEF SelectionTypeOK, Scan
  <1>2. P \subseteq Tags /\ P = {t \in ToSet(listing) :
                                /\ rule.filtered => t \in Passing
                                /\ rule.kind = "regex" => t \in Matching}
    BY <1>1, PickedIs, Elements
  <1>3. C = {t \in P : rule.kind = "semver" => Version[t] \in InRange}
    BY <1>2 DEF Candidates
  <1> HIDE DEF best, P, C
  <1>4. CASE rule.kind = "semver"
    <2>1. NewestOf(best, P)
      BY <1>1, <1>4, SelectIs DEF best, P
    <2>2. \A t, u : Outranks(t, u, rule) <=> Version[t] > Version[u]
      BY <1>4 DEF Outranks
    <2>3. C = {t \in P : Version[t] \in InRange}
      BY <1>3, <1>4
    <2>4. CASE best = None /\ \A t \in P : Version[t] \notin InRange
      BY <1>1, <2>3, <2>4 DEF C
    <2>5. CASE /\ best \in P /\ Version[best] \in InRange
               /\ \A t \in P : Version[t] \in InRange => ~(Version[t] > Version[best])
      <3>1. best \in C /\ \A t \in C : ~Outranks(t, best, rule)
        BY <2>2, <2>3, <2>5
      <3> QED
        BY <1>1, <3>1 DEF C
    <2> QED
      BY <2>1, <2>4, <2>5 DEF NewestOf
  <1>5. CASE rule.kind # "semver"
    <2>1. BestOf(best, P, rule)
      BY <1>1, <1>5, SelectIs DEF Kinds, best, P
    <2>2. C = P
      BY <1>3, <1>5
    <2>3. ASSUME NEW t \in P, NEW u \in P
          PROVE  Outranks(t, u, rule) <=>
                   IF rule.order = "asc" THEN TagLess(t, u, rule) ELSE TagLess(u, t, rule)
      <3>1. /\ t \in Tags /\ u \in Tags /\ rule \in Rules /\ rule.kind # "semver"
            /\ rule.kind = "regex" => t \in Matching /\ u \in Matching
        BY <1>1, <1>2, <1>5
      <3> QED
        BY <3>1, OutranksIs
    <2>4. CASE P = {} /\ best = None
      BY <1>1, <2>2, <2>4 DEF C
    <2>5. CASE best \in P
      <3>1. \A t \in P : ~Outranks(t, best, rule)
        BY <2>1, <2>3, <2>5 DEF BestOf
      <3> QED
        BY <1>1, <2>2, <2>5, <3>1 DEF C
    <2> QED
      BY <2>1, <2>4, <2>5 DEF BestOf
  <1> QED
    BY <1>4, <1>5

\* However the registry orders its list, what a scan selects is a tag the rule
\* may pick and that no other outranks, by the values of the numbers in it, and
\* it selects nothing only if there is none.
THEOREM SelectionNewest ==
    Spec => SelectionIsNewest
  <1>1. SelectionTypeOK /\ [Next]_vars =>
          [Scan /\ rule.valid /\ rule.kind # "unset" /\ ~Disputed(rule) => SelectsNewest]_vars
    BY ScanStep DEF SelectsNewest
  <1> QED
    BY <1>1, SelectionType, PTL DEF Spec, SelectionIsNewest

\* Where the documents are at odds, the same holds of all the tags listed: words
\* are ranked above numbers, and asc takes the first.
THEOREM DisputedRanked ==
    Spec => DisputedRanking
  <1>1. SelectionTypeOK /\ [Next]_vars =>
          [Scan /\ rule.valid /\ Disputed(rule) => SelectsNewest]_vars
    BY ScanStep DEF SelectsNewest, Disputed
  <1> QED
    BY <1>1, SelectionType, PTL DEF Spec, DisputedRanking

=============================================================================
