--------------------------- MODULE SeedImportProofs ---------------------------
(***************************************************************************)
(* Proofs about the seed importers, for seeds of any length, any batch and *)
(* chunk sizes and any number of runs.                                     *)
(***************************************************************************)
EXTENDS SeedImport, FiniteSetTheorems, SequenceTheorems, WellFoundedInduction, TLAPS

-----------------------------------------------------------------------------
(* Numbers and sequences.                                                  *)

\* Every nonempty set of numbers has a least one.
LEMMA LeastNumber ==
  ASSUME NEW S \in SUBSET Nat, S # {}
  PROVE  \E m \in S : \A k \in S : m <= k
<1> DEFINE R == {p \in Nat \X Nat : p[1] < p[2]}
<1>1. IsWellFoundedOn(R, Nat)
  BY NatLessThanWellFounded DEF OpToRel
<1> HIDE DEF R
<1>2. PICK m \in S : \A k \in S : ~(<<k, m>> \in R)  BY <1>1, WFMin
<1>3. ASSUME NEW k \in S  PROVE m <= k
  <2>1. ~(k < m)  BY <1>2 DEF R
  <2> QED BY <2>1
<1> QED BY <1>3

\* A set of numbers that has 0 and with every number its successor has all of them.
LEMMA Counting ==
  ASSUME NEW S \in SUBSET Nat, 0 \in S, \A n \in S : n + 1 \in S
  PROVE  Nat \subseteq S
<1> SUFFICES ASSUME Nat \ S # {}  PROVE FALSE  OBVIOUS
<1>1. Nat \ S \in SUBSET Nat  OBVIOUS
<1>2. PICK m \in Nat \ S : \A k \in Nat \ S : m <= k  BY <1>1, LeastNumber
<1>3. m # 0  BY <1>2
<1>4. m - 1 \in Nat /\ ~(m <= m - 1) /\ (m - 1) + 1 = m  BY <1>2, <1>3
<1>5. m - 1 \in S  BY <1>2, <1>4
<1> QED BY <1>2, <1>4, <1>5

\* s is a sequence.
IsList(s) == s \in Seq(ToSet(s))

LEMMA ListsAreSequences ==
  ASSUME NEW S, NEW s \in Seq(S)
  PROVE  IsList(s) /\ ToSet(s) \subseteq S /\ Len(s) \in Nat /\ DOMAIN s = 1..Len(s)
<1>1. s \in [1..Len(s) -> S] /\ Len(s) \in Nat  OBVIOUS
<1>2. \A i \in 1..Len(s) : s[i] \in ToSet(s)  BY <1>1 DEF ToSet
<1>3. s \in Seq(ToSet(s))  BY <1>1, <1>2
<1> QED BY <1>1, <1>3 DEF IsList, ToSet

\* A function on the first numbers is a sequence.
LEMMA FirstNumbersMakeAList ==
  ASSUME NEW n \in Nat, NEW s, s = [i \in 1..n |-> s[i]]
  PROVE  IsList(s) /\ Len(s) = n /\ DOMAIN s = 1..n /\ ToSet(s) = {s[i] : i \in 1..n}
<1>1. s \in [1..n -> {s[i] : i \in 1..n}]  OBVIOUS
<1>2. DOMAIN s = 1..n  OBVIOUS
<1>3. ToSet(s) = {s[i] : i \in 1..n}  BY <1>2 DEF ToSet
<1> HIDE DEF ToSet
<1>4. s \in [1..n -> ToSet(s)]  BY <1>1, <1>3
<1>5. s \in Seq(ToSet(s))  BY <1>4
<1>6. Len(s) = n  BY <1>2, <1>5
<1> QED BY <1>2, <1>3, <1>5, <1>6 DEF IsList

\* The entries of the second sequence follow those of the first.
LEMMA Concatenated ==
  ASSUME NEW a, NEW b, IsList(a), IsList(b)
  PROVE  /\ IsList(a \o b) /\ Len(a \o b) = Len(a) + Len(b)
         /\ \A i \in 1..Len(a) : (a \o b)[i] = a[i]
         /\ \A i \in 1..Len(b) : (a \o b)[Len(a) + i] = b[i]
         /\ ToSet(a \o b) = ToSet(a) \cup ToSet(b)
<1> DEFINE S == ToSet(a) \cup ToSet(b)
           c == a \o b
<1>1. a \in Seq(S) /\ b \in Seq(S)
  <2>1. a \in Seq(ToSet(a)) /\ b \in Seq(ToSet(b))  BY DEF IsList
  <2> HIDE DEF ToSet
  <2> QED BY <2>1
<1>2. DOMAIN a = 1..Len(a) /\ DOMAIN b = 1..Len(b) /\ Len(a) \in Nat /\ Len(b) \in Nat
  BY <1>1
<1> HIDE DEF S
<1>3. /\ c \in Seq(S) /\ Len(c) = Len(a) + Len(b)
      /\ \A i \in 1..(Len(a) + Len(b)) : c[i] = IF i <= Len(a) THEN a[i] ELSE b[i - Len(a)]
  BY <1>1, ConcatProperties
<1> HIDE DEF c
<1>4. \A i \in 1..Len(a) : i \in 1..(Len(a) + Len(b)) /\ i <= Len(a)  BY <1>2
<1>5. \A i \in 1..Len(b) :
        /\ Len(a) + i \in 1..(Len(a) + Len(b)) /\ ~(Len(a) + i <= Len(a))
        /\ Len(a) + i - Len(a) = i
  BY <1>2
<1>6. \A i \in 1..Len(a) : c[i] = a[i]  BY <1>3, <1>4
<1>7. \A i \in 1..Len(b) : c[Len(a) + i] = b[i]  BY <1>3, <1>5
<1>8. DOMAIN c = 1..(Len(a) + Len(b))  BY <1>3
<1>9. ToSet(c) \subseteq S
  BY <1>3, <1>8 DEF ToSet
<1>10. ToSet(a) \subseteq ToSet(c)
  BY <1>2, <1>4, <1>6, <1>8 DEF ToSet
<1>11. ToSet(b) \subseteq ToSet(c)
  <2>1. \A i \in 1..Len(b) : b[i] \in ToSet(c)  BY <1>5, <1>7, <1>8 DEF ToSet
  <2> QED BY <1>2, <2>1 DEF ToSet
<1>12. IsList(c)  BY <1>3, ListsAreSequences
<1> QED BY <1>3, <1>6, <1>7, <1>9, <1>10, <1>11, <1>12 DEF c, S

\* A stretch of a sequence.
LEMMA Stretch ==
  ASSUME NEW s, IsList(s), NEW m \in Nat \ {0}, NEW n \in 0..Len(s)
  PROVE  /\ IsList(SubSeq(s, m, n))
         /\ DOMAIN SubSeq(s, m, n) = 1..(IF m <= n THEN n - m + 1 ELSE 0)
         /\ ToSet(SubSeq(s, m, n)) = {s[i] : i \in m..n}
<1> DEFINE t == SubSeq(s, m, n)
           l == IF m <= n THEN n - m + 1 ELSE 0
<1>1. s \in Seq(ToSet(s)) /\ Len(s) \in Nat /\ n \in Nat  BY DEF IsList
<1>2. l \in Nat  BY <1>1
<1>3. t = [i \in 1..l |-> s[m + i - 1]]
  BY <1>1
<1> HIDE DEF t, l
<1>4. t = [i \in 1..l |-> t[i]] /\ DOMAIN t = 1..l  BY <1>3
<1>5. IsList(t) /\ ToSet(t) = {t[i] : i \in 1..l}  BY <1>2, <1>4, FirstNumbersMakeAList
<1>6. {t[i] : i \in 1..l} = {s[i] : i \in m..n}
  <2>1. \A i \in 1..l : m + i - 1 \in m..n  BY <1>1 DEF l
  <2>2. \A j \in m..n : j - m + 1 \in 1..l /\ m + (j - m + 1) - 1 = j  BY <1>1 DEF l
  <2>3. \A i \in 1..l : t[i] \in {s[j] : j \in m..n}  BY <1>3, <2>1
  <2>4. \A j \in m..n : s[j] \in {t[i] : i \in 1..l}
    <3> TAKE j \in m..n
    <3>1. t[j - m + 1] = s[j]  BY <1>3, <2>2
    <3> QED BY <2>2, <3>1
  <2> QED BY <2>3, <2>4
<1> QED BY <1>4, <1>5, <1>6 DEF t, l

\* The elements of a finite set in some order.
LEMMA SetInOrder ==
  ASSUME NEW S, IsFiniteSet(S)
  PROVE  IsList(SetToSeq(S)) /\ ToSet(SetToSeq(S)) = S
<1> DEFINE n == Cardinality(S)
           s == SetToSeq(S)
<1>1. PICK f : n \in Nat /\ f \in Bijection(1..n, S)
  BY FS_CardinalityType DEF ExistsBijection
<1>2. s \in [1..n -> S] /\ IsInjective(s)
  <2>1. f \in [1..n -> S] /\ IsInjective(f)
    BY <1>1 DEF Bijection, Injection, IsInjective
  <2> QED BY <2>1 DEF SetToSeq
<1> HIDE DEF n, s
<1>3. s \in Surjection(1..n, S)
  <2>1. s \in Injection(1..n, S)  BY <1>2 DEF Injection, IsInjective
  <2>2. IsFiniteSet(1..n) /\ Cardinality(1..n) = n
    <3>1. 1 \in Int /\ n \in Int  BY <1>1
    <3>2. IsFiniteSet(1..n) /\ Cardinality(1..n) = IF 1 > n THEN 0 ELSE n - 1 + 1
      BY <3>1, FS_Interval
    <3> QED BY <1>1, <3>2
  <2> QED BY <2>1, <2>2, FS_Injection DEF n
<1>4. s = [i \in 1..n |-> s[i]]  BY <1>2
<1>5. IsList(s) /\ ToSet(s) = {s[i] : i \in 1..n}  BY <1>1, <1>4, FirstNumbersMakeAList
<1>6. \A r \in S : \E i \in 1..n : s[i] = r  BY <1>3 DEF Surjection
<1>7. ToSet(s) = S  BY <1>2, <1>5, <1>6
<1> QED BY <1>5, <1>7 DEF s

\* The sequences of a sequence, one after the other, have the elements of them all.
FlattenRule(seqs, f, n) ==
  f = [i \in 1..n |-> IF i = 1 THEN seqs[i] ELSE f[i - 1] \o seqs[i]]

LEMMA FlattenFunction ==
  ASSUME NEW seqs, NEW n \in Nat
  PROVE  \E f : FlattenRule(seqs, f, n)
<1> DEFINE S == {m \in Nat : \E f : FlattenRule(seqs, f, m)}
<1>1. 0 \in S
  <2>1. FlattenRule(seqs, << >>, 0)  BY DEF FlattenRule
  <2> QED BY <2>1
<1>2. ASSUME NEW m \in S  PROVE m + 1 \in S
  <2>1. PICK f : FlattenRule(seqs, f, m)  OBVIOUS
  <2> DEFINE new == IF m = 0 THEN seqs[1] ELSE f[m] \o seqs[m + 1]
             g == [i \in 1..(m + 1) |-> IF i = m + 1 THEN new ELSE f[i]]
  <2>2. m \in Nat  OBVIOUS
  <2> HIDE DEF new
  <2>3. ASSUME NEW i \in 1..(m + 1)
        PROVE  g[i] = IF i = 1 THEN seqs[i] ELSE g[i - 1] \o seqs[i]
    <3>1. CASE i = m + 1
      <4>1. i = 1 <=> m = 0  BY <2>2, <3>1
      <4>2. i # 1 => m \in 1..(m + 1) /\ m # m + 1 /\ i - 1 = m  BY <2>2, <3>1
      <4>3. i # 1 => g[i - 1] = f[m]  BY <4>2
      <4> QED BY <3>1, <4>1, <4>3 DEF new
    <3>2. CASE i # m + 1
      <4>1. i \in 1..m  BY <2>2, <3>2
      <4>2. f[i] = IF i = 1 THEN seqs[i] ELSE f[i - 1] \o seqs[i]
        BY <2>1, <4>1 DEF FlattenRule
      <4>3. i # 1 => i - 1 \in 1..(m + 1) /\ i - 1 # m + 1  BY <2>2, <4>1
      <4> QED BY <3>2, <4>2, <4>3
    <3> QED BY <3>1, <3>2
  <2>4. g = [i \in 1..(m + 1) |-> g[i]]  OBVIOUS
  <2> HIDE DEF g
  <2>5. FlattenRule(seqs, g, m + 1)  BY <2>3, <2>4 DEF FlattenRule
  <2> QED BY <2>2, <2>5
<1> HIDE DEF S
<1>3. S \in SUBSET Nat  BY DEF S
<1>4. n \in S  BY <1>1, <1>2, <1>3, Counting
<1> QED BY <1>4 DEF S

LEMMA Flattened ==
  ASSUME NEW seqs, IsList(seqs), \A i \in DOMAIN seqs : IsList(seqs[i])
  PROVE  /\ IsList(FlattenSeq(seqs))
         /\ ToSet(FlattenSeq(seqs)) = UNION {ToSet(seqs[i]) : i \in DOMAIN seqs}
<1>1. Len(seqs) \in Nat /\ DOMAIN seqs = 1..Len(seqs)  BY DEF IsList
<1>2. CASE Len(seqs) = 0
  <2>1. FlattenSeq(seqs) = seqs /\ DOMAIN seqs = {}  BY <1>1, <1>2 DEF FlattenSeq
  <2> QED BY <2>1 DEF ToSet
<1>3. CASE Len(seqs) # 0
  <2> DEFINE f == CHOOSE h : FlattenRule(seqs, h, Len(seqs))
             S == {m \in Nat : m + 1 \in 1..Len(seqs) =>
                      /\ IsList(f[m + 1])
                      /\ ToSet(f[m + 1]) = UNION {ToSet(seqs[i]) : i \in 1..(m + 1)}}
  <2>1. FlattenSeq(seqs) = f[Len(seqs)]  BY <1>3 DEF FlattenSeq, FlattenRule
  <2>2. FlattenRule(seqs, f, Len(seqs))  BY <1>1, FlattenFunction
  <2>3. \A i \in 1..Len(seqs) : f[i] = IF i = 1 THEN seqs[i] ELSE f[i - 1] \o seqs[i]
    BY <2>2 DEF FlattenRule
  <2> HIDE DEF f
  <2>4. 0 \in S
    <3>1. f[1] = seqs[1] /\ 1 \in DOMAIN seqs  BY <1>1, <1>3, <2>3
    <3>2. UNION {ToSet(seqs[i]) : i \in 1..1} = ToSet(seqs[1])
      <4>1. 1..1 = {1}  OBVIOUS
      <4> QED BY <4>1
    <3>3. 0 + 1 = 1  OBVIOUS
    <3> QED BY <3>1, <3>2, <3>3
  <2>5. ASSUME NEW m \in S  PROVE m + 1 \in S
    <3> SUFFICES ASSUME (m + 1) + 1 \in 1..Len(seqs)
                 PROVE  /\ IsList(f[(m + 1) + 1])
                        /\ ToSet(f[(m + 1) + 1])
                             = UNION {ToSet(seqs[i]) : i \in 1..((m + 1) + 1)}
      OBVIOUS
    <3> DEFINE k == (m + 1) + 1
    <3>1. m \in Nat /\ m + 1 \in 1..Len(seqs) /\ k # 1 /\ k - 1 = m + 1  BY <1>1
    <3>2. IsList(f[m + 1]) /\ ToSet(f[m + 1]) = UNION {ToSet(seqs[i]) : i \in 1..(m + 1)}
      BY <3>1
    <3>3. k \in DOMAIN seqs /\ IsList(seqs[k])  BY <1>1
    <3>4. f[k] = f[m + 1] \o seqs[k]  BY <2>3, <3>1
    <3>5. IsList(f[k]) /\ ToSet(f[k]) = ToSet(f[m + 1]) \cup ToSet(seqs[k])
      BY <3>2, <3>3, <3>4, Concatenated
    <3>6. 1..k = (1..(m + 1)) \cup {k}  BY <3>1
    <3> HIDE DEF k
    <3>7. UNION {ToSet(seqs[i]) : i \in 1..k}
            = (UNION {ToSet(seqs[i]) : i \in 1..(m + 1)}) \cup ToSet(seqs[k])
      BY <3>6
    <3>8. IsList(f[k]) /\ ToSet(f[k]) = UNION {ToSet(seqs[i]) : i \in 1..k}
      BY <3>2, <3>5, <3>7
    <3> QED BY <3>8 DEF k
  <2> HIDE DEF S
  <2>6. S \in SUBSET Nat  BY DEF S
  <2>7. Len(seqs) - 1 \in Nat /\ (Len(seqs) - 1) + 1 = Len(seqs)
        /\ Len(seqs) \in 1..Len(seqs)
    BY <1>1, <1>3
  <2>8. Len(seqs) - 1 \in S  BY <2>4, <2>5, <2>6, <2>7, Counting
  <2> QED BY <1>1, <2>1, <2>7, <2>8 DEF S
<1> QED BY <1>2, <1>3

-----------------------------------------------------------------------------
(* Slugs.                                                                  *)

\* A slug that is taken gets a number, and there is always one that is free.
LEMMA EnsuredSlugIsFree ==
  ASSUME NEW base \in Slug, NEW used \in SUBSET Slug, IsFiniteSet(used)
  PROVE  EnsureUnique(base, used) \in Slug /\ EnsureUnique(base, used) \notin used
<1> DEFINE c == Cardinality(used)
           S == 2..(c + 2)
           Free == {k \in S : Numbered(base, k) \notin used}
<1>1. c \in Nat  BY FS_CardinalityType
<1>2. \A k \in Nat : Numbered(base, k) \in Slug
  BY AppendProperties DEF Slug, Numbered
<1>3. \A k \in Nat, l \in Nat : Numbered(base, k) = Numbered(base, l) => k = l
  <2>1. Len(base) \in Nat  BY DEF Slug
  <2>2. \A k \in Nat : Numbered(base, k)[Len(base) + 1] = k
    BY AppendProperties DEF Slug, Numbered
  <2> QED BY <2>2
<1>4. S \subseteq Nat  BY <1>1
<1>5. Free # {}
  <2> SUFFICES ASSUME \A k \in S : Numbered(base, k) \in used  PROVE FALSE  OBVIOUS
  <2> DEFINE f == [k \in S |-> Numbered(base, k)]
  <2>1. f \in Injection(S, used)
    <3>1. f \in [S -> used]  OBVIOUS
    <3>2. \A k, l \in S : f[k] = f[l] => k = l  BY <1>3, <1>4
    <3> QED BY <3>1, <3>2 DEF Injection, IsInjective
  <2>2. Cardinality(S) = c + 1
    <3>1. 2 \in Int /\ c + 2 \in Int  BY <1>1
    <3>2. Cardinality(S) = IF 2 > c + 2 THEN 0 ELSE (c + 2) - 2 + 1  BY <3>1, FS_Interval
    <3> QED BY <1>1, <3>2
  <2>3. Cardinality(S) <= c
    <3> HIDE DEF f, S
    <3> QED BY <2>1, FS_Injection
  <2> QED BY <1>1, <2>2, <2>3
<1> HIDE DEF Free
<1>6. Free \in SUBSET Nat /\ \A k \in Free : Numbered(base, k) \notin used
  BY <1>4 DEF Free
<1>7. \E m \in Free : \A k \in Free : m <= k  BY <1>5, <1>6, LeastNumber
<1>8. Least(Free) \in Free  BY <1>7 DEF Least
<1>9. EnsureUnique(base, used) = IF base \notin used THEN base ELSE Numbered(base, Least(Free))
  BY DEF EnsureUnique, Free
<1> QED BY <1>2, <1>6, <1>8, <1>9

SlugsRule(bases, f, n) ==
  f = [k \in 0..n |-> IF k = 0 THEN << >>
                      ELSE Append(f[k - 1], EnsureUnique(bases[k], ToSet(f[k - 1])))]

LEMMA SlugsFunction ==
  ASSUME NEW bases, NEW n \in Nat
  PROVE  \E f : SlugsRule(bases, f, n)
<1> DEFINE S == {m \in Nat : \E f : SlugsRule(bases, f, m)}
<1>1. 0 \in S
  <2> DEFINE f == [k \in 0..0 |-> << >>]
  <2>1. SlugsRule(bases, f, 0)
    <3>1. \A k \in 0..0 : k = 0  OBVIOUS
    <3> QED BY <3>1 DEF SlugsRule
  <2> QED BY <2>1
<1>2. ASSUME NEW m \in S  PROVE m + 1 \in S
  <2>1. PICK f : SlugsRule(bases, f, m)  OBVIOUS
  <2> DEFINE new == Append(f[m], EnsureUnique(bases[m + 1], ToSet(f[m])))
             g == [k \in 0..(m + 1) |-> IF k = m + 1 THEN new ELSE f[k]]
  <2>2. m \in Nat  OBVIOUS
  <2> HIDE DEF new
  <2>3. ASSUME NEW k \in 0..(m + 1)
        PROVE  g[k] = IF k = 0 THEN << >>
                      ELSE Append(g[k - 1], EnsureUnique(bases[k], ToSet(g[k - 1])))
    <3>1. CASE k = m + 1
      <4>1. k # 0 /\ k - 1 = m /\ m \in 0..(m + 1) /\ m # m + 1  BY <2>2, <3>1
      <4>2. g[k - 1] = f[m] /\ g[k] = new  BY <3>1, <4>1
      <4> QED BY <3>1, <4>1, <4>2 DEF new
    <3>2. CASE k # m + 1
      <4>1. k \in 0..m  BY <2>2, <3>2
      <4>2. f[k] = IF k = 0 THEN << >>
                   ELSE Append(f[k - 1], EnsureUnique(bases[k], ToSet(f[k - 1])))
        BY <2>1, <4>1 DEF SlugsRule
      <4>3. k # 0 => k - 1 \in 0..(m + 1) /\ k - 1 # m + 1  BY <2>2, <4>1
      <4>4. k # 0 => g[k - 1] = f[k - 1]  BY <4>3
      <4>5. g[k] = f[k]  BY <3>2
      <4> HIDE DEF g
      <4> QED BY <4>2, <4>4, <4>5
    <3> QED BY <3>1, <3>2
  <2>4. g = [k \in 0..(m + 1) |-> g[k]]  OBVIOUS
  <2> HIDE DEF g
  <2>5. SlugsRule(bases, g, m + 1)  BY <2>3, <2>4 DEF SlugsRule
  <2> QED BY <2>2, <2>5
<1> HIDE DEF S
<1>3. S \in SUBSET Nat  BY DEF S
<1>4. n \in S  BY <1>1, <1>2, <1>3, Counting
<1> QED BY <1>4 DEF S

\* The slugs of a list are as many as there are headings, and no two are the same.
THEOREM SlugsAreUnique ==
  ASSUME NEW bases \in Seq(Slug)
  PROVE  /\ UniqueSlugs(bases) \in Seq(Slug)
         /\ Len(UniqueSlugs(bases)) = Len(bases)
         /\ IsInjective(UniqueSlugs(bases))
<1> DEFINE f == CHOOSE h : SlugsRule(bases, h, Len(bases))
           Good(n) == f[n] \in Seq(Slug) /\ Len(f[n]) = n /\ IsInjective(f[n])
           S == {n \in Nat : n \in 0..Len(bases) => Good(n)}
<1>1. Len(bases) \in Nat /\ \A i \in 1..Len(bases) : bases[i] \in Slug  OBVIOUS
<1>2. UniqueSlugs(bases) = f[Len(bases)]  BY DEF UniqueSlugs, SlugsRule
<1>3. SlugsRule(bases, f, Len(bases))  BY <1>1, SlugsFunction
<1>4. \A k \in 0..Len(bases) :
        f[k] = IF k = 0 THEN << >> ELSE Append(f[k - 1], EnsureUnique(bases[k], ToSet(f[k - 1])))
  BY <1>3 DEF SlugsRule
<1> HIDE DEF f
<1>5. 0 \in S
  <2>1. f[0] = << >>  BY <1>1, <1>4
  <2>2. << >> \in Seq(Slug) /\ Len(<< >>) = 0 /\ IsInjective(<< >>)  BY DEF IsInjective
  <2> QED BY <2>1, <2>2
<1>6. ASSUME NEW n \in S  PROVE n + 1 \in S
  <2> SUFFICES ASSUME n + 1 \in 0..Len(bases)  PROVE Good(n + 1)  OBVIOUS
  <2> DEFINE s == f[n]
             slug == EnsureUnique(bases[n + 1], ToSet(s))
  <2>1. n \in Nat /\ n \in 0..Len(bases) /\ n + 1 \in 1..Len(bases) /\ n + 1 # 0
        /\ (n + 1) - 1 = n
    BY <1>1
  <2>2. s \in Seq(Slug) /\ Len(s) = n /\ IsInjective(s)  BY <2>1
  <2>3. f[n + 1] = Append(s, slug)  BY <1>4, <2>1
  <2> HIDE DEF s
  <2>4. DOMAIN s = 1..n /\ ToSet(s) \subseteq Slug  BY <2>2, ListsAreSequences
  <2>5. IsFiniteSet(ToSet(s))
    <3>1. 1 \in Int /\ n \in Int  BY <2>1
    <3>2. IsFiniteSet(1..n)  BY <3>1, FS_Interval
    <3>3. s \in Surjection(1..n, ToSet(s))  BY <2>2, <2>4 DEF Surjection, ToSet
    <3> QED BY <3>2, <3>3, FS_Surjection
  <2>6. slug \in Slug /\ slug \notin ToSet(s)
    <3>1. bases[n + 1] \in Slug  BY <1>1, <2>1
    <3> QED BY <2>4, <2>5, <3>1, EnsuredSlugIsFree
  <2> HIDE DEF slug
  <2>7. /\ Append(s, slug) \in Seq(Slug) /\ Len(Append(s, slug)) = n + 1
        /\ \A i \in 1..n : Append(s, slug)[i] = s[i]
        /\ Append(s, slug)[n + 1] = slug
    BY <2>2, <2>6, AppendProperties
  <2>8. DOMAIN Append(s, slug) = 1..(n + 1)  BY <2>7
  <2>9. IsInjective(Append(s, slug))
    <3> DEFINE t == Append(s, slug)
    <3> SUFFICES ASSUME NEW i \in 1..(n + 1), NEW j \in 1..(n + 1), t[i] = t[j]  PROVE i = j
      BY <2>8 DEF IsInjective
    <3>1. \A k \in 1..n : t[k] \in ToSet(s)  BY <2>4, <2>7 DEF ToSet
    <3>2. \A k \in 1..(n + 1) : k \in 1..n \/ k = n + 1  BY <2>1
    <3>3. CASE i \in 1..n /\ j \in 1..n
      <4>1. t[i] = s[i] /\ t[j] = s[j]  BY <2>7, <3>3
      <4> QED BY <2>2, <2>4, <3>3, <4>1 DEF IsInjective
    <3>4. CASE ~(i \in 1..n /\ j \in 1..n)
      <4> HIDE DEF t
      <4> QED BY <2>6, <2>7, <3>1, <3>2, <3>4 DEF t
    <3> QED BY <3>3, <3>4
  <2> QED BY <2>3, <2>7, <2>9
<1> HIDE DEF S
<1>7. S \in SUBSET Nat  BY DEF S
<1>8. Len(bases) \in S /\ Len(bases) \in 0..Len(bases)  BY <1>1, <1>5, <1>6, <1>7, Counting
<1> QED BY <1>2, <1>8 DEF S

-----------------------------------------------------------------------------
(* Batches.                                                                *)

\* Division by a batch size.
LEMMA Division ==
  ASSUME NEW a \in Nat, NEW size \in Nat \ {0}
  PROVE  /\ a \div size \in Nat
         /\ (a \div size) * size <= a
         /\ a < ((a \div size) + 1) * size
OBVIOUS

LEMMA Multiples ==
  ASSUME NEW b \in Nat, NEW q \in Nat, NEW size \in Nat \ {0}
  PROVE  /\ b * size \in Nat
         /\ b <= q => b * size <= q * size
         /\ b * size < (q + 1) * size => b <= q
         /\ (b + 1) * size = b * size + size
OBVIOUS

\* How many batches of a size n rows make, and where a batch ends.
Batches(n, size) == (n + size - 1) \div size
BatchEnd(n, size, k) == IF k * size < n THEN k * size ELSE n

\* The batches reach to the last row, every batch is a stretch of the rows, and
\* every row is in a batch.
LEMMA BatchesCover ==
  ASSUME NEW n \in Nat, NEW size \in Nat \ {0}
  PROVE  /\ Batches(n, size) \in Nat
         /\ \A k \in 1..Batches(n, size) :
              /\ (k - 1) * size \in 0..n
              /\ BatchEnd(n, size, k) \in 0..n
              /\ (k - 1) * size <= BatchEnd(n, size, k)
         /\ \A k \in Nat : BatchEnd(n, size, k) \in 0..n
         /\ BatchEnd(n, size, 0) = 0
         /\ BatchEnd(n, size, Batches(n, size)) = n
         /\ \A i \in 1..n : \E k \in 1..Batches(n, size) :
              i \in ((k - 1) * size + 1)..BatchEnd(n, size, k)
<1> DEFINE q == Batches(n, size)
<1>1. n + size - 1 \in Nat  OBVIOUS
<1>2. q \in Nat /\ q * size <= n + size - 1 /\ n + size - 1 < (q + 1) * size
  BY <1>1, Division DEF Batches
<1> HIDE DEF q
<1>3. \A k \in Nat : k * size \in Nat  BY Multiples
<1>4. q * size >= n
  <2>1. (q + 1) * size = q * size + size  BY <1>2, Multiples
  <2>2. q * size \in Nat  BY <1>2, <1>3
  <2> QED BY <1>2, <2>1, <2>2
<1>5. \A k \in Nat : BatchEnd(n, size, k) \in 0..n
  BY <1>3 DEF BatchEnd
<1>6. BatchEnd(n, size, 0) = 0 /\ BatchEnd(n, size, q) = n
  <2>1. 0 * size = 0 /\ q * size \in Nat  BY <1>2, <1>3
  <2> QED BY <1>4, <2>1 DEF BatchEnd
<1>7. ASSUME NEW k \in 1..q
      PROVE  /\ (k - 1) * size \in 0..n /\ BatchEnd(n, size, k) \in 0..n
             /\ (k - 1) * size <= BatchEnd(n, size, k)
  <2>1. k \in Nat /\ k - 1 \in Nat /\ (k - 1) + 1 = k /\ k <= q  BY <1>2
  <2>2. k * size \in Nat /\ (k - 1) * size \in Nat /\ q * size \in Nat /\ k * size <= q * size
    BY <1>2, <1>3, <2>1, Multiples
  <2>3. k * size = (k - 1) * size + size
    <3>1. ((k - 1) + 1) * size = (k - 1) * size + size  BY <2>1, Multiples
    <3> QED BY <2>1, <3>1
  <2>4. (k - 1) * size <= n  BY <1>2, <2>2, <2>3
  <2>5. (k - 1) * size <= BatchEnd(n, size, k)  BY <2>2, <2>3, <2>4 DEF BatchEnd
  <2> QED BY <1>5, <2>1, <2>2, <2>4, <2>5
<1>8. ASSUME NEW i \in 1..n
      PROVE  \E k \in 1..q : i \in ((k - 1) * size + 1)..BatchEnd(n, size, k)
  <2> DEFINE b == (i - 1) \div size
  <2>1. i - 1 \in Nat  OBVIOUS
  <2>2. b \in Nat /\ b * size <= i - 1 /\ i - 1 < (b + 1) * size  BY <2>1, Division
  <2> HIDE DEF b
  <2>3. b * size \in Nat /\ (b + 1) * size \in Nat /\ (b + 1) - 1 = b  BY <1>3, <2>2
  <2>4. b + 1 \in 1..q
    <3>1. (b + 1) * size = b * size + size /\ (q + 1) * size = q * size + size
      BY <1>2, <2>2, Multiples
    <3>2. q * size \in Nat  BY <1>2, <1>3
    <3>3. (b + 1) * size < (q + 1) * size
      BY <1>2, <2>2, <2>3, <3>1, <3>2
    <3>4. b + 1 <= q  BY <1>2, <2>2, <3>3, Multiples
    <3> QED BY <1>2, <2>2, <3>4
  <2>5. i \in (b * size + 1)..BatchEnd(n, size, b + 1)
    BY <2>2, <2>3 DEF BatchEnd
  <2> QED BY <2>3, <2>4, <2>5
<1> QED BY <1>2, <1>5, <1>6, <1>7, <1>8 DEF q

\* The commands that copy a table's rows in batches copy these rows and no others.
LEMMA ChunkedCopies ==
  ASSUME NEW table, NEW rows, IsList(rows), NEW size \in Nat \ {0}
  PROVE  /\ IsList(Chunked(table, rows, size))
         /\ \A cmd \in ToSet(Chunked(table, rows, size)) :
              cmd = Copy(table, cmd.rows) /\ IsList(cmd.rows) /\ ToSet(cmd.rows) \subseteq ToSet(rows)
         /\ \A row \in ToSet(rows) :
              \E cmd \in ToSet(Chunked(table, rows, size)) : row \in ToSet(cmd.rows)
<1> DEFINE n == Len(rows)
           c == Chunked(table, rows, size)
           m == Batches(n, size)
           stretch(k) == SubSeq(rows, (k - 1) * size + 1, BatchEnd(n, size, k))
<1>1. n \in Nat /\ DOMAIN rows = 1..n  BY DEF IsList
<1>2. c = [k \in 1..m |-> Copy(table, stretch(k))]  BY DEF Chunked, Batches, BatchEnd
<1>3. /\ m \in Nat
      /\ \A k \in 1..m :
           /\ (k - 1) * size \in 0..n
           /\ BatchEnd(n, size, k) \in 0..n
           /\ (k - 1) * size <= BatchEnd(n, size, k)
      /\ \A i \in 1..n : \E k \in 1..m :
           i \in ((k - 1) * size + 1)..BatchEnd(n, size, k)
  BY <1>1, BatchesCover
<1>4. ASSUME NEW k \in 1..m
      PROVE  /\ IsList(stretch(k))
             /\ ToSet(stretch(k)) = {rows[i] : i \in ((k - 1) * size + 1)..BatchEnd(n, size, k)}
  <2>1. (k - 1) * size + 1 \in Nat \ {0} /\ BatchEnd(n, size, k) \in 0..n  BY <1>3
  <2> HIDE DEF m
  <2> QED BY <2>1, Stretch
<1>5. \A k \in 1..m : ToSet(stretch(k)) \subseteq ToSet(rows)
  <2>1. ASSUME NEW k \in 1..m, NEW i \in ((k - 1) * size + 1)..BatchEnd(n, size, k)
        PROVE  rows[i] \in ToSet(rows)
    <3>1. (k - 1) * size \in Nat /\ BatchEnd(n, size, k) \in 0..n  BY <1>3
    <3>2. i \in 1..n  BY <1>1, <3>1
    <3> QED BY <1>1, <3>2 DEF ToSet
  <2> HIDE DEF stretch
  <2> QED BY <1>4, <2>1
<1> HIDE DEF c, m, stretch, n
<1>6. c = [k \in 1..m |-> c[k]]  BY <1>2
<1>7. IsList(c) /\ ToSet(c) = {c[k] : k \in 1..m}  BY <1>3, <1>6, FirstNumbersMakeAList
<1>8. \A k \in 1..m : c[k] = Copy(table, stretch(k)) /\ c[k].rows = stretch(k)
  BY <1>2 DEF Copy
<1>9. \A cmd \in ToSet(c) :
        cmd = Copy(table, cmd.rows) /\ IsList(cmd.rows) /\ ToSet(cmd.rows) \subseteq ToSet(rows)
  BY <1>4, <1>5, <1>7, <1>8
<1>10. ASSUME NEW row \in ToSet(rows)  PROVE \E cmd \in ToSet(c) : row \in ToSet(cmd.rows)
  <2>1. PICK i \in 1..n : row = rows[i]  BY <1>1 DEF ToSet
  <2>2. PICK k \in 1..m : i \in ((k - 1) * size + 1)..BatchEnd(n, size, k)  BY <1>3
  <2>3. row \in ToSet(c[k].rows)  BY <1>4, <1>8, <2>1, <2>2
  <2> QED BY <1>7, <2>3
<1> QED BY <1>7, <1>9, <1>10 DEF c

-----------------------------------------------------------------------------
(* The rows of a run of import_notes_to_neon.py.                           *)

\* The columns of a topic's row.
TopicColumns(row) ==
  row = [id |-> row.id, slug |-> row.slug, group |-> row.group, domain |-> row.domain,
         count |-> row.count, null |-> row.null, live |-> row.live]

\* A row that run n writes carries n: in its id, in the ids it refers to, and in
\* the id of the section's or the link's topic.
RunRow(n, table, row) ==
  /\ RunOf(table, row) = n
  /\ table \in {"groups", "domains", "topics", "source_files"} => row.id = <<n, row.slug>>
  /\ table = "topic_sections" => row.topic[1] = n
  /\ table = "topic_source_links" => row = [topic |-> row.topic, source |-> row.source]
  /\ table = "topics" => TopicColumns(row)

LEMMA ListIsFinite ==
  ASSUME NEW s, IsList(s)
  PROVE  IsFiniteSet(ToSet(s))
<1> DEFINE n == Len(s)
<1>1. s \in Seq(ToSet(s))  BY DEF IsList
<1>2. n \in Nat /\ DOMAIN s = 1..n  BY <1>1
<1>3. IsFiniteSet(1..n)
  <2>1. 1 \in Int /\ n \in Int  BY <1>2
  <2> QED BY <2>1, FS_Interval
<1>4. s \in Surjection(1..n, ToSet(s))
  <2>1. s \in [1..n -> ToSet(s)]  BY <1>1
  <2>2. \A x \in ToSet(s) : \E i \in 1..n : s[i] = x  BY <1>2 DEF ToSet
  <2> HIDE DEF ToSet, n
  <2> QED BY <2>1, <2>2 DEF Surjection
<1> QED BY <1>3, <1>4, FS_Surjection

LEMMA LookupRows ==
  ASSUME NEW n, NEW slugs, IsFiniteSet(slugs)
  PROVE  /\ IsList(Lookup(n, slugs))
         /\ ToSet(Lookup(n, slugs)) = {[id |-> <<n, slug>>, slug |-> slug] : slug \in slugs}
<1> DEFINE S == {[id |-> <<n, slug>>, slug |-> slug] : slug \in slugs}
           f == [slug \in slugs |-> [id |-> <<n, slug>>, slug |-> slug]]
<1>1. f \in Surjection(slugs, S)  BY DEF Surjection
<1>2. IsFiniteSet(S)
  <2> HIDE DEF f, S
  <2> QED BY <1>1, FS_Surjection
<1> HIDE DEF S
<1>3. Lookup(n, slugs) = SetToSeq(S)  BY DEF Lookup, S
<1> QED BY <1>2, <1>3, SetInOrder DEF S

LEMMA LookupRowsCarryTheRun ==
  ASSUME NEW n, NEW slugs, IsFiniteSet(slugs),
         NEW table \in {"groups", "domains", "source_files"}
  PROVE  IsList(Lookup(n, slugs)) /\ \A row \in ToSet(Lookup(n, slugs)) : RunRow(n, table, row)
<1>1. \A slug \in slugs : RunRow(n, table, [id |-> <<n, slug>>, slug |-> slug])
  BY DEF RunRow, RunOf
<1> QED BY <1>1, LookupRows

\* What a seed is.
LEMMA SeedFacts ==
  ASSUME NEW seed \in Seq(SeedTopic)
  PROVE  /\ Len(seed) \in Nat /\ DOMAIN seed = 1..Len(seed)
         /\ \A i \in DOMAIN seed :
              /\ seed[i] \in SeedTopic
              /\ seed[i].id \in Slug
              /\ seed[i].sections \in Seq(SeedSection)
              /\ seed[i].sources \in Seq(Names)
<1>1. Len(seed) \in Nat /\ DOMAIN seed = 1..Len(seed) /\ \A i \in DOMAIN seed : seed[i] \in SeedTopic
  OBVIOUS
<1> QED BY <1>1 DEF SeedTopic

LEMMA LookupsCarryTheRun ==
  ASSUME NEW n, NEW seed \in Seq(SeedTopic)
  PROVE  /\ IsList(GroupRows(n, seed)) /\ IsList(DomainRows(n, seed)) /\ IsList(SourceRows(n, seed))
         /\ \A row \in ToSet(GroupRows(n, seed)) : RunRow(n, "groups", row)
         /\ \A row \in ToSet(DomainRows(n, seed)) : RunRow(n, "domains", row)
         /\ \A row \in ToSet(SourceRows(n, seed)) : RunRow(n, "source_files", row)
<1>1. Len(seed) \in Nat /\ DOMAIN seed = 1..Len(seed)  BY SeedFacts
<1>2. IsFiniteSet({seed[i].group : i \in DOMAIN seed})
  <2> DEFINE s == [i \in 1..Len(seed) |-> seed[i].group]
  <2>1. ToSet(s) = {seed[i].group : i \in DOMAIN seed}  BY <1>1 DEF ToSet
  <2>2. s = [i \in 1..Len(seed) |-> s[i]]  OBVIOUS
  <2> HIDE DEF s
  <2>3. IsList(s)  BY <1>1, <2>2, FirstNumbersMakeAList
  <2> QED BY <2>1, <2>3, ListIsFinite
<1>3. IsFiniteSet({seed[i].domain : i \in DOMAIN seed})
  <2> DEFINE s == [i \in 1..Len(seed) |-> seed[i].domain]
  <2>1. ToSet(s) = {seed[i].domain : i \in DOMAIN seed}  BY <1>1 DEF ToSet
  <2>2. s = [i \in 1..Len(seed) |-> s[i]]  OBVIOUS
  <2> HIDE DEF s
  <2>3. IsList(s)  BY <1>1, <2>2, FirstNumbersMakeAList
  <2> QED BY <2>1, <2>3, ListIsFinite
<1> DEFINE names == UNION {ToSet(seed[i].sources) : i \in DOMAIN seed}
           keys == {SourceKey(name) : name \in names}
<1>4. IsFiniteSet(names)
  <2> DEFINE s == [i \in 1..Len(seed) |-> ToSet(seed[i].sources)]
  <2>1. ToSet(s) = {ToSet(seed[i].sources) : i \in DOMAIN seed}  BY <1>1 DEF ToSet
  <2>2. s = [i \in 1..Len(seed) |-> s[i]]  OBVIOUS
  <2>3. \A i \in DOMAIN seed : IsFiniteSet(ToSet(seed[i].sources))
    BY SeedFacts, ListsAreSequences, ListIsFinite
  <2> HIDE DEF s
  <2>4. IsFiniteSet(ToSet(s))  BY <1>1, <2>2, FirstNumbersMakeAList, ListIsFinite
  <2> HIDE DEF ToSet
  <2>5. \A T \in ToSet(s) : IsFiniteSet(T)  BY <2>1, <2>3
  <2> QED BY <2>1, <2>4, <2>5, FS_UNION
<1> HIDE DEF names
<1>5. IsFiniteSet(keys)
  <2> DEFINE f == [name \in names |-> SourceKey(name)]
  <2>1. f \in Surjection(names, keys)  BY DEF Surjection
  <2> HIDE DEF f, keys
  <2> QED BY <1>4, <2>1, FS_Surjection
<1>6. GroupRows(n, seed) = Lookup(n, {seed[i].group : i \in DOMAIN seed})  BY DEF GroupRows
<1>7. DomainRows(n, seed) = Lookup(n, {seed[i].domain : i \in DOMAIN seed})  BY DEF DomainRows
<1>8. SourceRows(n, seed) = Lookup(n, keys)  BY DEF SourceRows, names
<1> HIDE DEF keys
<1>9. IsList(GroupRows(n, seed)) /\ \A row \in ToSet(GroupRows(n, seed)) : RunRow(n, "groups", row)
  BY <1>2, <1>6, LookupRowsCarryTheRun
<1>10. IsList(DomainRows(n, seed)) /\ \A row \in ToSet(DomainRows(n, seed)) : RunRow(n, "domains", row)
  BY <1>3, <1>7, LookupRowsCarryTheRun
<1>11. IsList(SourceRows(n, seed))
       /\ \A row \in ToSet(SourceRows(n, seed)) : RunRow(n, "source_files", row)
  BY <1>5, <1>8, LookupRowsCarryTheRun
<1> QED BY <1>9, <1>10, <1>11

\* Every topic of the seed gets a row of its own, with a slug of its own.
LEMMA TopicRowFacts ==
  ASSUME NEW n, NEW seed \in Seq(SeedTopic)
  PROVE  /\ IsList(TopicRows(n, seed)) /\ DOMAIN TopicRows(n, seed) = 1..Len(seed)
         /\ ToSet(TopicRows(n, seed)) = {TopicRows(n, seed)[i] : i \in 1..Len(seed)}
         /\ \A i \in 1..Len(seed) :
              /\ TopicRows(n, seed)[i].id = <<n, TopicSlugs(seed)[i]>>
              /\ TopicRows(n, seed)[i].slug = TopicSlugs(seed)[i]
              /\ TopicRows(n, seed)[i].count = Len(seed[i].sections)
              /\ RunRow(n, "topics", TopicRows(n, seed)[i])
         /\ \A i, j \in 1..Len(seed) :
              TopicRows(n, seed)[i].id = TopicRows(n, seed)[j].id => i = j
<1> DEFINE rows == TopicRows(n, seed)
           slugs == TopicSlugs(seed)
<1>1. Len(seed) \in Nat /\ DOMAIN seed = 1..Len(seed)  BY SeedFacts
<1>2. rows = [i \in 1..Len(seed) |->
        [id |-> <<n, slugs[i]>>, slug |-> slugs[i],
         group |-> <<n, seed[i].group>>, domain |-> <<n, seed[i].domain>>,
         count |-> Len(seed[i].sections), null |-> seed[i].blank, live |-> TRUE]]
  BY <1>1 DEF TopicRows
<1>3. IsInjective(slugs) /\ DOMAIN slugs = 1..Len(seed)
  <2> DEFINE bases == [i \in 1..Len(seed) |-> seed[i].id]
  <2>1. bases \in Seq(Slug) /\ Len(bases) = Len(seed)
    <3>1. bases \in [1..Len(seed) -> Slug]  BY <1>1, SeedFacts
    <3>2. bases \in Seq(Slug)  BY <1>1, <3>1
    <3>3. DOMAIN bases = 1..Len(seed)  OBVIOUS
    <3> HIDE DEF bases
    <3> QED BY <1>1, <3>2, <3>3
  <2>2. slugs = UniqueSlugs(bases)  BY <1>1 DEF TopicSlugs
  <2> HIDE DEF bases, slugs
  <2>3. slugs \in Seq(Slug) /\ Len(slugs) = Len(seed) /\ IsInjective(slugs)
    BY <2>1, <2>2, SlugsAreUnique
  <2> QED BY <2>3
<1> HIDE DEF rows, slugs
<1>4. \A i \in 1..Len(seed) :
        /\ rows[i].id = <<n, slugs[i]>> /\ rows[i].slug = slugs[i]
        /\ rows[i].count = Len(seed[i].sections)
  BY <1>2
<1>5. \A i \in 1..Len(seed) : RunRow(n, "topics", rows[i])
  <2>1. \A i \in 1..Len(seed) : TopicColumns(rows[i])  BY <1>2 DEF TopicColumns
  <2> QED BY <1>4, <2>1 DEF RunRow, RunOf
<1>6. \A i, j \in 1..Len(seed) : rows[i].id = rows[j].id => i = j
  BY <1>3, <1>4 DEF IsInjective
<1>7. rows = [i \in 1..Len(seed) |-> rows[i]]  BY <1>2
<1>8. /\ IsList(rows) /\ DOMAIN rows = 1..Len(seed)
      /\ ToSet(rows) = {rows[i] : i \in 1..Len(seed)}
  BY <1>1, <1>7, FirstNumbersMakeAList
<1> QED BY <1>4, <1>5, <1>6, <1>8 DEF rows, slugs

\* The id of a section is that of its topic and its slug.
LEMMA SectionIds ==
  ASSUME NEW n, NEW t, NEW s
  PROVE  (<<n, t>> \o <<s>>)[1] = n /\ (<<n, t>> \o <<s>>)[3] = s
<1> DEFINE S == {n, t, s}
<1>1. <<n, t>> \in Seq(S) /\ <<s>> \in Seq(S)  OBVIOUS
<1>2. Len(<<n, t>>) = 2 /\ Len(<<s>>) = 1  OBVIOUS
<1>3. <<n, t>>[1] = n /\ <<s>>[1] = s  OBVIOUS
<1>4. IsList(<<n, t>>) /\ IsList(<<s>>)  BY <1>1, ListsAreSequences
<1> DEFINE a == <<n, t>>
           b == <<s>>
<1> HIDE DEF a, b
<1>5. /\ \A i \in 1..Len(a) : (a \o b)[i] = a[i]
      /\ \A i \in 1..Len(b) : (a \o b)[Len(a) + i] = b[i]
  BY <1>4, Concatenated DEF a, b
<1>6. (a \o b)[1] = a[1]  BY <1>2, <1>5 DEF a, b
<1>7. (a \o b)[3] = b[1]
  <2>1. Len(a) = 2 /\ Len(b) = 1  BY <1>2 DEF a, b
  <2>2. 1 \in 1..Len(b) /\ Len(a) + 1 = 3  BY <2>1
  <2> QED BY <1>5, <2>2
<1> QED BY <1>3, <1>6, <1>7 DEF a, b

\* A topic with m sections gets m rows.
LEMMA SectionsOfTopic ==
  ASSUME NEW n, NEW topic, NEW t, topic.id = <<n, t>>, NEW list \in Seq(SeedSection)
  PROVE  /\ IsList(SectionsOf(n, topic, list))
         /\ \A row \in ToSet(SectionsOf(n, topic, list)) :
              row.topic = topic.id /\ RunRow(n, "topic_sections", row)
         /\ IsFiniteSet(ToSet(SectionsOf(n, topic, list)))
         /\ Cardinality(ToSet(SectionsOf(n, topic, list))) = Len(list)
<1> DEFINE rows == SectionsOf(n, topic, list)
           bases == [j \in 1..Len(list) |-> list[j].id]
           slugs == UniqueSlugs(bases)
           m == Len(list)
<1>1. m \in Nat /\ DOMAIN list = 1..m  OBVIOUS
<1>2. bases \in Seq(Slug) /\ Len(bases) = m
  <2>1. \A j \in 1..m : list[j].id \in Slug
    <3>1. \A j \in 1..m : list[j] \in SeedSection  BY <1>1
    <3> QED BY <3>1 DEF SeedSection
  <2>2. bases \in [1..m -> Slug]  BY <2>1
  <2>3. bases \in Seq(Slug) /\ DOMAIN bases = 1..m  BY <1>1, <2>2
  <2> HIDE DEF bases, m
  <2> QED BY <1>1, <2>3
<1>3. rows = [j \in 1..m |->
        [id |-> topic.id \o <<slugs[j]>>, topic |-> topic.id, slug |-> slugs[j],
         null |-> list[j].blank]]
  BY <1>1 DEF SectionsOf
<1> HIDE DEF rows, bases, m
<1>4. IsInjective(slugs) /\ DOMAIN slugs = 1..m
  <2> HIDE DEF slugs
  <2>1. slugs \in Seq(Slug) /\ Len(slugs) = m /\ IsInjective(slugs)
    BY <1>2, SlugsAreUnique DEF slugs
  <2> QED BY <2>1
<1> HIDE DEF slugs
<1>5. \A j \in 1..m :
        /\ rows[j].id = topic.id \o <<slugs[j]>> /\ rows[j].topic = topic.id
        /\ rows[j].slug = slugs[j]
  BY <1>3
<1>6. rows = [j \in 1..m |-> rows[j]]  BY <1>3
<1>7. IsList(rows) /\ Len(rows) = m /\ ToSet(rows) = {rows[j] : j \in 1..m}
  BY <1>1, <1>6, FirstNumbersMakeAList
<1>8. \A j \in 1..m : rows[j].topic = topic.id /\ RunRow(n, "topic_sections", rows[j])
  <2> SUFFICES ASSUME NEW j \in 1..m
               PROVE  rows[j].topic = topic.id /\ RunRow(n, "topic_sections", rows[j])
    OBVIOUS
  <2>1. rows[j].id = <<n, t>> \o <<slugs[j]>> /\ rows[j].topic = <<n, t>>  BY <1>5
  <2>2. rows[j].id[1] = n /\ rows[j].topic[1] = n  BY <2>1, SectionIds
  <2> QED BY <1>5, <2>2 DEF RunRow, RunOf
<1>9. IsFiniteSet(ToSet(rows)) /\ Cardinality(ToSet(rows)) = m
  <2> DEFINE f == [j \in 1..m |-> rows[j]]
  <2>1. ASSUME NEW i \in 1..m, NEW j \in 1..m, rows[i] = rows[j]
        PROVE  i = j
    <3>1. slugs[i] = slugs[j]  BY <1>5, <2>1
    <3> QED BY <1>4, <3>1 DEF IsInjective
  <2>2. f \in Surjection(1..m, ToSet(rows))  BY <1>7 DEF Surjection
  <2>3. f \in Injection(1..m, ToSet(rows))  BY <1>7, <2>1 DEF Injection, IsInjective
  <2>4. IsFiniteSet(1..m) /\ Cardinality(1..m) = m
    <3>1. 1 \in Int /\ m \in Int  BY <1>1
    <3>2. IsFiniteSet(1..m) /\ Cardinality(1..m) = IF 1 > m THEN 0 ELSE m - 1 + 1
      BY <3>1, FS_Interval
    <3> QED BY <1>1, <3>2
  <2> HIDE DEF f
  <2> QED BY <2>2, <2>3, <2>4, FS_Surjection
<1> QED BY <1>7, <1>8, <1>9 DEF rows, m

\* The sections of the seed: those of each of its topics.
LEMMA SectionRowFacts ==
  ASSUME NEW n, NEW seed \in Seq(SeedTopic)
  PROVE  /\ IsList(SectionRows(n, seed))
         /\ ToSet(SectionRows(n, seed))
              = UNION {ToSet(SectionsOf(n, TopicRows(n, seed)[i], seed[i].sections)) :
                         i \in 1..Len(seed)}
         /\ \A row \in ToSet(SectionRows(n, seed)) : RunRow(n, "topic_sections", row)
<1> DEFINE lists == [i \in 1..Len(seed) |-> SectionsOf(n, TopicRows(n, seed)[i], seed[i].sections)]
<1>1. Len(seed) \in Nat /\ DOMAIN seed = 1..Len(seed)  BY SeedFacts
<1>2. SectionRows(n, seed) = FlattenSeq(lists)  BY <1>1 DEF SectionRows
<1>3. \A i \in 1..Len(seed) :
        /\ IsList(lists[i])
        /\ \A row \in ToSet(lists[i]) : RunRow(n, "topic_sections", row)
  <2> SUFFICES ASSUME NEW i \in 1..Len(seed)
               PROVE  /\ IsList(lists[i])
                      /\ \A row \in ToSet(lists[i]) : RunRow(n, "topic_sections", row)
    OBVIOUS
  <2>1. TopicRows(n, seed)[i].id = <<n, TopicSlugs(seed)[i]>>  BY TopicRowFacts
  <2>2. seed[i].sections \in Seq(SeedSection)  BY <1>1, SeedFacts
  <2> DEFINE topic == TopicRows(n, seed)[i]
             list == seed[i].sections
  <2>3. lists[i] = SectionsOf(n, topic, list)  OBVIOUS
  <2> HIDE DEF lists, topic, list
  <2>4. /\ IsList(SectionsOf(n, topic, list))
        /\ \A row \in ToSet(SectionsOf(n, topic, list)) : RunRow(n, "topic_sections", row)
    BY <2>1, <2>2, SectionsOfTopic DEF topic, list
  <2> QED BY <2>3, <2>4
<1>4. lists = [i \in 1..Len(seed) |-> lists[i]] /\ DOMAIN lists = 1..Len(seed)  OBVIOUS
<1>5. \A i \in 1..Len(seed) :
        lists[i] = SectionsOf(n, TopicRows(n, seed)[i], seed[i].sections)
  OBVIOUS
<1> HIDE DEF lists
<1>6. IsList(lists)  BY <1>1, <1>4, FirstNumbersMakeAList
<1>7. /\ IsList(FlattenSeq(lists))
      /\ ToSet(FlattenSeq(lists)) = UNION {ToSet(lists[i]) : i \in 1..Len(seed)}
  BY <1>3, <1>4, <1>6, Flattened
<1>8. UNION {ToSet(lists[i]) : i \in 1..Len(seed)}
        = UNION {ToSet(SectionsOf(n, TopicRows(n, seed)[i], seed[i].sections)) :
                   i \in 1..Len(seed)}
  <2>1. \A i \in 1..Len(seed) :
          ToSet(lists[i]) = ToSet(SectionsOf(n, TopicRows(n, seed)[i], seed[i].sections))
    BY <1>5
  <2> QED BY <2>1, Zenon
<1>9. ASSUME NEW row \in ToSet(FlattenSeq(lists))  PROVE RunRow(n, "topic_sections", row)
  <2>1. PICK i \in 1..Len(seed) : row \in ToSet(lists[i])  BY <1>7
  <2> QED BY <1>3, <2>1
<1> QED BY <1>2, <1>7, <1>8, <1>9

LEMMA LinkRowFacts ==
  ASSUME NEW n, NEW seed \in Seq(SeedTopic)
  PROVE  /\ IsList(LinkRows(n, seed))
         /\ \A row \in ToSet(LinkRows(n, seed)) : RunRow(n, "topic_source_links", row)
<1> DEFINE link(i, j) == [topic |-> TopicRows(n, seed)[i].id,
                          source |-> <<n, SourceKey(seed[i].sources[j])>>]
           links(i) == [j \in 1..Len(seed[i].sources) |-> link(i, j)]
           lists == [i \in 1..Len(seed) |-> links(i)]
<1>1. Len(seed) \in Nat /\ DOMAIN seed = 1..Len(seed)  BY SeedFacts
<1>2. \A i \in 1..Len(seed) :
        Len(seed[i].sources) \in Nat /\ DOMAIN seed[i].sources = 1..Len(seed[i].sources)
  BY <1>1, SeedFacts, ListsAreSequences
<1>3. LinkRows(n, seed) = FlattenSeq(lists)  BY <1>1, <1>2 DEF LinkRows
<1>4. \A i \in 1..Len(seed), j \in Nat : RunRow(n, "topic_source_links", link(i, j))
  BY TopicRowFacts DEF RunRow, RunOf
<1>5. \A i \in 1..Len(seed) :
        /\ IsList(lists[i])
        /\ \A row \in ToSet(lists[i]) : RunRow(n, "topic_source_links", row)
  <2> SUFFICES ASSUME NEW i \in 1..Len(seed)
               PROVE  /\ IsList(links(i))
                      /\ \A row \in ToSet(links(i)) : RunRow(n, "topic_source_links", row)
    OBVIOUS
  <2>1. links(i) = [j \in 1..Len(seed[i].sources) |-> links(i)[j]]  OBVIOUS
  <2>2. \A j \in 1..Len(seed[i].sources) : links(i)[j] = link(i, j)  OBVIOUS
  <2> HIDE DEF links, link
  <2>3. /\ IsList(links(i))
        /\ ToSet(links(i)) = {links(i)[j] : j \in 1..Len(seed[i].sources)}
    BY <1>2, <2>1, FirstNumbersMakeAList
  <2> QED BY <1>2, <1>4, <2>2, <2>3
<1>6. lists = [i \in 1..Len(seed) |-> lists[i]] /\ DOMAIN lists = 1..Len(seed)  OBVIOUS
<1> HIDE DEF lists, links, link
<1>7. IsList(lists)  BY <1>1, <1>6, FirstNumbersMakeAList
<1>8. /\ IsList(FlattenSeq(lists))
      /\ ToSet(FlattenSeq(lists)) = UNION {ToSet(lists[i]) : i \in 1..Len(seed)}
  BY <1>5, <1>6, <1>7, Flattened
<1>9. ASSUME NEW row \in ToSet(FlattenSeq(lists))  PROVE RunRow(n, "topic_source_links", row)
  <2>1. PICK i \in 1..Len(seed) : row \in ToSet(lists[i])  BY <1>8
  <2> QED BY <1>5, <2>1
<1> QED BY <1>3, <1>8, <1>9

-----------------------------------------------------------------------------
(* The commands of a run.                                                  *)

\* A command of run n: it copies rows of the run, truncates or selects.
RunCommand(n, cmd) ==
  /\ cmd.op \in {"copy", "truncate", "select"}
  /\ cmd.op = "copy" =>
       /\ cmd.table \in Tables /\ IsList(cmd.rows)
       /\ \A row \in ToSet(cmd.rows) : RunRow(n, cmd.table, row)

\* The commands of a run in order: nothing but the first one truncates.
RunScript(n, clean, s) ==
  /\ IsList(s)
  /\ \A i \in 1..Len(s) : RunCommand(n, s[i]) /\ (i # 1 => s[i].op # "truncate")
  /\ clean => Len(s) # 0 /\ s[1].op = "truncate"

LEMMA ScriptGoesOn ==
  ASSUME NEW n, NEW clean, NEW a, RunScript(n, clean, a),
         NEW b, IsList(b), \A cmd \in ToSet(b) : RunCommand(n, cmd) /\ cmd.op # "truncate"
  PROVE  /\ RunScript(n, clean, a \o b)
         /\ ToSet(a \o b) = ToSet(a) \cup ToSet(b)
<1> DEFINE c == a \o b
<1>1. IsList(a)  BY DEF RunScript
<1>2. /\ IsList(c) /\ Len(c) = Len(a) + Len(b) /\ ToSet(c) = ToSet(a) \cup ToSet(b)
      /\ \A i \in 1..Len(a) : c[i] = a[i]
      /\ \A i \in 1..Len(b) : c[Len(a) + i] = b[i]
  BY <1>1, Concatenated
<1> HIDE DEF c
<1>3. Len(a) \in Nat /\ Len(b) \in Nat /\ DOMAIN b = 1..Len(b)  BY <1>1 DEF IsList
<1>4. ASSUME NEW i \in 1..Len(c)
      PROVE  RunCommand(n, c[i]) /\ (i # 1 => c[i].op # "truncate")
  <2>1. CASE i \in 1..Len(a)  BY <1>2, <2>1 DEF RunScript
  <2>2. CASE ~(i \in 1..Len(a))
    <3>1. i - Len(a) \in 1..Len(b) /\ Len(a) + (i - Len(a)) = i  BY <1>2, <1>3, <2>2
    <3>2. c[i] = b[i - Len(a)]  BY <1>2, <3>1
    <3>3. c[i] \in ToSet(b)  BY <1>3, <3>1, <3>2 DEF ToSet
    <3> QED BY <3>3
  <2> QED BY <2>1, <2>2
<1>5. clean => Len(c) # 0 /\ c[1].op = "truncate"
  <2> SUFFICES ASSUME clean PROVE Len(c) # 0 /\ c[1].op = "truncate"  OBVIOUS
  <2>1. Len(a) # 0 /\ a[1].op = "truncate"  BY DEF RunScript
  <2>2. 1 \in 1..Len(a) /\ Len(c) # 0  BY <1>2, <1>3, <2>1
  <2> QED BY <1>2, <2>1, <2>2
<1> QED BY <1>2, <1>4, <1>5 DEF RunScript, c

LEMMA ShortLists ==
  /\ IsList(<< >>) /\ ToSet(<< >>) = {}
  /\ \A x : IsList(<<x>>) /\ ToSet(<<x>>) = {x} /\ Len(<<x>>) = 1
  /\ \A x, y : IsList(<<x, y>>) /\ ToSet(<<x, y>>) = {x, y}
<1>1. IsList(<< >>) /\ ToSet(<< >>) = {}  BY DEF IsList, ToSet
<1>2. ASSUME NEW x  PROVE IsList(<<x>>) /\ ToSet(<<x>>) = {x} /\ Len(<<x>>) = 1
  <2>1. <<x>> \in Seq({x}) /\ DOMAIN <<x>> = {1} /\ <<x>>[1] = x /\ Len(<<x>>) = 1  OBVIOUS
  <2>2. ToSet(<<x>>) = {x}  BY <2>1 DEF ToSet
  <2> QED BY <2>1, <2>2 DEF IsList
<1>3. ASSUME NEW x, NEW y  PROVE IsList(<<x, y>>) /\ ToSet(<<x, y>>) = {x, y}
  <2>1. <<x, y>> \in Seq({x, y}) /\ DOMAIN <<x, y>> = {1, 2}
        /\ <<x, y>>[1] = x /\ <<x, y>>[2] = y
    OBVIOUS
  <2>2. ToSet(<<x, y>>) = {x, y}  BY <2>1 DEF ToSet
  <2> QED BY <2>1, <2>2 DEF IsList
<1> QED BY <1>1, <1>2, <1>3

\* The rows that commands copy to a table.
LEMMA RowsOfCommands ==
  ASSUME NEW s, NEW table
  PROVE  \A row : row \in RowsOf(s, table) <=>
           \E cmd \in ToSet(s) : cmd.op = "copy" /\ cmd.table = table /\ row \in ToSet(cmd.rows)
BY DEF RowsOf

\* Commands that copy rows to one table, and no others; the rows that they copy.
CopiesTo(n, table, s) ==
  IsList(s) /\ \A cmd \in ToSet(s) : RunCommand(n, cmd) /\ cmd.op = "copy" /\ cmd.table = table
Copied(s) == UNION {ToSet(cmd.rows) : cmd \in ToSet(s)}

\* What the batches of a table copy.
LEMMA ChunkedCommands ==
  ASSUME NEW n, NEW table \in Tables, NEW rows, IsList(rows), NEW size \in Nat \ {0},
         \A row \in ToSet(rows) : RunRow(n, table, row)
  PROVE  /\ CopiesTo(n, table, Chunked(table, rows, size))
         /\ ToSet(rows) = Copied(Chunked(table, rows, size))
<1> DEFINE c == Chunked(table, rows, size)
<1>1. /\ IsList(c)
      /\ \A cmd \in ToSet(c) :
           cmd = Copy(table, cmd.rows) /\ IsList(cmd.rows) /\ ToSet(cmd.rows) \subseteq ToSet(rows)
      /\ \A row \in ToSet(rows) : \E cmd \in ToSet(c) : row \in ToSet(cmd.rows)
  BY ChunkedCopies
<1> HIDE DEF c
<1>2. \A cmd \in ToSet(c) : cmd.op = "copy" /\ cmd.table = table  BY <1>1 DEF Copy
<1>3. \A cmd \in ToSet(c) : RunCommand(n, cmd)  BY <1>1, <1>2 DEF RunCommand
<1>4. ToSet(rows) = UNION {ToSet(cmd.rows) : cmd \in ToSet(c)}  BY <1>1
<1> QED BY <1>1, <1>2, <1>3, <1>4 DEF c, CopiesTo, Copied

\* The plan of run n: its commands, and what they copy to the topics and sections.
LEMMA PlanFacts ==
  ASSUME BatchAssumption, NEW n, NEW seed \in Seq(SeedTopic),
         NEW options \in [clean : BOOLEAN, search : BOOLEAN]
  PROVE  /\ RunScript(n, options.clean, Plan(n, seed, options))
         /\ RowsOf(Plan(n, seed, options), "topics") = ToSet(TopicRows(n, seed))
         /\ RowsOf(Plan(n, seed, options), "topic_sections") = ToSet(SectionRows(n, seed))
<1> DEFINE a == IF options.clean THEN <<Truncate>> ELSE << >>
           b == <<Copy("groups", GroupRows(n, seed)), Copy("domains", DomainRows(n, seed))>>
           c == Chunked("topics", TopicRows(n, seed), TopicBatch)
           d == Chunked("topic_sections", SectionRows(n, seed), SectionBatch)
           e == <<Copy("source_files", SourceRows(n, seed))>>
           f == Chunked("topic_source_links", LinkRows(n, seed), LinkBatch)
           g == IF options.search THEN <<Select>> ELSE << >>
           h == <<Select>>
           plan == Plan(n, seed, options)
           Copies(s) == IsList(s) /\ \A cmd \in ToSet(s) : RunCommand(n, cmd) /\ cmd.op # "truncate"
           Elsewhere(s) == \A cmd \in ToSet(s) :
                             cmd.op # "copy" \/ cmd.table \notin {"topics", "topic_sections"}
<1>1. plan = a \o b \o c \o d \o e \o f \o g \o h  BY DEF Plan
<1>2. /\ TopicBatch \in Nat \ {0} /\ SectionBatch \in Nat \ {0} /\ LinkBatch \in Nat \ {0}
  BY DEF BatchAssumption
<1>3. RunScript(n, options.clean, a) /\ Elsewhere(a)
  <2>1. CASE options.clean
    <3>1. IsList(a) /\ ToSet(a) = {Truncate} /\ Len(a) = 1 /\ a[1] = Truncate
      BY <2>1, ShortLists
    <3>2. \A i \in 1..1 : i = 1  OBVIOUS
    <3>3. Truncate.op = "truncate"  BY DEF Truncate
    <3>4. RunCommand(n, Truncate)  BY <3>3 DEF RunCommand
    <3> HIDE DEF a
    <3> QED BY <3>1, <3>2, <3>3, <3>4 DEF RunScript
  <2>2. CASE ~options.clean
    <3>1. a = << >>  BY <2>2
    <3>2. IsList(<< >>) /\ ToSet(<< >>) = {} /\ 1..Len(<< >>) = {}  BY ShortLists
    <3> HIDE DEF a
    <3> QED BY <2>2, <3>1, <3>2 DEF RunScript
  <2> QED BY <2>1, <2>2
<1>4. Copies(b) /\ Elsewhere(b)
  <2> DEFINE x == Copy("groups", GroupRows(n, seed))
             y == Copy("domains", DomainRows(n, seed))
  <2>1. IsList(b) /\ ToSet(b) = {x, y}  BY ShortLists
  <2>2. /\ x.op = "copy" /\ x.table = "groups" /\ x.rows = GroupRows(n, seed)
        /\ y.op = "copy" /\ y.table = "domains" /\ y.rows = DomainRows(n, seed)
    BY DEF Copy
  <2>3. RunCommand(n, x) /\ RunCommand(n, y)
    BY <2>2, LookupsCarryTheRun DEF RunCommand, Tables
  <2> HIDE DEF x, y, b
  <2> QED BY <2>1, <2>2, <2>3
<1>5. /\ Copies(c)
      /\ \A cmd \in ToSet(c) : cmd.op = "copy" /\ cmd.table = "topics"
      /\ ToSet(TopicRows(n, seed)) = Copied(c)
  <2>1. IsList(TopicRows(n, seed))
        /\ \A row \in ToSet(TopicRows(n, seed)) : RunRow(n, "topics", row)
    BY TopicRowFacts
  <2> DEFINE rows == TopicRows(n, seed)
             table == "topics"
  <2>2. table \in Tables  BY DEF Tables
  <2>3. IsList(rows) /\ \A row \in ToSet(rows) : RunRow(n, table, row)  BY <2>1
  <2>4. c = Chunked(table, rows, TopicBatch)  OBVIOUS
  <2> HIDE DEF c, rows, table
  <2>5. CopiesTo(n, table, c) /\ ToSet(rows) = Copied(c)
    BY <1>2, <2>2, <2>3, <2>4, ChunkedCommands
  <2>6. \A cmd \in ToSet(c) : RunCommand(n, cmd) /\ cmd.op = "copy" /\ cmd.table = table
    BY <2>5 DEF CopiesTo
  <2>7. IsList(c) /\ \A cmd \in ToSet(c) : cmd.op # "truncate"  BY <2>5, <2>6 DEF CopiesTo
  <2>8. Copies(c)  BY <2>6, <2>7
  <2> HIDE DEF Copies
  <2> QED BY <2>5, <2>6, <2>8 DEF rows, table
<1>6. /\ Copies(d)
      /\ \A cmd \in ToSet(d) : cmd.op = "copy" /\ cmd.table = "topic_sections"
      /\ ToSet(SectionRows(n, seed)) = Copied(d)
  <2>1. IsList(SectionRows(n, seed))
        /\ \A row \in ToSet(SectionRows(n, seed)) : RunRow(n, "topic_sections", row)
    BY SectionRowFacts
  <2> DEFINE rows == SectionRows(n, seed)
             table == "topic_sections"
  <2>2. table \in Tables  BY DEF Tables
  <2>3. IsList(rows) /\ \A row \in ToSet(rows) : RunRow(n, table, row)  BY <2>1
  <2>4. d = Chunked(table, rows, SectionBatch)  OBVIOUS
  <2> HIDE DEF d, rows, table
  <2>5. CopiesTo(n, table, d) /\ ToSet(rows) = Copied(d)
    BY <1>2, <2>2, <2>3, <2>4, ChunkedCommands
  <2>6. \A cmd \in ToSet(d) : RunCommand(n, cmd) /\ cmd.op = "copy" /\ cmd.table = table
    BY <2>5 DEF CopiesTo
  <2>7. IsList(d) /\ \A cmd \in ToSet(d) : cmd.op # "truncate"  BY <2>5, <2>6 DEF CopiesTo
  <2>8. Copies(d)  BY <2>6, <2>7
  <2> HIDE DEF Copies
  <2> QED BY <2>5, <2>6, <2>8 DEF rows, table
<1>7. Copies(e) /\ Elsewhere(e)
  <2> DEFINE x == Copy("source_files", SourceRows(n, seed))
  <2>1. IsList(e) /\ ToSet(e) = {x}  BY ShortLists
  <2>2. x.op = "copy" /\ x.table = "source_files" /\ x.rows = SourceRows(n, seed)  BY DEF Copy
  <2>3. RunCommand(n, x)  BY <2>2, LookupsCarryTheRun DEF RunCommand, Tables
  <2> HIDE DEF x, e
  <2> QED BY <2>1, <2>2, <2>3
<1>8. Copies(f) /\ Elsewhere(f)
  <2>1. IsList(LinkRows(n, seed))
        /\ \A row \in ToSet(LinkRows(n, seed)) : RunRow(n, "topic_source_links", row)
    BY LinkRowFacts
  <2> DEFINE rows == LinkRows(n, seed)
             table == "topic_source_links"
  <2>2. table \in Tables  BY DEF Tables
  <2>3. IsList(rows) /\ \A row \in ToSet(rows) : RunRow(n, table, row)  BY <2>1
  <2>4. f = Chunked(table, rows, LinkBatch)  OBVIOUS
  <2> HIDE DEF f, rows, table
  <2>5. CopiesTo(n, table, f)
    BY <1>2, <2>2, <2>3, <2>4, ChunkedCommands
  <2>6. \A cmd \in ToSet(f) : RunCommand(n, cmd) /\ cmd.op = "copy" /\ cmd.table = table
    BY <2>5 DEF CopiesTo
  <2>7. IsList(f) /\ \A cmd \in ToSet(f) : cmd.op # "truncate"  BY <2>5, <2>6 DEF CopiesTo
  <2>8. Copies(f)  BY <2>6, <2>7
  <2>9. Elsewhere(f)  BY <2>6 DEF table
  <2> QED BY <2>8, <2>9, Zenon
<1>9. Copies(g) /\ Elsewhere(g) /\ Copies(h) /\ Elsewhere(h)
  <2>1. RunCommand(n, Select) /\ Select.op = "select"  BY DEF RunCommand, Select
  <2>2. IsList(h) /\ ToSet(h) = {Select}  BY ShortLists
  <2>3. IsList(g) /\ ToSet(g) \subseteq {Select}  BY ShortLists
  <2> HIDE DEF g, h
  <2> QED BY <2>1, <2>2, <2>3
<1> HIDE DEF a, b, c, d, e, f, g, h, plan
<1>10. /\ RunScript(n, options.clean, a \o b)
       /\ ToSet(a \o b) = ToSet(a) \cup ToSet(b)
  BY <1>3, <1>4, ScriptGoesOn
<1>11. /\ RunScript(n, options.clean, a \o b \o c)
       /\ ToSet(a \o b \o c) = ToSet(a \o b) \cup ToSet(c)
  BY <1>5, <1>10, ScriptGoesOn
<1>12. /\ RunScript(n, options.clean, a \o b \o c \o d)
       /\ ToSet(a \o b \o c \o d) = ToSet(a \o b \o c) \cup ToSet(d)
  BY <1>6, <1>11, ScriptGoesOn
<1>13. /\ RunScript(n, options.clean, a \o b \o c \o d \o e)
       /\ ToSet(a \o b \o c \o d \o e) = ToSet(a \o b \o c \o d) \cup ToSet(e)
  BY <1>7, <1>12, ScriptGoesOn
<1>14. /\ RunScript(n, options.clean, a \o b \o c \o d \o e \o f)
       /\ ToSet(a \o b \o c \o d \o e \o f) = ToSet(a \o b \o c \o d \o e) \cup ToSet(f)
  BY <1>8, <1>13, ScriptGoesOn
<1>15. /\ RunScript(n, options.clean, a \o b \o c \o d \o e \o f \o g)
       /\ ToSet(a \o b \o c \o d \o e \o f \o g)
            = ToSet(a \o b \o c \o d \o e \o f) \cup ToSet(g)
  BY <1>9, <1>14, ScriptGoesOn
<1>16. /\ RunScript(n, options.clean, plan)
       /\ ToSet(plan) = ToSet(a \o b \o c \o d \o e \o f \o g) \cup ToSet(h)
  BY <1>1, <1>9, <1>15, ScriptGoesOn
<1>17. \A cmd : cmd \in ToSet(plan) <=>
         \/ cmd \in ToSet(a) \/ cmd \in ToSet(b) \/ cmd \in ToSet(c) \/ cmd \in ToSet(d)
         \/ cmd \in ToSet(e) \/ cmd \in ToSet(f) \/ cmd \in ToSet(g) \/ cmd \in ToSet(h)
  BY <1>10, <1>11, <1>12, <1>13, <1>14, <1>15, <1>16
<1>18. RowsOf(plan, "topics") = ToSet(TopicRows(n, seed))
  <2>1. \A cmd \in ToSet(plan) : cmd.op = "copy" /\ cmd.table = "topics" <=> cmd \in ToSet(c)
    BY <1>3, <1>4, <1>5, <1>6, <1>7, <1>8, <1>9, <1>17
  <2>2. \A row : row \in RowsOf(plan, "topics") <=>
          \E cmd \in ToSet(plan) : cmd.op = "copy" /\ cmd.table = "topics" /\ row \in ToSet(cmd.rows)
    BY RowsOfCommands
  <2>3. \A row : row \in RowsOf(plan, "topics") <=> row \in ToSet(TopicRows(n, seed))
    BY <1>5, <1>17, <2>1, <2>2 DEF Copied
  <2> QED BY <2>3
<1>19. RowsOf(plan, "topic_sections") = ToSet(SectionRows(n, seed))
  <2>1. \A cmd \in ToSet(plan) :
          cmd.op = "copy" /\ cmd.table = "topic_sections" <=> cmd \in ToSet(d)
    BY <1>3, <1>4, <1>5, <1>6, <1>7, <1>8, <1>9, <1>17
  <2>2. \A row : row \in RowsOf(plan, "topic_sections") <=>
          \E cmd \in ToSet(plan) :
            cmd.op = "copy" /\ cmd.table = "topic_sections" /\ row \in ToSet(cmd.rows)
    BY RowsOfCommands
  <2>3. \A row : row \in RowsOf(plan, "topic_sections") <=> row \in ToSet(SectionRows(n, seed))
    BY <1>6, <1>17, <2>1, <2>2 DEF Copied
  <2> QED BY <2>3
<1> QED BY <1>16, <1>18, <1>19 DEF plan

-----------------------------------------------------------------------------
(* The tables, whoever writes them.                                        *)

\* A row of a lookup table or of the topics is named by its slug, and a link is
\* nothing but what it links.
Shaped(table, row) ==
  /\ table \in {"groups", "domains", "topics", "source_files"} => row.id = <<row.id[1], row.slug>>
  /\ table = "topic_source_links" => row = [topic |-> row.topic, source |-> row.source]
  /\ table = "topics" => TopicColumns(row)

\* The runs a row carries have been started; 0 is the service.
Dated(n, table, row) ==
  /\ RunOf(table, row) \in 0..n
  /\ table = "topic_sections" => row.topic[1] \in 0..n

\* What the constraints ask of a table's rows, and of its references.
Keyed(table, rows) == \A r, q \in rows : r # q => ~Clash(table, r, q)
Bound(tables, table, r) == \A ref \in References(table, r) : \E q \in tables[ref[1]] : q.id = ref[2]

Sound(tables, n) ==
  /\ tables = [table \in Tables |-> tables[table]]
  /\ \A table \in Tables :
       /\ Keyed(table, tables[table])
       /\ \A r \in tables[table] :
            ~Null(table, r) /\ Shaped(table, r) /\ Dated(n, table, r) /\ Bound(tables, table, r)

LEMMA Common ==
  ASSUME NEW A, NEW B
  PROVE  A \cap B # {} <=> \E x : x \in A /\ x \in B
<1>1. ASSUME A \cap B # {}  PROVE \E x : x \in A /\ x \in B
  <2>1. PICK x : x \in A \cap B  BY <1>1
  <2> QED BY <2>1
<1>2. ASSUME NEW x, x \in A, x \in B  PROVE A \cap B # {}
  <2>1. x \in A \cap B  BY <1>2
  <2> QED BY <2>1
<1> QED BY <1>1, <1>2

\* When two rows of a table have a key in common.
LEMMA Clashes ==
  /\ \A r, q, table : table \in {"groups", "domains", "topics", "source_files"} =>
       (Clash(table, r, q) <=> r.id = q.id \/ r.slug = q.slug)
  /\ \A r, q : Clash("topic_sections", r, q) <=>
       r.id = q.id \/ (r.topic = q.topic /\ r.slug = q.slug)
  /\ \A r, q : Clash("topic_source_links", r, q) <=> r.topic = q.topic /\ r.source = q.source
<1>1. ASSUME NEW r, NEW q, NEW table \in {"groups", "domains", "topics", "source_files"}
      PROVE  Clash(table, r, q) <=> r.id = q.id \/ r.slug = q.slug
  <2>1. \A row : Keys(table, row) = {<<"id", row.id>>, <<"slug", row.slug>>}  BY DEF Keys
  <2>2. \A x : x \in Keys(table, r) <=> x = <<"id", r.id>> \/ x = <<"slug", r.slug>>  BY <2>1
  <2>3. \A x : x \in Keys(table, q) <=> x = <<"id", q.id>> \/ x = <<"slug", q.slug>>  BY <2>1
  <2>4. /\ \A x, y : <<"id", x>> = <<"id", y>> <=> x = y
        /\ \A x, y : <<"slug", x>> = <<"slug", y>> <=> x = y
        /\ \A x, y : <<"id", x>> # <<"slug", y>>
    OBVIOUS
  <2>5. Clash(table, r, q) <=> \E x : x \in Keys(table, r) /\ x \in Keys(table, q)
    BY Common, Zenon DEF Clash
  <2>6. ASSUME Clash(table, r, q)  PROVE r.id = q.id \/ r.slug = q.slug
    BY <2>2, <2>3, <2>4, <2>5, <2>6, SMT
  <2>7. ASSUME r.id = q.id  PROVE Clash(table, r, q)
    <3>1. <<"id", r.id>> \in Keys(table, r) /\ <<"id", r.id>> \in Keys(table, q)
      BY <2>2, <2>3, <2>7, Zenon
    <3> QED BY <2>5, <3>1, Zenon
  <2>8. ASSUME r.slug = q.slug  PROVE Clash(table, r, q)
    <3>1. <<"slug", r.slug>> \in Keys(table, r) /\ <<"slug", r.slug>> \in Keys(table, q)
      BY <2>2, <2>3, <2>8, Zenon
    <3> QED BY <2>5, <3>1, Zenon
  <2> QED BY <2>6, <2>7, <2>8
<1>2. ASSUME NEW r, NEW q
      PROVE  Clash("topic_sections", r, q) <=>
               r.id = q.id \/ (r.topic = q.topic /\ r.slug = q.slug)
  <2>1. \A row : Keys("topic_sections", row) = {<<"id", row.id>>, <<"slug", row.topic, row.slug>>}
    BY DEF Keys
  <2>2. \A x : x \in Keys("topic_sections", r) <=>
                 x = <<"id", r.id>> \/ x = <<"slug", r.topic, r.slug>>
    BY <2>1
  <2>3. \A x : x \in Keys("topic_sections", q) <=>
                 x = <<"id", q.id>> \/ x = <<"slug", q.topic, q.slug>>
    BY <2>1
  <2>4. /\ \A x, y : <<"id", x>> = <<"id", y>> <=> x = y
        /\ \A x, y, z, w : <<"slug", x, z>> = <<"slug", y, w>> <=> x = y /\ z = w
        /\ \A x, y, z : <<"id", x>> # <<"slug", y, z>>
    OBVIOUS
  <2>5. Clash("topic_sections", r, q)
          <=> \E x : x \in Keys("topic_sections", r) /\ x \in Keys("topic_sections", q)
    BY Common, Zenon DEF Clash
  <2>6. ASSUME Clash("topic_sections", r, q)
        PROVE  r.id = q.id \/ (r.topic = q.topic /\ r.slug = q.slug)
    BY <2>2, <2>3, <2>4, <2>5, <2>6, SMT
  <2>7. ASSUME r.id = q.id  PROVE Clash("topic_sections", r, q)
    <3>1. /\ <<"id", r.id>> \in Keys("topic_sections", r)
          /\ <<"id", r.id>> \in Keys("topic_sections", q)
      BY <2>2, <2>3, <2>7, Zenon
    <3> QED BY <2>5, <3>1, Zenon
  <2>8. ASSUME r.topic = q.topic, r.slug = q.slug  PROVE Clash("topic_sections", r, q)
    <3>1. /\ <<"slug", r.topic, r.slug>> \in Keys("topic_sections", r)
          /\ <<"slug", r.topic, r.slug>> \in Keys("topic_sections", q)
      BY <2>2, <2>3, <2>8, Zenon
    <3> QED BY <2>5, <3>1, Zenon
  <2> QED BY <2>6, <2>7, <2>8
<1>3. ASSUME NEW r, NEW q
      PROVE  Clash("topic_source_links", r, q) <=> r.topic = q.topic /\ r.source = q.source
  <2>1. \A row : Keys("topic_source_links", row) = {<<"id", row.topic, row.source>>}
    BY DEF Keys
  <2>2. \A x, y, z, w : <<"id", x, z>> = <<"id", y, w>> <=> x = y /\ z = w  OBVIOUS
  <2>3. Clash("topic_source_links", r, q)
          <=> \E x : x \in Keys("topic_source_links", r) /\ x \in Keys("topic_source_links", q)
    BY Common, Zenon DEF Clash
  <2>4. ASSUME Clash("topic_source_links", r, q)  PROVE r.topic = q.topic /\ r.source = q.source
    BY <2>1, <2>2, <2>3, <2>4
  <2>5. ASSUME r.topic = q.topic /\ r.source = q.source  PROVE Clash("topic_source_links", r, q)
    BY <2>1, <2>3, <2>5
  <2> QED BY <2>4, <2>5
<1> QED BY <1>1, <1>2, <1>3

\* What the rows of each table refer to.
LEMMA Referred ==
  /\ \A r, table : table \in {"groups", "domains", "source_files"} => References(table, r) = {}
  /\ \A r : References("topics", r) = {<<"groups", r.group>>, <<"domains", r.domain>>}
  /\ \A r : References("topic_sections", r) = {<<"topics", r.topic>>}
  /\ \A r : References("topic_source_links", r)
              = {<<"topics", r.topic>>, <<"source_files", r.source>>}
  /\ \A r, table, ref : table \in Tables /\ ref \in References(table, r) =>
       ref[1] \in {"groups", "domains", "topics", "source_files"}
<1>1. \A r, table : table \in {"groups", "domains", "source_files"} => References(table, r) = {}
  BY DEF References
<1>2. \A r : References("topics", r) = {<<"groups", r.group>>, <<"domains", r.domain>>}
  BY DEF References
<1>3. \A r : References("topic_sections", r) = {<<"topics", r.topic>>}  BY DEF References
<1>4. \A r : References("topic_source_links", r)
              = {<<"topics", r.topic>>, <<"source_files", r.source>>}
  BY DEF References
<1>5. ASSUME NEW r, NEW table \in Tables, NEW ref \in References(table, r)
      PROVE  ref[1] \in {"groups", "domains", "topics", "source_files"}
  <2>1. table \in {"groups", "domains", "source_files"} \/ table = "topics"
        \/ table = "topic_sections" \/ table = "topic_source_links"
    BY DEF Tables
  <2>2. CASE table \in {"groups", "domains", "source_files"}  BY <1>1, <2>2
  <2>3. CASE table = "topics"  BY <1>2, <2>3
  <2>4. CASE table = "topic_sections"  BY <1>3, <2>4
  <2>5. CASE table = "topic_source_links"  BY <1>4, <2>5
  <2> QED BY <2>1, <2>2, <2>3, <2>4, <2>5
<1> QED BY <1>1, <1>2, <1>3, <1>4, <1>5

LEMMA WithRows ==
  ASSUME NEW tables, tables = [t \in Tables |-> tables[t]], NEW table \in Tables, NEW rows
  PROVE  /\ With(tables, table, rows) = [t \in Tables |-> With(tables, table, rows)[t]]
         /\ With(tables, table, rows)[table] = tables[table] \cup ToSet(rows)
         /\ \A t \in Tables \ {table} : With(tables, table, rows)[t] = tables[t]
<1> DEFINE more == tables[table] \cup ToSet(rows)
<1>1. With(tables, table, rows) = [tables EXCEPT ![table] = more]  BY DEF With
<1> HIDE DEF more
<1>2. With(tables, table, rows) = [t \in Tables |-> IF t = table THEN more ELSE tables[t]]
  BY <1>1
<1> QED BY <1>2 DEF more

\* References hold as long as the ids they name are there.
LEMMA BoundStays ==
  ASSUME NEW tables, NEW next, NEW table \in Tables, NEW r, Bound(tables, table, r),
         \A t \in {"groups", "domains", "topics", "source_files"} : \A q \in tables[t] :
           \E p \in next[t] : p.id = q.id
  PROVE  Bound(next, table, r)
<1> SUFFICES ASSUME NEW ref \in References(table, r)  PROVE \E q \in next[ref[1]] : q.id = ref[2]
  BY DEF Bound
<1>1. ref[1] \in {"groups", "domains", "topics", "source_files"}  BY Referred
<1>2. PICK q \in tables[ref[1]] : q.id = ref[2]  BY DEF Bound
<1>3. PICK p \in next[ref[1]] : p.id = q.id  BY <1>1, <1>2
<1> QED BY <1>2, <1>3

\* Rows that fit leave the tables sound.
LEMMA RowsAdded ==
  ASSUME NEW n, NEW tables, Sound(tables, n), NEW table \in Tables, NEW rows, IsList(rows),
         Fits(tables, table, rows),
         \A row \in ToSet(rows) : Shaped(table, row) /\ Dated(n, table, row)
  PROVE  Sound(With(tables, table, rows), n)
<1> DEFINE next == With(tables, table, rows)
<1>1. /\ next = [t \in Tables |-> next[t]]
      /\ next[table] = tables[table] \cup ToSet(rows)
      /\ \A t \in Tables \ {table} : next[t] = tables[t]
  BY WithRows DEF Sound
<1> HIDE DEF next
<1>2. \A row \in ToSet(rows) : \E i \in DOMAIN rows : row = rows[i]  BY DEF ToSet
<1>3. ASSUME NEW t \in Tables, NEW r, Bound(tables, t, r)  PROVE Bound(next, t, r)
  <2>1. {"groups", "domains", "topics", "source_files"} \subseteq Tables  BY DEF Tables
  <2>2. \A s \in Tables : tables[s] \subseteq next[s]  BY <1>1
  <2> QED BY <1>3, <2>1, <2>2, BoundStays
<1>4. ASSUME NEW t \in Tables  PROVE Keyed(t, next[t])
  <2>1. Keyed(t, tables[t])  BY DEF Sound
  <2>2. CASE t # table
    <3>1. next[t] = tables[t]  BY <1>1, <2>2
    <3> QED BY <2>1, <3>1
  <2>3. CASE t = table
    <3> SUFFICES ASSUME NEW r \in next[t], NEW q \in next[t], r # q  PROVE ~Clash(t, r, q)
      BY DEF Keyed
    <3>1. \A x, y : Clash(t, x, y) <=> Clash(t, y, x)  BY DEF Clash
    <3>2. CASE r \in tables[t] /\ q \in tables[t]  BY <2>1, <3>2 DEF Keyed
    <3>3. ASSUME NEW i \in DOMAIN rows, NEW x \in tables[t]  PROVE ~Clash(t, rows[i], x)
      BY <2>3 DEF Fits
    <3>4. ASSUME NEW i \in DOMAIN rows, NEW j \in DOMAIN rows, i # j
          PROVE  ~Clash(t, rows[i], rows[j])
      BY <2>3, <3>4 DEF Fits
    <3>5. CASE r \in ToSet(rows) /\ q \in ToSet(rows)  BY <1>2, <3>4, <3>5
    <3>6. CASE r \in ToSet(rows) /\ q \in tables[t]  BY <1>2, <3>3, <3>6
    <3>7. CASE r \in tables[t] /\ q \in ToSet(rows)  BY <1>2, <3>1, <3>3, <3>7
    <3>8. \A x \in next[t] : x \in tables[t] \/ x \in ToSet(rows)  BY <1>1, <2>3
    <3> QED BY <3>2, <3>5, <3>6, <3>7, <3>8
  <2> QED BY <2>2, <2>3
<1>5. ASSUME NEW t \in Tables, NEW r \in next[t]
      PROVE  ~Null(t, r) /\ Shaped(t, r) /\ Dated(n, t, r) /\ Bound(next, t, r)
  <2>1. CASE r \in tables[t]
    <3>1. ~Null(t, r) /\ Shaped(t, r) /\ Dated(n, t, r) /\ Bound(tables, t, r)
      BY <2>1 DEF Sound
    <3> QED BY <1>3, <3>1
  <2>2. CASE r \notin tables[t]
    <3>1. t = table /\ r \in ToSet(rows)  BY <1>1, <2>2
    <3>2. PICK i \in DOMAIN rows : r = rows[i]  BY <1>2, <3>1
    <3>3. ~Null(t, r) /\ \A ref \in References(t, r) : \E q \in tables[ref[1]] : q.id = ref[2]
      BY <3>1, <3>2 DEF Fits
    <3>4. Bound(tables, t, r)  BY <3>3 DEF Bound
    <3> QED BY <1>3, <3>1, <3>3, <3>4
  <2> QED BY <2>1, <2>2
<1>6. Sound(next, n)  BY <1>1, <1>4, <1>5 DEF Sound
<1> QED BY <1>6 DEF next

\* get_or_create: the row of a name, which is there afterwards, and nothing else changes.
LEMMA NameIsThere ==
  ASSUME NEW n \in Nat, NEW tables, Sound(tables, n),
         NEW table \in {"groups", "domains", "source_files"}, NEW slug
  PROVE  LET next == GetOrCreate(tables, table, slug) IN
         /\ Sound(next, n)
         /\ tables[table] \subseteq next[table]
         /\ \A t \in Tables \ {table} : next[t] = tables[t]
         /\ \E r \in next[table] : r.slug = slug
         /\ \A r \in next[table] : r \in tables[table] \/ r.slug = slug
         /\ (\E r \in tables[table] : r.slug = slug) => next = tables
<1> DEFINE next == GetOrCreate(tables, table, slug)
           new == [id |-> <<0, slug>>, slug |-> slug]
<1>1. CASE \E r \in tables[table] : r.slug = slug
  <2>1. next = tables  BY <1>1 DEF GetOrCreate
  <2> HIDE DEF next
  <2>2. \E r \in next[table] : r.slug = slug  BY <1>1, <2>1
  <2> QED BY <2>1, <2>2 DEF next
<1>2. CASE ~\E r \in tables[table] : r.slug = slug
  <2>1. next = With(tables, table, <<new>>)  BY <1>2 DEF GetOrCreate
  <2>2. table \in Tables  BY DEF Tables
  <2>3. new.id = <<0, slug>> /\ new.slug = slug /\ new.id[1] = 0  OBVIOUS
  <2> HIDE DEF next, new
  <2>4. IsList(<<new>>) /\ ToSet(<<new>>) = {new}  BY ShortLists
  <2>5. DOMAIN <<new>> = {1} /\ <<new>>[1] = new  OBVIOUS
  <2>6. ~Null(table, new)  BY DEF Null
  <2>7. References(table, new) = {}  BY Referred
  <2>8. ASSUME NEW r \in tables[table]  PROVE ~Clash(table, new, r)
    <3>1. r.slug # slug  BY <1>2
    <3>2. r.id = <<r.id[1], r.slug>>  BY <2>2 DEF Sound, Shaped
    <3>3. r.id # <<0, slug>>
      <4> SUFFICES ASSUME r.id = <<0, slug>>  PROVE FALSE  OBVIOUS
      <4>1. <<r.id[1], r.slug>> = <<0, slug>>  BY <3>2
      <4> QED BY <3>1, <4>1
    <3> QED BY <2>3, <3>1, <3>3, Clashes
  <2>9. Fits(tables, table, <<new>>)
    <3> DEFINE rows == <<new>>
    <3>1. \A i \in DOMAIN rows : rows[i] = new  BY <2>5
    <3>2. \A i, j \in DOMAIN rows : i = j  BY <2>5
    <3> HIDE DEF rows
    <3>3. Fits(tables, table, rows)  BY <2>6, <2>7, <2>8, <3>1, <3>2 DEF Fits
    <3> QED BY <3>3 DEF rows
  <2>10. Shaped(table, new) /\ Dated(n, table, new)
    BY <2>3 DEF Shaped, Dated, RunOf
  <2>11. Sound(next, n)  BY <2>1, <2>2, <2>4, <2>9, <2>10, RowsAdded
  <2>12. next[table] = tables[table] \cup {new} /\ \A t \in Tables \ {table} : next[t] = tables[t]
    BY <2>1, <2>2, <2>4, WithRows DEF Sound
  <2>13. \E r \in next[table] : r.slug = slug  BY <2>3, <2>12
  <2>14. \A r \in next[table] : r \in tables[table] \/ r.slug = slug  BY <2>3, <2>12
  <2>15. tables[table] \subseteq next[table]  BY <2>12
  <2> QED BY <1>2, <2>11, <2>12, <2>13, <2>14, <2>15 DEF next
<1> QED BY <1>1, <1>2

\* The id that a name stands for is the id of a row with that name.
LEMMA IdOfName ==
  ASSUME NEW tables, NEW table, NEW slug, \E r \in tables[table] : r.slug = slug
  PROVE  \E r \in tables[table] : r.slug = slug /\ r.id = IdOf(tables, table, slug)
<1> DEFINE r == CHOOSE r \in tables[table] : r.slug = slug
<1>1. r \in tables[table] /\ r.slug = slug  OBVIOUS
<1>2. IdOf(tables, table, slug) = r.id  BY DEF IdOf
<1> HIDE DEF r
<1> QED BY <1>1, <1>2

\* Two topics with one slug are the same row.
LEMMA OneRowPerSlug ==
  ASSUME NEW n, NEW tables, Sound(tables, n),
         NEW table \in {"groups", "domains", "topics", "source_files"},
         NEW r \in tables[table], NEW q \in tables[table], r.slug = q.slug
  PROVE  r = q
<1>1. Keyed(table, tables[table])  BY DEF Sound, Tables
<1>2. Clash(table, r, q)  BY Clashes
<1> QED BY <1>1, <1>2 DEF Keyed

TopicPut(n, tables, item, next, id) ==
  /\ Sound(next, n)
  /\ id[1] \in 0..n
  /\ \E t \in next["topics"] :
       t.slug = item.id /\ t.live /\ t.id = id /\ t.count = Len(item.sections)
  /\ \A t \in tables["topics"] : t.slug # item.id => t \in next["topics"] /\ t.id # id
  /\ next["topic_sections"] = {r \in tables["topic_sections"] : r.topic # id}
  /\ next["topic_source_links"] = {r \in tables["topic_source_links"] : r.topic # id}
  /\ next["source_files"] = tables["source_files"]

\* create_topic_slim, update_topic_slim: the topic's row is there under its id, its
\* sections and links are gone, the other rows stay.
LEMMA TopicIsStored ==
  ASSUME NEW n \in Nat, NEW tables, Sound(tables, n), NEW item
  PROVE  TopicPut(n, tables, item, Stored(tables, item), IdOf(Stored(tables, item), "topics", item.id))
<1> DEFINE topics == tables["topics"]
           known == {r \in topics : r.slug = item.id}
           id == IF known = {} THEN <<0, item.id>> ELSE IdOf(tables, "topics", item.id)
           grouped == GetOrCreate(tables, "groups", item.group)
           named == GetOrCreate(grouped, "domains", item.domain)
           row == [id |-> id, slug |-> item.id, count |-> Len(item.sections), null |-> FALSE,
                   live |-> TRUE, group |-> IdOf(named, "groups", item.group),
                   domain |-> IdOf(named, "domains", item.domain)]
           next == Stored(tables, item)
<1>1. next = [named EXCEPT !["topics"] = (@ \ known) \cup {row},
                           !["topic_sections"] = {r \in @ : r.topic # id},
                           !["topic_source_links"] = {r \in @ : r.topic # id}]
  BY DEF Stored
<1>2. /\ {"groups", "domains", "topics", "source_files"} \subseteq Tables
      /\ "topic_sections" \in Tables /\ "topic_source_links" \in Tables
  BY DEF Tables
<1>3. /\ Sound(grouped, n)
      /\ tables["groups"] \subseteq grouped["groups"]
      /\ \A t \in Tables \ {"groups"} : grouped[t] = tables[t]
      /\ \E r \in grouped["groups"] : r.slug = item.group
  BY NameIsThere
<1> HIDE DEF next, row, named
<1>4. /\ Sound(named, n)
      /\ \A t \in Tables \ {"domains"} : named[t] = grouped[t]
      /\ \E r \in named["domains"] : r.slug = item.domain
  <2> HIDE DEF grouped
  <2> QED BY <1>3, NameIsThere DEF named
<1> HIDE DEF grouped, known, id, topics
<1>5. /\ named["topics"] = topics
      /\ named["topic_sections"] = tables["topic_sections"]
      /\ named["topic_source_links"] = tables["topic_source_links"]
      /\ named["source_files"] = tables["source_files"]
      /\ named["groups"] = grouped["groups"]
  BY <1>2, <1>3, <1>4 DEF topics
<1>6. named = [t \in Tables |-> named[t]]  BY <1>4 DEF Sound
<1>7. /\ next = [t \in Tables |-> next[t]]
      /\ next["topics"] = (topics \ known) \cup {row}
      /\ next["topic_sections"] = {r \in tables["topic_sections"] : r.topic # id}
      /\ next["topic_source_links"] = {r \in tables["topic_source_links"] : r.topic # id}
      /\ next["source_files"] = tables["source_files"]
      /\ next["groups"] = named["groups"]
      /\ next["domains"] = named["domains"]
  BY <1>1, <1>2, <1>5, <1>6
<1>8. /\ \A t \in topics : t.id = <<t.id[1], t.slug>> /\ t.id[1] \in 0..n
      /\ \A t \in topics, s \in topics : t # s => t.id # s.id /\ t.slug # s.slug
  <2>1. Keyed("topics", topics)  BY <1>2 DEF Sound, topics
  <2>2. \A t \in topics : Shaped("topics", t) /\ Dated(n, "topics", t)
    BY <1>2 DEF Sound, topics
  <2> QED BY <2>1, <2>2, Clashes DEF Shaped, Dated, RunOf, Keyed
<1>9. /\ id = <<id[1], item.id>> /\ id[1] \in 0..n
      /\ \A t \in known : t.id = id
      /\ \A t \in topics \ known : t.id # id /\ t.slug # item.id
  <2>1. CASE known = {}
    <3>1. id = <<0, item.id>>  BY <2>1 DEF id
    <3>2. id[1] = 0  BY <3>1
    <3>3. \A t \in topics : t.slug # item.id  BY <2>1 DEF known
    <3>4. \A t \in topics : t.id # id
      <4> SUFFICES ASSUME NEW t \in topics, t.id = id  PROVE FALSE  OBVIOUS
      <4>1. <<t.id[1], t.slug>> = <<0, item.id>>  BY <1>8, <3>1
      <4> QED BY <3>3, <4>1
    <3> QED BY <2>1, <3>1, <3>2, <3>3, <3>4
  <2>2. CASE known # {}
    <3>1. \E r \in tables["topics"] : r.slug = item.id  BY <2>2 DEF known, topics
    <3>2. id = IdOf(tables, "topics", item.id)  BY <2>2 DEF id
    <3>3. PICK t \in topics : t.slug = item.id /\ t.id = id  BY <3>1, <3>2, IdOfName DEF topics
    <3>4. \A s \in topics : s.slug = item.id => s = t  BY <1>8, <3>3
    <3>5. \A s \in topics : s \in known <=> s = t  BY <3>3, <3>4 DEF known
    <3>6. known \subseteq topics  BY DEF known
    <3> QED BY <1>8, <3>3, <3>5, <3>6
  <2> QED BY <2>1, <2>2
<1>10. /\ row.id = id /\ row.slug = item.id /\ row.count = Len(item.sections)
       /\ row.null = FALSE /\ row.live = TRUE
       /\ row.group = IdOf(named, "groups", item.group)
       /\ row.domain = IdOf(named, "domains", item.domain)
       /\ TopicColumns(row)
  BY DEF row, TopicColumns
<1>11. \A t \in {"groups", "domains", "topics", "source_files"} : \A q \in named[t] :
         \E p \in next[t] : p.id = q.id
  <2>1. ASSUME NEW q \in topics  PROVE \E p \in next["topics"] : p.id = q.id
    BY <1>7, <1>9, <1>10
  <2> QED BY <1>5, <1>7, <2>1
<1>12. \A t \in Tables : \A r : Bound(named, t, r) => Bound(next, t, r)  BY <1>11, BoundStays
<1>13. Bound(next, "topics", row)
  <2>1. \E g \in next["groups"] : g.id = row.group
    BY <1>3, <1>5, <1>7, <1>10, IdOfName
  <2>2. \E d \in next["domains"] : d.id = row.domain
    BY <1>4, <1>7, <1>10, IdOfName
  <2>3. References("topics", row) = {<<"groups", row.group>>, <<"domains", row.domain>>}
    BY Referred
  <2> QED BY <2>1, <2>2, <2>3 DEF Bound
<1>14. Keyed("topics", next["topics"])
  <2>1. \A t \in topics \ known : ~Clash("topics", t, row) /\ ~Clash("topics", row, t)
    BY <1>9, <1>10, Clashes
  <2>2. Keyed("topics", topics)  BY <1>2 DEF Sound, topics
  <2> QED BY <1>7, <2>1, <2>2 DEF Keyed
<1>15. ASSUME NEW r \in next["topics"]
       PROVE  ~Null("topics", r) /\ Shaped("topics", r) /\ Dated(n, "topics", r)
              /\ Bound(next, "topics", r)
  <2>1. CASE r = row
    <3>1. ~Null("topics", row)  BY <1>10 DEF Null
    <3>2. Shaped("topics", row) /\ Dated(n, "topics", row)
      BY <1>9, <1>10 DEF Shaped, Dated, RunOf
    <3> QED BY <1>13, <2>1, <3>1, <3>2
  <2>2. CASE r # row
    <3>1. r \in named["topics"]  BY <1>5, <1>7, <2>2
    <3>2. ~Null("topics", r) /\ Shaped("topics", r) /\ Dated(n, "topics", r)
          /\ Bound(named, "topics", r)
      BY <1>2, <1>4, <3>1 DEF Sound
    <3> QED BY <1>2, <1>12, <3>2
  <2> QED BY <2>1, <2>2
<1>16. ASSUME NEW t \in Tables \ {"topics"}
       PROVE  /\ Keyed(t, next[t])
              /\ \A r \in next[t] :
                   ~Null(t, r) /\ Shaped(t, r) /\ Dated(n, t, r) /\ Bound(next, t, r)
  <2>1. t \in {"groups", "domains", "source_files", "topic_sections", "topic_source_links"}
    BY DEF Tables
  <2>2. next[t] \subseteq named[t]  BY <1>5, <1>7, <2>1
  <2>3. /\ Keyed(t, named[t])
        /\ \A r \in named[t] :
             ~Null(t, r) /\ Shaped(t, r) /\ Dated(n, t, r) /\ Bound(named, t, r)
    BY <1>4 DEF Sound
  <2>4. Keyed(t, next[t])  BY <2>2, <2>3 DEF Keyed
  <2> QED BY <1>12, <2>2, <2>3, <2>4
<1>17. Sound(next, n)  BY <1>7, <1>14, <1>15, <1>16 DEF Sound
<1>18. IdOf(next, "topics", item.id) = id
  <2>1. row \in next["topics"] /\ row.slug = item.id  BY <1>7, <1>10
  <2>2. PICK r \in next["topics"] : r.slug = item.id /\ r.id = IdOf(next, "topics", item.id)
    BY <2>1, IdOfName
  <2>3. r = row  BY <1>17, <2>1, <2>2, OneRowPerSlug
  <2> QED BY <1>10, <2>2, <2>3
<1>19. \A t \in topics : t.slug # item.id => t \in next["topics"] /\ t.id # id
  BY <1>7, <1>9 DEF known
<1>20. row \in next["topics"]  BY <1>7
<1>21. TopicPut(n, tables, item, next, id)
  BY <1>7, <1>9, <1>10, <1>17, <1>19, <1>20 DEF topics, TopicPut
<1> QED BY <1>18, <1>21 DEF next

Plain(name) == <<"plain", name>>

\* next are the tables once the names have been linked to topic id in base: their
\* sources are there, each is linked to the topic, and nothing else changed.
LinkedTo(base, next, id, names) ==
  /\ \A t \in Tables \ {"source_files", "topic_source_links"} : next[t] = base[t]
  /\ base["source_files"] \subseteq next["source_files"]
  /\ \A s \in next["source_files"] :
       s \in base["source_files"] \/ \E name \in names : s.slug = Plain(name)
  /\ \A name \in names : \E s \in next["source_files"] : s.slug = Plain(name)
  /\ \A r : r \in next["topic_source_links"] <=>
       \/ r \in base["topic_source_links"]
       \/ \E name \in names : \E s \in next["source_files"] :
            s.slug = Plain(name) /\ r = [topic |-> id, source |-> s.id]

\* One name more.
LEMMA NameIsLinked ==
  ASSUME NEW n \in Nat, NEW base, NEW tables, Sound(tables, n), NEW id, id[1] \in 0..n,
         \E t \in base["topics"] : t.id = id,
         NEW names, LinkedTo(base, tables, id, names), NEW name
  PROVE  /\ Sound(Linked(tables, id, name), n)
         /\ LinkedTo(base, Linked(tables, id, name), id, names \cup {name})
<1> DEFINE found == GetOrCreate(tables, "source_files", Plain(name))
           link == [topic |-> id, source |-> IdOf(found, "source_files", Plain(name))]
           next == Linked(tables, id, name)
           after == names \cup {name}
<1>1. next = With(found, "topic_source_links", <<link>>)  BY DEF Linked, Plain
<1>2. link.topic = id /\ link.source = IdOf(found, "source_files", Plain(name))  OBVIOUS
<1>3. link = [topic |-> link.topic, source |-> link.source]  OBVIOUS
<1>4. /\ Sound(found, n)
      /\ tables["source_files"] \subseteq found["source_files"]
      /\ \A t \in Tables \ {"source_files"} : found[t] = tables[t]
      /\ \E r \in found["source_files"] : r.slug = Plain(name)
      /\ \A r \in found["source_files"] : r \in tables["source_files"] \/ r.slug = Plain(name)
  BY NameIsThere
<1>5. /\ "source_files" \in Tables /\ "topic_source_links" \in Tables /\ "topics" \in Tables
  BY DEF Tables
<1> HIDE DEF next, link, found
<1>6. IsList(<<link>>) /\ ToSet(<<link>>) = {link}  BY ShortLists
<1>7. /\ next = [t \in Tables |-> next[t]]
      /\ next["topic_source_links"] = found["topic_source_links"] \cup {link}
      /\ \A t \in Tables \ {"topic_source_links"} : next[t] = found[t]
  BY <1>1, <1>4, <1>5, <1>6, WithRows DEF Sound
<1>8. PICK src \in found["source_files"] : src.slug = Plain(name) /\ src.id = link.source
  BY <1>2, <1>4, IdOfName
<1>9. \A s \in found["source_files"] : s.slug = Plain(name) => s.id = link.source
  BY <1>4, <1>8, OneRowPerSlug
<1>10. Sound(next, n)
  <2>1. CASE link \in found["topic_source_links"]
    <3>1. next["topic_source_links"] = found["topic_source_links"]  BY <1>7, <2>1
    <3>2. found = [t \in Tables |-> found[t]]  BY <1>4 DEF Sound
    <3>3. \A t \in Tables : next[t] = found[t]  BY <1>7, <3>1
    <3>4. next = found  BY <1>7, <3>2, <3>3
    <3> QED BY <1>4, <3>4
  <2>2. CASE link \notin found["topic_source_links"]
    <3>1. ASSUME NEW r \in found["topic_source_links"]
          PROVE  ~Clash("topic_source_links", link, r)
      <4> SUFFICES ASSUME Clash("topic_source_links", link, r)  PROVE FALSE  OBVIOUS
      <4>1. link.topic = r.topic /\ link.source = r.source  BY Clashes
      <4>2. Shaped("topic_source_links", r)  BY <1>4, <1>5 DEF Sound
      <4>3. r = [topic |-> r.topic, source |-> r.source]  BY <4>2 DEF Shaped
      <4>4. r = link  BY <1>3, <4>1, <4>3
      <4> QED BY <2>2, <4>4
    <3>2. ~Null("topic_source_links", link)  BY DEF Null
    <3>3. \E q \in found["topics"] : q.id = link.topic
      <4>1. found["topics"] = base["topics"]  BY <1>4, <1>5 DEF LinkedTo
      <4> QED BY <1>2, <4>1
    <3>4. \E q \in found["source_files"] : q.id = link.source  BY <1>8
    <3>5. \A ref \in References("topic_source_links", link) :
            \E q \in found[ref[1]] : q.id = ref[2]
      <4>1. References("topic_source_links", link)
              = {<<"topics", link.topic>>, <<"source_files", link.source>>}
        BY Referred
      <4> QED BY <3>3, <3>4, <4>1
    <3>6. Fits(found, "topic_source_links", <<link>>)
      <4> DEFINE rows == <<link>>
      <4>1. \A i \in DOMAIN rows : rows[i] = link  OBVIOUS
      <4>2. \A i, j \in DOMAIN rows : i = j  OBVIOUS
      <4> HIDE DEF rows
      <4>3. Fits(found, "topic_source_links", rows)
        BY <3>1, <3>2, <3>5, <4>1, <4>2 DEF Fits
      <4> QED BY <4>3 DEF rows
    <3>7. Shaped("topic_source_links", link) /\ Dated(n, "topic_source_links", link)
      BY <1>2, <1>3 DEF Shaped, Dated, RunOf
    <3> QED BY <1>1, <1>4, <1>5, <1>6, <3>6, <3>7, RowsAdded
  <2> QED BY <2>1, <2>2
<1>11. next["source_files"] = found["source_files"]  BY <1>5, <1>7
<1>12. \A t \in Tables \ {"source_files", "topic_source_links"} : next[t] = base[t]
  BY <1>4, <1>7 DEF LinkedTo
<1>13. base["source_files"] \subseteq next["source_files"]  BY <1>4, <1>11 DEF LinkedTo
<1>14. \A s \in next["source_files"] :
         s \in base["source_files"] \/ \E m \in after : s.slug = Plain(m)
  BY <1>4, <1>11 DEF LinkedTo
<1>15. \A m \in after : \E s \in next["source_files"] : s.slug = Plain(m)
  BY <1>4, <1>11 DEF LinkedTo
<1>16. ASSUME NEW m, NEW s \in found["source_files"], s.slug = Plain(m), m \in names
       PROVE  \E q \in tables["source_files"] : q = s
  <2>1. PICK q \in tables["source_files"] : q.slug = Plain(m)  BY <1>16 DEF LinkedTo
  <2>2. q = s  BY <1>4, <1>16, <2>1, OneRowPerSlug
  <2> QED BY <2>2
<1>17. found["topic_source_links"] = tables["topic_source_links"]  BY <1>4, <1>5
<1>18. ASSUME NEW r
       PROVE  r \in next["topic_source_links"] <=>
                \/ r \in base["topic_source_links"]
                \/ \E m \in after : \E s \in next["source_files"] :
                     s.slug = Plain(m) /\ r = [topic |-> id, source |-> s.id]
  <2>1. r \in next["topic_source_links"] <=> r \in tables["topic_source_links"] \/ r = link
    BY <1>7, <1>17
  <2>2. r \in tables["topic_source_links"] <=>
          \/ r \in base["topic_source_links"]
          \/ \E m \in names : \E s \in tables["source_files"] :
               s.slug = Plain(m) /\ r = [topic |-> id, source |-> s.id]
    BY DEF LinkedTo
  <2>3. (\E m \in names : \E s \in tables["source_files"] :
           s.slug = Plain(m) /\ r = [topic |-> id, source |-> s.id])
        <=> \E m \in names : \E s \in next["source_files"] :
              s.slug = Plain(m) /\ r = [topic |-> id, source |-> s.id]
    BY <1>4, <1>11, <1>16
  <2>4. r = link <=> \E s \in next["source_files"] :
                       s.slug = Plain(name) /\ r = [topic |-> id, source |-> s.id]
    BY <1>2, <1>3, <1>8, <1>9, <1>11
  <2> QED BY <2>1, <2>2, <2>3, <2>4
<1>19. LinkedTo(base, next, id, after)  BY <1>12, <1>13, <1>14, <1>15, <1>18 DEF LinkedTo
<1> QED BY <1>10, <1>19 DEF next

LinkRule(base, id, names, f, n) ==
  f = [k \in 0..n |-> IF k = 0 THEN base ELSE Linked(f[k - 1], id, names[k])]

LEMMA LinkFunction ==
  ASSUME NEW base, NEW id, NEW names, NEW n \in Nat
  PROVE  \E f : LinkRule(base, id, names, f, n)
<1> DEFINE S == {m \in Nat : \E f : LinkRule(base, id, names, f, m)}
<1>1. 0 \in S
  <2> DEFINE f == [k \in 0..0 |-> base]
  <2>1. LinkRule(base, id, names, f, 0)
    <3>1. \A k \in 0..0 : k = 0  OBVIOUS
    <3> QED BY <3>1 DEF LinkRule
  <2> QED BY <2>1
<1>2. ASSUME NEW m \in S  PROVE m + 1 \in S
  <2>1. PICK f : LinkRule(base, id, names, f, m)  OBVIOUS
  <2> DEFINE new == Linked(f[m], id, names[m + 1])
             g == [k \in 0..(m + 1) |-> IF k = m + 1 THEN new ELSE f[k]]
  <2>2. m \in Nat  OBVIOUS
  <2> HIDE DEF new
  <2>3. ASSUME NEW k \in 0..(m + 1)
        PROVE  g[k] = IF k = 0 THEN base ELSE Linked(g[k - 1], id, names[k])
    <3>1. CASE k = m + 1
      <4>1. k # 0 /\ k - 1 = m /\ m \in 0..(m + 1) /\ m # m + 1  BY <2>2, <3>1
      <4>2. g[k - 1] = f[m] /\ g[k] = new  BY <3>1, <4>1
      <4> QED BY <3>1, <4>1, <4>2 DEF new
    <3>2. CASE k # m + 1
      <4>1. k \in 0..m  BY <2>2, <3>2
      <4>2. f[k] = IF k = 0 THEN base ELSE Linked(f[k - 1], id, names[k])
        BY <2>1, <4>1 DEF LinkRule
      <4>3. k # 0 => k - 1 \in 0..(m + 1) /\ k - 1 # m + 1  BY <2>2, <4>1
      <4>4. k # 0 => g[k - 1] = f[k - 1]  BY <4>3
      <4>5. g[k] = f[k]  BY <3>2
      <4> HIDE DEF g
      <4> QED BY <4>2, <4>4, <4>5
    <3> QED BY <3>1, <3>2
  <2>4. g = [k \in 0..(m + 1) |-> g[k]]  OBVIOUS
  <2> HIDE DEF g
  <2>5. LinkRule(base, id, names, g, m + 1)  BY <2>3, <2>4 DEF LinkRule
  <2> QED BY <2>2, <2>5
<1> HIDE DEF S
<1>3. S \in SUBSET Nat  BY DEF S
<1>4. n \in S  BY <1>1, <1>2, <1>3, Counting
<1> QED BY <1>4 DEF S

\* All names of a list.
LEMMA NamesAreLinked ==
  ASSUME NEW n \in Nat, NEW base, Sound(base, n), NEW id, id[1] \in 0..n,
         \E t \in base["topics"] : t.id = id,
         NEW names, IsList(names), NEW f, LinkRule(base, id, names, f, Len(names))
  PROVE  /\ Sound(f[Len(names)], n)
         /\ LinkedTo(base, f[Len(names)], id, ToSet(names))
<1> DEFINE m == Len(names)
           first(k) == {names[j] : j \in 1..k}
           S == {k \in Nat : k \in 0..m => Sound(f[k], n) /\ LinkedTo(base, f[k], id, first(k))}
<1>1. m \in Nat /\ DOMAIN names = 1..m  BY DEF IsList
<1>2. \A k \in 0..m : f[k] = IF k = 0 THEN base ELSE Linked(f[k - 1], id, names[k])
  BY DEF LinkRule
<1>3. 0 \in S
  <2>1. f[0] = base  BY <1>1, <1>2
  <2>2. 1..0 = {}  OBVIOUS
  <2>3. first(0) = {}  BY <2>2
  <2> HIDE DEF first
  <2>4. LinkedTo(base, base, id, first(0))  BY <2>3 DEF LinkedTo
  <2> QED BY <2>1, <2>4
<1>4. ASSUME NEW k \in S  PROVE k + 1 \in S
  <2> SUFFICES ASSUME k + 1 \in 0..m
               PROVE  Sound(f[k + 1], n) /\ LinkedTo(base, f[k + 1], id, first(k + 1))
    OBVIOUS
  <2>1. k \in Nat /\ k \in 0..m /\ k + 1 # 0 /\ (k + 1) - 1 = k  BY <1>1
  <2>2. Sound(f[k], n) /\ LinkedTo(base, f[k], id, first(k))  BY <2>1
  <2>3. f[k + 1] = Linked(f[k], id, names[k + 1])  BY <1>2, <2>1
  <2>4. first(k + 1) = first(k) \cup {names[k + 1]}
    <3>1. 1..(k + 1) = (1..k) \cup {k + 1}  BY <2>1
    <3> QED BY <3>1
  <2> HIDE DEF first
  <2> QED BY <2>2, <2>3, <2>4, NameIsLinked
<1> HIDE DEF S
<1>5. S \in SUBSET Nat  BY DEF S
<1>6. m \in S  BY <1>1, <1>3, <1>4, <1>5, Counting
<1>7. first(m) = ToSet(names)  BY <1>1 DEF ToSet
<1>8. m \in 0..m  BY <1>1
<1> HIDE DEF first
<1> QED BY <1>6, <1>7, <1>8 DEF S

-----------------------------------------------------------------------------
(* The service's side: one item of a request, then all of them.            *)

\* The topic of an item has the item's sections and the item's sources.
ItemStored(tables, item) ==
  \E t \in tables["topics"] :
    /\ t.slug = item.id /\ t.live
    /\ t.count = Len(item.sections)
    /\ {r.slug : r \in {q \in tables["topic_sections"] : q.topic = t.id}}
         = {s.id : s \in ToSet(item.sections)}
    /\ {r.source : r \in {q \in tables["topic_source_links"] : q.topic = t.id}}
         = {r.id : r \in {q \in tables["source_files"] :
                            q.slug \in {<<"plain", name>> : name \in ToSet(item.sources)}}}

\* The sources an item names are there.
SourcesThere(tables, item) ==
  \A name \in ToSet(item.sources) : \E s \in tables["source_files"] : s.slug = Plain(name)

SectionsPut(n, id, list, rows) ==
  /\ IsList(rows)
  /\ \A r \in ToSet(rows) :
       r.topic = id /\ Shaped("topic_sections", r) /\ Dated(n, "topic_sections", r)
  /\ {r.slug : r \in ToSet(rows)} = {s.id : s \in ToSet(list)}

\* The rows that replace a topic's sections.
LEMMA ReplacingSections ==
  ASSUME NEW n \in Nat, NEW id, id[1] \in 0..n, NEW list \in Seq(SeedSection)
  PROVE  SectionsPut(n, id, list, SectionRowsOf(id, list))
<1> DEFINE rows == SectionRowsOf(id, list)
           m == Len(list)
<1>1. m \in Nat /\ DOMAIN list = 1..m  OBVIOUS
<1>2. rows = [j \in 1..m |-> [id |-> <<0, id, list[j].id>>, topic |-> id, slug |-> list[j].id,
                              null |-> FALSE]]
  BY <1>1 DEF SectionRowsOf
<1> HIDE DEF rows, m
<1>3. \A j \in 1..m :
        rows[j].id = <<0, id, list[j].id>> /\ rows[j].topic = id /\ rows[j].slug = list[j].id
  BY <1>2
<1>4. rows = [j \in 1..m |-> rows[j]]  BY <1>2
<1>5. IsList(rows) /\ ToSet(rows) = {rows[j] : j \in 1..m}  BY <1>1, <1>4, FirstNumbersMakeAList
<1>6. \A j \in 1..m : rows[j].id[1] = 0  BY <1>3
<1>7. \A r \in ToSet(rows) : r.topic = id /\ r.id[1] = 0  BY <1>3, <1>5, <1>6
<1>8. \A r \in ToSet(rows) : Shaped("topic_sections", r) /\ Dated(n, "topic_sections", r)
  BY <1>7 DEF Shaped, Dated, RunOf
<1>9. ToSet(list) = {list[j] : j \in 1..m}  BY <1>1 DEF ToSet
<1>10. {r.slug : r \in ToSet(rows)} = {s.id : s \in ToSet(list)}
  <2>1. \A r \in ToSet(rows) : \E s \in ToSet(list) : r.slug = s.id  BY <1>3, <1>5, <1>9
  <2>2. \A s \in ToSet(list) : \E r \in ToSet(rows) : r.slug = s.id  BY <1>3, <1>5, <1>9
  <2> QED BY <2>1, <2>2
<1>11. SectionsPut(n, id, list, rows)  BY <1>5, <1>7, <1>8, <1>10 DEF SectionsPut
<1> QED BY <1>11 DEF rows

\* bulk_upsert_topics_fast, one item: the tables stay sound; when the item is taken
\* it is stored, and the items stored before under other slugs still are.
LEMMA ItemIsUpserted ==
  ASSUME NEW n \in Nat, NEW result, result = [ok |-> result.ok, tables |-> result.tables],
         Sound(result.tables, n), NEW item \in SeedTopic
  PROVE  LET next == Upsert(result, item) IN
         /\ next = [ok |-> next.ok, tables |-> next.tables]
         /\ Sound(next.tables, n)
         /\ next.ok =>
              /\ result.ok
              /\ ItemStored(next.tables, item) /\ SourcesThere(next.tables, item)
              /\ \A other :
                   /\ other.id # item.id
                   /\ ItemStored(result.tables, other) /\ SourcesThere(result.tables, other)
                   => ItemStored(next.tables, other) /\ SourcesThere(next.tables, other)
<1> DEFINE tables == result.tables
           stored == Stored(tables, item)
           id == IdOf(stored, "topics", item.id)
           rows == SectionRowsOf(id, item.sections)
           names == SetToSeq(ToSet(item.sources))
           base == With(stored, "topic_sections", rows)
           f == CHOOSE h : LinkRule(base, id, names, h, Len(names))
           final == f[Len(names)]
           known == {r \in tables["topics"] : r.slug = item.id}
           archived == \E r \in known : ~r.live
           refused == \/ ~result.ok \/ archived \/ (known = {} /\ item.sections = << >>)
                      \/ ~Fits(stored, "topic_sections", rows)
           next == Upsert(result, item)
<1>1. next = IF refused THEN [result EXCEPT !.ok = FALSE] ELSE [ok |-> TRUE, tables |-> final]
  BY DEF Upsert, LinkRule
<1>2. item.sections \in Seq(SeedSection) /\ item.sources \in Seq(Names)  BY DEF SeedTopic
<1>3. IsList(names) /\ ToSet(names) = ToSet(item.sources)
  <2>1. IsFiniteSet(ToSet(item.sources))  BY <1>2, ListsAreSequences, ListIsFinite
  <2> QED BY <2>1, SetInOrder
<1>4. /\ "topics" \in Tables /\ "topic_sections" \in Tables
      /\ "source_files" \in Tables /\ "topic_source_links" \in Tables
  BY DEF Tables
<1> HIDE DEF stored, names, f, refused, next
<1>5. CASE refused
  <2>1. next = [ok |-> FALSE, tables |-> tables]
    <3> DEFINE pair == [ok |-> result.ok, tables |-> result.tables]
    <3>1. \A c : [pair EXCEPT !.ok = c] = [ok |-> c, tables |-> tables]  OBVIOUS
    <3>2. result = pair  OBVIOUS
    <3> HIDE DEF pair
    <3>3. [result EXCEPT !.ok = FALSE] = [pair EXCEPT !.ok = FALSE]  BY <3>2
    <3>4. next = [result EXCEPT !.ok = FALSE]  BY <1>1, <1>5
    <3> QED BY <3>1, <3>3, <3>4, Zenon
  <2>2. next.ok = FALSE /\ next.tables = tables  BY <2>1
  <2> QED BY <2>1, <2>2 DEF next
<1>6. CASE ~refused
  <2>1. next.ok = TRUE /\ next.tables = final /\ next = [ok |-> next.ok, tables |-> next.tables]
    BY <1>1, <1>6
  <2>2. result.ok /\ Fits(stored, "topic_sections", rows)  BY <1>6 DEF refused
  <2> HIDE DEF tables
  <2>3. Sound(tables, n)  BY DEF tables
  <2>4. /\ Sound(stored, n)
        /\ id[1] \in 0..n
        /\ \E t \in stored["topics"] :
             t.slug = item.id /\ t.live /\ t.id = id /\ t.count = Len(item.sections)
        /\ \A t \in tables["topics"] : t.slug # item.id => t \in stored["topics"] /\ t.id # id
        /\ stored["topic_sections"] = {r \in tables["topic_sections"] : r.topic # id}
        /\ stored["topic_source_links"] = {r \in tables["topic_source_links"] : r.topic # id}
        /\ stored["source_files"] = tables["source_files"]
    <3> HIDE DEF id
    <3>1. TopicPut(n, tables, item, stored, id)  BY <2>3, TopicIsStored DEF stored, id
    <3> QED BY <3>1 DEF TopicPut
  <2> HIDE DEF id
  <2>5. id[1] \in 0..n  BY <2>4
  <2>6. /\ IsList(rows)
        /\ \A r \in ToSet(rows) :
             r.topic = id /\ Shaped("topic_sections", r) /\ Dated(n, "topic_sections", r)
        /\ {r.slug : r \in ToSet(rows)} = {s.id : s \in ToSet(item.sections)}
    <3>1. SectionsPut(n, id, item.sections, rows)  BY <1>2, <2>5, ReplacingSections
    <3> HIDE DEF rows
    <3> QED BY <3>1 DEF SectionsPut
  <2> HIDE DEF rows
  <2>7. \A r \in ToSet(rows) : Shaped("topic_sections", r) /\ Dated(n, "topic_sections", r)
    BY <2>6
  <2>8. Sound(base, n)  BY <1>4, <2>2, <2>4, <2>6, <2>7, RowsAdded
  <2>9. /\ base["topic_sections"] = stored["topic_sections"] \cup ToSet(rows)
        /\ \A t \in Tables \ {"topic_sections"} : base[t] = stored[t]
    <3>1. stored = [t \in Tables |-> stored[t]]  BY <2>4 DEF Sound
    <3> QED BY <1>4, <3>1, WithRows
  <2> HIDE DEF base, final
  <2>10. LinkRule(base, id, names, f, Len(names))
    <3>1. Len(names) \in Nat  BY <1>3 DEF IsList
    <3> QED BY <3>1, LinkFunction DEF f
  <2>11. base["topics"] = stored["topics"]  BY <1>4, <2>9
  <2>12. Sound(final, n) /\ LinkedTo(base, final, id, ToSet(item.sources))
    BY <1>3, <2>4, <2>8, <2>10, <2>11, NamesAreLinked DEF final
  <2>13. /\ final["topics"] = stored["topics"]
         /\ final["topic_sections"] = stored["topic_sections"] \cup ToSet(rows)
         /\ stored["source_files"] \subseteq final["source_files"]
         /\ \A s \in final["source_files"] :
              s \in stored["source_files"] \/ \E name \in ToSet(item.sources) : s.slug = Plain(name)
         /\ \A name \in ToSet(item.sources) : \E s \in final["source_files"] : s.slug = Plain(name)
         /\ \A r : r \in final["topic_source_links"] <=>
              \/ r \in stored["topic_source_links"]
              \/ \E name \in ToSet(item.sources) : \E s \in final["source_files"] :
                   s.slug = Plain(name) /\ r = [topic |-> id, source |-> s.id]
    BY <1>4, <2>9, <2>11, <2>12 DEF LinkedTo
  <2>14. ItemStored(final, item)
    <3>1. PICK t \in final["topics"] :
            t.slug = item.id /\ t.live /\ t.id = id /\ t.count = Len(item.sections)
      BY <2>4, <2>13
    <3>2. {q \in final["topic_sections"] : q.topic = id} = ToSet(rows)
      BY <2>4, <2>6, <2>13
    <3>3. {r.slug : r \in {q \in final["topic_sections"] : q.topic = t.id}}
            = {s.id : s \in ToSet(item.sections)}
      BY <2>6, <3>1, <3>2
    <3> DEFINE links == {q \in final["topic_source_links"] : q.topic = t.id}
               sources == {q \in final["source_files"] :
                             q.slug \in {<<"plain", name>> : name \in ToSet(item.sources)}}
    <3>4. \A q : q \in sources <=>
            q \in final["source_files"] /\ \E name \in ToSet(item.sources) : q.slug = Plain(name)
      BY DEF Plain
    <3>5. \A q : q \in links <=> \E s \in sources : q = [topic |-> id, source |-> s.id]
      <4>1. \A q : q \in links <=> q \in final["topic_source_links"] /\ q.topic = id  BY <3>1
      <4>2. \A q \in stored["topic_source_links"] : q.topic # id  BY <2>4
      <4>3. \A x : [topic |-> id, source |-> x].topic = id  OBVIOUS
      <4> HIDE DEF links, sources
      <4>4. ASSUME NEW q \in links  PROVE \E s \in sources : q = [topic |-> id, source |-> s.id]
        <5>1. PICK name \in ToSet(item.sources) : \E s \in final["source_files"] :
                s.slug = Plain(name) /\ q = [topic |-> id, source |-> s.id]
          BY <2>13, <4>1, <4>2
        <5> QED BY <3>4, <5>1
      <4>5. ASSUME NEW s \in sources  PROVE [topic |-> id, source |-> s.id] \in links
        BY <2>13, <3>4, <4>1, <4>3
      <4> QED BY <4>4, <4>5
    <3> HIDE DEF links, sources
    <3>6. {r.source : r \in links} = {s.id : s \in sources}
      <4>1. ASSUME NEW r \in links  PROVE r.source \in {s.id : s \in sources}
        <5>1. PICK s \in sources : r = [topic |-> id, source |-> s.id]  BY <3>5
        <5>2. r.source = s.id  BY <5>1
        <5> QED BY <5>2
      <4>2. ASSUME NEW s \in sources  PROVE s.id \in {r.source : r \in links}
        <5> DEFINE r == [topic |-> id, source |-> s.id]
        <5>1. r \in links /\ r.source = s.id  BY <3>5
        <5> QED BY <5>1
      <4> QED BY <4>1, <4>2
    <3> QED BY <3>1, <3>3, <3>6 DEF ItemStored, links, sources
  <2>15. SourcesThere(final, item)  BY <2>13 DEF SourcesThere
  <2>16. ASSUME NEW other, other.id # item.id, ItemStored(tables, other), SourcesThere(tables, other)
         PROVE  ItemStored(final, other) /\ SourcesThere(final, other)
    <3> DEFINE OfOther(where) == {q \in where["source_files"] :
                             q.slug \in {<<"plain", name>> : name \in ToSet(other.sources)}}
    <3>1. PICK t \in tables["topics"] :
            /\ t.slug = other.id /\ t.live
            /\ t.count = Len(other.sections)
            /\ {r.slug : r \in {q \in tables["topic_sections"] : q.topic = t.id}}
                 = {s.id : s \in ToSet(other.sections)}
            /\ {r.source : r \in {q \in tables["topic_source_links"] : q.topic = t.id}}
                 = {r.id : r \in OfOther(tables)}
      BY <2>16 DEF ItemStored
    <3>2. t \in final["topics"] /\ t.id # id  BY <2>4, <2>13, <2>16, <3>1
    <3>3. {q \in final["topic_sections"] : q.topic = t.id}
            = {q \in tables["topic_sections"] : q.topic = t.id}
      BY <2>4, <2>6, <2>13, <3>2
    <3>4. {q \in final["topic_source_links"] : q.topic = t.id}
            = {q \in tables["topic_source_links"] : q.topic = t.id}
      <4>1. ASSUME NEW q \in final["topic_source_links"], q.topic = t.id
            PROVE  q \in tables["topic_source_links"]
        <5>1. \A x : [topic |-> id, source |-> x].topic = id  OBVIOUS
        <5>2. q \in stored["topic_source_links"]  BY <2>13, <3>2, <4>1, <5>1
        <5> QED BY <2>4, <5>2
      <4>2. ASSUME NEW q \in tables["topic_source_links"], q.topic = t.id
            PROVE  q \in final["topic_source_links"]
        BY <2>4, <2>13, <3>2, <4>2
      <4> QED BY <4>1, <4>2
    <3>5. \A s : s \in OfOther(final) => s \in OfOther(tables)
      <4> SUFFICES ASSUME NEW s \in OfOther(final)  PROVE s \in OfOther(tables)  OBVIOUS
      <4>1. PICK name \in ToSet(other.sources) : s.slug = Plain(name)  BY DEF Plain
      <4>2. PICK q \in tables["source_files"] : q.slug = Plain(name)
        BY <2>16, <4>1 DEF SourcesThere
      <4>3. q \in final["source_files"] /\ s \in final["source_files"]  BY <2>4, <2>13, <4>2
      <4>4. s = q  BY <2>12, <4>1, <4>2, <4>3, OneRowPerSlug
      <4> QED BY <4>2, <4>4
    <3>6. OfOther(final) = OfOther(tables)
      <4>1. OfOther(tables) \subseteq OfOther(final)  BY <2>4, <2>13
      <4> QED BY <3>5, <4>1
    <3> HIDE DEF OfOther
    <3>7. ItemStored(final, other)
      BY <3>1, <3>2, <3>3, <3>4, <3>6 DEF ItemStored, OfOther
    <3>8. SourcesThere(final, other)  BY <2>4, <2>13, <2>16 DEF SourcesThere
    <3> QED BY <3>7, <3>8
  <2> QED BY <2>1, <2>2, <2>12, <2>14, <2>15, <2>16 DEF next, tables
<1> QED BY <1>5, <1>6

PostRule(chunk, f, n) ==
  f = [k \in 0..n |-> IF k = 0 THEN [ok |-> TRUE, tables |-> db] ELSE Upsert(f[k - 1], chunk[k])]

LEMMA PostFunction ==
  ASSUME NEW chunk, NEW n \in Nat
  PROVE  \E f : PostRule(chunk, f, n)
<1> DEFINE S == {m \in Nat : \E f : PostRule(chunk, f, m)}
           start == [ok |-> TRUE, tables |-> db]
<1>1. 0 \in S
  <2> DEFINE f == [k \in 0..0 |-> start]
  <2>1. PostRule(chunk, f, 0)
    <3>1. \A k \in 0..0 : k = 0  OBVIOUS
    <3> QED BY <3>1 DEF PostRule
  <2> QED BY <2>1
<1>2. ASSUME NEW m \in S  PROVE m + 1 \in S
  <2>1. PICK f : PostRule(chunk, f, m)  OBVIOUS
  <2> DEFINE new == Upsert(f[m], chunk[m + 1])
             g == [k \in 0..(m + 1) |-> IF k = m + 1 THEN new ELSE f[k]]
  <2>2. m \in Nat  OBVIOUS
  <2>3. f = [k \in 0..m |-> IF k = 0 THEN start ELSE Upsert(f[k - 1], chunk[k])]
    BY <2>1 DEF PostRule
  <2> HIDE DEF new, start
  <2>4. ASSUME NEW k \in 0..(m + 1)
        PROVE  g[k] = IF k = 0 THEN start ELSE Upsert(g[k - 1], chunk[k])
    <3>1. CASE k = m + 1
      <4>1. k # 0 /\ k - 1 = m /\ m \in 0..(m + 1) /\ m # m + 1  BY <2>2, <3>1
      <4>2. g[k - 1] = f[m] /\ g[k] = new  BY <3>1, <4>1
      <4> QED BY <3>1, <4>1, <4>2 DEF new
    <3>2. CASE k # m + 1
      <4>1. k \in 0..m  BY <2>2, <3>2
      <4>2. f[k] = IF k = 0 THEN start ELSE Upsert(f[k - 1], chunk[k])  BY <2>3, <4>1
      <4>3. k # 0 => k - 1 \in 0..(m + 1) /\ k - 1 # m + 1  BY <2>2, <4>1
      <4>4. k # 0 => g[k - 1] = f[k - 1]  BY <4>3
      <4>5. g[k] = f[k]  BY <3>2
      <4> HIDE DEF g
      <4> QED BY <4>2, <4>4, <4>5
    <3> QED BY <3>1, <3>2
  <2>5. g = [k \in 0..(m + 1) |-> g[k]]  OBVIOUS
  <2> HIDE DEF g
  <2>6. PostRule(chunk, g, m + 1)  BY <2>4, <2>5 DEF PostRule, start
  <2> QED BY <2>2, <2>6
<1> HIDE DEF S
<1>3. S \in SUBSET Nat  BY DEF S
<1>4. n \in S  BY <1>1, <1>2, <1>3, Counting
<1> QED BY <1>4 DEF S

\* The last item of each slug among the first m of the seed is stored.
Kept(tables, seed, m) ==
  \A i \in 1..m : (\A j \in 1..m : j > i => seed[j].id # seed[i].id) =>
    ItemStored(tables, seed[i]) /\ SourcesThere(tables, seed[i])

\* A request leaves the tables sound; one that is answered with success has stored
\* its items, and has kept those of the requests before it that it does not name.
LEMMA ChunkIsPosted ==
  ASSUME NEW n \in Nat, Sound(db, n), NEW chunk \in Seq(SeedTopic)
  PROVE  /\ Sound(Posted(chunk).tables, n)
         /\ \A seed, p : /\ p \in Nat
                         /\ \A k \in 1..Len(chunk) : chunk[k] = seed[p + k]
                         /\ Kept(db, seed, p)
                         /\ Posted(chunk).ok
                         => Kept(Posted(chunk).tables, seed, p + Len(chunk))
<1> DEFINE m == Len(chunk)
           f == CHOOSE h : PostRule(chunk, h, m)
           start == [ok |-> TRUE, tables |-> db]
<1>1. m \in Nat /\ \A k \in 1..m : chunk[k] \in SeedTopic  OBVIOUS
<1>2. Posted(chunk) = f[m]  BY DEF Posted, PostRule
<1>3. PostRule(chunk, f, m)  BY <1>1, PostFunction
<1> HIDE DEF f, m
<1>4. \A k \in 0..m : f[k] = IF k = 0 THEN start ELSE Upsert(f[k - 1], chunk[k])
  BY <1>3 DEF PostRule
<1>5. start.ok = TRUE /\ start.tables = db /\ start = [ok |-> start.ok, tables |-> start.tables]
  OBVIOUS
<1> HIDE DEF start
<1>6. f[0] = start  BY <1>1, <1>4
<1>7. \A k \in Nat : k + 1 \in 0..m =>
        /\ k \in 0..m /\ k + 1 \in 1..m
        /\ f[k + 1] = Upsert(f[k], chunk[k + 1])
  <2> SUFFICES ASSUME NEW k \in Nat, k + 1 \in 0..m
               PROVE  k \in 0..m /\ k + 1 \in 1..m /\ f[k + 1] = Upsert(f[k], chunk[k + 1])
    OBVIOUS
  <2>1. k \in 0..m /\ k + 1 \in 1..m /\ k + 1 # 0 /\ (k + 1) - 1 = k  BY <1>1
  <2> QED BY <1>4, <2>1
<1>8. \A k \in 0..m : f[k] = [ok |-> f[k].ok, tables |-> f[k].tables] /\ Sound(f[k].tables, n)
  <2> DEFINE Fine(k) == f[k] = [ok |-> f[k].ok, tables |-> f[k].tables] /\ Sound(f[k].tables, n)
             S == {k \in Nat : k \in 0..m => Fine(k)}
  <2>1. 0 \in S  BY <1>5, <1>6
  <2>2. ASSUME NEW k \in S  PROVE k + 1 \in S
    <3> SUFFICES ASSUME k + 1 \in 0..m  PROVE Fine(k + 1)  OBVIOUS
    <3>1. /\ k \in 0..m /\ chunk[k + 1] \in SeedTopic
          /\ f[k + 1] = Upsert(f[k], chunk[k + 1])
      BY <1>1, <1>7
    <3>2. f[k] = [ok |-> f[k].ok, tables |-> f[k].tables] /\ Sound(f[k].tables, n)  BY <3>1
    <3> QED BY <3>1, <3>2, ItemIsUpserted
  <2> HIDE DEF S
  <2>3. S \in SUBSET Nat  BY DEF S
  <2>4. Nat \subseteq S  BY <2>1, <2>2, <2>3, Counting
  <2>5. \A k \in 0..m : k \in S  BY <1>1, <2>4
  <2> QED BY <2>5 DEF S
<1>9. m \in 0..m  BY <1>1
<1>10. ASSUME NEW seed, NEW p, p \in Nat, \A k \in 1..m : chunk[k] = seed[p + k],
              Kept(db, seed, p), Posted(chunk).ok
       PROVE  Kept(Posted(chunk).tables, seed, p + m)
  <2> DEFINE S == {k \in Nat : k \in 0..m /\ f[k].ok => Kept(f[k].tables, seed, p + k)}
  <2>1. 0 \in S
    <3>1. p + 0 = p  BY <1>10
    <3> QED BY <1>5, <1>6, <1>10, <3>1
  <2>2. ASSUME NEW k \in S  PROVE k + 1 \in S
    <3> SUFFICES ASSUME k + 1 \in 0..m, f[k + 1].ok
                 PROVE  Kept(f[k + 1].tables, seed, p + (k + 1))
      OBVIOUS
    <3> DEFINE item == chunk[k + 1]
               before == f[k].tables
               after == f[k + 1].tables
               q == p + k
    <3>1. k \in Nat /\ k \in 0..m /\ item \in SeedTopic /\ item = seed[p + (k + 1)]
          /\ f[k + 1] = Upsert(f[k], item)
      BY <1>1, <1>7, <1>10
    <3>2. f[k] = [ok |-> f[k].ok, tables |-> f[k].tables] /\ Sound(f[k].tables, n)
      BY <1>8, <3>1
    <3>3. /\ f[k].ok
          /\ ItemStored(after, item) /\ SourcesThere(after, item)
          /\ \A other :
               /\ other.id # item.id
               /\ ItemStored(before, other) /\ SourcesThere(before, other)
               => ItemStored(after, other) /\ SourcesThere(after, other)
      <4> DEFINE result == f[k]
                 next == f[k + 1]
      <4>1. /\ result = [ok |-> result.ok, tables |-> result.tables] /\ Sound(result.tables, n)
            /\ next = Upsert(result, item) /\ item \in SeedTopic /\ next.ok
        BY <3>1, <3>2
      <4> HIDE DEF result, next, item
      <4>2. LET new == Upsert(result, item) IN
            new.ok =>
              /\ result.ok
              /\ ItemStored(new.tables, item) /\ SourcesThere(new.tables, item)
              /\ \A other :
                   /\ other.id # item.id
                   /\ ItemStored(result.tables, other) /\ SourcesThere(result.tables, other)
                   => ItemStored(new.tables, other) /\ SourcesThere(new.tables, other)
        BY <4>1, ItemIsUpserted
      <4> QED BY <4>1, <4>2 DEF result, next
    <3>4. Kept(before, seed, q)  BY <3>1, <3>3
    <3>5. q \in Nat /\ p + (k + 1) = q + 1  BY <1>10, <3>1
    <3>6. item = seed[q + 1]  BY <3>1, <3>5
    <3> HIDE DEF item, before, after, q
    <3>7. Kept(after, seed, q + 1)
      <4> SUFFICES ASSUME NEW i \in 1..(q + 1),
                          \A j \in 1..(q + 1) : j > i => seed[j].id # seed[i].id
                   PROVE  ItemStored(after, seed[i]) /\ SourcesThere(after, seed[i])
        BY DEF Kept
      <4>1. CASE i = q + 1  BY <3>3, <3>6, <4>1
      <4>2. CASE i # q + 1
        <5>1. i \in 1..q /\ q + 1 \in 1..(q + 1) /\ q + 1 > i  BY <3>5, <4>2
        <5>2. \A j \in 1..q : j \in 1..(q + 1)  BY <3>5
        <5>3. ItemStored(before, seed[i]) /\ SourcesThere(before, seed[i])
          BY <3>4, <5>1, <5>2 DEF Kept
        <5>4. seed[i].id # item.id  BY <3>6, <5>1
        <5> QED BY <3>3, <5>3, <5>4
      <4> QED BY <4>1, <4>2
    <3> QED BY <3>5, <3>7 DEF after
  <2> HIDE DEF S
  <2>3. S \in SUBSET Nat  BY DEF S
  <2>4. m \in S  BY <1>1, <2>1, <2>2, <2>3, Counting
  <2> QED BY <1>2, <1>9, <1>10, <2>4 DEF S
<1>11. Sound(Posted(chunk).tables, n)  BY <1>2, <1>8, <1>9
<1> QED BY <1>10, <1>11 DEF m

-----------------------------------------------------------------------------
(* What every reachable state has.                                         *)

\* todo is what is left of plan when its first commands are done.
LeftOf(plan, todo) ==
  /\ IsList(plan) /\ IsList(todo) /\ Len(todo) <= Len(plan)
  /\ \A i \in 1..Len(todo) : todo[i] = plan[(Len(plan) - Len(todo)) + i]
Done(plan, todo) == Len(plan) - Len(todo)

\* The process of import_notes_to_neon.py, s, carries out the plan of its run,
\* which is one of the n runs started.
Scripted(s, n) ==
  /\ s = [pc |-> s.pc, run |-> s.run, seed |-> s.seed, clean |-> s.clean, plan |-> s.plan,
          todo |-> s.todo, failures |-> s.failures]
  /\ s.pc \in {"running", "done", "failed"}
  /\ s.failures \in 0..Retries
  /\ s.run \in 0..n
  /\ LeftOf(s.plan, s.todo)
  /\ s.run = 0 => s.pc = "failed" /\ s.todo = << >>
  /\ s.run # 0 =>
       /\ s.seed \in Seeds
       /\ \E options \in Options :
            s.clean = options.clean /\ s.plan = Plan(s.run, s.seed, options)
  /\ s.pc = "done" => s.todo = << >>

\* The process of import_curated_notes.mjs, c, posts the chunks of its seed.
PostsInOrder(c) ==
  /\ c = [pc |-> c.pc, seed |-> c.seed, todo |-> c.todo]
  /\ c.pc \in {"running", "rebuild", "done", "failed"}
  /\ c.pc # "failed" => c.seed \in Seeds /\ LeftOf(Chunks(c.seed), c.todo)
  /\ c.pc \in {"rebuild", "done"} => c.todo = << >>

\* Row r of a table is among those that the first k commands of a plan copy.
CopiedBy(plan, k, table, r) ==
  \E i \in 1..k : plan[i].op = "copy" /\ plan[i].table = table /\ r \in ToSet(plan[i].rows)

\* The rows of the tables that carry the run are what the first k commands copy.
Exactly(run, plan, tables, k) ==
  \A table \in Tables : \A r :
    r \in tables[table] /\ RunOf(table, r) = run <=> CopiedBy(plan, k, table, r)

\* The tables while nobody else writes: the commands that are done are loaded,
\* the next one possibly too; the run's topics have the run's sections only; and
\* after --clean every row carries the run.
Loading(run, clean, plan, todo, tables) ==
  LET done == Done(plan, todo) IN
  /\ Exactly(run, plan, tables, done) \/ (todo # << >> /\ Exactly(run, plan, tables, done + 1))
  /\ \A r \in tables["topic_sections"] : r.topic[1] = run => r.id[1] = run
  /\ clean /\ done # 0 => \A table \in Tables : \A r \in tables[table] : RunOf(table, r) = run

LoadInv ==
  script.run # 0 /\ "neon" \notin mixed =>
    Loading(script.run, script.clean, script.plan, script.todo, db)

\* The seed's topics that have been posted are stored, when nobody else writes.
PostedSoFar(c) == BatchEnd(Len(c.seed), ChunkSize, Done(Chunks(c.seed), c.todo))
PostInv ==
  curated.pc # "failed" /\ "curated" \notin mixed => Kept(db, curated.seed, PostedSoFar(curated))

ImportInv ==
  /\ runs \in 0..MaxRuns /\ calm \in BOOLEAN /\ mixed \subseteq {"neon", "curated"}
  /\ Scripted(script, runs)
  /\ PostsInOrder(curated) /\ inflight \subseteq Seq(SeedTopic)
  /\ Sound(db, runs)
  /\ LoadInv /\ PostInv

-----------------------------------------------------------------------------
(* One command less.                                                       *)

LEMMA NextOfPlan ==
  ASSUME NEW plan, NEW todo, LeftOf(plan, todo), todo # << >>
  PROVE  /\ LeftOf(plan, Tail(todo))
         /\ Done(plan, todo) \in Nat
         /\ Done(plan, Tail(todo)) = Done(plan, todo) + 1
         /\ Done(plan, todo) + 1 \in 1..Len(plan)
         /\ Head(todo) = plan[Done(plan, todo) + 1]
         /\ Head(todo) \in ToSet(plan)
<1> DEFINE S == ToSet(todo)
           rest == Tail(todo)
<1>1. todo \in Seq(S)  BY DEF LeftOf, IsList
<1> HIDE DEF S
<1>2. Len(todo) \in Nat \ {0} /\ Len(plan) \in Nat /\ Len(todo) <= Len(plan)
  <2>1. Len(todo) \in Nat /\ Len(todo) # 0  BY <1>1
  <2>2. Len(plan) \in Nat  BY DEF LeftOf, IsList
  <2> QED BY <2>1, <2>2 DEF LeftOf
<1>3. rest \in Seq(S) /\ Len(rest) = Len(todo) - 1 /\ \A i \in 1..Len(rest) : rest[i] = todo[i + 1]
  BY <1>1, <1>2
<1>4. Head(todo) = todo[1]  OBVIOUS
<1> HIDE DEF rest
<1>5. IsList(rest) /\ Len(rest) \in Nat  BY <1>3, ListsAreSequences
<1>6. ASSUME NEW i \in 1..Len(rest)  PROVE rest[i] = plan[(Len(plan) - Len(rest)) + i]
  <2>1. i + 1 \in 1..Len(todo)
        /\ (Len(plan) - Len(todo)) + (i + 1) = (Len(plan) - Len(rest)) + i
    BY <1>2, <1>3, <1>5
  <2>2. todo[i + 1] = plan[(Len(plan) - Len(todo)) + (i + 1)]  BY <2>1 DEF LeftOf
  <2> QED BY <1>3, <2>1, <2>2
<1>7. LeftOf(plan, rest)
  <2>1. Len(rest) <= Len(plan)  BY <1>2, <1>3
  <2> QED BY <1>5, <1>6, <2>1 DEF LeftOf
<1>8. /\ Done(plan, todo) \in Nat
      /\ Done(plan, rest) = Done(plan, todo) + 1
      /\ Done(plan, todo) + 1 \in 1..Len(plan)
  BY <1>2, <1>3 DEF Done
<1>9. Head(todo) = plan[Done(plan, todo) + 1]
  <2>1. 1 \in 1..Len(todo)  BY <1>2
  <2> QED BY <1>4, <2>1 DEF LeftOf, Done
<1>10. Head(todo) \in ToSet(plan)
  <2>1. DOMAIN plan = 1..Len(plan)  BY DEF LeftOf, IsList
  <2> QED BY <1>8, <1>9, <2>1 DEF ToSet
<1> QED BY <1>7, <1>8, <1>9, <1>10 DEF rest

LEMMA AllIsLeft ==
  ASSUME NEW plan, IsList(plan)
  PROVE  LeftOf(plan, plan) /\ Done(plan, plan) = 0
<1>1. Len(plan) \in Nat  BY DEF IsList
<1>2. \A i \in 1..Len(plan) : (Len(plan) - Len(plan)) + i = i  BY <1>1
<1> QED BY <1>1, <1>2 DEF LeftOf, Done

LEMMA NothingIsLeft ==
  ASSUME NEW plan, LeftOf(plan, << >>)
  PROVE  Done(plan, << >>) = Len(plan) /\ Len(plan) \in Nat
<1>1. Len(plan) \in Nat /\ Len(<< >>) = 0  BY DEF LeftOf, IsList
<1> QED BY <1>1 DEF Done

\* Tables of an earlier run.
LEMMA SoundStays ==
  ASSUME NEW m \in Nat, NEW n \in Nat, m <= n, NEW tables, Sound(tables, m)
  PROVE  Sound(tables, n)
<1>1. \A x : x \in 0..m => x \in 0..n  OBVIOUS
<1>2. \A table, r : Dated(m, table, r) => Dated(n, table, r)  BY <1>1 DEF Dated
<1> QED BY <1>2 DEF Sound

\* What a run's command leaves.
LEMMA CommandIsLoaded ==
  ASSUME NEW run \in Nat, NEW n \in Nat, run <= n, Sound(db, n), NEW cmd, RunCommand(run, cmd),
         Accepts(cmd)
  PROVE  Sound(Loaded(cmd), n)
<1>1. CASE cmd.op = "copy"
  <2>1. Loaded(cmd) = With(db, cmd.table, cmd.rows)  BY <1>1 DEF Loaded
  <2>2. Fits(db, cmd.table, cmd.rows)  BY <1>1 DEF Accepts
  <2>3. cmd.table \in Tables /\ IsList(cmd.rows)
        /\ \A row \in ToSet(cmd.rows) : RunRow(run, cmd.table, row)
    BY <1>1 DEF RunCommand
  <2>4. ASSUME NEW row, NEW table, RunRow(run, table, row)
        PROVE  Shaped(table, row) /\ Dated(n, table, row)
    <3>1. run \in 0..n  OBVIOUS
    <3>2. table \in {"groups", "domains", "topics", "source_files"} => row.id[1] = run
      BY <2>4 DEF RunRow
    <3> QED BY <2>4, <3>1, <3>2 DEF RunRow, Shaped, Dated
  <2> QED BY <2>1, <2>2, <2>3, <2>4, RowsAdded
<1>2. CASE cmd.op = "truncate"
  <2>1. Loaded(cmd) = Empty  BY <1>2 DEF Loaded
  <2>2. Empty = [table \in Tables |-> Empty[table]] /\ \A table \in Tables : Empty[table] = {}
    BY DEF Empty
  <2> HIDE DEF Empty
  <2> QED BY <2>1, <2>2 DEF Sound, Keyed
<1>3. CASE cmd.op = "select"
  <2>1. Loaded(cmd) = db  BY <1>3 DEF Loaded
  <2> QED BY <2>1
<1> QED BY <1>1, <1>2, <1>3 DEF RunCommand

\* One command more of a plan.
LEMMA CopiedByNext ==
  ASSUME NEW plan, NEW d \in Nat
  PROVE  \A table, r : CopiedBy(plan, d + 1, table, r) <=>
           \/ CopiedBy(plan, d, table, r)
           \/ /\ plan[d + 1].op = "copy" /\ plan[d + 1].table = table
              /\ r \in ToSet(plan[d + 1].rows)
<1>1. \A i : i \in 1..(d + 1) <=> i \in 1..d \/ i = d + 1  OBVIOUS
<1> QED BY <1>1 DEF CopiedBy

\* copy_csv and the truncation: once the next command has committed, the tables have
\* what one command more copies, whether it had been loaded before or not.
LEMMA CommandLoads ==
  ASSUME NEW run, NEW clean, NEW plan, RunScript(run, clean, plan),
         NEW todo, LeftOf(plan, todo), todo # << >>,
         db = [table \in Tables |-> db[table]], Loading(run, clean, plan, todo, db)
  PROVE  /\ Loading(run, clean, plan, Tail(todo), Loaded(Head(todo)))
         /\ Loading(run, clean, plan, todo, Loaded(Head(todo)))
<1> DEFINE cmd == Head(todo)
           after == Loaded(cmd)
           d == Done(plan, todo)
<1>1. /\ d \in Nat /\ d + 1 \in 1..Len(plan) /\ cmd = plan[d + 1]
      /\ Done(plan, Tail(todo)) = d + 1
  BY NextOfPlan
<1>2. /\ RunCommand(run, cmd)
      /\ cmd.op = "truncate" => d = 0
      /\ clean /\ d = 0 => cmd.op = "truncate"
  <2>1. RunCommand(run, cmd) /\ (d + 1 # 1 => cmd.op # "truncate")
    BY <1>1 DEF RunScript
  <2>2. clean => plan[1].op = "truncate"  BY DEF RunScript
  <2>3. d = 0 => d + 1 = 1  OBVIOUS
  <2> HIDE DEF cmd, d
  <2> QED BY <1>1, <2>1, <2>2, <2>3
<1>3. /\ Exactly(run, plan, db, d) \/ Exactly(run, plan, db, d + 1)
      /\ \A r \in db["topic_sections"] : r.topic[1] = run => r.id[1] = run
      /\ clean /\ d # 0 => \A table \in Tables : \A r \in db[table] : RunOf(table, r) = run
  BY DEF Loading
<1> HIDE DEF cmd, after, d
<1>4. \A table, r : CopiedBy(plan, d + 1, table, r) <=>
        \/ CopiedBy(plan, d, table, r)
        \/ cmd.op = "copy" /\ cmd.table = table /\ r \in ToSet(cmd.rows)
  BY <1>1, CopiedByNext
<1>5. "topic_sections" \in Tables  BY DEF Tables
<1> DEFINE Goal ==
      /\ Exactly(run, plan, after, d + 1)
      /\ \A r \in after["topic_sections"] : r.topic[1] = run => r.id[1] = run
      /\ clean => \A table \in Tables : \A r \in after[table] : RunOf(table, r) = run
<1>6. ASSUME cmd.op = "copy"  PROVE Goal
  <2>1. after = With(db, cmd.table, cmd.rows)  BY <1>6 DEF Loaded, after
  <2>2. cmd.table \in Tables /\ \A row \in ToSet(cmd.rows) : RunRow(run, cmd.table, row)
    BY <1>2, <1>6 DEF RunCommand
  <2>3. \A table \in Tables : \A r : r \in after[table] <=>
          r \in db[table] \/ (cmd.table = table /\ r \in ToSet(cmd.rows))
    BY <2>1, <2>2, WithRows
  <2>4. \A r \in ToSet(cmd.rows) : RunOf(cmd.table, r) = run  BY <2>2 DEF RunRow
  <2>5. Exactly(run, plan, after, d + 1)
    <3> SUFFICES ASSUME NEW table \in Tables, NEW r
                 PROVE  r \in after[table] /\ RunOf(table, r) = run
                          <=> CopiedBy(plan, d + 1, table, r)
      BY DEF Exactly
    <3>1. CASE Exactly(run, plan, db, d)
      <4>1. r \in db[table] /\ RunOf(table, r) = run <=> CopiedBy(plan, d, table, r)
        BY <3>1 DEF Exactly
      <4> QED BY <1>4, <1>6, <2>3, <2>4, <4>1
    <3>2. CASE Exactly(run, plan, db, d + 1)
      <4>1. r \in db[table] /\ RunOf(table, r) = run <=> CopiedBy(plan, d + 1, table, r)
        BY <3>2 DEF Exactly
      <4> QED BY <1>4, <1>6, <2>3, <2>4, <4>1
    <3> QED BY <1>3, <3>1, <3>2
  <2>6. ASSUME NEW r \in after["topic_sections"], r.topic[1] = run  PROVE r.id[1] = run
    <3>1. CASE r \in db["topic_sections"]  BY <1>3, <2>6, <3>1
    <3>2. CASE r \notin db["topic_sections"]
      <4>1. cmd.table = "topic_sections" /\ r \in ToSet(cmd.rows)  BY <1>5, <2>3, <3>2
      <4>2. RunOf("topic_sections", r) = run  BY <2>4, <4>1
      <4> QED BY <4>2 DEF RunOf
    <3> QED BY <3>1, <3>2
  <2>7. ASSUME clean, NEW table \in Tables, NEW r \in after[table]
        PROVE  RunOf(table, r) = run
    <3>1. d # 0  BY <1>2, <1>6, <2>7
    <3>2. CASE r \in db[table]  BY <1>3, <2>7, <3>1, <3>2
    <3>3. CASE r \notin db[table]  BY <2>3, <2>4, <3>3
    <3> QED BY <3>2, <3>3
  <2> QED BY <2>5, <2>6, <2>7
<1>7. ASSUME cmd.op = "truncate"  PROVE Goal
  <2>1. after = Empty  BY <1>7 DEF Loaded, after
  <2>2. \A table \in Tables : after[table] = {}  BY <2>1 DEF Empty
  <2>3. \A table, r : ~CopiedBy(plan, d + 1, table, r)
    <3>1. d = 0 /\ 1..0 = {}  BY <1>2, <1>7
    <3>2. \A table, r : ~CopiedBy(plan, d, table, r)  BY <3>1 DEF CopiedBy
    <3> QED BY <1>4, <1>7, <3>2
  <2>4. Exactly(run, plan, after, d + 1)  BY <2>2, <2>3 DEF Exactly
  <2> QED BY <1>5, <2>2, <2>4
<1>8. ASSUME cmd.op = "select"  PROVE Goal
  <2>1. after = db  BY <1>8 DEF Loaded, after
  <2>2. \A table, r : CopiedBy(plan, d + 1, table, r) <=> CopiedBy(plan, d, table, r)
    BY <1>4, <1>8
  <2>3. Exactly(run, plan, after, d + 1)  BY <1>3, <2>1, <2>2 DEF Exactly
  <2>4. clean => d # 0  BY <1>2, <1>8
  <2> QED BY <1>3, <2>1, <2>3, <2>4
<1>9. Goal  BY <1>2, <1>6, <1>7, <1>8 DEF RunCommand
<1>10. Loading(run, clean, plan, Tail(todo), after)  BY <1>1, <1>9 DEF Loading
<1>11. Loading(run, clean, plan, todo, after)  BY <1>9 DEF Loading, d
<1> QED BY <1>10, <1>11 DEF after, cmd

\* The plan of the run is a plan.
LEMMA ScriptOfTheRun ==
  ASSUME NEW s, NEW n, Scripted(s, n), s.run # 0
  PROVE  /\ RunScript(s.run, s.clean, s.plan)
         /\ s.seed \in Seq(SeedTopic)
         /\ RowsOf(s.plan, "topics") = ToSet(TopicRows(s.run, s.seed))
         /\ RowsOf(s.plan, "topic_sections") = ToSet(SectionRows(s.run, s.seed))
<1>1. PICK options \in Options : s.clean = options.clean /\ s.plan = Plan(s.run, s.seed, options)
  BY DEF Scripted
<1>2. options \in [clean : BOOLEAN, search : BOOLEAN]  BY OptionAssumption
<1>3. s.seed \in Seq(SeedTopic)  BY SeedAssumption DEF Scripted
<1> QED BY <1>1, <1>2, <1>3, BatchAssumption, PlanFacts

\* The requests of import_curated_notes.mjs: each takes the topics up from where the
\* one before it ended, and the last one ends with the seed.
LEMMA ChunkFacts ==
  ASSUME NEW seed \in Seq(SeedTopic)
  PROVE  LET chunks == Chunks(seed)
             end(k) == BatchEnd(Len(seed), ChunkSize, k) IN
         /\ IsList(chunks)
         /\ end(0) = 0 /\ end(Len(chunks)) = Len(seed)
         /\ \A k \in Nat : k + 1 \in 1..Len(chunks) =>
              /\ chunks[k + 1] \in Seq(SeedTopic)
              /\ end(k) \in Nat
              /\ \A j \in 1..Len(chunks[k + 1]) : chunks[k + 1][j] = seed[end(k) + j]
              /\ end(k) + Len(chunks[k + 1]) = end(k + 1)
<1> DEFINE n == Len(seed)
           size == ChunkSize
           m == Batches(n, size)
           chunks == Chunks(seed)
           end(k) == BatchEnd(n, size, k)
<1>1. n \in Nat /\ DOMAIN seed = 1..n /\ \A i \in 1..n : seed[i] \in SeedTopic  OBVIOUS
<1>2. size \in Nat \ {0}  BY ChunkAssumption
<1>3. chunks = [k \in 1..m |-> SubSeq(seed, (k - 1) * size + 1, end(k))]
  BY DEF Chunks, Batches, BatchEnd
<1> HIDE DEF n, size, chunks, m, end
<1>4. /\ m \in Nat
      /\ \A k \in 1..m :
           (k - 1) * size \in 0..n /\ end(k) \in 0..n /\ (k - 1) * size <= end(k)
      /\ end(0) = 0 /\ end(m) = n
  BY <1>1, <1>2, BatchesCover DEF m, end
<1>5. chunks = [k \in 1..m |-> chunks[k]]  BY <1>3
<1>6. IsList(chunks) /\ Len(chunks) = m  BY <1>4, <1>5, FirstNumbersMakeAList
<1>7. ASSUME NEW k \in Nat, k + 1 \in 1..m
      PROVE  /\ chunks[k + 1] \in Seq(SeedTopic)
             /\ end(k) \in Nat
             /\ \A j \in 1..Len(chunks[k + 1]) : chunks[k + 1][j] = seed[end(k) + j]
             /\ end(k) + Len(chunks[k + 1]) = end(k + 1)
  <2> DEFINE from == k * size
             to == end(k + 1)
             chunk == chunks[k + 1]
  <2>1. (k + 1) - 1 = k  OBVIOUS
  <2>2. from \in 0..n /\ to \in 0..n /\ from <= to  BY <1>4, <1>7, <2>1
  <2>3. chunk = SubSeq(seed, from + 1, to)  BY <1>3, <1>7, <2>1
  <2>4. end(k) = from  BY <1>1, <2>2 DEF end, BatchEnd
  <2> HIDE DEF from, to, chunk
  <2>5. from \in Nat /\ to \in Nat /\ to - from \in Nat  BY <1>1, <2>2
  <2>6. seed \in Seq(SeedTopic) /\ Len(seed) = n  BY DEF n
  <2>7. chunk = [j \in 1..(to - from) |-> seed[from + j]]
    <3>1. chunk = [j \in 1..(to - from) |-> seed[(from + 1) + j - 1]]
      <4>1. /\ IsList(seed) /\ from + 1 \in Nat \ {0} /\ to \in 0..Len(seed)
        BY <2>2, <2>5, <2>6, ListsAreSequences
      <4>2. DOMAIN chunk = 1..(IF from + 1 <= to THEN to - (from + 1) + 1 ELSE 0)
        BY <2>3, <4>1, Stretch
      <4>3. (IF from + 1 <= to THEN to - (from + 1) + 1 ELSE 0) = to - from  BY <2>2, <2>5
      <4> QED BY <2>3, <2>5, <2>6, <4>2, <4>3
    <3>2. \A j \in 1..(to - from) : (from + 1) + j - 1 = from + j  BY <2>5
    <3> QED BY <3>1, <3>2
  <2>8. \A j \in 1..(to - from) : from + j \in 1..n  BY <1>1, <2>2, <2>5
  <2>9. chunk \in Seq(SeedTopic)
    <3>1. chunk \in [1..(to - from) -> SeedTopic]  BY <1>1, <2>7, <2>8
    <3> QED BY <2>5, <3>1
  <2>10. Len(chunk) = to - from
    <3>1. DOMAIN chunk = 1..(to - from)  BY <2>7
    <3> QED BY <2>5, <2>9, <3>1
  <2>11. \A j \in 1..Len(chunk) : chunk[j] = seed[from + j]  BY <2>7, <2>10
  <2>12. from + Len(chunk) = to  BY <2>5, <2>10
  <2> QED BY <2>4, <2>5, <2>9, <2>11, <2>12 DEF chunk, to
<1> QED BY <1>4, <1>6, <1>7 DEF chunks, end, n, size

-----------------------------------------------------------------------------
(* The steps of import_notes_to_neon.py.                                   *)

\* What a change of the process's record leaves alone.
SameRun(s, t) == t.run = s.run /\ t.seed = s.seed /\ t.clean = s.clean /\ t.plan = s.plan

LEMMA CommandDone ==
  ASSUME NEW n, NEW s, Scripted(s, n), Retries \in Nat, s.pc = "running", s.todo # << >>,
         NEW t, t = [s EXCEPT !.todo = Tail(@), !.failures = 0]
  PROVE  Scripted(t, n) /\ SameRun(s, t) /\ t.todo = Tail(s.todo) /\ t.pc = s.pc
<1> DEFINE whole == [pc |-> s.pc, run |-> s.run, seed |-> s.seed, clean |-> s.clean,
                     plan |-> s.plan, todo |-> s.todo, failures |-> s.failures]
<1>1. s = whole  BY DEF Scripted
<1>2. \A x : [whole EXCEPT !.todo = x]
               = [pc |-> s.pc, run |-> s.run, seed |-> s.seed, clean |-> s.clean,
                  plan |-> s.plan, todo |-> x, failures |-> s.failures]
  OBVIOUS
<1> DEFINE after == [pc |-> s.pc, run |-> s.run, seed |-> s.seed, clean |-> s.clean,
                     plan |-> s.plan, todo |-> Tail(s.todo), failures |-> s.failures]
<1>3. \A y : [after EXCEPT !.failures = y]
               = [pc |-> s.pc, run |-> s.run, seed |-> s.seed, clean |-> s.clean,
                  plan |-> s.plan, todo |-> Tail(s.todo), failures |-> y]
  OBVIOUS
<1>4. [whole EXCEPT !.todo = Tail(s.todo)] = after  BY <1>2
<1> HIDE DEF whole, after
<1>5. t = [[whole EXCEPT !.todo = Tail(s.todo)] EXCEPT !.failures = 0]  BY <1>1
<1>6. t = [after EXCEPT !.failures = 0]  BY <1>4, <1>5
<1>7. t = [pc |-> s.pc, run |-> s.run, seed |-> s.seed, clean |-> s.clean,
           plan |-> s.plan, todo |-> Tail(s.todo), failures |-> 0]
  BY <1>6, <1>3
<1>8. /\ t.pc = s.pc /\ t.run = s.run /\ t.seed = s.seed /\ t.clean = s.clean
      /\ t.plan = s.plan /\ t.todo = Tail(s.todo) /\ t.failures = 0
  BY <1>7
<1>9. LeftOf(t.plan, t.todo)  BY <1>8, NextOfPlan DEF Scripted
<1>10. t = [pc |-> t.pc, run |-> t.run, seed |-> t.seed, clean |-> t.clean,
           plan |-> t.plan, todo |-> t.todo, failures |-> t.failures]
  BY <1>7, <1>8
<1>11. 0 \in 0..Retries  OBVIOUS
<1> QED BY <1>8, <1>9, <1>10, <1>11 DEF Scripted, SameRun

LEMMA AttemptCounted ==
  ASSUME NEW n, NEW s, Scripted(s, n), Retries \in Nat, s.failures < Retries,
         NEW t, t = [s EXCEPT !.failures = @ + 1]
  PROVE  Scripted(t, n) /\ SameRun(s, t) /\ t.todo = s.todo /\ t.pc = s.pc
<1> DEFINE whole == [pc |-> s.pc, run |-> s.run, seed |-> s.seed, clean |-> s.clean,
                     plan |-> s.plan, todo |-> s.todo, failures |-> s.failures]
<1>1. s = whole  BY DEF Scripted
<1>2. \A y : [whole EXCEPT !.failures = y]
               = [pc |-> s.pc, run |-> s.run, seed |-> s.seed, clean |-> s.clean,
                  plan |-> s.plan, todo |-> s.todo, failures |-> y]
  OBVIOUS
<1> HIDE DEF whole
<1>3. t = [whole EXCEPT !.failures = s.failures + 1]  BY <1>1
<1>4. t = [pc |-> s.pc, run |-> s.run, seed |-> s.seed, clean |-> s.clean,
           plan |-> s.plan, todo |-> s.todo, failures |-> s.failures + 1]
  BY <1>2, <1>3
<1>5. /\ t.pc = s.pc /\ t.run = s.run /\ t.seed = s.seed /\ t.clean = s.clean
      /\ t.plan = s.plan /\ t.todo = s.todo /\ t.failures = s.failures + 1
  BY <1>4
<1>6. t = [pc |-> t.pc, run |-> t.run, seed |-> t.seed, clean |-> t.clean,
           plan |-> t.plan, todo |-> t.todo, failures |-> t.failures]
  BY <1>4, <1>5
<1>7. t.failures \in 0..Retries
  <2>1. s.failures \in 0..Retries  BY DEF Scripted
  <2> QED BY <1>5, <2>1
<1> QED BY <1>5, <1>6, <1>7 DEF Scripted, SameRun

LEMMA ProcessEnds ==
  ASSUME NEW n, NEW s, Scripted(s, n), NEW pc \in {"done", "failed"}, pc = "done" => s.todo = << >>,
         s.run # 0, NEW t, t = [s EXCEPT !.pc = pc]
  PROVE  Scripted(t, n) /\ SameRun(s, t) /\ t.todo = s.todo
<1> DEFINE whole == [pc |-> s.pc, run |-> s.run, seed |-> s.seed, clean |-> s.clean,
                     plan |-> s.plan, todo |-> s.todo, failures |-> s.failures]
<1>1. s = whole  BY DEF Scripted
<1>2. [whole EXCEPT !.pc = pc]
        = [pc |-> pc, run |-> s.run, seed |-> s.seed, clean |-> s.clean,
           plan |-> s.plan, todo |-> s.todo, failures |-> s.failures]
  OBVIOUS
<1> HIDE DEF whole
<1>3. t = [pc |-> pc, run |-> s.run, seed |-> s.seed, clean |-> s.clean,
           plan |-> s.plan, todo |-> s.todo, failures |-> s.failures]
  BY <1>1, <1>2
<1>4. /\ t.pc = pc /\ t.run = s.run /\ t.seed = s.seed /\ t.clean = s.clean
      /\ t.plan = s.plan /\ t.todo = s.todo /\ t.failures = s.failures
  BY <1>3
<1>5. t = [pc |-> t.pc, run |-> t.run, seed |-> t.seed, clean |-> t.clean,
           plan |-> t.plan, todo |-> t.todo, failures |-> t.failures]
  BY <1>3, <1>4
<1> QED BY <1>4, <1>5 DEF Scripted, SameRun

\* run_psql: a command that commits.
LEMMA CommitFacts ==
  ASSUME ImportInv, Commits
  PROVE  /\ script.pc = "running" /\ script.todo # << >> /\ script.run # 0
         /\ script.failures < Retries
         /\ Sound(db', runs)
         /\ "neon" \notin mixed =>
              /\ Loading(script.run, script.clean, script.plan, Tail(script.todo), db')
              /\ Loading(script.run, script.clean, script.plan, script.todo, db')
         /\ "curated" \notin mixed' => "curated" \notin mixed /\ db' = db
         /\ "neon" \notin mixed' => "neon" \notin mixed
         /\ mixed' \subseteq {"neon", "curated"}
         /\ UNCHANGED <<runs, calm>>
<1>1. /\ script.pc = "running" /\ script.todo # << >> /\ script.failures < Retries
      /\ Accepts(Head(script.todo)) /\ db' = Loaded(Head(script.todo))
      /\ mixed' = mixed \cup (IF Head(script.todo).op = "select" THEN {} ELSE {"curated"})
      /\ UNCHANGED <<runs, calm>>
  BY DEF Commits, Running, Command
<1>2. Scripted(script, runs) /\ runs \in Nat
  BY RunAssumption DEF ImportInv
<1>3. script.run # 0 /\ script.run \in Nat /\ script.run <= runs /\ LeftOf(script.plan, script.todo)
  BY <1>1, <1>2 DEF Scripted
<1>4. RunScript(script.run, script.clean, script.plan)  BY <1>2, <1>3, ScriptOfTheRun
<1>5. RunCommand(script.run, Head(script.todo))
  <2>1. /\ Done(script.plan, script.todo) + 1 \in 1..Len(script.plan)
        /\ Head(script.todo) = script.plan[Done(script.plan, script.todo) + 1]
    BY <1>1, <1>3, NextOfPlan
  <2> QED BY <1>4, <2>1 DEF RunScript
<1>6. Sound(db', runs)
  <2>1. Sound(db, runs)  BY DEF ImportInv
  <2> QED BY <1>1, <1>2, <1>3, <1>5, <2>1, CommandIsLoaded
<1>7. ASSUME "neon" \notin mixed
      PROVE  /\ Loading(script.run, script.clean, script.plan, Tail(script.todo), db')
             /\ Loading(script.run, script.clean, script.plan, script.todo, db')
  <2>1. db = [table \in Tables |-> db[table]]  BY DEF ImportInv, Sound
  <2>2. Loading(script.run, script.clean, script.plan, script.todo, db)
    BY <1>3, <1>7 DEF ImportInv, LoadInv
  <2> QED BY <1>1, <1>3, <1>4, <2>1, <2>2, CommandLoads
<1>8. "curated" \notin mixed' => "curated" \notin mixed /\ db' = db
  <2> SUFFICES ASSUME "curated" \notin mixed'  PROVE "curated" \notin mixed /\ db' = db  OBVIOUS
  <2>1. Head(script.todo).op = "select"  BY <1>1
  <2> QED BY <1>1, <2>1 DEF Loaded
<1>9. mixed' \subseteq {"neon", "curated"}  BY <1>1 DEF ImportInv
<1> QED BY <1>1, <1>3, <1>6, <1>7, <1>8, <1>9

\* PostInv speaks of the tables, the notes' process and the other writers.
LEMMA NotesStayPosted ==
  ASSUME PostInv, curated' = curated, "curated" \notin mixed' => "curated" \notin mixed /\ db' = db
  PROVE  PostInv'
<1> SUFFICES ASSUME curated'.pc # "failed", "curated" \notin mixed'
             PROVE  Kept(db', curated'.seed, PostedSoFar(curated'))
  BY DEF PostInv
<1> QED BY DEF PostInv

LEMMA SucceedKeeps ==
  ASSUME ImportInv, Succeed, UNCHANGED <<curated, inflight>>
  PROVE  ImportInv'
<1>1. Commits /\ script' = [script EXCEPT !.todo = Tail(@), !.failures = 0]  BY DEF Succeed
<1>2. /\ script.pc = "running" /\ script.todo # << >> /\ script.run # 0
      /\ Sound(db', runs)
      /\ "neon" \notin mixed =>
           Loading(script.run, script.clean, script.plan, Tail(script.todo), db')
      /\ "curated" \notin mixed' => "curated" \notin mixed /\ db' = db
      /\ "neon" \notin mixed' => "neon" \notin mixed
      /\ mixed' \subseteq {"neon", "curated"}
      /\ UNCHANGED <<runs, calm>>
  BY <1>1, CommitFacts
<1>3. Scripted(script', runs) /\ SameRun(script, script') /\ script'.todo = Tail(script.todo)
  BY <1>1, <1>2, CommandDone, RunAssumption DEF ImportInv
<1>4. LoadInv'
  <2> SUFFICES ASSUME "neon" \notin mixed'
               PROVE  Loading(script'.run, script'.clean, script'.plan, script'.todo, db')
    BY DEF LoadInv
  <2> QED BY <1>2, <1>3 DEF SameRun
<1>5. PostInv'  BY <1>2, NotesStayPosted DEF ImportInv
<1> QED BY <1>2, <1>3, <1>4, <1>5 DEF ImportInv

LEMMA LoseAnswerKeeps ==
  ASSUME ImportInv, LoseAnswer, UNCHANGED <<curated, inflight>>
  PROVE  ImportInv'
<1>1. Commits /\ script' = [script EXCEPT !.failures = @ + 1]  BY DEF LoseAnswer, Retry
<1>2. /\ script.pc = "running" /\ script.todo # << >> /\ script.run # 0
      /\ script.failures < Retries
      /\ Sound(db', runs)
      /\ "neon" \notin mixed => Loading(script.run, script.clean, script.plan, script.todo, db')
      /\ "curated" \notin mixed' => "curated" \notin mixed /\ db' = db
      /\ "neon" \notin mixed' => "neon" \notin mixed
      /\ mixed' \subseteq {"neon", "curated"}
      /\ UNCHANGED <<runs, calm>>
  BY <1>1, CommitFacts
<1>3. Scripted(script', runs) /\ SameRun(script, script') /\ script'.todo = script.todo
  BY <1>1, <1>2, AttemptCounted, RunAssumption DEF ImportInv
<1>4. LoadInv'
  <2> SUFFICES ASSUME "neon" \notin mixed'
               PROVE  Loading(script'.run, script'.clean, script'.plan, script'.todo, db')
    BY DEF LoadInv
  <2> QED BY <1>2, <1>3 DEF SameRun
<1>5. PostInv'  BY <1>2, NotesStayPosted DEF ImportInv
<1> QED BY <1>2, <1>3, <1>4, <1>5 DEF ImportInv

\* Steps of the process that leave the tables and what is left of the plan alone.
LEMMA QuietStepKeeps ==
  ASSUME ImportInv, UNCHANGED <<db, runs, calm, mixed, curated, inflight>>,
         Scripted(script', runs), SameRun(script, script'), script'.todo = script.todo
  PROVE  ImportInv'
<1>1. LoadInv'
  <2> SUFFICES ASSUME script'.run # 0, "neon" \notin mixed'
               PROVE  Loading(script'.run, script'.clean, script'.plan, script'.todo, db')
    BY DEF LoadInv
  <2> QED BY DEF ImportInv, LoadInv, SameRun
<1>2. PostInv'  BY NotesStayPosted DEF ImportInv
<1> QED BY <1>1, <1>2 DEF ImportInv

LEMMA FailAttemptKeeps ==
  ASSUME ImportInv, FailAttempt, UNCHANGED <<curated, inflight>>
  PROVE  ImportInv'
<1>1. /\ script.failures < Retries /\ script' = [script EXCEPT !.failures = @ + 1]
      /\ UNCHANGED <<db, runs, calm, mixed>>
  BY DEF FailAttempt, Retry
<1>2. Scripted(script', runs) /\ SameRun(script, script') /\ script'.todo = script.todo
  BY <1>1, AttemptCounted, RunAssumption DEF ImportInv
<1> QED BY <1>1, <1>2, QuietStepKeeps

\* GiveUp, Complete and Killed: the process ends.
LEMMA EndingKeeps ==
  ASSUME ImportInv, GiveUp \/ Complete \/ Killed, UNCHANGED <<curated, inflight>>
  PROVE  ImportInv'
<1>1. PICK pc \in {"done", "failed"} :
        (pc = "done" => script.todo = << >>) /\ script' = [script EXCEPT !.pc = pc]
  BY DEF GiveUp, Complete, Killed
<1>2. script.pc = "running" /\ UNCHANGED <<db, runs, calm, mixed>>
  BY DEF GiveUp, Complete, Killed, Running
<1>3. Scripted(script, runs) /\ script.run # 0  BY <1>2 DEF ImportInv, Scripted
<1>4. Scripted(script', runs) /\ SameRun(script, script') /\ script'.todo = script.todo
  BY <1>1, <1>3, ProcessEnds
<1> QED BY <1>2, <1>4, QuietStepKeeps

LEMMA LoadStays ==
  ASSUME LoadInv, script' = script, "neon" \notin mixed' => "neon" \notin mixed /\ db' = db
  PROVE  LoadInv'
<1> SUFFICES ASSUME script'.run # 0, "neon" \notin mixed'
             PROVE  Loading(script'.run, script'.clean, script'.plan, script'.todo, db')
  BY DEF LoadInv
<1> QED BY DEF LoadInv

LEMMA LaterRuns ==
  ASSUME NEW n \in Nat, NEW s, Scripted(s, n)
  PROVE  Scripted(s, n + 1)
<1>1. s.run \in 0..n => s.run \in 0..(n + 1)  OBVIOUS
<1> QED BY <1>1 DEF Scripted

LEMMA StartKeeps ==
  ASSUME ImportInv, Start, UNCHANGED <<curated, inflight>>
  PROVE  ImportInv'
<1>1. /\ runs < MaxRuns /\ runs' = runs + 1 /\ mixed' = mixed \ {"neon"}
      /\ UNCHANGED <<db, calm>>
  BY DEF Start
<1>2. PICK seed \in Seeds, options \in Options :
        script' = [pc |-> "running", run |-> runs', seed |-> seed, clean |-> options.clean,
                   plan |-> Plan(runs', seed, options), todo |-> Plan(runs', seed, options),
                   failures |-> 0]
  BY DEF Start
<1> DEFINE plan == Plan(runs', seed, options)
<1>3. /\ script'.pc = "running" /\ script'.run = runs' /\ script'.seed = seed
      /\ script'.clean = options.clean /\ script'.plan = plan /\ script'.todo = plan
      /\ script'.failures = 0
      /\ script' = [pc |-> script'.pc, run |-> script'.run, seed |-> script'.seed,
                    clean |-> script'.clean, plan |-> script'.plan, todo |-> script'.todo,
                    failures |-> script'.failures]
  BY <1>2
<1>4. /\ runs \in Nat /\ runs' \in 0..MaxRuns /\ runs' # 0 /\ runs' \in Nat /\ runs <= runs'
      /\ runs' \in 0..runs' /\ ~(runs' \in 0..runs)
  BY <1>1, RunAssumption DEF ImportInv
<1>5. IsList(plan)
  <2>1. seed \in Seq(SeedTopic) /\ options \in [clean : BOOLEAN, search : BOOLEAN]
    BY SeedAssumption, OptionAssumption
  <2>2. RunScript(runs', options.clean, plan)  BY <2>1, BatchAssumption, PlanFacts
  <2> QED BY <2>2 DEF RunScript
<1>6. Scripted(script', runs')
  <2>1. LeftOf(script'.plan, script'.todo)  BY <1>3, <1>5, AllIsLeft
  <2>2. script'.failures \in 0..Retries  BY <1>3, RunAssumption
  <2>3. \E o \in Options :
          script'.clean = o.clean /\ script'.plan = Plan(script'.run, script'.seed, o)
    BY <1>3
  <2> HIDE DEF plan
  <2> QED BY <1>3, <1>4, <2>1, <2>2, <2>3 DEF Scripted
<1>7. Sound(db', runs')
  <2>1. Sound(db, runs)  BY DEF ImportInv
  <2> QED BY <1>1, <1>4, <2>1, SoundStays
<1>8. Loading(runs', options.clean, plan, plan, db)
  <2>1. Done(plan, plan) = 0  BY <1>5, AllIsLeft
  <2>2. \A table \in Tables : \A r \in db[table] : Dated(runs, table, r)  BY DEF ImportInv, Sound
  <2>3. \A table \in Tables : \A r \in db[table] : RunOf(table, r) # runs'
    BY <1>4, <2>2 DEF Dated
  <2>4. \A r \in db["topic_sections"] : r.topic[1] # runs'  BY <1>4, <2>2 DEF Dated, Tables
  <2>5. 1..0 = {}  OBVIOUS
  <2> HIDE DEF plan
  <2>6. \A table, r : ~CopiedBy(plan, 0, table, r)  BY <2>5 DEF CopiedBy
  <2>7. Exactly(runs', plan, db, 0)  BY <2>3, <2>6 DEF Exactly
  <2> QED BY <2>1, <2>4, <2>7 DEF Loading
<1> HIDE DEF plan
<1>9. LoadInv'
  <2>1. Loading(script'.run, script'.clean, script'.plan, script'.todo, db')
    BY <1>1, <1>3, <1>8
  <2> QED BY <2>1 DEF LoadInv
<1>10. PostInv'  BY <1>1, NotesStayPosted DEF ImportInv
<1>11. mixed' \subseteq {"neon", "curated"}  BY <1>1 DEF ImportInv
<1> QED BY <1>1, <1>4, <1>6, <1>7, <1>9, <1>10, <1>11 DEF ImportInv

-----------------------------------------------------------------------------
(* The steps of import_curated_notes.mjs and of the service.               *)

LEMMA StartCuratedKeeps ==
  ASSUME ImportInv, StartCurated
  PROVE  ImportInv'
<1>1. /\ runs < MaxRuns /\ runs' = runs + 1 /\ mixed' = mixed \ {"curated"}
      /\ UNCHANGED <<db, calm, script, inflight>>
  BY DEF StartCurated
<1>2. PICK seed \in Seeds : curated' = [pc |-> "running", seed |-> seed, todo |-> Chunks(seed)]
  BY DEF StartCurated
<1>3. /\ curated'.pc = "running" /\ curated'.seed = seed /\ curated'.todo = Chunks(seed)
      /\ curated' = [pc |-> curated'.pc, seed |-> curated'.seed, todo |-> curated'.todo]
  BY <1>2
<1>4. /\ runs \in Nat /\ runs' \in 0..MaxRuns /\ runs' \in Nat /\ runs <= runs'
  BY <1>1, RunAssumption DEF ImportInv
<1>5. seed \in Seq(SeedTopic)  BY SeedAssumption
<1>6. /\ IsList(Chunks(seed)) /\ BatchEnd(Len(seed), ChunkSize, 0) = 0  BY <1>5, ChunkFacts
<1>7. LeftOf(Chunks(seed), Chunks(seed)) /\ Done(Chunks(seed), Chunks(seed)) = 0
  BY <1>6, AllIsLeft
<1>8. PostsInOrder(curated')  BY <1>3, <1>7 DEF PostsInOrder
<1>9. PostInv'
  <2>1. PostedSoFar(curated') = 0  BY <1>3, <1>6, <1>7 DEF PostedSoFar
  <2>2. 1..0 = {}  OBVIOUS
  <2>3. Kept(db', curated'.seed, PostedSoFar(curated'))  BY <2>1, <2>2 DEF Kept
  <2> QED BY <2>3 DEF PostInv
<1>10. LoadInv'  BY <1>1, LoadStays DEF ImportInv
<1>11. Sound(db', runs')  BY <1>1, <1>4, SoundStays DEF ImportInv
<1>12. Scripted(script', runs')  BY <1>1, <1>4, LaterRuns DEF ImportInv
<1>13. mixed' \subseteq {"neon", "curated"}  BY <1>1 DEF ImportInv
<1> QED BY <1>1, <1>4, <1>8, <1>9, <1>10, <1>11, <1>12, <1>13 DEF ImportInv

\* The chunk that the process posts next.
LEMMA NextChunk ==
  ASSUME ImportInv, Posting
  PROVE  LET chunk == Head(curated.todo)
             chunks == Chunks(curated.seed) IN
         /\ curated.seed \in Seq(SeedTopic)
         /\ chunk \in Seq(SeedTopic)
         /\ LeftOf(chunks, Tail(curated.todo))
         /\ PostedSoFar(curated) \in Nat
         /\ \A j \in 1..Len(chunk) : chunk[j] = curated.seed[PostedSoFar(curated) + j]
         /\ PostedSoFar(curated) + Len(chunk)
              = BatchEnd(Len(curated.seed), ChunkSize, Done(chunks, Tail(curated.todo)))
<1> DEFINE chunks == Chunks(curated.seed)
           todo == curated.todo
           d == Done(chunks, todo)
<1>1. curated.pc = "running" /\ todo # << >> /\ LeftOf(chunks, todo)
      /\ curated.seed \in Seq(SeedTopic)
  BY SeedAssumption DEF Posting, ImportInv, PostsInOrder
<1> HIDE DEF d, chunks
<1>2. /\ LeftOf(chunks, Tail(todo))
      /\ d \in Nat /\ Done(chunks, Tail(todo)) = d + 1
      /\ d + 1 \in 1..Len(chunks) /\ Head(todo) = chunks[d + 1]
  BY <1>1, NextOfPlan DEF d
<1>3. LET end(k) == BatchEnd(Len(curated.seed), ChunkSize, k) IN
      /\ chunks[d + 1] \in Seq(SeedTopic)
      /\ end(d) \in Nat
      /\ \A j \in 1..Len(chunks[d + 1]) : chunks[d + 1][j] = curated.seed[end(d) + j]
      /\ end(d) + Len(chunks[d + 1]) = end(d + 1)
  BY <1>1, <1>2, ChunkFacts DEF chunks
<1>4. PostedSoFar(curated) = BatchEnd(Len(curated.seed), ChunkSize, d)
  BY DEF PostedSoFar, d, chunks
<1> QED BY <1>1, <1>2, <1>3, <1>4 DEF chunks

LEMMA PostKeeps ==
  ASSUME ImportInv, Post
  PROVE  ImportInv'
<1> DEFINE chunk == Head(curated.todo)
           chunks == Chunks(curated.seed)
<1>1. /\ Posting /\ Posted(chunk).ok /\ db' = Posted(chunk).tables
      /\ mixed' = mixed \cup {"neon"}
      /\ curated' = [curated EXCEPT !.todo = Tail(@)]
      /\ UNCHANGED <<runs, calm, script, inflight>>
  BY DEF Post
<1>2. /\ curated.seed \in Seq(SeedTopic) /\ chunk \in Seq(SeedTopic)
      /\ LeftOf(chunks, Tail(curated.todo))
      /\ PostedSoFar(curated) \in Nat
      /\ \A j \in 1..Len(chunk) : chunk[j] = curated.seed[PostedSoFar(curated) + j]
      /\ PostedSoFar(curated) + Len(chunk)
           = BatchEnd(Len(curated.seed), ChunkSize, Done(chunks, Tail(curated.todo)))
  BY <1>1, NextChunk
<1>3. /\ curated'.pc = "running" /\ curated'.seed = curated.seed
      /\ curated'.todo = Tail(curated.todo)
      /\ curated' = [pc |-> curated'.pc, seed |-> curated'.seed, todo |-> curated'.todo]
  <2> DEFINE whole == [pc |-> curated.pc, seed |-> curated.seed, todo |-> curated.todo]
  <2>1. curated = whole  BY DEF ImportInv, PostsInOrder
  <2>2. \A x : [whole EXCEPT !.todo = x] = [pc |-> curated.pc, seed |-> curated.seed, todo |-> x]
    OBVIOUS
  <2> HIDE DEF whole
  <2>3. curated' = [whole EXCEPT !.todo = Tail(curated.todo)]  BY <1>1, <2>1
  <2>4. curated' = [pc |-> curated.pc, seed |-> curated.seed, todo |-> Tail(curated.todo)]
    BY <2>2, <2>3
  <2>5. curated'.pc = curated.pc /\ curated'.seed = curated.seed
        /\ curated'.todo = Tail(curated.todo)
    BY <2>4
  <2> QED BY <1>1, <2>4, <2>5 DEF Posting
<1>4. runs \in Nat /\ Sound(db, runs)  BY RunAssumption DEF ImportInv
<1> HIDE DEF chunk, chunks
<1>5. /\ Sound(Posted(chunk).tables, runs)
      /\ \A seed, p : /\ p \in Nat
                      /\ \A k \in 1..Len(chunk) : chunk[k] = seed[p + k]
                      /\ Kept(db, seed, p)
                      /\ Posted(chunk).ok
                      => Kept(Posted(chunk).tables, seed, p + Len(chunk))
  BY <1>2, <1>4, ChunkIsPosted
<1>6. PostsInOrder(curated')
  <2>1. curated'.seed \in Seeds  BY <1>1, <1>3 DEF ImportInv, PostsInOrder, Posting
  <2> QED BY <1>2, <1>3, <2>1 DEF PostsInOrder, chunks
<1>7. PostInv'
  <2> SUFFICES ASSUME "curated" \notin mixed'
               PROVE  Kept(db', curated'.seed, PostedSoFar(curated'))
    BY DEF PostInv
  <2>1. Kept(db, curated.seed, PostedSoFar(curated))
    BY <1>1 DEF ImportInv, PostInv, Posting
  <2>2. PostedSoFar(curated') = PostedSoFar(curated) + Len(chunk)
    BY <1>2, <1>3 DEF PostedSoFar, chunks
  <2> QED BY <1>1, <1>2, <1>3, <1>5, <2>1, <2>2
<1>8. LoadInv'  BY <1>1 DEF LoadInv
<1>9. mixed' \subseteq {"neon", "curated"}  BY <1>1 DEF ImportInv
<1> QED BY <1>1, <1>5, <1>6, <1>7, <1>8, <1>9 DEF ImportInv

\* PostFails, PostTimesOut, AllPosted and RebuildBootstrap: the process goes from
\* one of its states to another.
LEMMA MovingOnKeeps ==
  ASSUME ImportInv, UNCHANGED <<db, runs, calm, mixed, script>>,
         NEW pc \in {"rebuild", "done", "failed"},
         pc # "failed" => curated.pc # "failed" /\ curated.todo = << >>,
         curated' = [curated EXCEPT !.pc = pc], inflight' \subseteq Seq(SeedTopic)
  PROVE  ImportInv'
<1> DEFINE whole == [pc |-> curated.pc, seed |-> curated.seed, todo |-> curated.todo]
<1>1. curated = whole  BY DEF ImportInv, PostsInOrder
<1>2. [whole EXCEPT !.pc = pc] = [pc |-> pc, seed |-> curated.seed, todo |-> curated.todo]
  OBVIOUS
<1> HIDE DEF whole
<1>3. curated' = [pc |-> pc, seed |-> curated.seed, todo |-> curated.todo]  BY <1>1, <1>2
<1>4. /\ curated'.pc = pc /\ curated'.seed = curated.seed /\ curated'.todo = curated.todo
      /\ curated' = [pc |-> curated'.pc, seed |-> curated'.seed, todo |-> curated'.todo]
  BY <1>3
<1>5. PostsInOrder(curated)  BY DEF ImportInv
<1>6. PostsInOrder(curated')  BY <1>4, <1>5 DEF PostsInOrder
<1>7. PostInv'
  <2> SUFFICES ASSUME curated'.pc # "failed", "curated" \notin mixed'
               PROVE  Kept(db', curated'.seed, PostedSoFar(curated'))
    BY DEF PostInv
  <2>1. Kept(db, curated.seed, PostedSoFar(curated))  BY <1>4 DEF ImportInv, PostInv
  <2>2. PostedSoFar(curated') = PostedSoFar(curated)  BY <1>4 DEF PostedSoFar
  <2> QED BY <1>4, <2>1, <2>2
<1>8. LoadInv'  BY LoadStays DEF ImportInv
<1> QED BY <1>6, <1>7, <1>8 DEF ImportInv

LEMMA ProcessKeeps ==
  ASSUME ImportInv, PostFails \/ PostTimesOut \/ AllPosted \/ RebuildBootstrap
  PROVE  ImportInv'
<1>1. inflight \subseteq Seq(SeedTopic) /\ PostsInOrder(curated)  BY DEF ImportInv
<1>2. CASE PostFails
  <2>1. /\ UNCHANGED <<db, runs, calm, mixed, script, inflight>>
        /\ curated' = [curated EXCEPT !.pc = "failed"]
    BY <1>2 DEF PostFails
  <2> QED BY <1>1, <2>1, MovingOnKeeps
<1>3. CASE PostTimesOut
  <2>1. /\ Posting /\ UNCHANGED <<db, runs, calm, mixed, script>>
        /\ curated' = [curated EXCEPT !.pc = "failed"]
        /\ inflight' = inflight \cup {Head(curated.todo)}
    BY <1>3 DEF PostTimesOut
  <2>2. Head(curated.todo) \in Seq(SeedTopic)  BY <2>1, NextChunk
  <2>3. inflight' \subseteq Seq(SeedTopic)  BY <1>1, <2>1, <2>2
  <2> QED BY <2>1, <2>3, MovingOnKeeps
<1>4. CASE AllPosted
  <2>1. /\ curated.pc = "running" /\ curated.todo = << >>
        /\ UNCHANGED <<db, runs, calm, mixed, script, inflight>>
        /\ curated' = [curated EXCEPT !.pc = "rebuild"]
    BY <1>4 DEF AllPosted
  <2> QED BY <1>1, <2>1, MovingOnKeeps
<1>5. CASE RebuildBootstrap
  <2>1. /\ curated.pc = "rebuild" /\ curated.todo = << >>
        /\ UNCHANGED <<db, runs, calm, mixed, script, inflight>>
        /\ curated' = [curated EXCEPT !.pc = "done"]
    BY <1>1, <1>5 DEF RebuildBootstrap, PostsInOrder
  <2> QED BY <1>1, <2>1, MovingOnKeeps
<1> QED BY <1>2, <1>3, <1>4, <1>5

LEMMA LateCommitKeeps ==
  ASSUME ImportInv, LateCommit
  PROVE  ImportInv'
<1>1. PICK chunk \in inflight :
        /\ inflight' = inflight \ {chunk}
        /\ db' = IF Posted(chunk).ok THEN Posted(chunk).tables ELSE db
        /\ mixed' = {"neon", "curated"}
        /\ UNCHANGED <<runs, calm, script, curated>>
  BY DEF LateCommit
<1>2. chunk \in Seq(SeedTopic) /\ runs \in Nat /\ Sound(db, runs)  BY RunAssumption DEF ImportInv
<1>3. Sound(Posted(chunk).tables, runs)  BY <1>2, ChunkIsPosted
<1>4. Sound(db', runs)  BY <1>1, <1>2, <1>3
<1>5. LoadInv' /\ PostInv'  BY <1>1 DEF LoadInv, PostInv
<1>6. inflight' \subseteq Seq(SeedTopic)  BY <1>1 DEF ImportInv
<1> QED BY <1>1, <1>4, <1>5, <1>6 DEF ImportInv

-----------------------------------------------------------------------------
(* The administrators' steps.                                              *)

\* A topic's row with another mark differs in nothing else.
LEMMA MarkedRow ==
  ASSUME NEW t, TopicColumns(t), NEW r, r = [t EXCEPT !.live = FALSE]
  PROVE  /\ r.id = t.id /\ r.slug = t.slug /\ r.group = t.group /\ r.domain = t.domain
         /\ r.null = t.null
         /\ TopicColumns(r)
<1> DEFINE whole == [id |-> t.id, slug |-> t.slug, group |-> t.group, domain |-> t.domain,
                     count |-> t.count, null |-> t.null, live |-> t.live]
<1>1. t = whole  BY DEF TopicColumns
<1>2. \A c : [whole EXCEPT !.live = c]
                = [id |-> t.id, slug |-> t.slug, group |-> t.group, domain |-> t.domain,
                   count |-> t.count, null |-> t.null, live |-> c]
  OBVIOUS
<1> HIDE DEF whole
<1>3. [t EXCEPT !.live = FALSE] = [whole EXCEPT !.live = FALSE]  BY <1>1
<1>4. r = [id |-> t.id, slug |-> t.slug, group |-> t.group, domain |-> t.domain,
           count |-> t.count, null |-> t.null, live |-> FALSE]
  BY <1>2, <1>3, Zenon
<1> QED BY <1>4 DEF TopicColumns

\* An archived topic keeps its id, its slug and what it refers to.
LEMMA TopicIsArchived ==
  ASSUME NEW n, NEW tables, Sound(tables, n), NEW t \in tables["topics"],
         NEW r, r.id = t.id, r.slug = t.slug, r.group = t.group, r.domain = t.domain,
         r.null = t.null, TopicColumns(r),
         NEW next, next = [table \in Tables |-> next[table]],
         next["topics"] = (tables["topics"] \ {t}) \cup {r},
         \A table \in Tables \ {"topics"} : next[table] = tables[table]
  PROVE  Sound(next, n)
<1> DEFINE topics == tables["topics"]
<1>1. "topics" \in Tables /\ {"groups", "domains", "topics", "source_files"} \subseteq Tables
  BY DEF Tables
<1>2. ~Null("topics", t) /\ Shaped("topics", t) /\ Dated(n, "topics", t) /\ Bound(tables, "topics", t)
  BY <1>1 DEF Sound
<1>3. \A table \in {"groups", "domains", "topics", "source_files"} : \A q \in tables[table] :
        \E p \in next[table] : p.id = q.id
  <2>1. \A q \in topics : \E p \in next["topics"] : p.id = q.id  OBVIOUS
  <2> QED BY <1>1, <2>1
<1>4. ASSUME NEW table \in Tables, NEW q, Bound(tables, table, q)  PROVE Bound(next, table, q)
  BY <1>3, <1>4, BoundStays
<1>5. Bound(next, "topics", r)
  <2>1. Bound(next, "topics", t)  BY <1>1, <1>2, <1>4
  <2>2. References("topics", r) = References("topics", t)  BY Referred
  <2> QED BY <2>1, <2>2 DEF Bound
<1>6. Keyed("topics", next["topics"])
  <2>1. Keyed("topics", topics)  BY <1>1 DEF Sound
  <2>2. \A q \in topics \ {t} : ~Clash("topics", q, t) /\ ~Clash("topics", t, q)
    BY <2>1 DEF Keyed
  <2>3. \A q \in topics \ {t} : ~Clash("topics", q, r) /\ ~Clash("topics", r, q)
    BY <2>2, Clashes
  <2> QED BY <2>1, <2>3 DEF Keyed
<1>7. ~Null("topics", r) /\ Shaped("topics", r) /\ Dated(n, "topics", r)
  BY <1>2 DEF Null, Shaped, Dated, RunOf
<1>8. ASSUME NEW table \in Tables
       PROVE  /\ Keyed(table, next[table])
              /\ \A q \in next[table] :
                   ~Null(table, q) /\ Shaped(table, q) /\ Dated(n, table, q) /\ Bound(next, table, q)
  <2>1. /\ Keyed(table, tables[table])
        /\ \A q \in tables[table] :
             ~Null(table, q) /\ Shaped(table, q) /\ Dated(n, table, q) /\ Bound(tables, table, q)
    BY DEF Sound
  <2>2. CASE table = "topics"  BY <1>4, <1>5, <1>6, <1>7, <2>1, <2>2
  <2>3. CASE table # "topics"  BY <1>4, <2>1, <2>3
  <2> QED BY <2>2, <2>3
<1> QED BY <1>8 DEF Sound

LEMMA SoftDeleteKeeps ==
  ASSUME ImportInv, SoftDelete
  PROVE  ImportInv'
<1>1. PICK t \in db["topics"] :
        db' = [db EXCEPT !["topics"] = (@ \ {t}) \cup {[t EXCEPT !.live = FALSE]}]
  BY Zenon DEF SoftDelete
<1>2. PICK r :
        /\ r = [t EXCEPT !.live = FALSE]
        /\ db' = [db EXCEPT !["topics"] = (@ \ {t}) \cup {r}]
  BY <1>1, Zenon
<1>3. mixed' = {"neon", "curated"} /\ UNCHANGED <<script, runs, calm, curated, inflight>>
  BY DEF SoftDelete
<1>4. Sound(db, runs) /\ TopicColumns(t)  BY DEF ImportInv, Sound, Shaped, Tables
<1>5. /\ r.id = t.id /\ r.slug = t.slug /\ r.group = t.group /\ r.domain = t.domain
      /\ r.null = t.null
      /\ TopicColumns(r)
  BY <1>2, <1>4, MarkedRow
<1>6. Sound(db', runs)
  <2> DEFINE topics == (db["topics"] \ {t}) \cup {r}
  <2>1. db = [table \in Tables |-> db[table]] /\ "topics" \in Tables  BY <1>4 DEF Sound, Tables
  <2>2. db' = [db EXCEPT !["topics"] = topics]  BY <1>2
  <2> HIDE DEF topics
  <2>3. /\ db' = [table \in Tables |-> db'[table]]
        /\ db'["topics"] = topics
        /\ \A table \in Tables \ {"topics"} : db'[table] = db[table]
    BY <2>1, <2>2
  <2> QED BY <1>4, <1>5, <2>3, TopicIsArchived DEF topics
<1>7. LoadInv' /\ PostInv'  BY <1>3 DEF LoadInv, PostInv
<1> QED BY <1>3, <1>6, <1>7 DEF ImportInv

-----------------------------------------------------------------------------
(* The theorems.                                                           *)

LEMMA InitImport == Init => ImportInv
<1> SUFFICES ASSUME Init  PROVE ImportInv  OBVIOUS
<1>1. /\ db = Empty /\ runs = 0 /\ calm = FALSE /\ mixed = {} /\ inflight = {}
      /\ script = [pc |-> "failed", run |-> 0, seed |-> << >>, clean |-> FALSE,
                   plan |-> << >>, todo |-> << >>, failures |-> 0]
      /\ curated = [pc |-> "failed", seed |-> << >>, todo |-> << >>]
  BY DEF Init, NeonInit, CuratedInit
<1>2. /\ script.pc = "failed" /\ script.run = 0 /\ script.plan = << >> /\ script.todo = << >>
      /\ script.failures = 0
      /\ script = [pc |-> script.pc, run |-> script.run, seed |-> script.seed,
                   clean |-> script.clean, plan |-> script.plan, todo |-> script.todo,
                   failures |-> script.failures]
  BY <1>1
<1>3. /\ curated.pc = "failed"
      /\ curated = [pc |-> curated.pc, seed |-> curated.seed, todo |-> curated.todo]
  BY <1>1
<1>4. LeftOf(script.plan, script.todo)  BY <1>2, ShortLists, AllIsLeft
<1>5. runs \in 0..MaxRuns /\ script.run \in 0..runs /\ script.failures \in 0..Retries
  BY <1>1, <1>2, RunAssumption
<1>6. Scripted(script, runs)  BY <1>2, <1>4, <1>5 DEF Scripted
<1>7. PostsInOrder(curated)  BY <1>3 DEF PostsInOrder
<1>8. Sound(db, runs)
  <2>1. Empty = [table \in Tables |-> Empty[table]] /\ \A table \in Tables : Empty[table] = {}
    BY DEF Empty
  <2> HIDE DEF Empty
  <2> QED BY <1>1, <2>1 DEF Sound, Keyed
<1>9. LoadInv /\ PostInv  BY <1>2, <1>3 DEF LoadInv, PostInv
<1> QED BY <1>1, <1>5, <1>6, <1>7, <1>8, <1>9 DEF ImportInv

LEMMA NextImport == ImportInv /\ [Next]_vars => ImportInv'
<1> SUFFICES ASSUME ImportInv, [Next]_vars  PROVE ImportInv'  OBVIOUS
<1>1. CASE NeonNext /\ UNCHANGED <<curated, inflight>>
  <2>1. CASE Start  BY <1>1, <2>1, StartKeeps
  <2>2. CASE Succeed  BY <1>1, <2>2, SucceedKeeps
  <2>3. CASE LoseAnswer  BY <1>1, <2>3, LoseAnswerKeeps
  <2>4. CASE FailAttempt  BY <1>1, <2>4, FailAttemptKeeps
  <2>5. CASE GiveUp \/ Complete \/ Killed  BY <1>1, <2>5, EndingKeeps
  <2> QED BY <1>1, <2>1, <2>2, <2>3, <2>4, <2>5 DEF NeonNext, NeonStep
<1>2. CASE CuratedNext
  <2>1. CASE StartCurated  BY <2>1, StartCuratedKeeps
  <2>2. CASE Post  BY <2>2, PostKeeps
  <2>3. CASE PostFails \/ PostTimesOut \/ AllPosted \/ RebuildBootstrap  BY <2>3, ProcessKeeps
  <2>4. CASE LateCommit  BY <2>4, LateCommitKeeps
  <2> QED BY <1>2, <2>1, <2>2, <2>3, <2>4 DEF CuratedNext, CuratedStep
<1>3. CASE CalmDown
  <2>1. calm' = TRUE /\ UNCHANGED <<db, script, runs, mixed, curated, inflight>>
    BY <1>3 DEF CalmDown
  <2>2. LoadInv' /\ PostInv'  BY <2>1, LoadStays, NotesStayPosted DEF ImportInv
  <2> QED BY <2>1, <2>2 DEF ImportInv
<1>4. CASE SoftDelete  BY <1>4, SoftDeleteKeeps
<1>5. CASE UNCHANGED vars
  <2>1. UNCHANGED <<db, script, runs, calm, mixed, curated, inflight>>  BY <1>5 DEF vars
  <2>2. LoadInv' /\ PostInv'  BY <2>1, LoadStays, NotesStayPosted DEF ImportInv
  <2> QED BY <2>1, <2>2 DEF ImportInv
<1> QED BY <1>1, <1>2, <1>3, <1>4, <1>5 DEF Next

\* What both importers keep up, whatever fails and however they interleave: the tables
\* are sound, a run of import_notes_to_neon.py has loaded its commands in order, and
\* what import_curated_notes.mjs has posted is stored.
THEOREM ImportInvariant == Spec => []ImportInv
<1>1. Init => ImportInv  BY InitImport
<1>2. ImportInv /\ [Next]_vars => ImportInv'  BY NextImport
<1> QED BY <1>1, <1>2, PTL DEF Spec

\* The processes are in states they can be in, with Retries attempts at most, and the
\* rows of a post, which the model stores without asking PostgreSQL, never break the
\* unique keys, the references or the filled body columns.
THEOREM ImportTypeCorrect == Spec => []TypeOK
<1>1. ImportInv => TypeOK
  <2> SUFFICES ASSUME ImportInv  PROVE TypeOK  OBVIOUS
  <2>1. ASSUME NEW table \in Tables, NEW r \in db[table]
        PROVE  /\ ~Null(table, r)
               /\ \A q \in db[table] \ {r} : ~Clash(table, r, q)
               /\ \A ref \in References(table, r) : \E q \in db[ref[1]] : q.id = ref[2]
    <3>1. Keyed(table, db[table]) /\ ~Null(table, r) /\ Bound(db, table, r)
      BY DEF ImportInv, Sound
    <3> QED BY <3>1 DEF Keyed, Bound
  <2>2. script.pc \in {"running", "done", "failed"} /\ script.failures \in 0..Retries
    BY DEF ImportInv, Scripted
  <2>3. curated.pc \in {"running", "rebuild", "done", "failed"}  BY DEF ImportInv, PostsInOrder
  <2> QED BY <2>1, <2>2, <2>3 DEF TypeOK, ImportInv
<1> QED BY <1>1, ImportInvariant, PTL

\* The rows that the first k commands of a plan copy.
LEMMA RowsOfTheFirst ==
  ASSUME NEW plan, IsList(plan), NEW k \in 0..Len(plan), NEW table
  PROVE  \A r : r \in RowsOf(SubSeq(plan, 1, k), table) <=> CopiedBy(plan, k, table, r)
<1> DEFINE first == SubSeq(plan, 1, k)
<1>1. ToSet(first) = {plan[i] : i \in 1..k}
  <2>1. 1 \in Nat \ {0}  OBVIOUS
  <2> QED BY <2>1, Stretch
<1> HIDE DEF first
<1>2. \A r : r \in RowsOf(first, table) <=>
        \E cmd \in ToSet(first) : cmd.op = "copy" /\ cmd.table = table /\ r \in ToSet(cmd.rows)
  BY RowsOfCommands
<1>3. \A r : r \in RowsOf(first, table) <=> CopiedBy(plan, k, table, r)
  BY <1>1, <1>2 DEF CopiedBy
<1> QED BY <1>3 DEF first

LEMMA RowsOfAll ==
  ASSUME NEW plan, IsList(plan), NEW table
  PROVE  \A r : r \in RowsOf(plan, table) <=> CopiedBy(plan, Len(plan), table, r)
<1>1. DOMAIN plan = 1..Len(plan)  BY DEF IsList
<1>2. ToSet(plan) = {plan[i] : i \in 1..Len(plan)}  BY <1>1 DEF ToSet
<1>3. \A r : r \in RowsOf(plan, table) <=>
        \E cmd \in ToSet(plan) : cmd.op = "copy" /\ cmd.table = table /\ r \in ToSet(cmd.rows)
  BY RowsOfCommands
<1> QED BY <1>2, <1>3 DEF CopiedBy

\* run_psql, copy_csv: as long as nobody else writes, a run has loaded the first
\* batches of its plan, whole and in order, and no others, however many answers were
\* lost, commands tried again and runs given up before.
THEOREM RunsLoadInOrder == Spec => []LoadedInOrder
<1>1. ImportInv => LoadedInOrder
  <2> SUFFICES ASSUME ImportInv, script.run # 0, "neon" \notin mixed
               PROVE  LET done == Len(script.plan) - Len(script.todo) IN
                      \E k \in {done, done + 1} : \A table \in Tables :
                        {r \in db[table] : RunOf(table, r) = script.run}
                          = RowsOf(SubSeq(script.plan, 1, k), table)
    BY DEF LoadedInOrder
  <2> DEFINE plan == script.plan
             todo == script.todo
             done == Len(plan) - Len(todo)
             run == script.run
  <2>1. LeftOf(plan, todo) /\ IsList(plan)  BY DEF ImportInv, Scripted, LeftOf
  <2>2. \/ Exactly(run, plan, db, done)
        \/ todo # << >> /\ Exactly(run, plan, db, done + 1)
    BY DEF ImportInv, LoadInv, Loading, Done
  <2>3. done \in 0..Len(plan) /\ (todo # << >> => done + 1 \in 0..Len(plan))
    <3>1. Len(plan) \in Nat /\ Len(todo) \in Nat /\ Len(todo) <= Len(plan)
      BY <2>1 DEF LeftOf, IsList
    <3>2. todo # << >> => done + 1 \in 1..Len(plan)  BY <2>1, NextOfPlan DEF Done
    <3>3. done \in 0..Len(plan)
      <4> DEFINE m == Len(plan)
                 l == Len(todo)
      <4>1. m \in Nat /\ l \in Nat /\ l <= m  BY <3>1
      <4> HIDE DEF m, l
      <4>2. m - l \in 0..m  BY <4>1
      <4> QED BY <4>2 DEF m, l
    <3>4. \A m \in Nat : 1..m \subseteq 0..m  OBVIOUS
    <3> QED BY <3>1, <3>2, <3>3, <3>4
  <2> HIDE DEF plan, todo, done, run
  <2>4. ASSUME NEW k \in 0..Len(plan), Exactly(run, plan, db, k), NEW table \in Tables
        PROVE  {r \in db[table] : RunOf(table, r) = run} = RowsOf(SubSeq(plan, 1, k), table)
    <3>1. \A r : r \in RowsOf(SubSeq(plan, 1, k), table) <=> CopiedBy(plan, k, table, r)
      BY <2>1, RowsOfTheFirst
    <3>2. \A r : r \in db[table] /\ RunOf(table, r) = run <=> CopiedBy(plan, k, table, r)
      BY <2>4 DEF Exactly
    <3> DEFINE there == {r \in db[table] : RunOf(table, r) = run}
               copied == RowsOf(SubSeq(plan, 1, k), table)
    <3>3. \A r : r \in there <=> CopiedBy(plan, k, table, r)  BY <3>2
    <3>4. \A r : r \in copied <=> CopiedBy(plan, k, table, r)  BY <3>1
    <3> HIDE DEF there, copied
    <3>5. there = copied  BY <3>3, <3>4
    <3> QED BY <3>5 DEF there, copied
  <2>5. \E k \in {done, done + 1} : k \in 0..Len(plan) /\ Exactly(run, plan, db, k)
    BY <2>2, <2>3
  <2>6. \E k \in {done, done + 1} : \A table \in Tables :
          {r \in db[table] : RunOf(table, r) = run} = RowsOf(SubSeq(plan, 1, k), table)
    BY <2>4, <2>5
  <2> QED BY <2>6 DEF plan, todo, done, run
<1> QED BY <1>1, ImportInvariant, PTL

\* The sections that a completed run leaves under one of its topics.
LEMMA SectionsOfARun ==
  ASSUME NEW n, NEW seed \in Seq(SeedTopic), NEW i \in 1..Len(seed),
         NEW t, t = TopicRows(n, seed)[i],
         NEW under,
         \A r : r \in under <=> r \in ToSet(SectionRows(n, seed)) /\ r.topic = t.id
  PROVE  Cardinality(under) = t.count
<1> DEFINE topic(j) == TopicRows(n, seed)[j]
           sections(j) == ToSet(SectionsOf(n, topic(j), seed[j].sections))
<1>1. \A j \in 1..Len(seed) :
        /\ topic(j).id = <<n, TopicSlugs(seed)[j]>>
        /\ topic(j).count = Len(seed[j].sections)
        /\ seed[j].sections \in Seq(SeedSection)
  BY TopicRowFacts, SeedFacts
<1>2. \A j, k \in 1..Len(seed) : topic(j).id = topic(k).id => j = k  BY TopicRowFacts
<1>3. ToSet(SectionRows(n, seed)) = UNION {sections(j) : j \in 1..Len(seed)}
  BY SectionRowFacts
<1>4. ASSUME NEW j \in 1..Len(seed)
      PROVE  /\ \A r \in sections(j) : r.topic = topic(j).id
             /\ Cardinality(sections(j)) = Len(seed[j].sections)
  <2> DEFINE list == seed[j].sections
             row == topic(j)
             slug == TopicSlugs(seed)[j]
  <2>1. list \in Seq(SeedSection) /\ row.id = <<n, slug>>  BY <1>1
  <2>2. sections(j) = ToSet(SectionsOf(n, row, list))  OBVIOUS
  <2> HIDE DEF list, row, slug, sections
  <2>3. /\ \A r \in ToSet(SectionsOf(n, row, list)) : r.topic = row.id
        /\ Cardinality(ToSet(SectionsOf(n, row, list))) = Len(list)
    BY <2>1, SectionsOfTopic
  <2> QED BY <2>2, <2>3 DEF list, row
<1> HIDE DEF topic, sections
<1>5. t = topic(i)  BY DEF topic
<1>6. under = sections(i)
  <2>1. ASSUME NEW r \in under  PROVE r \in sections(i)
    <3>1. r \in ToSet(SectionRows(n, seed)) /\ r.topic = t.id  BY <2>1
    <3>2. PICK j \in 1..Len(seed) : r \in sections(j)  BY <1>3, <3>1
    <3>3. j = i  BY <1>2, <1>4, <1>5, <3>1, <3>2
    <3> QED BY <3>2, <3>3
  <2>2. ASSUME NEW r \in sections(i)  PROVE r \in under
    <3>1. r \in ToSet(SectionRows(n, seed))  BY <1>3, <2>2
    <3> QED BY <1>4, <1>5, <2>2, <3>1
  <2> QED BY <2>1, <2>2
<1> QED BY <1>1, <1>4, <1>5, <1>6

\* When import_notes_to_neon.py reports success and nobody else wrote, every row of the
\* seed is in the tables, after --clean no other row is, and every topic has as many
\* sections as its section_count says.
THEOREM SuccessIsExact == Spec => []CompletedRunIsExact
<1>1. ImportInv => CompletedRunIsExact
  <2> SUFFICES ASSUME ImportInv, script.pc = "done", "neon" \notin mixed
               PROVE  /\ \A table \in Tables :
                           /\ RowsOf(script.plan, table) \subseteq db[table]
                           /\ script.clean => RowsOf(script.plan, table) = db[table]
                      /\ \A t \in RowsOf(script.plan, "topics") :
                           Cardinality({r \in db["topic_sections"] : r.topic = t.id}) = t.count
    BY DEF CompletedRunIsExact
  <2> DEFINE plan == script.plan
             run == script.run
             seed == script.seed
  <2>1. /\ Scripted(script, runs) /\ run # 0 /\ script.todo = << >>
        /\ LeftOf(plan, script.todo) /\ IsList(plan)
    BY DEF ImportInv, Scripted, LeftOf
  <2>2. Done(plan, script.todo) = Len(plan) /\ Len(plan) \in Nat  BY <2>1, NothingIsLeft
  <2>3. Loading(run, script.clean, plan, script.todo, db)  BY <2>1 DEF ImportInv, LoadInv
  <2>4. /\ RunScript(run, script.clean, plan) /\ seed \in Seq(SeedTopic)
        /\ RowsOf(plan, "topics") = ToSet(TopicRows(run, seed))
        /\ RowsOf(plan, "topic_sections") = ToSet(SectionRows(run, seed))
    BY <2>1, ScriptOfTheRun
  <2> HIDE DEF plan, run, seed
  <2>5. /\ Exactly(run, plan, db, Len(plan))
        /\ \A r \in db["topic_sections"] : r.topic[1] = run => r.id[1] = run
        /\ script.clean => \A table \in Tables : \A r \in db[table] : RunOf(table, r) = run
    <3>1. script.clean => Len(plan) # 0  BY <2>4 DEF RunScript
    <3> QED BY <2>1, <2>2, <2>3, <3>1 DEF Loading
  <2>6. \A table \in Tables : \A r :
          r \in db[table] /\ RunOf(table, r) = run <=> r \in RowsOf(plan, table)
    <3>1. \A table : \A r : r \in RowsOf(plan, table) <=> CopiedBy(plan, Len(plan), table, r)
      BY <2>1, RowsOfAll
    <3> QED BY <2>5, <3>1 DEF Exactly
  <2>7. \A table \in Tables :
          /\ RowsOf(plan, table) \subseteq db[table]
          /\ script.clean => RowsOf(plan, table) = db[table]
    BY <2>5, <2>6
  <2>8. ASSUME NEW t \in RowsOf(plan, "topics")
        PROVE  Cardinality({r \in db["topic_sections"] : r.topic = t.id}) = t.count
    <3>1. /\ \A i \in 1..Len(seed) : TopicRows(run, seed)[i].id = <<run, TopicSlugs(seed)[i]>>
          /\ ToSet(TopicRows(run, seed)) = {TopicRows(run, seed)[i] : i \in 1..Len(seed)}
      BY <2>4, TopicRowFacts
    <3>2. PICK i \in 1..Len(seed) : t = TopicRows(run, seed)[i]  BY <2>4, <3>1
    <3>3. "topic_sections" \in Tables  BY DEF Tables
    <3>4. t.id[1] = run
      <4>1. t.id = <<run, TopicSlugs(seed)[i]>>  BY <3>1, <3>2
      <4> QED BY <4>1
    <3>5. ASSUME NEW r \in db["topic_sections"], r.topic = t.id
          PROVE  r \in ToSet(SectionRows(run, seed))
      <4>1. r.topic[1] = run  BY <3>4, <3>5
      <4>2. RunOf("topic_sections", r) = run  BY <2>5, <4>1 DEF RunOf
      <4> QED BY <2>4, <2>6, <3>3, <4>2
    <3>6. ToSet(SectionRows(run, seed)) \subseteq db["topic_sections"]  BY <2>4, <2>7, <3>3
    <3> DEFINE under == {r \in db["topic_sections"] : r.topic = t.id}
    <3>7. \A r : r \in under <=> r \in ToSet(SectionRows(run, seed)) /\ r.topic = t.id
      BY <3>5, <3>6
    <3> HIDE DEF under
    <3>8. Cardinality(under) = t.count  BY <2>4, <3>2, <3>7, SectionsOfARun
    <3> QED BY <3>8 DEF under
  <2> QED BY <2>7, <2>8 DEF plan
<1> QED BY <1>1, ImportInvariant, PTL

\* When import_curated_notes.mjs says "Import complete." and nobody else wrote meanwhile,
\* the topic of every slug is live and has the sections and the sources that its last
\* record in the seed names, whatever was there before.  A late commit or an archival
\* meanwhile is another writer, and then nothing is said.
THEOREM SuccessIsStored == Spec => []PostedIsStored
<1>1. ImportInv => PostedIsStored
  <2> SUFFICES ASSUME ImportInv, curated.pc \in {"rebuild", "done"}, "curated" \notin mixed,
                      NEW i \in DOMAIN curated.seed,
                      \A j \in DOMAIN curated.seed :
                        j > i => curated.seed[j].id # curated.seed[i].id
               PROVE  ItemStored(db, curated.seed[i])
    BY DEF PostedIsStored, ItemStored
  <2> DEFINE seed == curated.seed
  <2>1. /\ seed \in Seq(SeedTopic) /\ curated.todo = << >>
        /\ LeftOf(Chunks(seed), curated.todo)
    BY SeedAssumption DEF ImportInv, PostsInOrder
  <2>2. Kept(db, seed, PostedSoFar(curated))  BY DEF ImportInv, PostInv
  <2>3. PostedSoFar(curated) = Len(seed)
    <3>1. Done(Chunks(seed), curated.todo) = Len(Chunks(seed))  BY <2>1, NothingIsLeft
    <3>2. BatchEnd(Len(seed), ChunkSize, Len(Chunks(seed))) = Len(seed)  BY <2>1, ChunkFacts
    <3> QED BY <3>1, <3>2 DEF PostedSoFar
  <2>4. DOMAIN seed = 1..Len(seed)  BY <2>1, SeedFacts
  <2> HIDE DEF seed
  <2>5. ItemStored(db, seed[i])
    <3>1. i \in 1..Len(seed) /\ \A j \in 1..Len(seed) : j > i => seed[j].id # seed[i].id
      BY <2>4 DEF seed
    <3> QED BY <2>2, <2>3, <3>1 DEF Kept
  <2> QED BY <2>5 DEF seed
<1> QED BY <1>1, ImportInvariant, PTL
=============================================================================
