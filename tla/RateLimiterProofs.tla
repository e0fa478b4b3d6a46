-------------------------- MODULE RateLimiterProofs --------------------------
(***************************************************************************)
(* Proofs about the rate limiter, for every number of workers, hosts and   *)
(* paths and every limit and window.                                       *)
(*                                                                         *)
(* The inductive invariant says what a deque has kept of the admissions:   *)
(* it is the tail of the log, the log is sorted, and what the deque has    *)
(* dropped has expired.                                                    *)
(***************************************************************************)
EXTENDS RateLimiter, FiniteSetTheorems, WellFoundedInduction, TLAPS

\* The deque b is the part of the log a that may still count.
Kept(b, a) ==
  /\ Len(b) <= Len(a)
  /\ \A i \in 1..Len(b) : b[i] = a[Len(a) - Len(b) + i].at
  /\ \A i \in 1..(Len(a) - Len(b)) : Expired(a[i].at)
  /\ \A i, j \in 1..Len(a) : i <= j => a[i].at <= a[j].at
  /\ \A i \in 1..Len(a) : a[i].at <= now

Spaced(a) ==
  \A i \in 1..Len(a) : i + Limit <= Len(a) => a[i].at + Window <= a[i + Limit].at

Inv ==
  /\ TypeOK
  /\ \A w \in Workers, k \in Keys : Kept(buckets[w][k], admitted[w][k])
  /\ \A w \in Workers, k \in Keys : Spaced(admitted[w][k])

-----------------------------------------------------------------------------

\* Every nonempty set of positions has a first one.
LEMMA FirstPosition ==
  ASSUME NEW N \in Nat, NEW S \in SUBSET (1..N), S # {}
  PROVE  \E m \in S : \A k \in S : m <= k
<1> DEFINE T == {1..k : k \in S}
<1>1. T \subseteq FiniteSubsetsOf(1..N)
  <2>1. \A k \in S : 1..k \subseteq 1..N  OBVIOUS
  <2>2. \A k \in S : IsFiniteSet(1..k)  BY FS_Interval
  <2> QED BY <2>1, <2>2 DEF FiniteSubsetsOf
<1>2. PICK x \in T : \A y \in T : ~ (<<y, x>> \in StrictSubsetOrdering(1..N))
  <2>1. IsWellFoundedOn(StrictSubsetOrdering(1..N), FiniteSubsetsOf(1..N))
    BY FS_StrictSubsetOrderingWellFounded
  <2>2. T # {}  OBVIOUS
  <2> HIDE DEF T
  <2> QED BY <1>1, <2>1, <2>2, WFMin
<1>3. PICK m \in S : x = 1..m  OBVIOUS
<1>4. ASSUME NEW k \in S, k < m  PROVE FALSE
  <2>1. /\ 1..k \in SUBSET (1..N) /\ x \in SUBSET (1..N)
        /\ 1..k \subseteq x /\ 1..k # x
    <3>1. m \in x /\ m \notin 1..k  BY <1>3, <1>4
    <3> QED BY <1>3, <1>4, <3>1
  <2> QED BY <1>2, <2>1 DEF StrictSubsetOrdering
<1> QED BY <1>3, <1>4

\* The popleft loop returns a suffix of the deque: it drops expired entries
\* only, and the first entry it leaves has not expired.
LEMMA PrunedSuffix ==
  ASSUME now \in Nat, NEW b \in Seq(Nat)
  PROVE  \E n \in 0..Len(b) :
           /\ \A i \in 1..n : Expired(b[i])
           /\ n < Len(b) => ~Expired(b[n + 1])
           /\ Pruned(b) \in Seq(Nat)
           /\ Len(Pruned(b)) = Len(b) - n
           /\ \A i \in 1..(Len(b) - n) : Pruned(b)[i] = b[n + i]
<1> DEFINE Stop(n) == /\ \A i \in 1..n : Expired(b[i])
                      /\ n < Len(b) => ~Expired(b[n + 1])
           S == {i \in 1..Len(b) : ~Expired(b[i])}
           n == CHOOSE n \in 0..Len(b) : Stop(n)
<1> HIDE DEF Stop
<1>1. \E i \in 0..Len(b) : Stop(i)
  <2>1. CASE S = {}
    <3>1. Stop(Len(b)) BY <2>1 DEF Stop
    <3> QED BY <3>1
  <2>2. CASE S # {}
    <3>1. PICK m \in S : \A k \in S : m <= k
      <4>1. Len(b) \in Nat /\ S \in SUBSET (1..Len(b))  OBVIOUS
      <4> HIDE DEF S
      <4> QED BY <4>1, <2>2, FirstPosition
    <3>2. /\ m - 1 \in 0..Len(b) /\ m - 1 < Len(b) /\ ~Expired(b[(m - 1) + 1])  BY <3>1
    <3>3. \A i \in 1..(m - 1) : Expired(b[i])  BY <3>1
    <3> QED BY <3>2, <3>3 DEF Stop
  <2> QED BY <2>1, <2>2
<1>2. n \in 0..Len(b) /\ Stop(n)  BY <1>1
<1>3. Pruned(b) = SubSeq(b, n + 1, Len(b))  BY DEF Pruned, Stop
<1> HIDE DEF n
<1>4. /\ Pruned(b) \in Seq(Nat)
      /\ Len(Pruned(b)) = Len(b) - n
      /\ \A i \in 1..(Len(b) - n) : Pruned(b)[i] = b[n + i]
  BY <1>2, <1>3
<1> QED BY <1>2, <1>4 DEF Stop

\* What a bucket keeps after the popleft loop is exactly the admissions that
\* have not expired.
LEMMA PrunedKept ==
  ASSUME now \in Nat,
         NEW b \in Seq(Nat), NEW a \in Seq(Admission), Kept(b, a)
  PROVE  /\ Pruned(b) \in Seq(Nat)
         /\ Len(Pruned(b)) <= Len(b)
         /\ Kept(Pruned(b), a)
         /\ {i \in DOMAIN a : a[i].at + Window > now}
              = (Len(a) - Len(Pruned(b)) + 1)..Len(a)
<1>1. PICK n \in 0..Len(b) :
        /\ \A i \in 1..n : Expired(b[i])
        /\ n < Len(b) => ~Expired(b[n + 1])
        /\ Pruned(b) \in Seq(Nat)
        /\ Len(Pruned(b)) = Len(b) - n
        /\ \A i \in 1..(Len(b) - n) : Pruned(b)[i] = b[n + i]
  BY PrunedSuffix
<1> DEFINE p == Pruned(b)
           cut == Len(a) - Len(p)
<1>2. /\ Len(a) \in Nat /\ Len(b) \in Nat /\ Len(b) <= Len(a)
      /\ cut = (Len(a) - Len(b)) + n /\ cut \in 0..Len(a)
      /\ \A i \in 1..Len(a) : a[i].at \in Nat
  <2>1. Len(a) \in Nat /\ Len(b) \in Nat  OBVIOUS
  <2>2. Len(b) <= Len(a)  BY DEF Kept
  <2>3. Len(p) = Len(b) - n  BY <1>1
  <2>4. \A i \in 1..Len(a) : a[i] \in Admission  OBVIOUS
  <2>5. \A i \in 1..Len(a) : a[i].at \in Nat  BY <2>4 DEF Admission
  <2> HIDE DEF p
  <2> QED BY <2>1, <2>2, <2>3, <2>5
<1> HIDE DEF p, cut
<1>3. /\ p \in Seq(Nat) /\ Len(p) = Len(b) - n /\ Len(a) - Len(p) = cut
      /\ \A i \in 1..Len(p) : p[i] = a[cut + i].at
  <2>1. /\ p \in Seq(Nat) /\ Len(p) = Len(b) - n /\ Len(a) - Len(p) = cut
        /\ \A i \in 1..Len(p) : p[i] = b[n + i]
    BY <1>1 DEF p, cut
  <2>2. \A i \in 1..Len(b) : b[i] = a[Len(a) - Len(b) + i].at  BY DEF Kept
  <2> SUFFICES ASSUME NEW i \in 1..Len(p)  PROVE p[i] = a[cut + i].at
    BY <2>1
  <2>3. n + i \in 1..Len(b) /\ Len(a) - Len(b) + (n + i) = cut + i  BY <2>1, <1>2
  <2> QED BY <2>1, <2>2, <2>3
<1>4. \A i \in 1..cut : Expired(a[i].at)
  <2> SUFFICES ASSUME NEW i \in 1..cut  PROVE Expired(a[i].at)
    OBVIOUS
  <2>1. CASE i <= Len(a) - Len(b)
    BY <2>1, <1>2 DEF Kept
  <2>2. CASE i > Len(a) - Len(b)
    <3> DEFINE j == i - (Len(a) - Len(b))
    <3>1. j \in 1..n /\ j \in 1..Len(b) /\ i = Len(a) - Len(b) + j  BY <2>2, <1>2
    <3>2. b[j] = a[i].at  BY <3>1 DEF Kept
    <3> QED BY <3>1, <3>2, <1>1
  <2> QED BY <2>1, <2>2, <1>2
<1>5. \A i \in (cut + 1)..Len(a) : ~Expired(a[i].at)
  <2> SUFFICES ASSUME NEW i \in (cut + 1)..Len(a)  PROVE ~Expired(a[i].at)
    OBVIOUS
  <2>1. /\ n < Len(b) /\ n + 1 \in 1..Len(b)
        /\ Len(a) - Len(b) + (n + 1) = cut + 1
        /\ cut + 1 \in 1..Len(a) /\ i \in 1..Len(a) /\ cut + 1 <= i
    BY <1>2
  <2>2. ~Expired(a[cut + 1].at)
    <3>1. \A j \in 1..Len(b) : b[j] = a[Len(a) - Len(b) + j].at  BY DEF Kept
    <3>2. b[n + 1] = a[cut + 1].at  BY <2>1, <3>1
    <3> QED BY <2>1, <3>2, <1>1
  <2>3. a[cut + 1].at <= a[i].at
    <3>1. \A j, k \in 1..Len(a) : j <= k => a[j].at <= a[k].at  BY DEF Kept
    <3> QED BY <2>1, <3>1
  <2>4. a[cut + 1].at \in Nat /\ a[i].at \in Nat  BY <2>1, <1>2
  <2> QED BY <2>2, <2>3, <2>4, SettingsAssumption DEF Expired
<1>6. Kept(p, a)
  BY <1>2, <1>3, <1>4 DEF Kept
<1>7. {i \in DOMAIN a : a[i].at + Window > now} = (cut + 1)..Len(a)
  <2>1. \A i \in 1..Len(a) : a[i].at + Window > now <=> ~Expired(a[i].at)
    BY <1>2, SettingsAssumption DEF Expired
  <2>2. \A i \in 1..Len(a) : i \in 1..cut \/ i \in (cut + 1)..Len(a)
    BY <1>2
  <2>3. DOMAIN a = 1..Len(a) /\ (cut + 1)..Len(a) \subseteq 1..Len(a)
    BY <1>2
  <2> QED BY <2>1, <2>2, <2>3, <1>4, <1>5
<1> QED BY <1>2, <1>3, <1>6, <1>7 DEF p

\* A deque that still has room holds less than Limit entries, so the log has
\* place for one more admission, and the deque remembers it.
LEMMA KeptAppend ==
  ASSUME now \in Nat,
         NEW b \in Seq(Nat), NEW a \in Seq(Admission), NEW p \in Paths,
         Kept(b, a), Spaced(a), Len(b) < Limit
  PROVE  /\ Kept(Append(b, now), Append(a, [at |-> now, path |-> p]))
         /\ Spaced(Append(a, [at |-> now, path |-> p]))
<1> DEFINE e == [at |-> now, path |-> p]
           aa == Append(a, e)
           bb == Append(b, now)
<1>1. e \in Admission /\ e.at = now  BY DEF Admission
<1>2. /\ aa \in Seq(Admission) /\ Len(aa) = Len(a) + 1
      /\ \A i \in 1..Len(a) : aa[i] = a[i]
      /\ aa[Len(a) + 1] = e
      /\ bb \in Seq(Nat) /\ Len(bb) = Len(b) + 1
      /\ \A i \in 1..Len(b) : bb[i] = b[i]
      /\ bb[Len(b) + 1] = now
      /\ Len(a) \in Nat /\ Len(b) \in Nat /\ Len(b) <= Len(a)
      /\ \A i \in 1..Len(a) : a[i].at \in Nat /\ a[i].at <= now
  <2>1. /\ Len(a) \in Nat /\ Len(b) \in Nat
        /\ \A i \in 1..Len(a) : a[i] \in Admission
    OBVIOUS
  <2>2. /\ Len(b) <= Len(a)
        /\ \A i \in 1..Len(a) : a[i].at <= now
    BY DEF Kept
  <2>3. \A i \in 1..Len(a) : a[i].at \in Nat  BY <2>1 DEF Admission
  <2>4. /\ bb \in Seq(Nat) /\ Len(bb) = Len(b) + 1
        /\ \A i \in 1..Len(b) : bb[i] = b[i]
        /\ bb[Len(b) + 1] = now
    OBVIOUS
  <2> HIDE DEF e
  <2>5. /\ aa \in Seq(Admission) /\ Len(aa) = Len(a) + 1
        /\ \A i \in 1..Len(a) : aa[i] = a[i]
        /\ aa[Len(a) + 1] = e
    BY <1>1
  <2> QED BY <2>1, <2>2, <2>3, <2>4, <2>5
<1> HIDE DEF aa, bb, e
<1>3. Kept(bb, aa)
  <2>1. Len(bb) <= Len(aa)  BY <1>2
  <2>2. \A i \in 1..Len(bb) : bb[i] = aa[Len(aa) - Len(bb) + i].at
    <3> SUFFICES ASSUME NEW i \in 1..Len(bb)
                 PROVE  bb[i] = aa[Len(aa) - Len(bb) + i].at
      OBVIOUS
    <3>1. Len(aa) - Len(bb) + i = Len(a) - Len(b) + i  BY <1>2
    <3>2. CASE i = Len(b) + 1
      <4>1. Len(a) - Len(b) + i = Len(a) + 1  BY <3>2, <1>2
      <4> QED BY <3>1, <3>2, <4>1, <1>1, <1>2
    <3>3. CASE i \in 1..Len(b)
      <4>1. \A j \in 1..Len(b) : b[j] = a[Len(a) - Len(b) + j].at  BY DEF Kept
      <4>2. Len(a) - Len(b) + i \in 1..Len(a)  BY <3>3, <1>2
      <4>3. aa[Len(a) - Len(b) + i] = a[Len(a) - Len(b) + i]  BY <4>2, <1>2
      <4>4. bb[i] = b[i]  BY <3>3, <1>2
      <4> QED BY <3>1, <3>3, <4>1, <4>3, <4>4
    <3> QED BY <3>2, <3>3, <1>2
  <2>3. \A i \in 1..(Len(aa) - Len(bb)) : Expired(aa[i].at)
    <3>1. \A i \in 1..(Len(a) - Len(b)) : Expired(a[i].at)  BY DEF Kept
    <3>2. Len(aa) - Len(bb) = Len(a) - Len(b)  BY <1>2
    <3>3. \A i \in 1..(Len(a) - Len(b)) : aa[i] = a[i]  BY <1>2
    <3> QED BY <3>1, <3>2, <3>3
  <2>4. \A i, j \in 1..Len(aa) : i <= j => aa[i].at <= aa[j].at
    <3> SUFFICES ASSUME NEW i \in 1..Len(aa), NEW j \in 1..Len(aa), i <= j
                 PROVE  aa[i].at <= aa[j].at
      OBVIOUS
    <3>1. CASE j \in 1..Len(a)
      <4>1. i \in 1..Len(a)  BY <3>1, <1>2
      <4> QED BY <3>1, <4>1, <1>2 DEF Kept
    <3>2. CASE j = Len(a) + 1
      <4>1. CASE i = j  BY <4>1, <3>2, <1>1, <1>2
      <4>2. CASE i \in 1..Len(a)  
        <5>1. aa[i].at <= now  BY <4>2, <1>2
        <5> QED BY <5>1, <3>2, <1>1, <1>2
      <4> QED BY <3>2, <4>1, <4>2, <1>2
    <3> QED BY <3>1, <3>2, <1>2
  <2>5. \A i \in 1..Len(aa) : aa[i].at <= now
    <3>1. aa[Len(a) + 1].at <= now  BY <1>1, <1>2
    <3>2. \A i \in 1..Len(a) : aa[i].at <= now  BY <1>2
    <3> QED BY <3>1, <3>2, <1>2
  <2> QED BY <2>1, <2>2, <2>3, <2>4, <2>5 DEF Kept
<1>4. Spaced(aa)
  <2> SUFFICES ASSUME NEW i \in 1..Len(aa), i + Limit <= Len(aa)
               PROVE  aa[i].at + Window <= aa[i + Limit].at
    BY DEF Spaced
  <2>1. CASE i + Limit <= Len(a)
    <3>1. i \in 1..Len(a) /\ i + Limit \in 1..Len(a)  BY <2>1, <1>2, SettingsAssumption
    <3> QED BY <2>1, <3>1, <1>2 DEF Spaced
  <2>2. CASE i + Limit = Len(a) + 1
    <3>1. i \in 1..(Len(a) - Len(b)) /\ i \in 1..Len(a)
      BY <2>2, <1>2, SettingsAssumption
    <3>2. Expired(a[i].at)  BY <3>1 DEF Kept
    <3>3. a[i].at \in Nat /\ aa[i] = a[i]  BY <3>1, <1>2
    <3>4. aa[i].at + Window <= now
      BY <3>2, <3>3, SettingsAssumption DEF Expired
    <3> QED BY <2>2, <3>4, <1>1, <1>2
  <2>3. i + Limit <= Len(a) \/ i + Limit = Len(a) + 1
    <3>1. Len(aa) = Len(a) + 1 /\ Len(a) \in Nat  BY <1>2
    <3> QED BY <3>1, SettingsAssumption
  <2> QED BY <2>1, <2>2, <2>3
<1> QED BY <1>3, <1>4 DEF aa, bb, e

\* What Kept and Spaced say of an empty deque and log.
LEMMA KeptEmpty == Kept(<< >>, << >>) /\ Spaced(<< >>)
BY DEF Kept, Spaced

-----------------------------------------------------------------------------

\* Empty deques and empty logs agree.
LEMMA InvInit == Init => Inv
<1> SUFFICES ASSUME Init  PROVE Inv
  OBVIOUS
<1>1. TypeOK
  BY SettingsAssumption DEF Init, TypeOK
<1>2. \A w \in Workers, k \in Keys :
        Kept(buckets[w][k], admitted[w][k]) /\ Spaced(admitted[w][k])
  BY KeptEmpty DEF Init
<1> QED BY <1>1, <1>2 DEF Inv

\* Both modules count with the same Cardinality.
LEMMA SameCardinality == \A S : Log!Cardinality(S) = Cardinality(S)
BY DEF Cardinality, Log!Cardinality

\* What dispatch finds in a bucket: the decision is the one a count over all
\* admissions would make.
LEMMA Decision ==
  ASSUME Inv, NEW w \in Workers, NEW k \in Keys
  PROVE  LET b == Pruned(buckets[w][k])
             a == admitted[w][k]
         IN  /\ b \in Seq(Nat)
             /\ a \in Seq(Admission)
             /\ Len(b) <= Limit
             /\ Kept(b, a)
             /\ Spaced(a)
             /\ Cardinality(Log!Recent(w, k)) \in Nat
             /\ Full(b) <=> Cardinality(Log!Recent(w, k)) >= Limit
<1> DEFINE b == Pruned(buckets[w][k])
           a == admitted[w][k]
<1>1. /\ now \in Nat /\ buckets[w][k] \in Seq(Nat) /\ a \in Seq(Admission)
      /\ Len(buckets[w][k]) <= Limit
      /\ Kept(buckets[w][k], a) /\ Spaced(a)
  BY DEF Inv, TypeOK
<1>2. /\ b \in Seq(Nat) /\ Len(b) <= Len(buckets[w][k]) /\ Kept(b, a)
      /\ {i \in DOMAIN a : a[i].at + Window > now} = (Len(a) - Len(b) + 1)..Len(a)
  <2> HIDE DEF a
  <2> QED BY <1>1, PrunedKept
<1>3. Cardinality(Log!Recent(w, k)) = Len(b)
  <2>1. Log!Recent(w, k) = (Len(a) - Len(b) + 1)..Len(a)
    BY <1>2 DEF Log!Recent
  <2>2. Len(a) \in Nat /\ Len(b) \in Nat /\ Len(b) <= Len(a)
    BY <1>1, <1>2 DEF Kept
  <2> HIDE DEF a, b
  <2>3. /\ Len(a) - Len(b) + 1 \in Int
        /\ Len(a) \in Int
        /\ IF Len(a) - Len(b) + 1 > Len(a) THEN Len(b) = 0
           ELSE Len(a) - (Len(a) - Len(b) + 1) + 1 = Len(b)
    BY <2>2
  <2> QED BY <2>1, <2>3, FS_Interval
<1>4. Len(b) \in Nat /\ Len(b) <= Limit
  <2>1. Len(b) \in Nat /\ Len(buckets[w][k]) \in Nat  BY <1>1, <1>2
  <2> HIDE DEF b
  <2> QED BY <1>1, <1>2, <2>1, SettingsAssumption
<1> QED BY <1>1, <1>2, <1>3, <1>4 DEF Full

\* The buckets and logs other than the one a request touches stay as they are.
LEMMA InvUpdate ==
  ASSUME Inv, NEW w \in Workers, NEW k \in Keys, now' = now,
         NEW b \in Seq(Nat), NEW a \in Seq(Admission),
         Len(b) <= Limit, Kept(b, a), Spaced(a),
         buckets' = [buckets EXCEPT ![w][k] = b],
         admitted' = [admitted EXCEPT ![w][k] = a]
  PROVE  Inv'
<1>1. /\ buckets \in [Workers -> [Keys -> Seq(Nat)]]
      /\ admitted \in [Workers -> [Keys -> Seq(Admission)]]
      /\ now \in Nat
  BY DEF Inv, TypeOK
<1>2. \A v \in Workers, j \in Keys :
        \/ buckets'[v][j] = b /\ admitted'[v][j] = a
        \/ buckets'[v][j] = buckets[v][j] /\ admitted'[v][j] = admitted[v][j]
  BY <1>1
<1>3. /\ buckets' \in [Workers -> [Keys -> Seq(Nat)]]
      /\ admitted' \in [Workers -> [Keys -> Seq(Admission)]]
  BY <1>1
<1>4. \A v \in Workers, j \in Keys :
        Len(buckets'[v][j]) <= Limit /\ Spaced(admitted'[v][j])
  BY <1>2 DEF Inv, TypeOK
<1>5. ASSUME NEW v \in Workers, NEW j \in Keys
      PROVE  Kept(buckets[v][j], admitted[v][j])'
  <2>1. CASE buckets'[v][j] = b /\ admitted'[v][j] = a
    BY <2>1 DEF Kept, Expired
  <2>2. CASE buckets'[v][j] = buckets[v][j] /\ admitted'[v][j] = admitted[v][j]
    <3>1. Kept(buckets[v][j], admitted[v][j])  BY DEF Inv
    <3> QED BY <2>2, <3>1 DEF Kept, Expired
  <2> QED BY <1>2, <2>1, <2>2
<1>6. TypeOK'
  BY <1>1, <1>3, <1>4 DEF TypeOK
<1>7. \A v \in Workers, j \in Keys : Spaced(admitted[v][j])'
  BY <1>4 DEF Spaced
<1> QED BY <1>5, <1>6, <1>7 DEF Inv

\* Every request, every tick and every restart keeps the deques in step with
\* the logs.
LEMMA InvNext == Inv /\ [Next]_vars => Inv'
<1> SUFFICES ASSUME Inv, [Next]_vars  PROVE Inv'
  OBVIOUS
<1>1. ASSUME NEW w \in Workers, NEW h \in Hosts, NEW p \in Paths, Admit(w, h, p)
      PROVE  Inv'
  <2> DEFINE k == <<h, Area[p]>>
             b == Pruned(buckets[w][k])
             e == [at |-> now, path |-> p]
  <2>1. k \in Keys  BY DEF Keys
  <2>2. /\ b \in Seq(Nat) /\ Len(b) <= Limit
        /\ admitted[w][k] \in Seq(Admission)
        /\ Kept(b, admitted[w][k]) /\ Spaced(admitted[w][k])
    BY <2>1, Decision
  <2>3. now \in Nat /\ e \in Admission  BY DEF Inv, TypeOK, Admission
  <2>4. Len(b) < Limit
    BY <1>1, <2>2, SettingsAssumption DEF Admit, Full
  <2> HIDE DEF b, k
  <2>5. /\ Kept(Append(b, now), Append(admitted[w][k], e))
        /\ Spaced(Append(admitted[w][k], e))
    BY <2>2, <2>3, <2>4, KeptAppend
  <2>6. /\ buckets' = [buckets EXCEPT ![w][k] = Append(b, now)]
        /\ admitted' = [admitted EXCEPT ![w][k] = Append(admitted[w][k], e)]
        /\ now' = now
    BY <1>1 DEF Admit, b, k
  <2>7. /\ Append(b, now) \in Seq(Nat) /\ Append(admitted[w][k], e) \in Seq(Admission)
        /\ Len(Append(b, now)) <= Limit
    <3> HIDE DEF e
    <3> QED BY <2>2, <2>3, <2>4, SettingsAssumption
  <2> HIDE DEF e
  <2> QED BY <2>1, <2>5, <2>6, <2>7, InvUpdate
<1>2. ASSUME NEW w \in Workers, NEW h \in Hosts, NEW p \in Paths, Refuse(w, h, p)
      PROVE  Inv'
  <2> DEFINE k == <<h, Area[p]>>
             b == Pruned(buckets[w][k])
  <2>1. k \in Keys  BY DEF Keys
  <2>2. /\ b \in Seq(Nat) /\ Len(b) <= Limit
        /\ admitted[w][k] \in Seq(Admission)
        /\ Kept(b, admitted[w][k]) /\ Spaced(admitted[w][k])
    BY <2>1, Decision
  <2>3. /\ buckets' = [buckets EXCEPT ![w][k] = b]
        /\ admitted' = [admitted EXCEPT ![w][k] = admitted[w][k]]
        /\ now' = now
    BY <1>2, <2>1 DEF Refuse, Inv, TypeOK
  <2> HIDE DEF b, k
  <2> QED BY <2>1, <2>2, <2>3, InvUpdate
<1>3. ASSUME UNCHANGED <<now, buckets, admitted>>
      PROVE  Inv'
  <2>1. TypeOK'  BY <1>3 DEF Inv, TypeOK
  <2>2. ASSUME NEW w \in Workers, NEW k \in Keys
        PROVE  Kept(buckets[w][k], admitted[w][k])'
    <3>1. Kept(buckets[w][k], admitted[w][k])  BY DEF Inv
    <3> QED BY <1>3, <3>1 DEF Kept, Expired
  <2>3. \A w \in Workers, k \in Keys : Spaced(admitted[w][k])'
    BY <1>3 DEF Inv, Spaced
  <2> QED BY <2>1, <2>2, <2>3 DEF Inv
<1>4. CASE Tick
  <2>1. /\ now \in Nat /\ now' = now + 1
        /\ buckets' = buckets /\ admitted' = admitted
    BY <1>4 DEF Tick, Inv, TypeOK
  <2>2. TypeOK'  BY <2>1 DEF Inv, TypeOK
  <2>3. \A w \in Workers, k \in Keys : Spaced(admitted[w][k])'
    BY <2>1 DEF Inv, Spaced
  <2>4. ASSUME NEW w \in Workers, NEW k \in Keys
        PROVE  Kept(buckets[w][k], admitted[w][k])'
    <3> DEFINE b == buckets[w][k]
               a == admitted[w][k]
    <3>1. Kept(b, a) /\ a \in Seq(Admission) /\ b \in Seq(Nat)
      BY DEF Inv, TypeOK
    <3>2. \A i \in 1..Len(a) : a[i] \in Admission  BY <3>1
    <3>3. \A i \in 1..Len(a) : a[i].at \in Nat  BY <3>2 DEF Admission
    <3>4. \A i \in 1..Len(a) : a[i].at <= now'  BY <3>1, <3>3, <2>1 DEF Kept
    <3>5. \A i \in 1..(Len(a) - Len(b)) : a[i].at <= now' - Window
      <4> HIDE DEF a, b
      <4>1. 1..(Len(a) - Len(b)) \subseteq 1..Len(a)  BY <3>1 DEF Kept
      <4>2. \A i \in 1..(Len(a) - Len(b)) : a[i].at <= now - Window
        BY <3>1 DEF Kept, Expired
      <4> QED BY <4>1, <4>2, <3>3, <2>1, SettingsAssumption, SMTT(30)
    <3> QED BY <3>1, <3>4, <3>5, <2>1 DEF Kept, Expired
  <2> QED BY <2>2, <2>3, <2>4 DEF Inv
<1>5. ASSUME NEW w \in Workers, Restart(w)
      PROVE  Inv'
  <2>1. /\ now' = now /\ now \in Nat
        /\ buckets' \in [Workers -> [Keys -> Seq(Nat)]]
        /\ admitted' \in [Workers -> [Keys -> Seq(Admission)]]
    BY <1>5 DEF Restart, Inv, TypeOK
  <2>2. \A v \in Workers, k \in Keys :
          \/ buckets'[v][k] = << >> /\ admitted'[v][k] = << >>
          \/ buckets'[v][k] = buckets[v][k] /\ admitted'[v][k] = admitted[v][k]
    BY <1>5 DEF Restart, Inv, TypeOK
  <2>3. ASSUME NEW v \in Workers, NEW k \in Keys
        PROVE  /\ Len(buckets'[v][k]) <= Limit
               /\ Kept(buckets[v][k], admitted[v][k])'
               /\ Spaced(admitted[v][k])'
    <3>1. CASE buckets'[v][k] = << >> /\ admitted'[v][k] = << >>
      BY <3>1, SettingsAssumption DEF Kept, Spaced
    <3>2. CASE buckets'[v][k] = buckets[v][k] /\ admitted'[v][k] = admitted[v][k]
      <4>1. /\ Len(buckets[v][k]) <= Limit
            /\ Kept(buckets[v][k], admitted[v][k])
            /\ Spaced(admitted[v][k])
        BY DEF Inv, TypeOK
      <4>2. Kept(buckets[v][k], admitted[v][k])'
        BY <4>1, <3>2, <2>1 DEF Kept, Expired
      <4> QED BY <4>1, <4>2, <3>2 DEF Spaced
    <3> QED BY <3>1, <3>2, <2>2
  <2> QED BY <2>1, <2>3 DEF Inv, TypeOK
<1> QED BY <1>1, <1>2, <1>3, <1>4, <1>5 DEF Next, Probe, vars

\* The inductive invariant holds of every behaviour.
LEMMA Invariance == Spec => []Inv
<1> QED BY InvInit, InvNext, PTL DEF Spec

-----------------------------------------------------------------------------

\* Type correctness, and no bucket ever holds more than Limit entries.
THEOREM TypeCorrect == Spec => []TypeOK
<1>1. Inv => TypeOK  BY DEF Inv
<1> QED BY <1>1, Invariance, PTL

\* No worker ever lets more than Limit requests of a key through within any
\* Window, for every limit and window that the settings can have.
THEOREM WindowBoundHolds == Spec => []WindowBound
<1>1. Inv => WindowBound
  <2> SUFFICES ASSUME Inv, NEW w \in Workers, NEW k \in Keys,
                      NEW i \in DOMAIN admitted[w][k],
                      i + Limit \in DOMAIN admitted[w][k]
               PROVE  admitted[w][k][i].at + Window <= admitted[w][k][i + Limit].at
    BY DEF WindowBound
  <2>1. admitted[w][k] \in Seq(Admission) /\ Spaced(admitted[w][k])
    BY DEF Inv, TypeOK
  <2> QED BY <2>1 DEF Spaced
<1> QED BY <1>1, Invariance, PTL

\* The middleware implements the sliding window: every request is decided as
\* a count over all the admissions of its worker would decide it, although
\* the deques forget what has expired.
THEOREM DecidesLikeTheFullLog == Spec => CountsEveryAdmission
<1>1. Init => Log!Init
  BY DEF Init, Log!Init, Keys, Log!Keys
<1>2. Inv /\ [Next]_vars => [Log!Next]_(Log!vars)
  <2> SUFFICES ASSUME Inv, [Next]_vars  PROVE [Log!Next]_(Log!vars)
    OBVIOUS
  <2>1. ASSUME NEW w \in Workers, NEW h \in Hosts, NEW p \in Paths \ Exempt, Admit(w, h, p)
        PROVE  Log!Next
    <3> DEFINE k == <<h, Area[p]>>
    <3>1. k \in Keys  BY DEF Keys
    <3>2. ~Full(Pruned(buckets[w][k]))  BY <2>1 DEF Admit
    <3>3. Cardinality(Log!Recent(w, k)) < Limit
      <4> HIDE DEF k
      <4>1. /\ Cardinality(Log!Recent(w, k)) \in Nat
            /\ ~(Cardinality(Log!Recent(w, k)) >= Limit)
        BY <3>1, <3>2, Decision
      <4> QED BY <4>1, SettingsAssumption
    <3>4. Log!Admit(w, h, p)
      BY <2>1, <3>3, SameCardinality DEF Admit, Log!Admit, Answer, Log!Answer
    <3> QED BY <3>4 DEF Log!Next
  <2>2. ASSUME NEW w \in Workers, NEW h \in Hosts, NEW p \in Paths \ Exempt, Refuse(w, h, p)
        PROVE  Log!Next
    <3> DEFINE k == <<h, Area[p]>>
    <3>1. k \in Keys  BY DEF Keys
    <3>2. Full(Pruned(buckets[w][k]))  BY <2>2 DEF Refuse
    <3>3. Cardinality(Log!Recent(w, k)) >= Limit
      <4> HIDE DEF k
      <4> QED BY <3>1, <3>2, Decision
    <3>4. Log!Refuse(w, h, p)
      BY <2>2, <3>3, SameCardinality DEF Refuse, Log!Refuse, Answer, Log!Answer
    <3> QED BY <3>4 DEF Log!Next
  <2>3. ASSUME NEW w \in Workers, NEW h \in Hosts, NEW p \in Exempt, Probe(w, h, p)
        PROVE  Log!Next
    <3>1. Log!Probe(w, h, p)
      BY <2>3 DEF Probe, Log!Probe, Answer, Log!Answer
    <3> QED BY <3>1 DEF Log!Next
  <2>4. CASE Tick
    <3>1. Log!Tick  BY <2>4 DEF Tick, Log!Tick
    <3> QED BY <3>1 DEF Log!Next
  <2>5. ASSUME NEW w \in Workers, Restart(w)
        PROVE  Log!Next
    <3>1. Log!Restart(w)
      BY <2>5 DEF Restart, Log!Restart, Keys, Log!Keys
    <3> QED BY <3>1 DEF Log!Next
  <2>6. CASE UNCHANGED vars
    BY <2>6 DEF vars, Log!vars
  <2> QED BY <2>1, <2>2, <2>3, <2>4, <2>5, <2>6 DEF Next
<1> QED BY <1>1, <1>2, Invariance, PTL DEF Spec, CountsEveryAdmission, Log!Spec
=============================================================================
