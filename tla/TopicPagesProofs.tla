-------------------------- MODULE TopicPagesProofs --------------------------
(***************************************************************************)
(* Proofs about the topic listing and its cursors, for every set of        *)
(* topics, every table to begin with and every page size.                  *)
(*                                                                         *)
(* The inductive invariant says what a listing has at its cursor: it is    *)
(* sorted, it ends where the cursor is, and it has the topics that match   *)
(* up to the cursor and nobody touched, where they are in the table.       *)
(***************************************************************************)
EXTENDS TopicPages, FiniteSetTheorems, SequenceTheorems, WellFoundedInduction, TLAPS

Places == Orders \X Topics

Typed ==
  /\ topics \in [Topics -> Row]
  /\ reader \in [open : BOOLEAN, group : Groups \cup {None}, limit : Nat,
                 cursor : Places \cup {Start}, listed : Seq(Places), empty : BOOLEAN]
  /\ quiet \in BOOLEAN

\* A client that goes on has the last key it was shown as its cursor.
CursorIsLast ==
  reader.open =>
    /\ reader.limit \in Nat \ {0}
    /\ IF Len(reader.listed) = 0 THEN reader.cursor = Start
       ELSE reader.cursor = reader.listed[Len(reader.listed)]

\* The listing is over, or has come to t.
Passed(t) == ~reader.open \/ (reader.cursor # Start /\ ~Above(Key(t), reader.cursor))

\* The pages so far, for the topics that nobody has changed meanwhile: an entry is
\* a topic that matches, where it is, and no topic that matches was passed over.
Covered ==
  reader.limit # 0 =>
    \A t \in Topics \ changed :
      /\ \A i \in DOMAIN reader.listed :
           reader.listed[i][2] = t => reader.listed[i] = Key(t) /\ Matches(t, reader.group)
      /\ Matches(t, reader.group) /\ Passed(t) =>
           \E i \in DOMAIN reader.listed : reader.listed[i] = Key(t)

\* A cursor is handed out because there is a row beyond it.
Promised ==
  quiet /\ reader.open /\ reader.cursor # Start =>
    \E t \in Topics : Matches(t, reader.group) /\ Above(Key(t), reader.cursor)

PagesInv ==
  /\ Typed
  /\ CursorIsLast
  /\ Scan!Ascending(reader.listed)
  /\ reader.group # None => reader.limit # 0
  /\ Covered
  /\ Promised
  /\ ~reader.empty

-----------------------------------------------------------------------------
(* The order of the keys.                                                  *)

\* Rows come in a strict total order, and the cursor's comparison is that order.
LEMMA PlacesAreOrdered ==
  ASSUME NEW k \in Nat \X Nat, NEW l \in Nat \X Nat, NEW m \in Nat \X Nat
  PROVE  /\ k # Start
         /\ Above(k, l) <=> Scan!Less(l, k)
         /\ ~Scan!Less(k, k)
         /\ Scan!Less(k, l) /\ Scan!Less(l, m) => Scan!Less(k, m)
         /\ k # l => Scan!Less(k, l) \/ Scan!Less(l, k)
<1>1. PICK a \in Nat, b \in Nat : k = <<a, b>>  OBVIOUS
<1>2. PICK c \in Nat, d \in Nat : l = <<c, d>>  OBVIOUS
<1>3. PICK e \in Nat, f \in Nat : m = <<e, f>>  OBVIOUS
<1>4. k # Start /\ l # Start  BY <1>1, <1>2 DEF Start
<1> QED BY <1>1, <1>2, <1>3, <1>4 DEF Above, Scan!Less

\* Every nonempty set of numbers has a least one.
LEMMA LeastNumber ==
  ASSUME NEW S \in SUBSET Nat, S # {}
  PROVE  \E m \in S : \A k \in S : m <= k
<1> DEFINE R == {p \in Nat \X Nat : p[1] < p[2]}
<1>1. IsWellFoundedOn(R, Nat)
  BY NatLessThanWellFounded DEF OpToRel
<1> HIDE DEF R
<1>2. PICK m \in S : \A k \in S : ~(<<k, m>> \in R)  BY <1>1, WFMin
<1>3. ASSUME NEW k \in S  PROVE m <= k
  <2>1. ~(k < m)  BY <1>2 DEF R
  <2> QED BY <2>1
<1> QED BY <1>3

\* Every nonempty set of keys has a first one.
LEMMA FirstPlace ==
  ASSUME NEW S \in SUBSET (Nat \X Nat), S # {}
  PROVE  \E m \in S : \A k \in S : k # m => Scan!Less(m, k)
<1> DEFINE T == {k[1] : k \in S}
<1>1. T \in SUBSET Nat /\ T # {}  OBVIOUS
<1>2. PICK a \in T : \A c \in T : a <= c
  <2> HIDE DEF T
  <2> QED BY <1>1, LeastNumber
<1> DEFINE U == {k[2] : k \in {l \in S : l[1] = a}}
<1>3. U \in SUBSET Nat /\ U # {}  OBVIOUS
<1>4. PICK b \in U : \A c \in U : b <= c
  <2> HIDE DEF U
  <2> QED BY <1>3, LeastNumber
<1>5. PICK m \in S : m[1] = a /\ m[2] = b  OBVIOUS
<1>6. ASSUME NEW k \in S, k # m  PROVE Scan!Less(m, k)
  <2>1. a <= k[1] /\ (k[1] = a => b <= k[2])  BY <1>2, <1>4
  <2>2. ~Scan!Less(k, m)
    <3>1. k[1] \in Nat /\ k[2] \in Nat /\ a \in Nat /\ b \in Nat  BY <1>1, <1>3
    <3> QED BY <1>5, <2>1, <3>1 DEF Scan!Less
  <2> QED BY <1>6, <2>2, PlacesAreOrdered
<1> QED BY <1>6

\* A finite set of keys can be sorted.
LEMMA SortingExists ==
  ASSUME NEW S \in SUBSET (Nat \X Nat), IsFiniteSet(S)
  PROVE  \E s \in [1..Cardinality(S) -> S] : Scan!Ascending(s)
<1> DEFINE Sorted(T) == \E s \in [1..Cardinality(T) -> T] : Scan!Ascending(s)
           Bad == {T \in SUBSET S : ~Sorted(T)}
<1> SUFFICES ASSUME Bad # {} PROVE FALSE  OBVIOUS
<1>1. \A T \in SUBSET S : IsFiniteSet(T)  BY FS_Subset
<1>2. PICK T \in Bad : \A U \in Bad : ~(<<U, T>> \in StrictSubsetOrdering(S))
  <2>1. IsWellFoundedOn(StrictSubsetOrdering(S), FiniteSubsetsOf(S))
    BY FS_StrictSubsetOrderingWellFounded
  <2>2. Bad \subseteq FiniteSubsetsOf(S)  BY <1>1 DEF FiniteSubsetsOf
  <2> HIDE DEF Bad
  <2> QED BY <2>1, <2>2, WFMin
<1>3. T # {}
  <2>1. SUFFICES Sorted({})  BY <1>2
  <2>2. << >> \in [1..0 -> {}] /\ Scan!Ascending(<< >>)  BY DEF Scan!Ascending
  <2> QED BY <2>2, FS_EmptySet
<1>4. PICK m \in T : \A k \in T : k # m => Scan!Less(m, k)  BY <1>2, <1>3, FirstPlace
<1> DEFINE U == T \ {m}
           n == Cardinality(U)
<1>5. n \in Nat /\ Cardinality(T) = n + 1
  <2>1. T = U \cup {m}  OBVIOUS
  <2>2. IsFiniteSet(U)  BY <1>1, <1>2
  <2>3. Cardinality(U \cup {m}) = Cardinality(U) + 1  BY <2>2, FS_AddElement
  <2> QED BY <2>1, <2>2, <2>3, FS_CardinalityType
<1>6. PICK s \in [1..n -> U] : Scan!Ascending(s)
  <2>1. <<U, T>> \in StrictSubsetOrdering(S)  BY <1>2 DEF StrictSubsetOrdering
  <2> QED BY <1>2, <2>1
<1> DEFINE r == [i \in 1..(n + 1) |-> IF i = 1 THEN m ELSE s[i - 1]]
<1> HIDE DEF n
<1>7. r \in [1..(n + 1) -> T]
  <2>1. \A i \in 1..(n + 1) : i # 1 => i - 1 \in 1..n  BY <1>5
  <2> QED BY <2>1, <1>6
<1>8. ASSUME NEW i \in 1..(n + 1), NEW j \in 1..(n + 1), i < j  PROVE Scan!Less(r[i], r[j])
  <2>1. j - 1 \in 1..n /\ j # 1 /\ s[j - 1] \in U  BY <1>5, <1>6, <1>8
  <2>2. CASE i = 1  BY <2>1, <2>2, <1>4
  <2>3. CASE i # 1
    <3>1. i - 1 \in 1..n /\ i - 1 < j - 1  BY <1>5, <1>8, <2>3
    <3> QED BY <2>1, <2>3, <3>1, <1>6 DEF Scan!Ascending
  <2> QED BY <2>2, <2>3
<1>9. Scan!Ascending(r)  BY <1>8 DEF Scan!Ascending
<1> QED BY <1>2, <1>5, <1>7, <1>9

\* In a sorted list every key has one place.
LEMMA AscendingTellsApart ==
  ASSUME NEW n \in Nat, NEW s \in [1..n -> Nat \X Nat], Scan!Ascending(s)
  PROVE  \A i, j \in 1..n : s[i] = s[j] => i = j
<1> SUFFICES ASSUME NEW i \in 1..n, NEW j \in 1..n, i < j  PROVE s[i] # s[j]  OBVIOUS
<1> QED BY PlacesAreOrdered DEF Scan!Ascending

\* ORDER BY gives every row of a finite result, in ascending order.
LEMMA OrderBySorts ==
  ASSUME NEW S \in SUBSET (Nat \X Nat), IsFiniteSet(S)
  PROVE  /\ OrderBy(S) \in Seq(S) /\ OrderBy(S) \in Seq(Nat \X Nat)
         /\ Scan!Ascending(OrderBy(S))
         /\ \A k \in S : \E i \in 1..Len(OrderBy(S)) : OrderBy(S)[i] = k
<1> DEFINE n == Cardinality(S)
           found == OrderBy(S)
<1>1. n \in Nat  BY FS_CardinalityType
<1>2. found \in [1..n -> S] /\ \A i, j \in DOMAIN found : i < j => Above(found[j], found[i])
  <2>1. PICK s \in [1..n -> S] : Scan!Ascending(s)  BY SortingExists
  <2>2. \A i, j \in DOMAIN s : i < j => Above(s[j], s[i])
    BY <2>1, PlacesAreOrdered DEF Scan!Ascending
  <2> QED BY <2>1, <2>2 DEF OrderBy
<1> HIDE DEF n, found
<1>3. Scan!Ascending(found)  BY <1>2, PlacesAreOrdered DEF Scan!Ascending
<1>4. found \in Injection(1..n, S)
  <2>1. found \in [1..n -> Nat \X Nat]  BY <1>2
  <2>2. \A i, j \in 1..n : found[i] = found[j] => i = j
    BY <1>1, <1>3, <2>1, AscendingTellsApart
  <2> QED BY <1>2, <2>2 DEF Injection, IsInjective
<1>5. found \in Surjection(1..n, S)
  <2>1. Cardinality(1..n) = n
    <3>1. 1 \in Int /\ n \in Int  BY <1>1
    <3>2. Cardinality(1..n) = IF 1 > n THEN 0 ELSE n - 1 + 1  BY <3>1, FS_Interval
    <3> QED BY <1>1, <3>2
  <2> QED BY <1>4, <2>1, FS_Injection DEF n
<1>6. Len(found) = n /\ found \in Seq(S) /\ found \in Seq(Nat \X Nat)  BY <1>1, <1>2
<1> QED BY <1>3, <1>5, <1>6 DEF Surjection, found

-----------------------------------------------------------------------------
(* A page.                                                                 *)

\* Where a page ends: the rows of the query, and how many of them it shows.
Found == OrderBy(Matching(reader.group, reader.cursor))
More == HasNext(Found, reader.limit)
PageEnd == IF More THEN reader.limit ELSE Len(Found)

\* The query gives the keys of the topics that match beyond the cursor, sorted.
LEMMA QueryIsSorted ==
  ASSUME NumberAssumption, Typed
  PROVE  /\ Found \in Seq(Places) /\ Len(Found) \in Nat
         /\ Scan!Ascending(Found)
         /\ \A i \in 1..Len(Found) : Found[i] \in Places /\ Above(Found[i], reader.cursor)
         /\ \A i \in 1..Len(Found) :
              \E t \in Topics : Found[i] = Key(t) /\ Found[i][2] = t /\ Matches(t, reader.group)
         /\ \A t \in Topics :
              Matches(t, reader.group) /\ Above(Key(t), reader.cursor) =>
                \E i \in 1..Len(Found) : Found[i] = Key(t)
<1> DEFINE T == {u \in Topics : Matches(u, reader.group) /\ Above(Key(u), reader.cursor)}
           S == {Key(t) : t \in T}
           f == [t \in T |-> Key(t)]
<1>1. S = Matching(reader.group, reader.cursor)  BY DEF Matching
<1>2. Places \subseteq Nat \X Nat  BY DEF NumberAssumption, Places
<1>3. \A t \in Topics : Key(t) \in Places /\ Key(t)[2] = t
  BY DEF Typed, Row, Key, Places
<1>4. S \subseteq Places  BY <1>3
<1>5. IsFiniteSet(S)
  <2>1. IsFiniteSet(T)  BY FS_Subset DEF NumberAssumption
  <2>2. f \in Surjection(T, S)  BY DEF Surjection
  <2> QED BY <2>1, <2>2, FS_Surjection
<1> HIDE DEF S
<1>6. /\ Found \in Seq(S)
      /\ Scan!Ascending(Found)
      /\ \A k \in S : \E i \in 1..Len(Found) : Found[i] = k
  <2>1. S \in SUBSET (Nat \X Nat)  BY <1>2, <1>4
  <2> QED BY <1>1, <1>5, <2>1, OrderBySorts DEF Found
<1>7. Len(Found) \in Nat /\ \A i \in 1..Len(Found) : Found[i] \in S  BY <1>6
<1>8. Found \in Seq(Places)  BY <1>4, <1>6
<1>9. ASSUME NEW i \in 1..Len(Found)
      PROVE  /\ Found[i] \in Places /\ Above(Found[i], reader.cursor)
             /\ \E t \in Topics : Found[i] = Key(t) /\ Found[i][2] = t /\ Matches(t, reader.group)
  <2>1. PICK t \in T : Found[i] = Key(t)  BY <1>7 DEF S
  <2> QED BY <1>3, <2>1
<1>10. \A t \in Topics : Matches(t, reader.group) /\ Above(Key(t), reader.cursor) => Key(t) \in S
  BY DEF S
<1> QED BY <1>6, <1>7, <1>8, <1>9, <1>10

\* The entries of the second sequence follow those of the first.
LEMMA EntriesOfConcatenation ==
  ASSUME NEW S, NEW a \in Seq(S), NEW b \in Seq(S)
  PROVE  /\ a \o b \in Seq(S) /\ Len(a \o b) = Len(a) + Len(b)
         /\ \A i \in 1..Len(a) : (a \o b)[i] = a[i]
         /\ \A i \in 1..Len(b) : (a \o b)[Len(a) + i] = b[i]
<1>1. Len(a) \in Nat /\ Len(b) \in Nat  OBVIOUS
<1>2. \A m, n \in Nat : \A i \in 1..n : m + i \in 1..(m + n) /\ ~(m + i <= m) /\ m + i - m = i
  OBVIOUS
<1>3. ASSUME NEW i \in 1..Len(b)  PROVE (a \o b)[Len(a) + i] = b[i]
  <2> DEFINE j == Len(a) + i
  <2>1. j \in 1..(Len(a) + Len(b)) /\ ~(j <= Len(a)) /\ j - Len(a) = i  BY <1>1, <1>2
  <2>2. (a \o b)[j] = IF j <= Len(a) THEN a[j] ELSE b[j - Len(a)]
    <3> HIDE DEF j
    <3> QED BY <2>1, ConcatProperties
  <2> QED BY <2>1, <2>2
<1>4. ASSUME NEW i \in 1..Len(a)  PROVE (a \o b)[i] = a[i]
  <2>1. i \in 1..(Len(a) + Len(b)) /\ i <= Len(a)  BY <1>1
  <2> QED BY <2>1, ConcatProperties
<1> QED BY <1>3, <1>4, ConcatProperties

\* What the client has after the page: the old entries, then the first rows of the
\* query; the whole is sorted, as the old entries end where the query begins.
LEMMA PageGoesOn ==
  ASSUME NumberAssumption, PagesInv, reader.open,
         NEW new, new = reader.listed \o SubSeq(Found, 1, PageEnd)
  PROVE  /\ PageEnd \in 0..Len(Found) /\ (More => PageEnd = reader.limit)
         /\ new \in Seq(Places) /\ Len(new) = Len(reader.listed) + PageEnd
         /\ \A i \in 1..Len(reader.listed) : new[i] = reader.listed[i]
         /\ \A i \in 1..PageEnd : new[Len(reader.listed) + i] = Found[i]
         /\ Scan!Ascending(new)
<1> DEFINE old == reader.listed
           n == Len(old)
           page == SubSeq(Found, 1, PageEnd)
<1>1. /\ Found \in Seq(Places) /\ Len(Found) \in Nat /\ Scan!Ascending(Found)
      /\ \A i \in 1..Len(Found) : Found[i] \in Places /\ Above(Found[i], reader.cursor)
  BY QueryIsSorted DEF PagesInv
<1>2. old \in Seq(Places) /\ n \in Nat  BY DEF PagesInv, Typed
<1>3. reader.limit \in Nat \ {0}  BY DEF PagesInv, CursorIsLast
<1>4. PageEnd \in 0..Len(Found) /\ (More => PageEnd = reader.limit)
  BY <1>1, <1>3 DEF PageEnd, More, HasNext
<1>5. page \in Seq(Places) /\ Len(page) = PageEnd /\ \A i \in 1..PageEnd : page[i] = Found[i]
  <2>1. PageEnd \in Nat /\ PageEnd <= Len(Found)  BY <1>1, <1>4
  <2> HIDE DEF page
  <2> QED BY <1>1, <2>1 DEF page
<1> HIDE DEF page
<1>6. /\ new \in Seq(Places) /\ Len(new) = n + PageEnd
      /\ \A i \in 1..n : new[i] = old[i]
      /\ \A i \in 1..PageEnd : new[n + i] = page[i]
  <2>1. new = old \o page  BY DEF page
  <2> HIDE DEF old
  <2>2. /\ old \o page \in Seq(Places) /\ Len(old \o page) = Len(old) + Len(page)
        /\ \A i \in 1..Len(old) : (old \o page)[i] = old[i]
        /\ \A i \in 1..Len(page) : (old \o page)[Len(old) + i] = page[i]
    <3>1. old \in Seq(Places) /\ page \in Seq(Places)  BY <1>2, <1>5
    <3> QED BY <3>1, EntriesOfConcatenation
  <2>3. Len(page) = PageEnd  BY <1>5
  <2> QED BY <2>1, <2>2, <2>3
<1>7. \A i \in 1..PageEnd : new[n + i] = Found[i]  BY <1>5, <1>6
<1>8. ASSUME NEW i \in 1..(n + PageEnd), NEW j \in 1..(n + PageEnd), i < j
      PROVE  Scan!Less(new[i], new[j])
  <2>1. CASE j <= n
    <3>1. i \in 1..n /\ j \in 1..n  BY <1>2, <1>8, <2>1
    <3>2. Scan!Less(old[i], old[j])
      BY <1>2, <1>8, <3>1 DEF PagesInv, Scan!Ascending
    <3> QED BY <1>6, <3>1, <3>2
  <2>2. CASE i > n
    <3>1. PICK k \in 1..PageEnd, l \in 1..PageEnd : i = n + k /\ j = n + l /\ k < l
      <4>1. i - n \in 1..PageEnd /\ j - n \in 1..PageEnd /\ i - n < j - n
            /\ i = n + (i - n) /\ j = n + (j - n)
        BY <1>2, <1>4, <1>8, <2>2
      <4> QED BY <4>1
    <3>2. k \in 1..Len(Found) /\ l \in 1..Len(Found)  BY <1>1, <1>4
    <3>3. Scan!Less(Found[k], Found[l])  BY <1>1, <3>1, <3>2 DEF Scan!Ascending
    <3> QED BY <1>7, <3>1, <3>3
  <2>3. CASE i <= n /\ n < j
    <3>1. i \in 1..n /\ n \in 1..n  BY <1>2, <1>8, <2>3
    <3>2. PICK l \in 1..PageEnd : j = n + l
      <4>1. j - n \in 1..PageEnd /\ j = n + (j - n)  BY <1>2, <1>4, <1>8, <2>3
      <4> QED BY <4>1
    <3>3. l \in 1..Len(Found)  BY <1>1, <1>4
    <3>4. reader.cursor = old[n]
      <4>1. n # 0  BY <1>2, <3>1
      <4> QED BY <4>1 DEF PagesInv, CursorIsLast
    <3>5. old[i] \in Nat \X Nat /\ old[n] \in Nat \X Nat /\ Found[l] \in Nat \X Nat
      <4>1. Places \subseteq Nat \X Nat  BY DEF NumberAssumption, Places
      <4>2. old[i] \in Places /\ old[n] \in Places  BY <1>2, <3>1
      <4> QED BY <1>1, <3>3, <4>1, <4>2
    <3>6. Scan!Less(old[n], Found[l])  BY <1>1, <3>3, <3>4, <3>5, PlacesAreOrdered
    <3>7. i = n \/ Scan!Less(old[i], old[n])
      <4>1. i < n \/ i = n  BY <1>2, <3>1
      <4>2. i \in DOMAIN reader.listed /\ n \in DOMAIN reader.listed  BY <1>2, <3>1
      <4> QED BY <4>1, <4>2 DEF PagesInv, Scan!Ascending
    <3>8. Scan!Less(old[i], Found[l])
      <4>1. CASE i = n  BY <3>6, <4>1
      <4>2. CASE Scan!Less(old[i], old[n])
        <5> HIDE DEF old, n
        <5> QED BY <3>5, <3>6, <4>2, PlacesAreOrdered
      <4> QED BY <3>7, <4>1, <4>2
    <3> QED BY <1>6, <1>7, <3>1, <3>2, <3>8
  <2>4. j <= n \/ i > n \/ (i <= n /\ n < j)
    <3>1. PageEnd \in Nat  BY <1>1, <1>4
    <3> QED BY <1>2, <3>1
  <2> QED BY <2>1, <2>2, <2>3, <2>4
<1>9. Scan!Ascending(new)
  <2>1. DOMAIN new = 1..(n + PageEnd)  BY <1>6
  <2> QED BY <1>8, <2>1 DEF Scan!Ascending
<1> QED BY <1>4, <1>6, <1>7, <1>9
-----------------------------------------------------------------------------
(* The invariant.                                                          *)

LEMMA InitPages ==
  ASSUME TableAssumption, Init
  PROVE  PagesInv
<1>1. topics \in [Topics -> Row]  BY DEF Init, TableAssumption
<1>2. /\ reader.open = FALSE /\ reader.limit = 0 /\ reader.group = None
      /\ reader.listed = << >> /\ reader.empty = FALSE
  BY DEF Init, NotReading
<1>3. Typed  BY <1>1 DEF Init, Typed, NotReading, Start
<1> QED BY <1>2, <1>3 DEF PagesInv, CursorIsLast, Covered, Promised, Scan!Ascending

LEMMA BeginKeepsPages ==
  ASSUME NumberAssumption, PagesInv, BeginListing
  PROVE  PagesInv'
<1>1. PICK group \in Groups \cup {None}, limit \in Limits :
        reader' = [NotReading EXCEPT !.open = TRUE, !.group = group, !.limit = limit]
  BY DEF BeginListing
<1>2. limit \in Nat \ {0}  BY DEF NumberAssumption
<1>3. reader' = [open |-> TRUE, group |-> group, limit |-> limit, cursor |-> << >>,
                 listed |-> << >>, empty |-> FALSE]
  BY <1>1 DEF NotReading
<1>4. Typed'
  <2>1. topics' = topics /\ quiet' = TRUE  BY DEF BeginListing
  <2>2. reader' \in [open : BOOLEAN, group : Groups \cup {None}, limit : Nat,
                     cursor : Places \cup {Start}, listed : Seq(Places), empty : BOOLEAN]
    BY <1>2, <1>3 DEF Start
  <2> QED BY <2>1, <2>2 DEF PagesInv, Typed
<1>5. /\ reader'.open /\ reader'.limit = limit /\ reader'.cursor = Start
      /\ reader'.listed = << >> /\ ~reader'.empty
  BY <1>3 DEF Start
<1>6. CursorIsLast' /\ Promised'  BY <1>2, <1>5 DEF CursorIsLast, Promised
<1>7. Scan!Ascending(reader.listed)'  BY <1>5 DEF Scan!Ascending
<1>8. Covered'
  <2>1. \A t : ~Passed(t)'  BY <1>5 DEF Passed
  <2>2. DOMAIN reader'.listed = {}  BY <1>5
  <2> QED BY <2>1, <2>2 DEF Covered
<1> QED BY <1>2, <1>4, <1>5, <1>6, <1>7, <1>8 DEF PagesInv

\* Every topic that nobody has changed is where it was.
LEMMA EditKeepsPages ==
  ASSUME PagesInv, Edit
  PROVE  PagesInv'
<1>1. PICK t \in Topics, row \in Row :
        topics' = [topics EXCEPT ![t] = row] /\ changed' = changed \cup {t}
  BY DEF Edit
<1>2. reader' = reader /\ quiet' = FALSE  BY DEF Edit
<1>3. Typed'  BY <1>1, <1>2 DEF PagesInv, Typed
<1>4. \A u \in Topics \ changed' : topics'[u] = topics[u] /\ u \in Topics \ changed
  BY <1>1 DEF PagesInv, Typed
<1>5. \A u \in Topics \ changed' :
        /\ Key(u)' = Key(u)
        /\ (Passed(u)' <=> Passed(u))
        /\ (Matches(u, reader.group)' <=> Matches(u, reader.group))
  <2> SUFFICES ASSUME NEW u \in Topics \ changed'
               PROVE  /\ Key(u)' = Key(u)
                      /\ (Passed(u)' <=> Passed(u))
                      /\ (Matches(u, reader.group)' <=> Matches(u, reader.group))
    OBVIOUS
  <2>1. Key(u)' = Key(u)  BY <1>4 DEF Key
  <2>2. Passed(u)' <=> Passed(u)  BY <1>2, <2>1 DEF Passed, Above, Start
  <2>3. Matches(u, reader.group)' <=> Matches(u, reader.group)
    BY <1>2, <1>4 DEF Matches, Published
  <2> QED BY <2>1, <2>2, <2>3
<1>6. Covered'  BY <1>2, <1>4, <1>5 DEF PagesInv, Covered
<1>7. CursorIsLast' /\ Promised' /\ Scan!Ascending(reader.listed)'
  BY <1>2 DEF PagesInv, CursorIsLast, Promised, Scan!Ascending
<1> QED BY <1>2, <1>3, <1>6, <1>7 DEF PagesInv

LEMMA QuietKeepsPages ==
  ASSUME PagesInv, UNCHANGED <<topics, reader, changed, quiet>>
  PROVE  PagesInv'
<1>1. Typed' /\ CursorIsLast' /\ Scan!Ascending(reader.listed)'
  BY DEF PagesInv, Typed, CursorIsLast, Scan!Ascending
<1>2. \A u : Key(u)' = Key(u)  BY DEF Key
<1>3. \A u : Passed(u)' <=> Passed(u)  BY <1>2 DEF Passed, Above, Start
<1>4. \A u : Matches(u, reader.group)' <=> Matches(u, reader.group)  BY DEF Matches, Published
<1>5. Covered'  BY <1>2, <1>3, <1>4 DEF PagesInv, Covered
<1>6. Promised'  BY <1>2, <1>4 DEF PagesInv, Promised, Above, Start
<1> QED BY <1>1, <1>5, <1>6 DEF PagesInv

LEMMA ManifestKeepsPages ==
  ASSUME PagesInv, Manifest
  PROVE  PagesInv'
<1>1. reader' = NotReading /\ topics' = topics /\ quiet' = TRUE  BY DEF Manifest
<1>2. Typed'  BY <1>1 DEF PagesInv, Typed, NotReading, Start
<1>3. /\ ~reader'.open /\ reader'.limit = 0 /\ reader'.group = None
      /\ reader'.listed = << >> /\ ~reader'.empty
  BY <1>1 DEF NotReading
<1> QED BY <1>2, <1>3 DEF PagesInv, CursorIsLast, Covered, Promised, Scan!Ascending
LEMMA PageIsGot ==
  ASSUME Typed, GetPage
  PROVE  /\ reader'.open = More
         /\ reader'.group = reader.group /\ reader'.limit = reader.limit
         /\ reader'.listed = reader.listed \o SubSeq(Found, 1, PageEnd)
         /\ reader'.empty = (quiet /\ reader.cursor # Start /\ SubSeq(Found, 1, PageEnd) = << >>)
         /\ reader'.cursor = IF More THEN Found[reader.limit] ELSE reader.cursor
         /\ topics' = topics /\ quiet' = TRUE /\ changed' = changed
         /\ reader.open
         /\ reader' = [open |-> reader'.open, group |-> reader'.group, limit |-> reader'.limit,
                       cursor |-> reader'.cursor, listed |-> reader'.listed,
                       empty |-> reader'.empty]
BY DEF Typed, GetPage, Found, More, PageEnd, NextCursor

\* A page lists what the query finds up to the new cursor, and nothing that
\* matches lies between the old cursor and it.
LEMMA PageKeepsPages ==
  ASSUME NumberAssumption, PagesInv, GetPage
  PROVE  PagesInv'
<1> DEFINE old == reader.listed
           new == reader'.listed
           n == Len(old)
<1>1. /\ reader'.open = More
      /\ reader'.group = reader.group /\ reader'.limit = reader.limit
      /\ new = old \o SubSeq(Found, 1, PageEnd)
      /\ reader'.empty = (quiet /\ reader.cursor # Start /\ SubSeq(Found, 1, PageEnd) = << >>)
      /\ reader'.cursor = IF More THEN Found[reader.limit] ELSE reader.cursor
      /\ topics' = topics /\ quiet' = TRUE /\ changed' = changed
      /\ reader.open
      /\ reader' = [open |-> reader'.open, group |-> reader'.group, limit |-> reader'.limit,
                    cursor |-> reader'.cursor, listed |-> reader'.listed,
                    empty |-> reader'.empty]
  BY PageIsGot DEF PagesInv
<1>2. /\ PageEnd \in 0..Len(Found) /\ (More => PageEnd = reader.limit)
      /\ new \in Seq(Places) /\ Len(new) = n + PageEnd
      /\ \A i \in 1..n : new[i] = old[i]
      /\ \A i \in 1..PageEnd : new[n + i] = Found[i]
      /\ Scan!Ascending(new)
  BY <1>1, PageGoesOn
<1>3. /\ Found \in Seq(Places) /\ Len(Found) \in Nat
      /\ Scan!Ascending(Found)
      /\ \A i \in 1..Len(Found) : Found[i] \in Places /\ Above(Found[i], reader.cursor)
      /\ \A i \in 1..Len(Found) :
           \E t \in Topics : Found[i] = Key(t) /\ Found[i][2] = t /\ Matches(t, reader.group)
      /\ \A t \in Topics :
           Matches(t, reader.group) /\ Above(Key(t), reader.cursor) =>
             \E i \in 1..Len(Found) : Found[i] = Key(t)
  BY QueryIsSorted DEF PagesInv
<1>4. n \in Nat /\ PageEnd \in Nat /\ reader.limit \in Nat \ {0} /\ old \in Seq(Places)
  <2>1. old \in Seq(Places)  BY DEF PagesInv, Typed
  <2> QED BY <1>1, <1>2, <1>3, <2>1 DEF PagesInv, CursorIsLast
<1>5. More \in BOOLEAN /\ (More <=> Len(Found) > reader.limit)  BY DEF More, HasNext
<1>6. ~More => PageEnd = Len(Found)  BY DEF PageEnd
<1>7. Places \subseteq Nat \X Nat  BY DEF NumberAssumption, Places
<1>8. \A t : Key(t)' = Key(t) /\ (Matches(t, reader.group)' <=> Matches(t, reader.group))
  BY <1>1 DEF Key, Matches, Published
<1>9. More => /\ reader.limit \in 1..Len(Found) /\ reader.limit + 1 \in 1..Len(Found)
              /\ reader'.cursor = Found[reader.limit] /\ reader'.cursor \in Places
  <2> SUFFICES ASSUME More
               PROVE  /\ reader.limit \in 1..Len(Found) /\ reader.limit + 1 \in 1..Len(Found)
                      /\ reader'.cursor = Found[reader.limit] /\ reader'.cursor \in Places
    OBVIOUS
  <2>1. reader.limit \in 1..Len(Found) /\ reader.limit + 1 \in 1..Len(Found)
    BY <1>3, <1>4, <1>5
  <2>2. reader'.cursor = Found[reader.limit]  BY <1>1
  <2> QED BY <1>3, <2>1, <2>2
<1> HIDE DEF old, new, n
<1>10. Typed'
  <2>1. reader'.cursor \in Places \cup {Start}
    BY <1>1, <1>9 DEF PagesInv, Typed
  <2>2. /\ reader'.open \in BOOLEAN /\ reader'.group \in Groups \cup {None}
        /\ reader'.limit \in Nat /\ reader'.listed \in Seq(Places) /\ reader'.empty \in BOOLEAN
    BY <1>1, <1>2, <1>5 DEF PagesInv, Typed, new
  <2> QED BY <1>1, <2>1, <2>2 DEF PagesInv, Typed
<1>11. CursorIsLast'
  <2> SUFFICES ASSUME More
               PROVE  Len(new) # 0 /\ reader'.cursor = new[Len(new)]
    BY <1>1, <1>4 DEF CursorIsLast, new
  <2>1. Len(new) = n + reader.limit /\ reader.limit \in 1..PageEnd  BY <1>2, <1>4
  <2>2. Len(new) # 0  BY <1>4, <2>1
  <2> QED BY <1>2, <1>9, <2>1, <2>2
<1>12. Scan!Ascending(reader.listed)'  BY <1>2 DEF Scan!Ascending, new
<1>13. Covered'
  <2> SUFFICES ASSUME NEW t \in Topics \ changed
               PROVE  /\ \A i \in 1..Len(new) :
                           new[i][2] = t => new[i] = Key(t) /\ Matches(t, reader.group)
                      /\ Matches(t, reader.group) /\ Passed(t)' =>
                           \E i \in 1..Len(new) : new[i] = Key(t)
    <3>1. DOMAIN new = 1..Len(new)  BY <1>2
    <3> QED BY <1>1, <1>8, <3>1 DEF Covered, new
  <2>1. /\ \A i \in 1..n : old[i][2] = t => old[i] = Key(t) /\ Matches(t, reader.group)
        /\ Matches(t, reader.group) /\ Passed(t) => \E i \in 1..n : old[i] = Key(t)
    <3>1. DOMAIN old = 1..n  BY <1>4 DEF n
    <3> QED BY <1>4, <3>1 DEF PagesInv, Covered, old
  <2>2. ASSUME NEW i \in 1..Len(new), new[i][2] = t
        PROVE  new[i] = Key(t) /\ Matches(t, reader.group)
    <3>1. CASE i <= n
      <4>1. i \in 1..n  BY <1>4, <3>1
      <4> QED BY <1>2, <2>1, <2>2, <4>1
    <3>2. CASE i > n
      <4>1. i - n \in 1..PageEnd /\ n + (i - n) = i  BY <1>2, <1>4, <3>2
      <4>2. new[i] = Found[i - n]  BY <1>2, <4>1
      <4>3. i - n \in 1..Len(Found)  BY <1>2, <1>3, <1>4, <4>1
      <4> QED BY <1>3, <2>2, <4>2, <4>3
    <3> QED BY <1>4, <3>1, <3>2
  <2>3. ASSUME Matches(t, reader.group), Passed(t)'
        PROVE  \E i \in 1..Len(new) : new[i] = Key(t)
    <3>1. CASE ~Above(Key(t), reader.cursor)
      <4>1. reader.cursor # Start  BY <3>1 DEF Above
      <4>2. PICK i \in 1..n : old[i] = Key(t)  BY <2>1, <2>3, <3>1, <4>1 DEF Passed
      <4>3. i \in 1..Len(new)  BY <1>2, <1>4
      <4> QED BY <1>2, <4>2, <4>3
    <3>2. CASE Above(Key(t), reader.cursor)
      <4>1. PICK j \in 1..Len(Found) : Found[j] = Key(t)  BY <1>3, <2>3, <3>2
      <4>2. j \in 1..PageEnd
        <5>1. CASE ~More  BY <1>6, <5>1
        <5>2. CASE More
          <6>1. SUFFICES ASSUME j > reader.limit PROVE FALSE
            BY <1>2, <1>3, <1>4, <5>2
          <6>2. Scan!Less(Found[reader.limit], Found[j])
            <7>1. DOMAIN Found = 1..Len(Found)  BY <1>3
            <7> QED BY <1>3, <1>9, <5>2, <6>1, <7>1 DEF Scan!Ascending
          <6>3. Above(Key(t), reader'.cursor)
            <7>1. Found[j] \in Nat \X Nat /\ Found[reader.limit] \in Nat \X Nat
              BY <1>3, <1>7, <1>9, <5>2
            <7> QED BY <1>9, <4>1, <5>2, <6>2, <7>1, PlacesAreOrdered
          <6>4. ~Above(Key(t), reader'.cursor)
            BY <1>1, <1>8, <2>3, <5>2 DEF Passed, Above, Start
          <6> QED BY <6>3, <6>4
        <5> QED BY <5>1, <5>2
      <4>3. n + j \in 1..Len(new)  BY <1>2, <1>4, <4>2
      <4> QED BY <1>2, <4>1, <4>2, <4>3
    <3> QED BY <3>1, <3>2
  <2> QED BY <2>2, <2>3
<1>14. Promised'
  <2> SUFFICES ASSUME More
               PROVE  \E t \in Topics : Matches(t, reader.group) /\ Above(Key(t), reader'.cursor)
    BY <1>1, <1>8 DEF Promised, Above, Start
  <2>1. Scan!Less(Found[reader.limit], Found[reader.limit + 1])
    <3>1. DOMAIN Found = 1..Len(Found)  BY <1>3
    <3>2. reader.limit < reader.limit + 1  BY <1>4
    <3> QED BY <1>3, <1>9, <3>1, <3>2 DEF Scan!Ascending
  <2>2. Found[reader.limit] \in Nat \X Nat /\ Found[reader.limit + 1] \in Nat \X Nat
    BY <1>3, <1>7, <1>9
  <2>3. Above(Found[reader.limit + 1], reader'.cursor)  BY <1>9, <2>1, <2>2, PlacesAreOrdered
  <2> QED BY <1>3, <1>9, <2>3
<1>15. ~reader'.empty
  <2> SUFFICES ASSUME quiet, reader.cursor # Start, SubSeq(Found, 1, PageEnd) = << >>
               PROVE  FALSE
    BY <1>1
  <2>1. \E i \in 1..Len(Found) : TRUE  BY <1>1, <1>3 DEF PagesInv, Promised
  <2>2. PageEnd # 0  BY <1>3, <1>4, <2>1 DEF PageEnd
  <2>3. Len(SubSeq(Found, 1, PageEnd)) = PageEnd  BY <1>2, <1>3, <1>4
  <2> QED BY <2>2, <2>3
<1> QED BY <1>1, <1>10, <1>11, <1>12, <1>13, <1>14, <1>15 DEF PagesInv

LEMMA StepKeepsPages ==
  ASSUME NumberAssumption, PagesInv, [Next]_vars
  PROVE  PagesInv'
<1>1. CASE BeginListing  BY <1>1, BeginKeepsPages
<1>2. CASE GetPage  BY <1>2, PageKeepsPages
<1>3. CASE Manifest  BY <1>3, ManifestKeepsPages
<1>4. CASE Hydrate  BY <1>4, QuietKeepsPages DEF Hydrate
<1>5. CASE Edit  BY <1>5, EditKeepsPages
<1>6. CASE UNCHANGED vars  BY <1>6, QuietKeepsPages DEF vars
<1> QED BY <1>1, <1>2, <1>3, <1>4, <1>5, <1>6 DEF Next

\* Every reachable state satisfies the invariant: list_topics hands out a cursor that
\* says what the client has had.
THEOREM PagesInvariant == Spec => []PagesInv
<1>1. Init => PagesInv  BY TableAssumption, InitPages
<1>2. PagesInv /\ [Next]_vars => PagesInv'  BY NumberAssumption, StepKeepsPages
<1> QED BY <1>1, <1>2, PTL DEF Spec
-----------------------------------------------------------------------------
(* The theorems.                                                           *)

\* Without a change in between next_cursor never leads to an empty page: GET
\* /topics hands one out only when the query has found a row beyond the page.
THEOREM PagesAreNotEmpty == Spec => []NoEmptyPage
<1>1. PagesInv => NoEmptyPage  BY DEF PagesInv, NoEmptyPage
<1> QED BY <1>1, PagesInvariant, PTL

\* A finished listing has its places told apart, the topics that matched all along
\* at exactly one of them, and those that never matched at none.
LEMMA FinishedListing ==
  ASSUME NumberAssumption, PagesInv, ~reader.open, reader.limit # 0,
         NEW t \in Topics \ changed
  PROVE  /\ Matches(t, reader.group) =>
              \E i \in 1..Len(reader.listed) :
                {j \in DOMAIN reader.listed : reader.listed[j][2] = t} = {i}
         /\ ~Matches(t, reader.group) =>
              {j \in DOMAIN reader.listed : reader.listed[j][2] = t} = {}
<1> DEFINE listed == reader.listed
           n == Len(listed)
<1>1. n \in Nat /\ listed \in [1..n -> Nat \X Nat]
  <2>1. Places \subseteq Nat \X Nat  BY DEF NumberAssumption, Places
  <2>2. listed \in Seq(Places)  BY DEF PagesInv, Typed
  <2> HIDE DEF listed
  <2> QED BY <2>1, <2>2
<1>2. \A i \in 1..n : listed[i][2] = t => listed[i] = Key(t) /\ Matches(t, reader.group)
  BY <1>1 DEF PagesInv, Covered
<1>3. Matches(t, reader.group) => \E i \in 1..n : listed[i] = Key(t)
  BY <1>1 DEF PagesInv, Covered, Passed
<1>4. \A i, j \in 1..n : listed[i] = listed[j] => i = j
  BY <1>1, AscendingTellsApart DEF PagesInv
<1>5. Key(t)[2] = t  BY DEF Key
<1>6. DOMAIN listed = 1..n  BY <1>1
<1> HIDE DEF listed, n
<1>7. ASSUME Matches(t, reader.group)
      PROVE  \E i \in 1..n : {j \in 1..n : listed[j][2] = t} = {i}
  <2>1. PICK i \in 1..n : listed[i] = Key(t)  BY <1>3, <1>7
  <2>2. \A j \in 1..n : listed[j][2] = t <=> j = i  BY <1>2, <1>4, <1>5, <2>1
  <2> QED BY <2>2
<1>8. ~Matches(t, reader.group) => {j \in 1..n : listed[j][2] = t} = {}  BY <1>2
<1> QED BY <1>6, <1>7, <1>8 DEF listed, n

\* However the table is edited between the pages, a client that follows next_cursor
\* to the end has met every topic that matched all along, once, and no other topic
\* that stayed as it was.
THEOREM EveryTopicIsMetOnce == Spec => []NothingMissedOrRepeated
<1>1. ASSUME NumberAssumption, PagesInv  PROVE NothingMissedOrRepeated
  <2> SUFFICES ASSUME ~reader.open, reader.limit > 0, NEW t \in Topics \ changed
               PROVE  Cardinality({i \in DOMAIN reader.listed : reader.listed[i][2] = t})
                        = IF Matches(t, reader.group) THEN 1 ELSE 0
    BY DEF NothingMissedOrRepeated
  <2>1. reader.limit # 0  OBVIOUS
  <2>2. CASE Matches(t, reader.group)
    BY <1>1, <2>1, <2>2, FinishedListing, FS_Singleton
  <2>3. CASE ~Matches(t, reader.group)
    BY <1>1, <2>1, <2>3, FinishedListing, FS_EmptySet
  <2> QED BY <2>2, <2>3
<1>2. PagesInv => NothingMissedOrRepeated  BY <1>1, NumberAssumption
<1> QED BY <1>2, PagesInvariant, PTL

\* An undisturbed listing has one entry for each topic that matches.
LEMMA ListingCounts ==
  ASSUME NumberAssumption, PagesInv, ~reader.open, reader.limit # 0, changed = {}
  PROVE  Len(reader.listed) = Cardinality({t \in Topics : Matches(t, reader.group)})
<1> DEFINE listed == reader.listed
           n == Len(listed)
           S == {t \in Topics : Matches(t, reader.group)}
           f == [i \in 1..n |-> listed[i][2]]
<1>1. n \in Nat /\ listed \in [1..n -> Places]  BY DEF PagesInv, Typed
<1>2. \A t \in Topics :
        /\ Matches(t, reader.group) =>
              \E i \in 1..n : {j \in 1..n : listed[j][2] = t} = {i}
        /\ ~Matches(t, reader.group) => {j \in 1..n : listed[j][2] = t} = {}
  <2>1. DOMAIN listed = 1..n  BY <1>1
  <2> QED BY <2>1, FinishedListing
<1> HIDE DEF n, listed
<1>3. \A i \in 1..n : listed[i][2] \in Topics  BY <1>1 DEF Places
<1>4. f \in [1..n -> S]  BY <1>2, <1>3
<1>5. \A i, j \in 1..n : f[i] = f[j] => i = j
  <2> SUFFICES ASSUME NEW i \in 1..n, NEW j \in 1..n, listed[i][2] = listed[j][2]
               PROVE  i = j
    OBVIOUS
  <2>1. PICK t \in Topics : t = listed[i][2]  BY <1>3
  <2> QED BY <1>2, <2>1
<1>6. \A t \in S : \E i \in 1..n : f[i] = t
  <2> SUFFICES ASSUME NEW t \in S PROVE \E i \in 1..n : listed[i][2] = t  OBVIOUS
  <2>1. PICK i \in 1..n : {j \in 1..n : listed[j][2] = t} = {i}  BY <1>2
  <2> QED BY <2>1
<1>7. f \in Bijection(1..n, S)
  <2>1. f \in Injection(1..n, S)  BY <1>4, <1>5 DEF Injection, IsInjective
  <2>2. f \in Surjection(1..n, S)  BY <1>4, <1>6 DEF Surjection
  <2> HIDE DEF f, S
  <2> QED BY <2>1, <2>2 DEF Bijection
<1>8. IsFiniteSet(1..n) /\ Cardinality(1..n) = n
  <2>1. 1 \in Int /\ n \in Int  BY <1>1
  <2>2. IsFiniteSet(1..n) /\ Cardinality(1..n) = IF 1 > n THEN 0 ELSE n - 1 + 1
    BY <2>1, FS_Interval
  <2> QED BY <1>1, <2>2
<1>9. Cardinality(S) = n
  <2>1. ExistsBijection(1..n, S)  BY <1>7 DEF ExistsBijection
  <2> HIDE DEF S
  <2> QED BY <1>8, <2>1, FS_Bijection
<1> QED BY <1>9 DEF n, listed

\* GET /groups counts for each group the topics that GET /topics?group= lists, and
\* lists no group, or counts 0, where there is none.
THEOREM GroupsCountTheirTopics == Spec => []GroupCountsAgree
<1>1. ASSUME NumberAssumption, PagesInv  PROVE GroupCountsAgree
  <2> DEFINE g == reader.group
             S == {t \in Topics : Matches(t, g)}
             Listed == \E r \in ListGroups : r.slug = g
  <2> SUFFICES ASSUME ~reader.open, g # None, changed = {}
               PROVE  Len(reader.listed) = IF Listed
                                           THEN (CHOOSE r \in ListGroups : r.slug = g).count
                                           ELSE 0
    BY DEF GroupCountsAgree
  <2>1. reader.limit # 0 /\ g \in Groups  BY <1>1 DEF PagesInv, Typed
  <2>2. Len(reader.listed) = Cardinality(S)  BY <1>1, <2>1, ListingCounts
  <2>3. S = {t \in Joined(g) : Published(t)}  BY DEF Joined, Matches, Published
  <2>4. Cardinality(S) = TopicCount(g)  BY <2>3 DEF TopicCount
  <2>5. CASE Listed
    <3>1. \A r \in ListGroups : r.slug = g => r.count = TopicCount(g)  BY DEF ListGroups
    <3>2. (CHOOSE r \in ListGroups : r.slug = g).count = TopicCount(g)  BY <2>5, <3>1
    <3> QED BY <2>2, <2>4, <2>5, <3>2
  <2>6. CASE ~Listed
    <3>1. ~\E t \in Joined(g) : Published(t)
      <4> SUFFICES ASSUME \E t \in Joined(g) : Published(t)  PROVE Listed  BY <2>6
      <4> DEFINE r == [slug |-> g, count |-> TopicCount(g)]
      <4>1. r \in ListGroups  BY <2>1 DEF ListGroups
      <4>2. r.slug = g  OBVIOUS
      <4> HIDE DEF r
      <4> QED BY <4>1, <4>2
    <3>2. S = {}  BY <2>3, <3>1
    <3> QED BY <2>2, <2>6, <3>2, FS_EmptySet
  <2> QED BY <2>5, <2>6
<1>2. PagesInv => GroupCountsAgree  BY <1>1, NumberAssumption
<1> QED BY <1>2, PagesInvariant, PTL

\* GET /topics implements KeyScan whatever is edited between the pages: a listing
\* only moves up the keys, and every page but the last adds to it.
THEOREM PagesGoUp == Spec => PagesScan
<1>1. Init => Scan!Init  BY DEF Init, NotReading, Scan!Init
<1>2. ASSUME NumberAssumption, PagesInv, [Next]_vars
      PROVE  [Scan!Next]_<<reader.listed, reader.open>>
  <2>1. CASE BeginListing
    <3>1. /\ reader'.listed = << >> /\ reader'.open \in BOOLEAN /\ ~reader.open
      BY <2>1 DEF BeginListing, NotReading
    <3> QED BY <3>1 DEF Scan!Next, Scan!Begin
  <2>2. CASE GetPage
    <3> DEFINE old == reader.listed
               new == reader'.listed
    <3>1. /\ reader.open /\ reader'.open = More
          /\ new = old \o SubSeq(Found, 1, PageEnd)
      BY <1>2, <2>2, PageIsGot DEF PagesInv
    <3>2. /\ PageEnd \in 0..Len(Found) /\ (More => PageEnd = reader.limit)
          /\ new \in Seq(Places) /\ Len(new) = Len(old) + PageEnd
          /\ \A i \in 1..Len(old) : new[i] = old[i]
          /\ Scan!Ascending(new)
      BY <1>2, <3>1, PageGoesOn
    <3>3. old \in Seq(Places) /\ Len(old) \in Nat /\ PageEnd \in Nat
      <4>1. Len(Found) \in Nat  BY <1>2, QueryIsSorted DEF PagesInv
      <4> QED BY <1>2, <3>2, <4>1 DEF PagesInv, Typed
    <3>4. Scan!IsPrefix(old, new)
      <4> HIDE DEF old, new
      <4>1. Len(old) <= Len(new)  BY <3>2, <3>3
      <4>2. SubSeq(old, 1, Len(old)) = SubSeq(new, 1, Len(old))  BY <3>2, <3>3, <4>1
      <4> QED BY <4>1, <4>2 DEF Scan!IsPrefix
    <3>5. More => new # old
      <4>1. reader.limit \in Nat \ {0}  BY <1>2, <3>1 DEF PagesInv, CursorIsLast
      <4>2. More => Len(new) # Len(old)  BY <3>2, <3>3, <4>1
      <4> QED BY <4>2
    <3>6. More \in BOOLEAN  BY DEF More, HasNext
    <3>7. Scan!Page
      <4>1. new \in Seq(Orders \X Topics)  BY <3>2 DEF Places
      <4> QED BY <3>1, <3>2, <3>4, <3>5, <3>6, <4>1 DEF Scan!Page
    <3> QED BY <3>7 DEF Scan!Next
  <2>3. CASE Manifest
    <3>1. /\ reader'.listed = << >> /\ reader'.open \in BOOLEAN /\ ~reader.open
      BY <2>3 DEF Manifest, NotReading
    <3> QED BY <3>1 DEF Scan!Next, Scan!Begin
  <2>4. CASE Hydrate \/ Edit \/ UNCHANGED vars
    <3>1. reader' = reader  BY <2>4 DEF Hydrate, Edit, vars
    <3> QED BY <3>1
  <2> QED BY <1>2, <2>1, <2>2, <2>3, <2>4 DEF Next
<1>3. PagesInv /\ [Next]_vars => [Scan!Next]_<<reader.listed, reader.open>>
  BY <1>2, NumberAssumption
<1> QED BY <1>1, <1>3, PagesInvariant, PTL DEF Spec, PagesScan, Scan!Spec

-----------------------------------------------------------------------------
(* The exports.                                                            *)

\* The elements of e are those of s at increasing positions of P.
Picks(e, s, P) ==
  \E f \in [DOMAIN e -> P] :
    /\ \A i \in DOMAIN e : e[i] = s[f[i]]
    /\ \A i, j \in DOMAIN e : i < j => f[i] < f[j]

\* The elements of a sequence at some positions: each is at one of the positions,
\* and they come in the order of the positions.
LEMMA ElementsKeepOrder ==
  ASSUME NEW s \in Seq(Nat), NEW P \in SUBSET (DOMAIN s)
  PROVE  /\ ElementsAt(s, P) \in Seq(Nat)
         /\ Picks(ElementsAt(s, P), s, P)
<1> DEFINE S == {<<i, s[i]>> : i \in P}
           entries == OrderBy(S)
           f == [i \in DOMAIN entries |-> entries[i][1]]
<1>1. DOMAIN s = 1..Len(s) /\ Len(s) \in Nat  OBVIOUS
<1>2. S \in SUBSET (Nat \X Nat)
  <2>1. \A i \in P : i \in Nat /\ s[i] \in Nat  BY <1>1
  <2> QED BY <2>1
<1>3. IsFiniteSet(S)
  <2> DEFINE g == [i \in P |-> <<i, s[i]>>]
  <2>1. IsFiniteSet(P)
    <3>1. IsFiniteSet(1..Len(s))
      <4>1. 1 \in Int /\ Len(s) \in Int  BY <1>1
      <4> QED BY <4>1, FS_Interval
    <3> QED BY <1>1, <3>1, FS_Subset
  <2>2. g \in Surjection(P, S)  BY DEF Surjection
  <2> QED BY <2>1, <2>2, FS_Surjection
<1> HIDE DEF S
<1>4. entries \in Seq(S) /\ entries \in Seq(Nat \X Nat) /\ Scan!Ascending(entries)
  BY <1>2, <1>3, OrderBySorts
<1> HIDE DEF entries
<1>5. DOMAIN entries = 1..Len(entries) /\ Len(entries) \in Nat  BY <1>4
<1>6. \A i \in DOMAIN entries :
        /\ entries[i] \in Nat \X Nat
        /\ entries[i][1] \in P /\ entries[i][2] = s[entries[i][1]]
  <2>1. \A i \in DOMAIN entries : entries[i] \in S /\ entries[i] \in Nat \X Nat  BY <1>4, <1>5
  <2>2. \A e \in S : e[1] \in P /\ e[2] = s[e[1]]  BY DEF S
  <2> QED BY <2>1, <2>2
<1>7. ElementsAt(s, P) = [i \in DOMAIN entries |-> entries[i][2]]
  BY DEF ElementsAt, entries, S
<1>8. DOMAIN ElementsAt(s, P) = DOMAIN entries  BY <1>7
<1>9. ElementsAt(s, P) \in Seq(Nat)
  <2>1. \A i \in 1..Len(entries) : entries[i][2] \in Nat  BY <1>5, <1>6
  <2> QED BY <1>5, <1>7, <2>1
<1>10. f \in [DOMAIN ElementsAt(s, P) -> P]  BY <1>6, <1>8
<1>11. \A i \in DOMAIN ElementsAt(s, P) : ElementsAt(s, P)[i] = s[f[i]]  BY <1>6, <1>7, <1>8
<1>12. ASSUME NEW i \in DOMAIN entries, NEW j \in DOMAIN entries, i < j  PROVE f[i] < f[j]
  <2>1. Scan!Less(entries[i], entries[j])  BY <1>4, <1>12 DEF Scan!Ascending
  <2>2. entries[i][1] < entries[j][1]
        \/ (entries[i][1] = entries[j][1] /\ entries[i][2] < entries[j][2])
    BY <2>1 DEF Scan!Less
  <2>3. entries[i][1] = entries[j][1] => ~(entries[i][2] < entries[j][2])
    <3>1. entries[j][2] \in Nat  BY <1>6
    <3> QED BY <1>6, <3>1
  <2> QED BY <2>2, <2>3
<1>13. \A i, j \in DOMAIN ElementsAt(s, P) : i < j => f[i] < f[j]  BY <1>8, <1>12
<1> HIDE DEF f
<1> QED BY <1>9, <1>10, <1>11, <1>13 DEF Picks

\* The elements of t are elements of s, in its order.
Follows(t, s) ==
  \A i, j \in DOMAIN t : i < j =>
    \E k, l \in DOMAIN s : k < l /\ s[k] = t[i] /\ s[l] = t[j]

\* What an answer is taken from: the ids of the selection, each once.
LEMMA ResolvedFollows ==
  ASSUME NEW s \in Seq(Nat)
  PROVE  /\ Resolved(s) \in Seq(Nat)
         /\ Follows(Resolved(s), s)
         /\ IsInjective(Resolved(s))
<1> DEFINE P == {i \in DOMAIN s : \A j \in 1..(i - 1) : s[j] # s[i]}
           r == Resolved(s)
<1>1. P \in SUBSET (DOMAIN s)  OBVIOUS
<1>2. r = ElementsAt(s, P)  BY DEF Resolved
<1>3. DOMAIN s = 1..Len(s) /\ Len(s) \in Nat  OBVIOUS
<1>4. \A i, j \in P : i < j => s[i] # s[j]
  <2> SUFFICES ASSUME NEW i \in P, NEW j \in P, i < j PROVE s[i] # s[j]  OBVIOUS
  <2>1. i \in 1..(j - 1)  BY <1>3
  <2> QED BY <2>1
<1> HIDE DEF P, r
<1>5. r \in Seq(Nat) /\ Picks(r, s, P)  BY <1>1, <1>2, ElementsKeepOrder
<1>6. PICK f \in [DOMAIN r -> P] :
        /\ \A i \in DOMAIN r : r[i] = s[f[i]]
        /\ \A i, j \in DOMAIN r : i < j => f[i] < f[j]
  BY <1>5 DEF Picks
<1>7. Follows(r, s)  BY <1>1, <1>6 DEF Follows
<1>8. IsInjective(r)
  <2>1. \A i, j \in DOMAIN r : i < j => r[i] # r[j]  BY <1>4, <1>6
  <2>2. \A i, j \in DOMAIN r : i < j \/ j < i \/ i = j
    <3>1. DOMAIN r \subseteq Nat  BY <1>5
    <3> QED BY <3>1
  <2> QED BY <2>1, <2>2 DEF IsInjective
<1> QED BY <1>5, <1>7, <1>8 DEF r

\* What a batch answers for a selection: published topics of it, each once, in the
\* order in which the selection names them.
LEMMA BatchFollows ==
  ASSUME NEW s \in Seq(Nat)
  PROVE  /\ Batch(Resolved(s)) \in Seq(Topics)
         /\ Follows(Batch(Resolved(s)), s)
         /\ IsInjective(Batch(Resolved(s)))
<1> DEFINE r == Resolved(s)
           P == {i \in DOMAIN r : r[i] \in Topics /\ Published(r[i])}
           b == Batch(r)
<1>1. r \in Seq(Nat) /\ Follows(r, s) /\ IsInjective(r)  BY ResolvedFollows
<1> HIDE DEF r
<1>2. P \in SUBSET (DOMAIN r)  OBVIOUS
<1>3. b = ElementsAt(r, P)  BY DEF Batch
<1>4. \A i \in P : r[i] \in Topics  OBVIOUS
<1> HIDE DEF P, b
<1>5. b \in Seq(Nat) /\ Picks(b, r, P)  BY <1>1, <1>2, <1>3, ElementsKeepOrder
<1>6. PICK f \in [DOMAIN b -> P] :
        /\ \A i \in DOMAIN b : b[i] = r[f[i]]
        /\ \A i, j \in DOMAIN b : i < j => f[i] < f[j]
  BY <1>5 DEF Picks
<1>7. DOMAIN b = 1..Len(b) /\ Len(b) \in Nat  BY <1>5
<1>8. b \in Seq(Topics)
  <2>1. \A i \in 1..Len(b) : b[i] \in Topics  BY <1>4, <1>6, <1>7
  <2>2. b \in [1..Len(b) -> Nat]  BY <1>5
  <2>3. b \in [1..Len(b) -> Topics]  BY <2>1, <2>2
  <2>4. Seq(Topics) = UNION {[1..m -> Topics] : m \in Nat}  BY SeqDef
  <2> QED BY <1>7, <2>3, <2>4
<1>9. Follows(b, s)
  <2> SUFFICES ASSUME NEW i \in DOMAIN b, NEW j \in DOMAIN b, i < j
               PROVE  \E k, l \in DOMAIN s : k < l /\ s[k] = b[i] /\ s[l] = b[j]
    BY DEF Follows
  <2>1. f[i] \in DOMAIN r /\ f[j] \in DOMAIN r /\ f[i] < f[j]  BY <1>2, <1>6
  <2> QED BY <1>1, <1>6, <2>1 DEF Follows
<1>10. IsInjective(b)
  <2>1. \A i, j \in DOMAIN b : i < j => b[i] # b[j]
    <3> SUFFICES ASSUME NEW i \in DOMAIN b, NEW j \in DOMAIN b, i < j  PROVE b[i] # b[j]
      OBVIOUS
    <3>1. f[i] \in DOMAIN r /\ f[j] \in DOMAIN r /\ f[i] < f[j]  BY <1>2, <1>6
    <3>2. f[i] # f[j]
      <4>1. f[i] \in Nat /\ f[j] \in Nat  BY <1>1, <3>1
      <4> QED BY <3>1, <4>1
    <3> QED BY <1>1, <1>6, <3>1, <3>2 DEF IsInjective
  <2>2. \A i, j \in DOMAIN b : i < j \/ j < i \/ i = j  BY <1>7
  <2> QED BY <2>1, <2>2 DEF IsInjective
<1> QED BY <1>8, <1>9, <1>10 DEF b, r

\* The client has what the table said when it asked: the manifest is the answer the
\* table still gives as long as nothing was changed, and the documents are the same.
ExportInv ==
  /\ edits \in 0..MaxEdits
  /\ changed \subseteq Topics
  /\ reader.limit \in Limits \cup {0}
  /\ reader.open => reader.limit \in Nat \ {0}
  /\ exporter.pc \in {"idle", "manifest", "done"}
  /\ exporter.selection \in Seq(Nat)
  /\ exporter.manifest \in Seq(Topics) /\ exporter.documents \in Seq(Topics)
  /\ exporter = [pc |-> exporter.pc, selection |-> exporter.selection,
                 manifest |-> exporter.manifest, documents |-> exporter.documents]
  /\ exporter.pc = "manifest" /\ changed = {} =>
       exporter.manifest = Batch(Resolved(exporter.selection))
  /\ exporter.pc = "done" =>
       /\ changed = {} => exporter.documents = exporter.manifest
       /\ IsInjective(exporter.documents)
       /\ Follows(exporter.documents, exporter.selection)

LEMMA InitExport ==
  ASSUME NumberAssumption, Init
  PROVE  ExportInv
<1>1. /\ exporter.pc = "idle" /\ exporter.selection = << >>
      /\ exporter.manifest = << >> /\ exporter.documents = << >>
      /\ exporter = [pc |-> "idle", selection |-> << >>, manifest |-> << >>, documents |-> << >>]
  BY DEF Init, NotExporting
<1>2. ~reader.open /\ reader.limit = 0 /\ changed = {} /\ edits = 0  BY DEF Init, NotReading
<1>3. << >> \in Seq(Nat) /\ << >> \in Seq(Topics)  OBVIOUS
<1>4. 0 \in 0..MaxEdits  BY DEF NumberAssumption
<1> QED BY <1>1, <1>2, <1>3, <1>4 DEF ExportInv

\* Steps that leave the table and the exporter alone, or give the export up.
LEMMA OthersKeepExport ==
  ASSUME NumberAssumption, PagesInv, ExportInv,
         \/ BeginListing
         \/ GetPage
         \/ UNCHANGED vars
  PROVE  ExportInv'
<1>1. CASE BeginListing
  <2>1. PICK group \in Groups \cup {None}, limit \in Limits :
          reader' = [NotReading EXCEPT !.open = TRUE, !.group = group, !.limit = limit]
    BY <1>1 DEF BeginListing
  <2>2. reader'.limit = limit /\ limit \in Nat \ {0}  BY <2>1 DEF NotReading, NumberAssumption
  <2>3. exporter' = NotExporting /\ changed' = {} /\ edits' = edits  BY <1>1 DEF BeginListing
  <2> QED BY <2>2, <2>3 DEF ExportInv, NotExporting
<1>2. CASE GetPage
  <2>1. reader'.limit = reader.limit /\ reader.open  BY <1>2, PageIsGot DEF PagesInv
  <2>2. UNCHANGED <<topics, edits, exporter, changed>>  BY <1>2 DEF GetPage
  <2>3. \A s : Batch(s)' = Batch(s)  BY <2>2 DEF Batch, Published
  <2> QED BY <2>1, <2>2, <2>3 DEF ExportInv
<1>3. CASE UNCHANGED vars
  <2>1. UNCHANGED <<topics, edits, reader, exporter, changed>>  BY <1>3 DEF vars
  <2>2. \A s : Batch(s)' = Batch(s)  BY <2>1 DEF Batch, Published
  <2> QED BY <2>1, <2>2 DEF ExportInv
<1> QED BY <1>1, <1>2, <1>3

LEMMA ManifestKeepsExport ==
  ASSUME SelectionAssumption, ExportInv, Manifest
  PROVE  ExportInv'
<1>1. PICK selection \in Selections :
        exporter' = [NotExporting EXCEPT !.pc = "manifest", !.selection = selection,
                                         !.manifest = Batch(Resolved(selection))]
  BY DEF Manifest
<1>2. selection \in Seq(Nat)  BY DEF SelectionAssumption
<1>3. Batch(Resolved(selection)) \in Seq(Topics)  BY <1>2, BatchFollows
<1>4. /\ exporter' = [pc |-> "manifest", selection |-> selection,
                      manifest |-> Batch(Resolved(selection)), documents |-> << >>]
  BY <1>1 DEF NotExporting
<1>5. \A s : Batch(s)' = Batch(s)  BY DEF Manifest, Batch, Published
<1>6. /\ reader'.limit = 0 /\ ~reader'.open /\ changed' = {} /\ edits' = edits
  BY DEF Manifest, NotReading
<1>7. /\ exporter'.pc = "manifest" /\ exporter'.selection = selection
      /\ exporter'.manifest = Batch(Resolved(selection)) /\ exporter'.documents = << >>
  BY <1>4
<1> QED BY <1>2, <1>3, <1>4, <1>5, <1>6, <1>7 DEF ExportInv, Resolved

LEMMA HydrateKeepsExport ==
  ASSUME ExportInv, Hydrate
  PROVE  ExportInv'
<1> DEFINE documents == Batch(Resolved(exporter.selection))
<1>1. /\ documents \in Seq(Topics) /\ IsInjective(documents)
      /\ Follows(documents, exporter.selection)
  BY BatchFollows DEF ExportInv
<1> HIDE DEF documents
<1>2. /\ exporter'.pc = "done" /\ exporter'.selection = exporter.selection
      /\ exporter'.manifest = exporter.manifest /\ exporter'.documents = documents
      /\ exporter' = [pc |-> "done", selection |-> exporter.selection,
                      manifest |-> exporter.manifest, documents |-> documents]
  BY DEF ExportInv, Hydrate, documents
<1>3. changed = {} => documents = exporter.manifest  BY DEF ExportInv, Hydrate, documents
<1>4. UNCHANGED <<topics, edits, reader, changed>>  BY DEF Hydrate
<1> QED BY <1>1, <1>2, <1>3, <1>4 DEF ExportInv

LEMMA EditKeepsExport ==
  ASSUME NumberAssumption, ExportInv, Edit
  PROVE  ExportInv'
<1>1. PICK t \in Topics : changed' = changed \cup {t}  BY DEF Edit
<1>2. changed' # {} /\ changed' \subseteq Topics  BY <1>1 DEF ExportInv
<1>3. edits' \in 0..MaxEdits  BY DEF Edit, ExportInv, NumberAssumption
<1>4. UNCHANGED <<reader, exporter>>  BY DEF Edit
<1> QED BY <1>2, <1>3, <1>4 DEF ExportInv

\* Every reachable state of an export satisfies its invariant.
THEOREM ExportInvariant == Spec => []ExportInv
<1>1. Init => ExportInv  BY InitExport, NumberAssumption
<1>2. PagesInv /\ ExportInv /\ [Next]_vars => ExportInv'
  BY NumberAssumption, SelectionAssumption, OthersKeepExport, ManifestKeepsExport,
     HydrateKeepsExport, EditKeepsExport
     DEF Next
<1> QED BY <1>1, <1>2, PagesInvariant, PTL DEF Spec

\* POST /exports/hydrate after POST /exports/manifest gives the same topics in the
\* same order unless something changed in between, each of the selection at most once
\* and as the selection orders them, for every selection and every change.
THEOREM DocumentsFollowManifest == Spec => []ExportFollowsManifest
<1>1. ExportInv => ExportFollowsManifest  BY DEF ExportInv, ExportFollowsManifest, Follows
<1> QED BY <1>1, ExportInvariant, PTL

\* Every state of the readers has its type: what is listed and exported are keys and
\* slugs of the table.
THEOREM PagesTypeCorrect == Spec => []TypeOK
<1>1. ASSUME PagesInv, ExportInv  PROVE TypeOK
  <2>1. \A slugs \in {exporter.manifest, exporter.documents} : ToSet(slugs) \subseteq Topics
    <3> SUFFICES ASSUME NEW slugs \in Seq(Topics)  PROVE ToSet(slugs) \subseteq Topics
      BY <1>1 DEF ExportInv
    <3> QED BY DEF ToSet
  <2>2. \A i \in DOMAIN reader.listed : reader.listed[i] \in Orders \X Topics
    <3>1. reader.listed \in Seq(Orders \X Topics)  BY <1>1 DEF PagesInv, Typed, Places
    <3> QED BY <3>1
  <2>3. reader.open => reader.limit > 0  BY <1>1 DEF ExportInv
  <2> QED BY <1>1, <2>1, <2>2, <2>3 DEF TypeOK, PagesInv, ExportInv, Typed, Places
<1>2. PagesInv /\ ExportInv => TypeOK  BY <1>1
<1> QED BY <1>2, PagesInvariant, ExportInvariant, PTL
=============================================================================
