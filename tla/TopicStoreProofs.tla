-------------------------- MODULE TopicStoreProofs --------------------------
(***************************************************************************)
(* Proofs about TopicStore, for any clients, topics, bodies, section lists *)
(* and bound on the requests.                                              *)
(***************************************************************************)
EXTENDS TopicStore, SequenceTheorems, TLAPS

-----------------------------------------------------------------------------
(* The inductive invariants.                                               *)

ItemType == [topic : Topics, body : Bodies \cup {None}, sections : Lists \cup {None}]

JobType ==
  [op : Ops \cup {"update"}, mode : Modes \cup {"upsert"}, items : Seq(ItemType),
   serial : 0..MaxWrites, edited : SUBSET (Topics \X Bodies)]

WorkType ==
  [kind : {"create", "update"}, base : Row, body : Bodies, revise : BOOLEAN,
   todo : Seq(SectionSlugs) \cup {None}, count : Nat]

\* Uncommitted topics rows: of some of the topics.
AreRows(rows) == DOMAIN rows \subseteq Topics /\ rows \in [DOMAIN rows -> Row]

Answers == {"none", "done", "failed", "error", "lost"}

Types ==
  /\ topic \in [Topics -> Row]
  /\ sections \subseteq SectionRows
  /\ revisions \subseteq Revisions
  /\ imported \subseteq Topics
  /\ serial \in 0..MaxWrites
  /\ pc \in [Clients -> Steps]
  /\ job \in [Clients -> JobType]
  /\ work \in [Clients -> WorkType]
  /\ snap \in [Clients -> SUBSET SectionRows]
  /\ DOMAIN draft = Clients /\ \A c \in Clients : AreRows(draft[c])
  /\ erased \in [Clients -> SUBSET SectionRows]
  /\ added \in [Clients -> SUBSET SectionRows]
  /\ revised \in [Clients -> SUBSET Revisions]
  /\ status \in [Clients -> Answers]

\* What a request has at each of its steps: an item, a section list unless it
\* is a PATCH, and the sections it has still to write.
Shape(c) ==
  /\ job[c].serial <= serial
  /\ pc[c] \notin {"idle", "commit"} => job[c].items # << >>
  /\ pc[c] \in {"create", "probe"} => job[c].op # "update"
  /\ job[c].op # "update" =>
       \A i \in 1..Len(job[c].items) : job[c].items[i].sections \in Lists
  /\ pc[c] \in {"flush", "erase", "erasing"} => work[c].todo \in Lists \cup {None}
  /\ pc[c] = "insert" => work[c].todo \in Seq(SectionSlugs) /\ work[c].todo # << >>

\* Row locks: an uncommitted topics row, or a deletion of a section row, is of
\* one session.
Locks ==
  /\ \A c \in Clients : erased[c] \subseteq sections
  /\ \A c, o \in Clients : c # o =>
       /\ DOMAIN draft[c] \cap DOMAIN draft[o] = {}
       /\ erased[c] \cap erased[o] = {}

TypeInv ==
  /\ Types
  /\ \A c \in Clients : Shape(c)
  /\ Locks

\* An imported topic has a row, which no session takes away.
Imported(t) ==
  t \in imported =>
    /\ topic[t].phase # "absent"
    /\ \A c \in Clients : t \in DOMAIN draft[c] => draft[c][t].phase # "absent"

\* The committed revisions of a topic.
Trail(t) ==
  /\ t \in imported => topic[t].version >= 1
  /\ \A r \in revisions : r.topic = t => r.version \in First(t)..topic[t].version
  /\ \A v \in First(t)..topic[t].version : \E r \in revisions : r.topic = t /\ r.version = v
  /\ \A r, q \in revisions : r.topic = t /\ SameVersion(r, q) => r = q
  /\ \A r \in revisions : r.topic = t /\ r.version = topic[t].version => r.body = topic[t].body

\* The steps before the item is flushed, those at which a flushed body may
\* wait for its revision, and those at which the base row is written from.
Unflushed == {"create", "probe", "load", "flush", "erase", "erasing", "archive"}
Between == {"insert", "parse", "revise"}
Writing == {"flush", "erase", "erasing"} \cup Between

\* An uncommitted topics row has the committed version and body, and no
\* revision; or it waits for its revision, counted from the base row; or its
\* revision, and no other, is as uncommitted as the row.
Unrevised(c, t) == \A r \in revised[c] : r.topic # t
Clean(c, t) ==
  /\ draft[c][t].version = topic[t].version
  /\ draft[c][t].body = topic[t].body
  /\ Unrevised(c, t)
Pending(c, t) ==
  /\ pc[c] \in Between
  /\ t = Item(c).topic
  /\ work[c].revise
  /\ draft[c][t].version = work[c].base.version + 1
  /\ draft[c][t].body = work[c].body
  /\ Unrevised(c, t)
Revised(c, t) ==
  /\ draft[c][t].version = topic[t].version + 1
  /\ \E r \in revised[c] :
       /\ r.topic = t /\ r.version = draft[c][t].version /\ r.body = draft[c][t].body
       /\ \A q \in revised[c] : q.topic = t => q = r

DraftStates(c) ==
  /\ \A t \in DOMAIN draft[c] : Clean(c, t) \/ Pending(c, t) \/ Revised(c, t)
  /\ \A r \in revised[c] : r.topic \in DOMAIN draft[c]

\* A new body is flushed before its revision.
Flushed(c) ==
  pc[c] \in {"insert", "revise"} /\ work[c].revise =>
    Item(c).topic \in DOMAIN draft[c] /\ Pending(c, Item(c).topic)

\* The base row may be stale, but is never ahead of the committed one.
BaseNotAhead(c) ==
  /\ pc[c] \in Writing \/ (pc[c] = "load" /\ job[c].op = "bulk") =>
       work[c].base.version <= topic[Item(c).topic].version
  /\ work[c].kind = "create" => work[c].revise

\* The base row of an imported topic is one that was stored, except in a
\* create, which its first flush finds out.
BaseImported(c) ==
  Item(c).topic \in imported =>
    /\ pc[c] \in Writing => \/ work[c].base.version >= 1
                            \/ pc[c] = "flush" /\ work[c].kind = "create"
    /\ pc[c] = "load" /\ job[c].op = "bulk" => work[c].base.version >= 1

\* The items are about different topics, which are drafted by their flush.
Fresh(c) ==
  /\ \A i, j \in 1..Len(job[c].items) :
       job[c].items[i].topic = job[c].items[j].topic => i = j
  /\ \A i \in 1..Len(job[c].items) :
       i > 1 \/ pc[c] \in Unflushed => job[c].items[i].topic \notin DOMAIN draft[c]
  /\ pc[c] = "idle" => DOMAIN draft[c] = {} /\ revised[c] = {}

Session(c) == DraftStates(c) /\ Flushed(c) /\ BaseNotAhead(c) /\ Fresh(c)

TrailInv ==
  /\ TypeInv
  /\ \A t \in Topics : Imported(t) /\ Trail(t)
  /\ \A c \in Clients : Session(c) /\ BaseImported(c)

\* Every body edit of an open request is in its uncommitted revisions, or is
\* the one being written; those of an acknowledged one are committed.
InHistory(e, rows, n) == \E r \in rows : r.topic = e[1] /\ r.body = e[2] /\ r.by = n
BeingWritten(c, e) ==
  /\ pc[c] \in Writing
  /\ work[c].revise
  /\ e = <<Item(c).topic, work[c].body>>

Edits(c) ==
  /\ pc[c] # "idle" =>
       /\ status[c] = "none"
       /\ \A e \in job[c].edited :
            InHistory(e, revised[c], job[c].serial) \/ BeingWritten(c, e)
  /\ status[c] = "done" =>
       \A e \in job[c].edited : InHistory(e, revisions, job[c].serial)

EditInv ==
  /\ TypeInv
  /\ \A c \in Clients : Edits(c)

\* A request of one item (POST, PATCH, DELETE) drafts the topic of its item.
\* Only a PATCH can draft an archived topic, which then stays archived, and it
\* does not get past its last SELECT.
Single(c) == ~Bulk(job[c].op)
Frozen(c) ==
  Single(c) =>
    /\ Len(job[c].items) <= 1
    /\ pc[c] # "probe"
    /\ pc[c] \notin {"idle", "commit"} => DOMAIN draft[c] \subseteq {Item(c).topic}
    /\ pc[c] \in Writing /\ work[c].kind = "update" => job[c].op = "update"
    /\ \A t \in DOMAIN draft[c] : topic[t].phase = "archived" =>
         /\ job[c].op = "update"
         /\ draft[c][t].phase = "archived"
         /\ pc[c] \notin {"next", "commit"}

FrozenInv ==
  /\ TrailInv
  /\ \A c \in Clients : Frozen(c)

-----------------------------------------------------------------------------
(* Lemmas about the operators the actions are built from.                  *)

\* A sequence that is not empty is its head and its tail.
LEMMA HeadAndTail ==
  ASSUME NEW S, NEW s \in Seq(S), s # << >>
  PROVE  /\ Len(s) \in Nat \ {0}
         /\ Head(s) = s[1] /\ Head(s) \in S
         /\ Tail(s) \in Seq(S) /\ Len(Tail(s)) = Len(s) - 1
         /\ \A i \in 1..Len(Tail(s)) : i + 1 \in 1..Len(s) /\ Tail(s)[i] = s[i + 1]
         /\ Len(s) # 1 => Tail(s) # << >>
<1>1. Len(s) \in Nat \ {0}
  BY EmptySeq
<1>2. Tail(s) \in Seq(S) /\ Len(Tail(s)) = Len(s) - 1
  BY <1>1
<1>3. Head(s) = s[1] /\ Head(s) \in S
  BY <1>1
<1>4. \A i \in 1..Len(Tail(s)) : i + 1 \in 1..Len(s) /\ Tail(s)[i] = s[i + 1]
  BY <1>1, <1>2
<1>5. Len(s) # 1 => Tail(s) # << >>
  <2>1. Len(<< >>) = 0
    BY EmptySeq
  <2>2. Len(s) # 1 => Len(Tail(s)) # 0
    BY <1>1, <1>2
  <2> QED BY <2>1, <2>2
<1> QED BY <1>1, <1>2, <1>3, <1>4, <1>5

\* The items of a request: there is one, they are about different topics, and
\* they have a section list unless the request is a PATCH.
LEMMA BatchType ==
  ASSUME NEW op, NEW batch \in Batches(op)
  PROVE  /\ batch \in Seq(ItemType) /\ batch # << >>
         /\ op # "update" => \A i \in 1..Len(batch) : batch[i].sections \in Lists
         /\ \A i, j \in 1..Len(batch) : batch[i].topic = batch[j].topic => i = j
<1> DEFINE S == Items(op)
<1>1. S \subseteq ItemType
  BY DEF Items, ItemType
<1>2. \A x \in S : op # "update" => x.sections \in Lists
  BY DEF Items
<1>3. PICK n \in Nat \ {0} : batch \in [1..n -> S]
  <2>1. CASE Bulk(op)
    <3>1. PICK n \in 1..Cardinality(Topics) : batch \in [1..n -> S]
      BY <2>1 DEF Batches
    <3>2. n \in Nat \ {0}
      OBVIOUS
    <3> QED BY <3>1, <3>2
  <2>2. CASE ~Bulk(op)
    <3>1. batch \in [1..1 -> S]
      BY <2>2 DEF Batches
    <3> QED BY <3>1
  <2> QED BY <2>1, <2>2
<1>4. \A i, j \in 1..n : batch[i].topic = batch[j].topic => i = j
  <2>1. CASE Bulk(op)
    BY <1>3, <2>1 DEF Batches
  <2>2. CASE ~Bulk(op)
    BY <1>3, <2>2 DEF Batches
  <2> QED BY <2>1, <2>2
<1> HIDE DEF S
<1>5. batch \in [1..n -> ItemType] /\ Len(batch) = n
  BY <1>1, <1>3
<1>6. batch \in Seq(ItemType) /\ batch # << >>
  BY <1>3, <1>5
<1> QED BY <1>2, <1>3, <1>4, <1>5, <1>6

\* The item a request is at.
LEMMA ItemTyped ==
  ASSUME TypeInv, NEW c \in Clients, pc[c] \notin {"idle", "commit"}
  PROVE  /\ Item(c) \in ItemType /\ Item(c) = job[c].items[1]
         /\ Len(job[c].items) \in Nat \ {0}
         /\ job[c].op # "update" => Item(c).sections \in Lists
<1>1. job[c] \in JobType /\ job[c].items # << >> /\ Shape(c)
  BY DEF TypeInv, Types, Shape
<1>2. job[c].items \in Seq(ItemType)
  BY <1>1 DEF JobType
<1>3. Item(c) \in ItemType /\ Item(c) = job[c].items[1] /\ Len(job[c].items) \in Nat \ {0}
  BY <1>1, <1>2, HeadAndTail DEF Item
<1> QED BY <1>1, <1>3 DEF Shape

\* The row a session sees is a row.
LEMMA SeenTyped ==
  ASSUME TypeInv, NEW c \in Clients, NEW t \in Topics
  PROVE  Seen(c, t) \in Row
BY DEF TypeInv, Types, AreRows, Seen

\* What Put makes of the uncommitted topics rows.
LEMMA PutTyped ==
  ASSUME TypeInv, NEW c \in Clients, Item(c).topic \in Topics, NEW row \in Row, Put(c, row)
  PROVE  /\ DOMAIN draft' = Clients
         /\ \A d \in Clients : AreRows(draft'[d])
         /\ \A d \in Clients \ {c} : draft'[d] = draft[d]
         /\ DOMAIN draft'[c] = DOMAIN draft[c] \cup {Item(c).topic}
         /\ draft'[c][Item(c).topic] = row
         /\ \A t \in DOMAIN draft[c] : t # Item(c).topic => draft'[c][t] = draft[c][t]
BY DEF TypeInv, Types, AreRows, Put

\* Rows stay rows when one of their columns changes.
LEMMA RowTyped ==
  ASSUME NEW row \in Row, NEW p \in {"absent", "live", "archived"}, NEW b \in Bodies,
         NEW v \in Nat, NEW n \in Nat
  PROVE  /\ NoRow \in Row
         /\ [row EXCEPT !.phase = p] \in Row
         /\ [row EXCEPT !.count = n] \in Row
         /\ [row EXCEPT !.phase = p, !.body = b, !.version = v] \in Row
         /\ Born(1, b, << >>) \in Row
BY PayloadAssumption DEF Row, NoRow, Born

-----------------------------------------------------------------------------
(* The type invariant is inductive: first what the steps have in common.   *)

\* The other sessions' variables, those of a request and those of a
\* transaction, stay as they are.
SameRequest(d) == pc'[d] = pc[d] /\ job'[d] = job[d] /\ work'[d] = work[d]
SameItems(c) ==
  /\ job'[c].items = job[c].items /\ job'[c].op = job[c].op /\ job'[c].serial = job[c].serial
SameChanges(d) ==
  /\ draft'[d] = draft[d] /\ erased'[d] = erased[d]
  /\ added'[d] = added[d] /\ revised'[d] = revised[d]

\* Answering a request keeps the types.
LEMMA CloseType ==
  ASSUME TypeInv, NEW c \in Clients, NEW answer \in Answers, Close(c, answer),
         topic' \in [Topics -> Row], sections' \subseteq SectionRows,
         revisions' \subseteq Revisions, imported' = imported, \A d \in Clients \ {c} : erased[d] \subseteq sections'
  PROVE  TypeInv'
<1>1. AreRows(NoDraft) /\ DOMAIN NoDraft = {}
  BY DEF AreRows, NoDraft
<1>2. Types'
  BY <1>1 DEF TypeInv, Types, Close, Goto, Steps
<1>3. \A d \in Clients : Shape(d)'
  <2> SUFFICES ASSUME NEW d \in Clients PROVE Shape(d)'
    OBVIOUS
  <2>1. CASE d = c
    BY <2>1 DEF TypeInv, Types, Shape, Close, Goto
  <2>2. CASE d # c
    BY <2>2 DEF TypeInv, Types, Shape, Close, Goto
  <2> QED BY <2>1, <2>2
<1>4. Locks'
  BY <1>1 DEF TypeInv, Types, Locks, Close
<1> QED BY <1>2, <1>3, <1>4 DEF TypeInv

LEMMA FailType ==
  ASSUME TypeInv, NEW c \in Clients, NEW answer \in Answers, Fail(c, answer)
  PROVE  TypeInv'
<1>1. topic' = topic /\ sections' = sections /\ revisions' = revisions /\ imported' = imported
  BY DEF Fail, database
<1>2. \A d \in Clients : erased[d] \subseteq sections
  BY DEF TypeInv, Locks
<1>3. Close(c, answer)
  BY DEF Fail
<1> QED BY <1>1, <1>2, <1>3, CloseType DEF TypeInv, Types

\* A step that changes the request and nothing else keeps the types when the
\* request has what it needs at its next step.
LEMMA RequestType ==
  ASSUME TypeInv, NEW c \in Clients,
         UNCHANGED <<database, serial, snap, pending, status>>,
         pc' \in [Clients -> Steps], job' \in [Clients -> JobType], work' \in [Clients -> WorkType],
         \A d \in Clients \ {c} : SameRequest(d), Shape(c)'
  PROVE  TypeInv'
<1>1. Types'
  BY DEF TypeInv, Types, database, pending
<1>2. \A d \in Clients : Shape(d)'
  <2> SUFFICES ASSUME NEW d \in Clients, d # c PROVE Shape(d)'
    OBVIOUS
  <2> QED BY DEF TypeInv, Shape, SameRequest
<1>3. Locks'
  BY DEF TypeInv, Locks, database, pending
<1> QED BY <1>1, <1>2, <1>3 DEF TypeInv

\* What create_topic computes.
LEMMA CreateType ==
  ASSUME TypeInv, NEW c \in Clients, pc[c] \notin {"idle", "commit"}, job[c].op # "update",
         Create(c)
  PROVE  /\ pc' \in [Clients -> Steps] /\ job' \in [Clients -> JobType]
         /\ work' \in [Clients -> WorkType]
         /\ \A d \in Clients \ {c} : SameRequest(d)
         /\ pc'[c] = "flush" /\ work'[c].todo \in Lists \cup {None}
         /\ work'[c].kind = "create" /\ work'[c].base = NoRow /\ work'[c].revise
         /\ SameItems(c)
         /\ job'[c].edited = job[c].edited \cup {<<Item(c).topic, work'[c].body>>}
<1> DEFINE body == IF Item(c).body = None THEN Blank ELSE Item(c).body
           list == Item(c).sections
           w == [kind |-> "create", base |-> NoRow, body |-> body, revise |-> TRUE,
                 todo |-> IF list = << >> THEN None ELSE list, count |-> Len(list)]
           j == [job[c] EXCEPT !.edited = @ \cup {<<Item(c).topic, body>>}]
<1>1. Item(c) \in ItemType /\ list \in Lists
  BY ItemTyped
<1>2. body \in Bodies /\ Item(c).topic \in Topics
  BY <1>1, PayloadAssumption DEF ItemType
<1>3. list \in Seq(SectionSlugs) /\ Len(list) \in Nat
  BY <1>1, PayloadAssumption
<1>4. job[c] \in JobType
  BY DEF TypeInv, Types
<1>5. j \in JobType
  BY <1>2, <1>4 DEF JobType
<1>6. NoRow \in Row
  BY PayloadAssumption DEF Row, NoRow
<1>7. w \in WorkType
  BY <1>1, <1>2, <1>3, <1>6 DEF WorkType
<1>8. work' = [work EXCEPT ![c] = w] /\ job' = [job EXCEPT ![c] = j]
      /\ pc' = [pc EXCEPT ![c] = "flush"]
  BY DEF Create, Goto
<1>9. w.todo \in Lists \cup {None} /\ w.kind = "create" /\ w.base = NoRow /\ w.revise /\ w.body = body
  BY <1>1
<1>10. j.items = job[c].items /\ j.op = job[c].op /\ j.serial = job[c].serial
       /\ j.edited = job[c].edited \cup {<<Item(c).topic, w.body>>}
  BY <1>4 DEF JobType
<1> HIDE DEF w, j, body
<1>11. work'[c] = w /\ job'[c] = j /\ pc'[c] = "flush"
  BY <1>8 DEF TypeInv, Types
<1>12. pc' \in [Clients -> Steps] /\ job' \in [Clients -> JobType] /\ work' \in [Clients -> WorkType]
  BY <1>5, <1>7, <1>8 DEF TypeInv, Types, Steps
<1>13. \A d \in Clients \ {c} : SameRequest(d)
  BY <1>8 DEF TypeInv, Types, SameRequest
<1> QED BY <1>9, <1>10, <1>11, <1>12, <1>13 DEF SameItems

\* What update_topic computes from a loaded row.
LEMMA UpdateType ==
  ASSUME TypeInv, NEW c \in Clients, pc[c] \notin {"idle", "commit"}, NEW row \in Row,
         Update(c, row)
  PROVE  /\ pc' \in [Clients -> Steps] /\ job' \in [Clients -> JobType]
         /\ work' \in [Clients -> WorkType]
         /\ \A d \in Clients \ {c} : SameRequest(d)
         /\ pc'[c] \in {"erase", "reread"} /\ work'[c].todo \in Lists \cup {None}
         /\ work'[c].kind = "update" /\ work'[c].base = row
         /\ pc'[c] = "reread" => ~work'[c].revise
         /\ SameItems(c)
         /\ \/ ~work'[c].revise /\ job'[c].edited = job[c].edited
            \/ work'[c].revise
               /\ job'[c].edited = job[c].edited \cup {<<Item(c).topic, work'[c].body>>}
<1> DEFINE body == Item(c).body
           list == Item(c).sections
           changed == body # None /\ body # row.body
           w == [kind |-> "update", base |-> row, revise |-> changed,
                 body |-> IF changed THEN body ELSE row.body, todo |-> list,
                 count |-> IF list = None THEN row.count ELSE Len(list)]
           j == [job[c] EXCEPT !.edited =
                   IF changed THEN @ \cup {<<Item(c).topic, body>>} ELSE @]
           p == IF changed \/ list # None THEN "erase" ELSE "reread"
<1>1. Item(c) \in ItemType
  BY ItemTyped
<1>2. body \in Bodies \cup {None} /\ Item(c).topic \in Topics /\ list \in Lists \cup {None}
  BY <1>1, PayloadAssumption DEF ItemType
<1>3. list # None => list \in Seq(SectionSlugs) /\ Len(list) \in Nat
  BY <1>2, PayloadAssumption
<1>4. job[c] \in JobType
  BY DEF TypeInv, Types
<1>5. j \in JobType
  BY <1>2, <1>4 DEF JobType
<1>6. row.body \in Bodies /\ row.count \in Nat
  BY DEF Row
<1>7. w \in WorkType
  BY <1>2, <1>3, <1>6 DEF WorkType
<1>8. work' = [work EXCEPT ![c] = w] /\ job' = [job EXCEPT ![c] = j]
      /\ pc' = [pc EXCEPT ![c] = p]
  BY DEF Update, Goto
<1>9. w.todo \in Lists \cup {None} /\ w.kind = "update" /\ w.base = row
      /\ p \in {"erase", "reread"} /\ (p = "reread" => ~w.revise)
  BY <1>2
<1>10. /\ j.items = job[c].items /\ j.op = job[c].op /\ j.serial = job[c].serial
       /\ \/ ~w.revise /\ j.edited = job[c].edited
          \/ w.revise /\ j.edited = job[c].edited \cup {<<Item(c).topic, w.body>>}
  BY <1>4 DEF JobType
<1> HIDE DEF w, j, p
<1>11. work'[c] = w /\ job'[c] = j /\ pc'[c] = p
  BY <1>8 DEF TypeInv, Types
<1>12. pc' \in [Clients -> Steps] /\ job' \in [Clients -> JobType] /\ work' \in [Clients -> WorkType]
  BY <1>5, <1>7, <1>8, <1>9 DEF TypeInv, Types, Steps
<1>13. \A d \in Clients \ {c} : SameRequest(d)
  BY <1>8 DEF TypeInv, Types, SameRequest
<1> QED BY <1>9, <1>10, <1>11, <1>12, <1>13 DEF SameItems

-----------------------------------------------------------------------------
(* The type invariant is inductive: the steps.                             *)

LEMMA BeginType ==
  ASSUME TypeInv, NEW c \in Clients, Begin(c)
  PROVE  TypeInv'
<1>1. PICK op \in Ops : \E mode \in Modes \cup {"upsert"}, batch \in Batches(op) :
        /\ job' = [job EXCEPT ![c] = [op |-> op, mode |-> mode, items |-> batch,
                                      serial |-> serial', edited |-> {}]]
        /\ pc' = [pc EXCEPT ![c] = FirstStep(op)]
  BY DEF Begin, Goto
<1>2. PICK mode \in Modes \cup {"upsert"}, batch \in Batches(op) :
        /\ job' = [job EXCEPT ![c] = [op |-> op, mode |-> mode, items |-> batch,
                                      serial |-> serial', edited |-> {}]]
        /\ pc' = [pc EXCEPT ![c] = FirstStep(op)]
  BY <1>1
<1> DEFINE j == [op |-> op, mode |-> mode, items |-> batch, serial |-> serial', edited |-> {}]
<1>3. serial \in Nat /\ serial' = serial + 1 /\ serial' \in 0..MaxWrites
  BY BoundAssumption DEF Begin, TypeInv, Types
<1>4. batch \in Seq(ItemType) /\ batch # << >>
      /\ (op # "update" => \A i \in 1..Len(batch) : batch[i].sections \in Lists)
  BY BatchType
<1>5. j \in JobType /\ j.items = batch /\ j.op = op /\ j.serial = serial'
  BY <1>3, <1>4 DEF JobType
<1>6. FirstStep(op) \in {"create", "archive", "probe", "load"}
      /\ (op = "update" => FirstStep(op) = "load")
  BY DEF FirstStep
<1> HIDE DEF j
<1>7. job'[c] = j /\ pc'[c] = FirstStep(op) /\ work' = work
  BY <1>2 DEF Begin, TypeInv, Types, j
<1>8. Types'
  <2>1. pc' \in [Clients -> Steps] /\ job' \in [Clients -> JobType]
    BY <1>2, <1>5, <1>6 DEF TypeInv, Types, Steps, j
  <2>2. status' \in [Clients -> Answers]
    BY DEF Begin, TypeInv, Types, Answers
  <2> QED BY <1>3, <2>1, <2>2 DEF Begin, TypeInv, Types, database, pending
<1>9. \A d \in Clients : Shape(d)'
  <2> SUFFICES ASSUME NEW d \in Clients PROVE Shape(d)'
    OBVIOUS
  <2>1. CASE d = c
    BY <1>3, <1>4, <1>5, <1>6, <1>7, <2>1 DEF Shape
  <2>2. CASE d # c
    <3>1. SameRequest(d)
      BY <1>2, <2>2 DEF SameRequest, Begin, TypeInv, Types
    <3>2. job[d].serial \in Nat
      BY DEF TypeInv, Types, JobType
    <3>3. Shape(d)
      BY DEF TypeInv
    <3>4. job[d].serial <= serial'
      BY <1>3, <3>2, <3>3 DEF Shape
    <3> QED BY <3>1, <3>3, <3>4 DEF Shape, SameRequest
  <2> QED BY <2>1, <2>2
<1>10. Locks'
  BY DEF Begin, TypeInv, Locks, database, pending
<1> QED BY <1>8, <1>9, <1>10 DEF TypeInv

LEMMA CreateShape ==
  ASSUME TypeInv, NEW c \in Clients, pc[c] \notin {"idle", "commit"}, job[c].op # "update",
         Create(c), UNCHANGED <<database, serial, snap, pending, status>>
  PROVE  TypeInv'
<1>1. Shape(c)'
  BY CreateType DEF Shape, TypeInv, SameItems
<1> QED BY <1>1, CreateType, RequestType

LEMMA UpdateShape ==
  ASSUME TypeInv, NEW c \in Clients, pc[c] \notin {"idle", "commit"}, NEW row \in Row,
         Update(c, row), UNCHANGED <<database, serial, snap, pending, status>>
  PROVE  TypeInv'
<1>1. Shape(c)'
  BY UpdateType DEF Shape, TypeInv, SameItems
<1> QED BY <1>1, UpdateType, RequestType

\* A step that only goes on.
LEMMA GotoType ==
  ASSUME TypeInv, NEW c \in Clients, pc[c] \notin {"idle", "commit"},
         NEW step \in {"next", "reread"}, Goto(c, step),
         UNCHANGED <<database, serial, job, work, snap, pending, status>>
  PROVE  TypeInv'
<1>1. pc' \in [Clients -> Steps] /\ pc'[c] = step
  BY DEF Goto, TypeInv, Types, Steps
<1>2. \A d \in Clients \ {c} : SameRequest(d)
  BY DEF Goto, TypeInv, Types, SameRequest
<1>3. Shape(c)'
  BY <1>1 DEF TypeInv, Shape
<1> QED BY <1>1, <1>2, <1>3, RequestType DEF TypeInv, Types

LEMMA StartCreateType ==
  ASSUME TypeInv, NEW c \in Clients, StartCreate(c)
  PROVE  TypeInv'
BY CreateShape DEF StartCreate, TypeInv, Shape

LEMMA ProbeType ==
  ASSUME TypeInv, NEW c \in Clients, Probe(c)
  PROVE  TypeInv'
<1> DEFINE load == /\ work' = [work EXCEPT ![c].base = Seen(c, Item(c).topic)]
                   /\ Goto(c, "load")
                   /\ UNCHANGED job
<1>1. pc[c] = "probe" /\ job[c].op # "update"
      /\ UNCHANGED <<database, serial, snap, pending, status>>
  BY DEF Probe, TypeInv, Shape
<1>2. \/ load
      \/ Create(c)
      \/ Skip(c)
  BY DEF Probe, Upsert
<1>3. CASE load
  <2>1. Item(c).topic \in Topics
    BY <1>1, ItemTyped DEF ItemType
  <2>2. Seen(c, Item(c).topic) \in Row
    BY <2>1, SeenTyped
  <2>3. [work[c] EXCEPT !.base = Seen(c, Item(c).topic)] \in WorkType
    <3>1. work[c] \in WorkType
      BY DEF TypeInv, Types
    <3> QED BY <2>2, <3>1 DEF WorkType
  <2>4. work' \in [Clients -> WorkType] /\ pc' \in [Clients -> Steps] /\ job' \in [Clients -> JobType]
    BY <1>3, <2>3 DEF TypeInv, Types, Goto, Steps
  <2>5. \A d \in Clients \ {c} : SameRequest(d)
    BY <1>3 DEF Goto, TypeInv, Types, SameRequest
  <2>6. Shape(c)'
    BY <1>1, <1>3 DEF TypeInv, Types, Shape, Goto
  <2> QED BY <1>1, <2>4, <2>5, <2>6, RequestType
<1>4. CASE Create(c)
  BY <1>1, <1>4, CreateShape
<1>5. CASE Skip(c)
  BY <1>1, <1>5, GotoType DEF Skip
<1> QED BY <1>2, <1>3, <1>4, <1>5

LEMMA LoadType ==
  ASSUME TypeInv, NEW c \in Clients, Load(c)
  PROVE  TypeInv'
<1> DEFINE row == Seen(c, Item(c).topic)
           rest == UNCHANGED <<database, serial, snap, pending, status>>
<1>1. pc[c] = "load" /\ row \in Row /\ work[c].base \in Row
  BY ItemTyped, SeenTyped DEF Load, ItemType, TypeInv, Types, WorkType
<1>2. \/ Fail(c, "failed")
      \/ \E r \in Row : Update(c, r) /\ rest
      \/ job[c].op # "update" /\ Create(c) /\ rest
      \/ Skip(c) /\ rest
  BY <1>1 DEF Load, Upsert
<1>3. ASSUME Fail(c, "failed") PROVE TypeInv'
  BY <1>3, FailType DEF Answers
<1>4. ASSUME NEW r \in Row, Update(c, r), rest PROVE TypeInv'
  BY <1>1, <1>4, UpdateShape
<1>5. ASSUME job[c].op # "update", Create(c), rest PROVE TypeInv'
  BY <1>1, <1>5, CreateShape
<1>6. ASSUME Skip(c), rest PROVE TypeInv'
  BY <1>1, <1>6, GotoType DEF Skip
<1> QED BY <1>2, <1>3, <1>4, <1>5, <1>6

\* A step that writes rows without committing them keeps the types when its
\* locks are its own.
LEMMA WriteType ==
  ASSUME TypeInv, NEW c \in Clients, UNCHANGED <<database, serial, job, status>>,
         pc' \in [Clients -> Steps], work' \in [Clients -> WorkType],
         \A d \in Clients \ {c} : SameRequest(d), Shape(c)',
         snap' \in [Clients -> SUBSET SectionRows],
         DOMAIN draft' = Clients, \A d \in Clients : AreRows(draft'[d]),
         erased' \in [Clients -> SUBSET SectionRows], added' \in [Clients -> SUBSET SectionRows],
         revised' \in [Clients -> SUBSET Revisions], Locks'
  PROVE  TypeInv'
<1>1. Types'
  BY DEF TypeInv, Types, database
<1>2. \A d \in Clients : Shape(d)'
  <2> SUFFICES ASSUME NEW d \in Clients, d # c PROVE Shape(d)'
    OBVIOUS
  <2> QED BY DEF TypeInv, Shape, SameRequest
<1> QED BY <1>1, <1>2 DEF TypeInv

\* Put keeps the locks when no other session holds the row.
LEMMA PutLocks ==
  ASSUME TypeInv, NEW c \in Clients, Item(c).topic \in Topics, NEW row \in Row, Put(c, row),
         \A o \in Clients \ {c} : Item(c).topic \notin DOMAIN draft[o],
         UNCHANGED <<sections, erased>>
  PROVE  Locks'
<1>1. /\ \A d \in Clients \ {c} : draft'[d] = draft[d]
      /\ DOMAIN draft'[c] = DOMAIN draft[c] \cup {Item(c).topic}
  BY PutTyped
<1>2. ASSUME NEW d \in Clients, NEW o \in Clients, d # o
      PROVE  DOMAIN draft'[d] \cap DOMAIN draft'[o] = {}
  <2>1. DOMAIN draft[d] \cap DOMAIN draft[o] = {}
    BY <1>2 DEF TypeInv, Locks
  <2>2. CASE d = c
    BY <1>1, <1>2, <2>1, <2>2
  <2>3. CASE o = c
    BY <1>1, <1>2, <2>1, <2>3
  <2>4. CASE d # c /\ o # c
    BY <1>1, <2>1, <2>4
  <2> QED BY <2>2, <2>3, <2>4
<1> QED BY <1>2 DEF TypeInv, Locks

\* A statement that is not blocked does not meet what others hold.
LEMMA Unblocked ==
  ASSUME NEW c \in Clients, Blockers(c) = {}, NEW o \in Clients \ {c}
  PROVE  /\ pc[c] = "flush" /\ Dirty(c) => Item(c).topic \notin DOMAIN draft[o]
         /\ pc[c] = "archive" => Item(c).topic \notin DOMAIN draft[o]
         /\ pc[c] = "erasing" => erased[o] \cap snap[c] = {}
         /\ pc[c] = "revise" /\ Recounted(c) => Item(c).topic \notin DOMAIN draft[o]
<1>1. ~Holds(o, c)
  BY DEF Blockers
<1> QED BY <1>1 DEF Holds

LEMMA FlushType ==
  ASSUME TypeInv, NEW c \in Clients, Flush(c)
  PROVE  TypeInv'
<1> DEFINE row == Seen(c, Item(c).topic)
           new == [row EXCEPT !.phase = IF work[c].kind = "create" THEN "live" ELSE @,
                              !.body = work[c].body,
                              !.version = work[c].base.version + 1]
           step == CASE work[c].todo = None -> "parse"
                     [] work[c].todo = << >> -> "revise"
                     [] OTHER -> "insert"
<1>1. CASE Fail(c, "failed")
  BY <1>1, FailType DEF Answers
<1>2. CASE ~Fail(c, "failed")
  <2>1. /\ pc[c] = "flush" /\ Blockers(c) = {}
        /\ IF Dirty(c) THEN Put(c, new) ELSE UNCHANGED draft
        /\ Goto(c, step)
        /\ UNCHANGED <<database, serial, job, work, snap, erased, added, revised, status>>
    BY <1>2 DEF Flush
  <2>2. Item(c).topic \in Topics /\ row \in Row /\ work[c] \in WorkType
    BY <2>1, ItemTyped, SeenTyped DEF ItemType, TypeInv, Types
  <2>3. new \in Row
    <3>1. work[c].body \in Bodies /\ work[c].base.version + 1 \in Nat
      BY <2>2 DEF WorkType, Row
    <3>2. CASE work[c].kind = "create"
      BY <2>2, <3>1, <3>2 DEF Row
    <3>3. CASE work[c].kind # "create"
      BY <2>2, <3>1, <3>3 DEF Row
    <3> QED BY <3>2, <3>3
  <2>4. DOMAIN draft' = Clients /\ \A d \in Clients : AreRows(draft'[d])
    BY <2>1, <2>2, <2>3, PutTyped DEF TypeInv, Types
  <2>5. Locks'
    <3>1. CASE Dirty(c)
      BY <2>1, <2>2, <2>3, <3>1, Unblocked, PutLocks DEF database
    <3>2. CASE ~Dirty(c)
      BY <2>1, <3>2 DEF TypeInv, Locks, database
    <3> QED BY <3>1, <3>2
  <2>6. work[c].todo \in Lists \cup {None}
    BY <2>1 DEF TypeInv, Shape
  <2>7. /\ step \in {"parse", "revise", "insert"}
        /\ step = "insert" => work[c].todo \in Seq(SectionSlugs) /\ work[c].todo # << >>
    BY <2>6, PayloadAssumption
  <2> HIDE DEF new, step
  <2>8. pc' \in [Clients -> Steps] /\ pc'[c] = step
    BY <2>1, <2>7 DEF Goto, TypeInv, Types, Steps
  <2>9. \A d \in Clients \ {c} : SameRequest(d)
    BY <2>1 DEF Goto, TypeInv, Types, SameRequest
  <2>10. Shape(c)'
    BY <2>1, <2>7, <2>8 DEF TypeInv, Shape
  <2> QED BY <2>1, <2>4, <2>5, <2>8, <2>9, <2>10, WriteType DEF TypeInv, Types
<1> QED BY <1>1, <1>2

LEMMA EraseType ==
  ASSUME TypeInv, NEW c \in Clients, Erase(c)
  PROVE  TypeInv'
<1>1. pc' \in [Clients -> Steps] /\ pc'[c] = "erasing"
  BY DEF Erase, Goto, TypeInv, Types, Steps
<1>2. \A d \in Clients \ {c} : SameRequest(d)
  BY DEF Erase, Goto, TypeInv, Types, SameRequest
<1>3. Shape(c)'
  BY <1>1 DEF Erase, TypeInv, Shape
<1>4. snap' \in [Clients -> SUBSET SectionRows]
  BY DEF Erase, TypeInv, Types
<1>5. Locks'
  BY DEF Erase, TypeInv, Locks, database, pending
<1> QED BY <1>1, <1>2, <1>3, <1>4, <1>5, WriteType DEF Erase, pending, TypeInv, Types

LEMMA ErasingType ==
  ASSUME TypeInv, NEW c \in Clients, Erasing(c)
  PROVE  TypeInv'
<1> DEFINE step == IF work[c].todo = None THEN "parse" ELSE "flush"
<1>1. /\ pc[c] = "erasing" /\ Blockers(c) = {} /\ pc' = [pc EXCEPT ![c] = step]
      /\ erased' = [erased EXCEPT ![c] = @ \cup (snap[c] \cap sections)]
      /\ snap' = [snap EXCEPT ![c] = {}]
      /\ UNCHANGED <<database, serial, job, work, draft, added, revised, status>>
  BY DEF Erasing, Goto
<1>2. step \in {"parse", "flush"}
  OBVIOUS
<1> HIDE DEF step
<1>3. pc' \in [Clients -> Steps] /\ pc'[c] = step
  BY <1>1, <1>2 DEF TypeInv, Types, Steps
<1>4. \A d \in Clients \ {c} : SameRequest(d)
  BY <1>1 DEF TypeInv, Types, SameRequest
<1>5. Shape(c)'
  BY <1>1, <1>2, <1>3 DEF TypeInv, Shape
<1>6. snap' \in [Clients -> SUBSET SectionRows] /\ erased' \in [Clients -> SUBSET SectionRows]
  BY <1>1 DEF TypeInv, Types
<1>7. Locks'
  <2>1. \A d \in Clients : erased'[d] =
          IF d = c THEN erased[c] \cup (snap[c] \cap sections) ELSE erased[d]
    BY <1>1 DEF TypeInv, Types
  <2>2. \A d \in Clients \ {c} : erased[d] \cap snap[c] = {}
    BY <1>1, Unblocked
  <2>3. \A d \in Clients : erased'[d] \subseteq sections'
    BY <1>1, <2>1 DEF TypeInv, Locks, database
  <2>4. ASSUME NEW d \in Clients, NEW o \in Clients, d # o
        PROVE  erased'[d] \cap erased'[o] = {}
    <3>1. erased[d] \cap erased[o] = {}
      BY <2>4 DEF TypeInv, Locks
    <3>2. CASE d = c
      BY <2>1, <2>2, <2>4, <3>1, <3>2
    <3>3. CASE o = c
      BY <2>1, <2>2, <2>4, <3>1, <3>3
    <3>4. CASE d # c /\ o # c
      BY <2>1, <3>1, <3>4
    <3> QED BY <3>2, <3>3, <3>4
  <2> QED BY <1>1, <2>3, <2>4 DEF TypeInv, Locks
<1> QED BY <1>1, <1>3, <1>4, <1>5, <1>6, <1>7, WriteType DEF TypeInv, Types

LEMMA InsertType ==
  ASSUME TypeInv, NEW c \in Clients, Insert(c)
  PROVE  TypeInv'
<1> DEFINE row == Section(c, Head(work[c].todo))
           step == IF Len(work[c].todo) = 1 THEN "revise" ELSE "insert"
<1>1. CASE Fail(c, "failed")
  BY <1>1, FailType DEF Answers
<1>2. CASE ~Fail(c, "failed")
  <2>1. /\ pc[c] = "insert"
        /\ added' = [added EXCEPT ![c] = @ \cup {row}]
        /\ work' = [work EXCEPT ![c].todo = Tail(@)]
        /\ pc' = [pc EXCEPT ![c] = step]
        /\ UNCHANGED <<database, serial, job, snap, draft, erased, revised, status>>
    BY <1>2 DEF Insert, Goto
  <2>2. work[c] \in WorkType /\ work[c].todo \in Seq(SectionSlugs) /\ work[c].todo # << >>
    BY <2>1 DEF TypeInv, Types, Shape
  <2>3. Head(work[c].todo) \in SectionSlugs /\ Tail(work[c].todo) \in Seq(SectionSlugs)
        /\ (step = "insert" => Tail(work[c].todo) # << >>)
    BY <2>2, HeadAndTail
  <2>4. Item(c).topic \in Topics /\ job[c].serial \in 0..MaxWrites
    BY <2>1, ItemTyped DEF ItemType, TypeInv, Types, JobType
  <2>5. row \in SectionRows
    BY <2>3, <2>4 DEF Section, SectionRows
  <2>6. [work[c] EXCEPT !.todo = Tail(@)] \in WorkType
        /\ [work[c] EXCEPT !.todo = Tail(@)].todo = Tail(work[c].todo)
    BY <2>2, <2>3 DEF WorkType
  <2>7. step \in {"revise", "insert"}
    OBVIOUS
  <2> HIDE DEF row, step
  <2>8. pc' \in [Clients -> Steps] /\ pc'[c] = step
    BY <2>1, <2>7 DEF TypeInv, Types, Steps
  <2>9. work' \in [Clients -> WorkType] /\ work'[c].todo = Tail(work[c].todo)
    BY <2>1, <2>6 DEF TypeInv, Types
  <2>10. \A d \in Clients \ {c} : SameRequest(d)
    BY <2>1 DEF TypeInv, Types, SameRequest
  <2>11. added' \in [Clients -> SUBSET SectionRows]
    BY <2>1, <2>5 DEF TypeInv, Types
  <2>12. Shape(c)'
    BY <2>1, <2>3, <2>7, <2>8, <2>9 DEF TypeInv, Shape
  <2>13. Locks'
    BY <2>1 DEF TypeInv, Locks, database
  <2> QED BY <2>1, <2>8, <2>9, <2>10, <2>11, <2>12, <2>13, WriteType DEF TypeInv, Types
<1> QED BY <1>1, <1>2

\* A revision, and what Recount does to the uncommitted topics rows.
LEMMA RevisionTyped ==
  ASSUME TypeInv, NEW c \in Clients, pc[c] \notin {"idle", "commit"}
  PROVE  Revision(c) \in Revisions
<1>1. Item(c).topic \in Topics
  BY ItemTyped DEF ItemType
<1>2. work[c].base \in Row /\ work[c].body \in Bodies /\ job[c].serial \in 0..MaxWrites
  BY DEF TypeInv, Types, WorkType, JobType
<1>3. work[c].base.version + 1 \in Nat
  BY <1>2 DEF Row
<1> QED BY <1>1, <1>2, <1>3 DEF Revision, Revisions

LEMMA RecountTyped ==
  ASSUME TypeInv, NEW c \in Clients, pc[c] \notin {"idle", "commit"}, Recount(c)
  PROVE  /\ Item(c).topic \in Topics
         /\ [Seen(c, Item(c).topic) EXCEPT !.count = work[c].count] \in Row
         /\ DOMAIN draft' = Clients
         /\ \A d \in Clients : AreRows(draft'[d])
<1>1. Item(c).topic \in Topics /\ work[c].count \in Nat
  BY ItemTyped DEF ItemType, TypeInv, Types, WorkType
<1>2. Seen(c, Item(c).topic) \in Row
  BY <1>1, SeenTyped
<1>3. [Seen(c, Item(c).topic) EXCEPT !.count = work[c].count] \in Row
  BY <1>1, <1>2 DEF Row
<1> QED BY <1>1, <1>3, PutTyped DEF Recount, TypeInv, Types

LEMMA ReviseType ==
  ASSUME TypeInv, NEW c \in Clients, Revise(c)
  PROVE  TypeInv'
<1> DEFINE step == IF job[c].op = "bulk_fast" THEN "next" ELSE "reread"
<1>1. CASE Fail(c, "failed")
  BY <1>1, FailType DEF Answers
<1>2. CASE ~Fail(c, "failed")
  <2>1. /\ pc[c] = "revise" /\ Blockers(c) = {} /\ Recount(c)
        /\ revised' = [revised EXCEPT ![c] = IF work[c].revise THEN @ \cup {Revision(c)} ELSE @]
        /\ pc' = [pc EXCEPT ![c] = step]
        /\ UNCHANGED <<database, serial, job, work, snap, erased, added, status>>
    BY <1>2 DEF Revise, Goto
  <2>2. step \in {"next", "reread"}
    OBVIOUS
  <2> HIDE DEF step
  <2>3. pc' \in [Clients -> Steps] /\ pc'[c] = step
    BY <2>1, <2>2 DEF TypeInv, Types, Steps
  <2>4. \A d \in Clients \ {c} : SameRequest(d)
    BY <2>1 DEF TypeInv, Types, SameRequest
  <2>5. Shape(c)'
    BY <2>1, <2>2, <2>3 DEF TypeInv, Shape
  <2>6. revised' \in [Clients -> SUBSET Revisions]
    BY <2>1, RevisionTyped DEF TypeInv, Types
  <2>7. DOMAIN draft' = Clients /\ \A d \in Clients : AreRows(draft'[d])
    BY <2>1, RecountTyped
  <2>8. Locks'
    <3>1. CASE Recounted(c)
      BY <2>1, <3>1, RecountTyped, Unblocked, PutLocks DEF Recount, database
    <3>2. CASE ~Recounted(c)
      BY <2>1, <3>2 DEF TypeInv, Locks, database, Recount
    <3> QED BY <3>1, <3>2
  <2> QED BY <2>1, <2>3, <2>4, <2>5, <2>6, <2>7, <2>8, WriteType DEF TypeInv, Types
<1> QED BY <1>1, <1>2

LEMMA ArchiveType ==
  ASSUME TypeInv, NEW c \in Clients, Archive(c)
  PROVE  TypeInv'
<1> DEFINE new == [Seen(c, Item(c).topic) EXCEPT !.phase = "archived"]
<1>1. CASE Fail(c, "failed")
  BY <1>1, FailType DEF Answers
<1>2. CASE ~Fail(c, "failed")
  <2>1. /\ pc[c] = "archive" /\ Blockers(c) = {} /\ Put(c, new) /\ Goto(c, "next")
        /\ UNCHANGED <<database, serial, job, work, snap, erased, added, revised, status>>
    BY <1>2 DEF Archive
  <2>2. Item(c).topic \in Topics /\ Seen(c, Item(c).topic) \in Row
    BY <2>1, ItemTyped, SeenTyped DEF ItemType
  <2>3. new \in Row
    BY <2>2 DEF Row
  <2> HIDE DEF new
  <2>4. pc' \in [Clients -> Steps] /\ pc'[c] = "next"
    BY <2>1 DEF TypeInv, Types, Steps, Goto
  <2>5. \A d \in Clients \ {c} : SameRequest(d)
    BY <2>1 DEF TypeInv, Types, SameRequest, Goto
  <2>6. Shape(c)'
    BY <2>1, <2>4 DEF TypeInv, Shape
  <2>7. DOMAIN draft' = Clients /\ \A d \in Clients : AreRows(draft'[d])
    BY <2>1, <2>2, <2>3, PutTyped
  <2>8. Locks'
    BY <2>1, <2>2, <2>3, Unblocked, PutLocks DEF database
  <2> QED BY <2>1, <2>4, <2>5, <2>6, <2>7, <2>8, WriteType DEF TypeInv, Types
<1> QED BY <1>1, <1>2

LEMMA RereadType ==
  ASSUME TypeInv, NEW c \in Clients, Reread(c)
  PROVE  TypeInv'
<1>1. CASE Fail(c, "failed")
  BY <1>1, FailType DEF Answers
<1>2. CASE ~Fail(c, "failed")
  BY <1>2, GotoType DEF Reread
<1> QED BY <1>1, <1>2

\* Advance leaves the other items, and is at the commit when there are none.
LEMMA AdvanceItems ==
  ASSUME TypeInv, NEW c \in Clients, Advance(c)
  PROVE  /\ pc[c] = "next" /\ pc' \in [Clients -> Steps] /\ job' \in [Clients -> JobType]
         /\ \A d \in Clients \ {c} : SameRequest(d)
         /\ job'[c].op = job[c].op /\ job'[c].serial = job[c].serial
         /\ job'[c].edited = job[c].edited
         /\ Len(job[c].items) \in Nat \ {0}
         /\ Len(job'[c].items) = Len(job[c].items) - 1
         /\ \A i \in 1..Len(job'[c].items) :
              i + 1 \in 1..Len(job[c].items) /\ job'[c].items[i] = job[c].items[i + 1]
         /\ \/ pc'[c] = "commit"
            \/ pc'[c] = FirstStep(job[c].op) /\ job'[c].items # << >>
         /\ pc'[c] \in {"commit", "create", "archive", "probe", "load"}
<1> DEFINE j == [job[c] EXCEPT !.items = Tail(@)]
           step == IF Len(job[c].items) = 1 THEN "commit" ELSE FirstStep(job[c].op)
<1>1. pc[c] = "next" /\ job' = [job EXCEPT ![c] = j] /\ pc' = [pc EXCEPT ![c] = step]
      /\ work' = work
  BY DEF Advance, Goto
<1>2. job[c] \in JobType /\ job[c].items # << >> /\ job[c].items \in Seq(ItemType)
  BY <1>1 DEF TypeInv, Types, Shape, JobType
<1>3. j \in JobType /\ j.items = Tail(job[c].items) /\ j.op = job[c].op
      /\ j.serial = job[c].serial /\ j.edited = job[c].edited
  BY <1>2, HeadAndTail DEF JobType
<1>4. step \in {"commit", "create", "archive", "probe", "load"}
  BY DEF FirstStep
<1>5. step = "commit" \/ (step = FirstStep(job[c].op) /\ Tail(job[c].items) # << >>)
  <2>1. Len(job[c].items) # 1 => Tail(job[c].items) # << >>
    BY <1>2, HeadAndTail
  <2>2. CASE Len(job[c].items) = 1
    BY <2>2
  <2>3. CASE Len(job[c].items) # 1
    BY <2>1, <2>3
  <2> QED BY <2>2, <2>3
<1> HIDE DEF j, step
<1>6. pc'[c] = step /\ job'[c] = j
  BY <1>1 DEF TypeInv, Types
<1>7. pc' \in [Clients -> Steps] /\ job' \in [Clients -> JobType]
  BY <1>1, <1>3, <1>4 DEF TypeInv, Types, Steps
<1>8. \A d \in Clients \ {c} : SameRequest(d)
  BY <1>1 DEF TypeInv, Types, SameRequest
<1>9. /\ Len(job[c].items) \in Nat \ {0}
      /\ Len(job'[c].items) = Len(job[c].items) - 1
      /\ \A i \in 1..Len(job'[c].items) :
           i + 1 \in 1..Len(job[c].items) /\ job'[c].items[i] = job[c].items[i + 1]
  BY <1>2, <1>3, <1>6, HeadAndTail
<1> QED BY <1>1, <1>3, <1>4, <1>5, <1>6, <1>7, <1>8, <1>9

LEMMA AdvanceType ==
  ASSUME TypeInv, NEW c \in Clients, Advance(c)
  PROVE  TypeInv'
<1>1. Shape(c)'
  <2>1. pc'[c] \in {"create", "probe"} => job'[c].op # "update"
    BY AdvanceItems DEF FirstStep
  <2>2. pc'[c] \notin {"idle", "commit"} => job'[c].items # << >>
    BY AdvanceItems
  <2>3. job'[c].op # "update" =>
          \A i \in 1..Len(job'[c].items) : job'[c].items[i].sections \in Lists
    BY AdvanceItems DEF TypeInv, Shape
  <2>4. job'[c].serial <= serial'
    BY AdvanceItems DEF Advance, TypeInv, Shape
  <2> QED BY <2>1, <2>2, <2>3, <2>4, AdvanceItems DEF Shape
<1> QED BY <1>1, AdvanceItems, RequestType DEF Advance, TypeInv, Types

\* The committed rows after a commit.
LEMMA CommitType ==
  ASSUME TypeInv, NEW c \in Clients, Commit(c)
  PROVE  TypeInv'
<1>1. topic' \in [Topics -> Row]
  <2>1. \A t \in Topics : Seen(c, t) \in Row
    BY SeenTyped
  <2> QED BY <2>1 DEF Commit
<1>2. sections' \subseteq SectionRows /\ revisions' \subseteq Revisions
  BY DEF Commit, TypeInv, Types
<1>3. \A d \in Clients \ {c} : erased[d] \subseteq sections'
  BY DEF Commit, TypeInv, Locks
<1> QED BY <1>1, <1>2, <1>3, CloseType DEF Commit, Answers

LEMMA InitType == Init => TypeInv
<1> SUFFICES ASSUME Init PROVE TypeInv
  OBVIOUS
<1>1. PICK old \in SUBSET Topics, body \in Bodies, list \in Lists \ {<< >>} :
        Stored(old, body, list)
  BY DEF Init
<1>2. list \in Seq(SectionSlugs) /\ Len(list) \in Nat /\ DOMAIN list = 1..Len(list)
  <2>1. list \in Seq(SectionSlugs)
    BY PayloadAssumption
  <2> QED BY <2>1
<1>3. NoRow \in Row /\ \A t \in Topics : Born(t, body, list) \in Row
  BY <1>2, PayloadAssumption DEF Row, NoRow, Born
<1>4. topic \in [Topics -> Row]
  BY <1>1, <1>3 DEF Stored
<1>5. 0 \in 0..MaxWrites
  BY BoundAssumption
<1>6. sections \subseteq SectionRows
  BY <1>1, <1>2, <1>5 DEF SectionRows, Stored
<1>7. revisions \subseteq Revisions /\ imported \subseteq Topics
  BY <1>1, <1>5 DEF Revisions, Stored
<1>8. [op |-> "update", mode |-> "upsert", items |-> << >>, serial |-> 0, edited |-> {}] \in JobType
  BY <1>5 DEF JobType
<1>9. [kind |-> "update", base |-> NoRow, body |-> Blank, revise |-> FALSE, todo |-> None,
       count |-> 0] \in WorkType
  BY <1>3, PayloadAssumption DEF WorkType
<1>10. AreRows(NoDraft) /\ DOMAIN NoDraft = {}
  BY DEF AreRows, NoDraft
<1>11. Types
  BY <1>4, <1>5, <1>6, <1>7, <1>8, <1>9, <1>10 DEF Init, Types, Steps, Answers
<1>12. \A c \in Clients : Shape(c)
  <2> SUFFICES ASSUME NEW c \in Clients PROVE Shape(c)
    OBVIOUS
  <2>1. pc[c] = "idle" /\ job[c].op = "update" /\ job[c].serial = 0 /\ serial = 0
    BY DEF Init
  <2> QED BY <2>1 DEF Shape
<1>13. Locks
  BY <1>10 DEF Init, Locks
<1> QED BY <1>11, <1>12, <1>13 DEF TypeInv

LEMMA NextType == TypeInv /\ [Next]_vars => TypeInv'
<1> SUFFICES ASSUME TypeInv, [Next]_vars PROVE TypeInv'
  OBVIOUS
<1>1. CASE UNCHANGED vars
  BY <1>1 DEF TypeInv, Types, Shape, Locks, vars, database, pending
<1>2. CASE Next
  <2>1. PICK c \in Clients : Begin(c) \/ Step(c) \/ Victim(c) \/ Die(c)
    BY <1>2 DEF Next
  <2>2. CASE Begin(c)
    BY <2>2, BeginType
  <2>3. CASE Step(c)
    BY <2>3, StartCreateType, ProbeType, LoadType, FlushType, EraseType, ErasingType,
       FailType, InsertType, ReviseType, RereadType, ArchiveType, AdvanceType, CommitType
       DEF Step, Parse, Answers
  <2>4. CASE Victim(c) \/ Die(c)
    BY <2>4, FailType DEF Victim, Die, Answers
  <2> QED BY <2>1, <2>2, <2>3, <2>4
<1> QED BY <1>1, <1>2

\* The types and the locks hold throughout: what TypeOK says, and the shape of
\* each request at each of its steps.
THEOREM TypeInvariant == Spec => []TypeInv
<1> QED BY InitType, NextType, PTL DEF Spec

\* Every variable has its type, and a topics row or a deleted section row is
\* locked by one session at a time, however many sessions write the store.
THEOREM TypeCorrect == Spec => []TypeOK
<1>1. ASSUME TypeInv PROVE TypeOK
  <2>1. ASSUME NEW c \in Clients
        PROVE  /\ job[c].serial \in 0..serial
               /\ work[c].base \in Row /\ work[c].body \in Bodies
    <3>1. job[c] \in JobType /\ work[c] \in WorkType /\ job[c].serial <= serial
      BY <1>1 DEF TypeInv, Types, Shape
    <3>2. job[c].serial \in Nat /\ serial \in Nat
      BY <1>1, <3>1, BoundAssumption DEF JobType, TypeInv, Types
    <3> QED BY <3>1, <3>2 DEF WorkType
  <2>2. TypeInv
    BY <1>1
  <2> QED BY <2>1, <2>2 DEF TypeInv, Types, Locks, TypeOK, AreRows, Answers
<1> QED BY <1>1, TypeInvariant, PTL

-----------------------------------------------------------------------------
(* Steps of other sessions.                                                *)

\* A step of c leaves the other sessions alone.
LEMMA StepIsLocal ==
  ASSUME TypeInv, NEW c \in Clients, Begin(c) \/ Step(c) \/ Victim(c) \/ Die(c),
         NEW d \in Clients \ {c}
  PROVE  SameRequest(d) /\ SameChanges(d) /\ status'[d] = status[d]
<1> USE DEF SameRequest, SameChanges
<1>1. /\ DOMAIN pc = Clients /\ DOMAIN job = Clients /\ DOMAIN work = Clients
      /\ DOMAIN draft = Clients /\ DOMAIN erased = Clients /\ DOMAIN added = Clients
      /\ DOMAIN revised = Clients /\ DOMAIN status = Clients
  BY DEF TypeInv, Types
<1>2. ASSUME NEW answer, Close(c, answer)
      PROVE  SameRequest(d) /\ SameChanges(d) /\ status'[d] = status[d]
  BY <1>1, <1>2 DEF Close, Goto
<1>3. ASSUME NEW row, Put(c, row)
      PROVE  draft'[d] = draft[d]
  BY <1>1, <1>3 DEF Put
<1>4. ASSUME NEW step, Goto(c, step) PROVE pc'[d] = pc[d]
  BY <1>1, <1>4 DEF Goto
<1>5. ASSUME Create(c) PROVE SameRequest(d)
  BY <1>1, <1>5 DEF Create, Goto
<1>6. ASSUME NEW row, Update(c, row) PROVE SameRequest(d)
  BY <1>1, <1>6 DEF Update, Goto
<1>7. CASE Begin(c)
  BY <1>1, <1>4, <1>7 DEF Begin, pending
<1>8. CASE StartCreate(c)
  BY <1>5, <1>8 DEF StartCreate, pending
<1>9. CASE Probe(c)
  BY <1>1, <1>4, <1>5, <1>9 DEF Probe, Upsert, Skip, pending
<1>10. CASE Load(c)
  BY <1>2, <1>4, <1>5, <1>6, <1>10 DEF Load, Upsert, Skip, Fail, pending
<1>11. CASE Flush(c)
  BY <1>2, <1>3, <1>4, <1>11 DEF Flush, Fail
<1>12. CASE Erase(c)
  BY <1>4, <1>12 DEF Erase, pending
<1>13. CASE Erasing(c)
  BY <1>1, <1>4, <1>13 DEF Erasing
<1>14. CASE Parse(c)
  BY <1>2, <1>14 DEF Parse, Fail
<1>15. CASE Insert(c)
  BY <1>1, <1>2, <1>4, <1>15 DEF Insert, Fail
<1>16. CASE Revise(c)
  BY <1>1, <1>2, <1>3, <1>4, <1>16 DEF Revise, Recount, Fail
<1>17. CASE Reread(c)
  BY <1>2, <1>4, <1>17 DEF Reread, Fail, pending
<1>18. CASE Archive(c)
  BY <1>2, <1>3, <1>4, <1>18 DEF Archive, Fail
<1>19. CASE Advance(c)
  BY <1>1, <1>4, <1>19 DEF Advance, pending
<1>20. CASE Commit(c)
  BY <1>2, <1>20 DEF Commit
<1>21. CASE Victim(c) \/ Die(c)
  BY <1>2, <1>21 DEF Victim, Die, Fail
<1> QED
  BY <1>7, <1>8, <1>9, <1>10, <1>11, <1>12, <1>13, <1>14, <1>15, <1>16, <1>17, <1>18, <1>19,
     <1>20, <1>21 DEF Step

\* Only a commit changes the database.
LEMMA OnlyCommitsWrite ==
  ASSUME NEW c \in Clients, Begin(c) \/ Step(c) \/ Victim(c) \/ Die(c)
  PROVE  Commit(c) \/ UNCHANGED database
BY DEF Begin, Step, StartCreate, Probe, Load, Flush, Erase, Erasing, Parse, Insert, Revise,
   Reread, Archive, Advance, Victim, Die, Fail

\* A commit changes the topics that its session has drafted, and their
\* versions by at most one: the trail of each topic is kept.
LEMMA CommitTrail ==
  ASSUME TrailInv, NEW c \in Clients, Commit(c), NEW t \in Topics
  PROVE  /\ Trail(t)'
         /\ topic'[t].version \in Nat /\ topic'[t].version >= topic[t].version
         /\ t \notin DOMAIN draft[c] => topic'[t] = topic[t]
<1>1. /\ pc[c] = "commit" /\ topic'[t] = Seen(c, t) /\ revisions' = revisions \cup revised[c]
      /\ topic[t] \in Row /\ Trail(t) /\ DraftStates(c)
  BY DEF Commit, TrailInv, TypeInv, Types, Session
<1>2. topic[t].version \in Nat /\ imported' = imported /\ First(t)' = First(t) /\ First(t) \in {1, 2}
  BY <1>1 DEF Row, Commit, First
<1>3. CASE t \notin DOMAIN draft[c]
  <2>1. topic'[t] = topic[t]
    BY <1>1, <1>3 DEF Seen
  <2>2. \A r \in revised[c] : r.topic # t
    BY <1>1, <1>3 DEF DraftStates
  <2>3. Trail(t)'
    BY <1>1, <1>2, <2>1, <2>2 DEF Trail, SameVersion
  <2> QED BY <1>2, <2>1, <2>3
<1>4. CASE t \in DOMAIN draft[c]
  <2>1. topic'[t] = draft[c][t]
    BY <1>1, <1>4 DEF Seen
  <2>2. CASE Clean(c, t)
    <3>1. topic'[t].version = topic[t].version /\ topic'[t].body = topic[t].body
          /\ \A r \in revised[c] : r.topic # t
      BY <2>1, <2>2 DEF Clean, Unrevised
    <3>2. Trail(t)'
      BY <1>1, <1>2, <3>1 DEF Trail, SameVersion
    <3> QED BY <1>2, <1>4, <3>1, <3>2
  <2>3. CASE Revised(c, t)
    <3> DEFINE v == topic[t].version
               f == First(t)
    <3>1. v + 1 \in f..(v + 1)
      BY <1>1, <1>2 DEF Trail, First
    <3>2. topic'[t].version = v + 1
      BY <2>1, <2>3 DEF Revised
    <3>3. PICK r \in revised[c] :
            /\ r.topic = t /\ r.version = v + 1 /\ r.body = topic'[t].body
            /\ \A q \in revised[c] : q.topic = t => q = r
      BY <2>1, <2>3 DEF Revised
    <3>4. \A q \in revisions' : q.topic = t => (q \in revisions /\ q.version \in f..v) \/ q = r
      BY <1>1, <3>3 DEF Trail
    <3>5. \A q \in revisions' : q.topic = t => q.version \in f..(v + 1)
      BY <1>2, <3>1, <3>3, <3>4
    <3>6. \A w \in f..(v + 1) : \E q \in revisions' : q.topic = t /\ q.version = w
      <4> SUFFICES ASSUME NEW w \in f..(v + 1)
                   PROVE  \E q \in revisions' : q.topic = t /\ q.version = w
        OBVIOUS
      <4>1. CASE w = v + 1
        BY <1>1, <3>3, <4>1
      <4>2. CASE w # v + 1
        <5>1. w \in f..v
          BY <1>2, <4>2
        <5> QED BY <1>1, <5>1 DEF Trail
      <4> QED BY <4>1, <4>2
    <3>7. \A q, p \in revisions' : q.topic = t /\ SameVersion(q, p) => q = p
      <4> SUFFICES ASSUME NEW q \in revisions', NEW p \in revisions', q.topic = t, SameVersion(q, p)
                   PROVE  q = p
        OBVIOUS
      <4>1. p.topic = t /\ p.version = q.version
        BY DEF SameVersion
      <4>2. v + 1 \notin f..v
        BY <1>2
      <4>3. CASE q = r
        BY <3>3, <3>4, <4>1, <4>2, <4>3
      <4>4. CASE p = r
        BY <3>3, <3>4, <4>1, <4>2, <4>4
      <4>5. CASE q # r /\ p # r
        BY <1>1, <3>4, <4>1, <4>5 DEF Trail
      <4> QED BY <4>3, <4>4, <4>5
    <3>8. \A q \in revisions' : q.topic = t /\ q.version = v + 1 => q.body = topic'[t].body
      <4>1. v + 1 \notin f..v
        BY <1>2
      <4> QED BY <3>3, <3>4, <4>1
    <3>9. Trail(t)'
      BY <1>1, <1>2, <3>2, <3>5, <3>6, <3>7, <3>8 DEF Trail, SameVersion
    <3> QED BY <1>2, <1>4, <3>2, <3>9
  <2>4. ~Pending(c, t)
    BY <1>1 DEF Pending, Between
  <2> QED BY <1>1, <1>4, <2>2, <2>3, <2>4 DEF DraftStates
<1> QED BY <1>3, <1>4

\* The trails survive every step, and no version ever goes down.
LEMMA TrailsKept ==
  ASSUME TrailInv, NEW c \in Clients, Begin(c) \/ Step(c) \/ Victim(c) \/ Die(c),
         NEW t \in Topics
  PROVE  /\ Trail(t)'
         /\ topic'[t].version \in Nat /\ topic'[t].version >= topic[t].version
         /\ t \notin DOMAIN draft[c] => topic'[t] = topic[t]
<1>1. CASE Commit(c)
  BY <1>1, CommitTrail
<1>2. CASE UNCHANGED database
  <2>1. topic[t].version \in Nat /\ Trail(t)
    BY DEF TrailInv, TypeInv, Types, Row
  <2> QED BY <1>2, <2>1 DEF Trail, First, database
<1> QED BY <1>1, <1>2, OnlyCommitsWrite

\* Imported topics keep their rows: a session writes the phase of the row that
\* it sees, or makes it live or archived.
LEMMA ImportedKept ==
  ASSUME TrailInv, NEW c \in Clients, Begin(c) \/ Step(c) \/ Victim(c) \/ Die(c),
         NEW t \in Topics
  PROVE  Imported(t)'
<1> SUFFICES ASSUME t \in imported PROVE Imported(t)'
  <2>1. imported' = imported
    BY OnlyCommitsWrite DEF Commit, database
  <2> QED BY <2>1 DEF Imported
<1>1. /\ TypeInv /\ Imported(t) /\ topic[t].phase # "absent"
      /\ \A d \in Clients : t \in DOMAIN draft[d] => draft[d][t].phase # "absent"
  BY DEF TrailInv, Imported
<1>2. \A d \in Clients : Seen(d, t).phase # "absent"
  BY <1>1 DEF Seen
<1>3. topic'[t].phase # "absent"
  BY <1>1, <1>2, OnlyCommitsWrite DEF Commit, database
<1>4. ASSUME NEW d \in Clients, d # c PROVE draft'[d] = draft[d]
  BY <1>1, <1>4, StepIsLocal DEF SameChanges
<1>5. t \in DOMAIN draft'[c] => draft'[c][t].phase # "absent"
  <2>1. CASE draft'[c] = draft[c] \/ DOMAIN draft'[c] = {}
    BY <1>1, <2>1
  <2>2. ASSUME NEW row \in Row, Put(c, row), Item(c).topic \in Topics,
               Item(c).topic = t => row.phase # "absent"
        PROVE  t \in DOMAIN draft'[c] => draft'[c][t].phase # "absent"
    BY <1>1, <2>2, PutTyped
  <2>3. ASSUME NEW answer, Close(c, answer) PROVE DOMAIN draft'[c] = {}
    BY <1>1, <2>3 DEF Close, TypeInv, Types, NoDraft
  <2>4. pc[c] \notin {"idle", "commit"} =>
          Item(c).topic \in Topics /\ Seen(c, Item(c).topic) \in Row
    BY <1>1, ItemTyped, SeenTyped DEF ItemType
  <2>5. CASE Flush(c)
    <3> DEFINE new == [Seen(c, Item(c).topic) EXCEPT
                         !.phase = IF work[c].kind = "create" THEN "live" ELSE @,
                         !.body = work[c].body, !.version = work[c].base.version + 1]
    <3>1. Fail(c, "failed") \/ draft' = draft \/ Put(c, new)
      BY <2>5 DEF Flush
    <3>2. Item(c).topic \in Topics /\ Seen(c, Item(c).topic) \in Row
      BY <2>4, <2>5 DEF Flush
    <3>3. work[c].body \in Bodies /\ work[c].base.version + 1 \in Nat
      BY <1>1 DEF TypeInv, Types, WorkType, Row
    <3>4. new \in Row /\ (Item(c).topic = t => new.phase # "absent")
      <4>1. CASE work[c].kind = "create"
        BY <3>2, <3>3, <4>1 DEF Row
      <4>2. CASE work[c].kind # "create"
        BY <1>2, <3>2, <3>3, <4>2 DEF Row
      <4> QED BY <4>1, <4>2
    <3> HIDE DEF new
    <3> QED BY <2>1, <2>2, <2>3, <3>1, <3>2, <3>4 DEF Fail
  <2>6. CASE Revise(c)
    <3> DEFINE new == [Seen(c, Item(c).topic) EXCEPT !.count = work[c].count]
    <3>1. Fail(c, "failed") \/ draft' = draft \/ Put(c, new)
      BY <2>6 DEF Revise, Recount
    <3>2. Item(c).topic \in Topics /\ Seen(c, Item(c).topic) \in Row /\ work[c].count \in Nat
      BY <1>1, <2>4, <2>6 DEF Revise, TypeInv, Types, WorkType
    <3>3. new \in Row /\ (Item(c).topic = t => new.phase # "absent")
      BY <1>2, <3>2 DEF Row
    <3> HIDE DEF new
    <3> QED BY <2>1, <2>2, <2>3, <3>1, <3>2, <3>3 DEF Fail
  <2>7. CASE Archive(c)
    <3> DEFINE new == [Seen(c, Item(c).topic) EXCEPT !.phase = "archived"]
    <3>1. Fail(c, "failed") \/ Put(c, new)
      BY <2>7 DEF Archive
    <3>2. Item(c).topic \in Topics /\ Seen(c, Item(c).topic) \in Row
      BY <2>4, <2>7 DEF Archive
    <3>3. new \in Row /\ new.phase # "absent"
      BY <3>2 DEF Row
    <3> HIDE DEF new
    <3> QED BY <2>1, <2>2, <2>3, <3>1, <3>2, <3>3 DEF Fail
  <2>8. CASE Parse(c) \/ Commit(c) \/ Victim(c) \/ Die(c) \/ \E answer : Fail(c, answer)
    BY <2>1, <2>3, <2>8 DEF Parse, Commit, Victim, Die, Fail
  <2>9. CASE Begin(c) \/ StartCreate(c) \/ Probe(c) \/ Erase(c) \/ Erasing(c) \/ Advance(c)
    BY <2>1, <2>9 DEF Begin, StartCreate, Probe, Erase, Erasing, Advance, pending
  <2>10. CASE Load(c) \/ Insert(c) \/ Reread(c)
    BY <2>1, <2>8, <2>10 DEF Load, Insert, Reread, pending
  <2> QED BY <2>5, <2>6, <2>7, <2>8, <2>9, <2>10 DEF Step
<1> QED BY <1>1, <1>3, <1>4, <1>5 DEF Imported

\* A step of c keeps what is known of another session.
LEMMA OtherSessions ==
  ASSUME TrailInv, NEW c \in Clients, Begin(c) \/ Step(c) \/ Victim(c) \/ Die(c),
         NEW d \in Clients \ {c}
  PROVE  Session(d)'
<1>1. TypeInv /\ Session(d)
  BY DEF TrailInv
<1>2. SameRequest(d) /\ SameChanges(d) /\ Item(d)' = Item(d)
  BY <1>1, StepIsLocal DEF SameRequest, Item
<1>3. \A t \in DOMAIN draft[d] : t \in Topics /\ topic'[t] = topic[t]
  <2>1. DOMAIN draft[d] \subseteq Topics
    BY <1>1 DEF TypeInv, Types, AreRows
  <2>2. DOMAIN draft[d] \cap DOMAIN draft[c] = {}
    BY <1>1 DEF TypeInv, Locks
  <2> QED BY <2>1, <2>2, TrailsKept
<1>4. DraftStates(d)'
  BY <1>1, <1>2, <1>3 DEF Session, DraftStates, Clean, Pending, Revised, Unrevised,
     SameRequest, SameChanges
<1>5. Flushed(d)'
  BY <1>1, <1>2 DEF Session, Flushed, Pending, Unrevised, SameRequest, SameChanges
<1>6. BaseNotAhead(d)'
  <2>1. CASE pc[d] \in {"idle", "commit"}
    BY <1>1, <1>2, <2>1 DEF Session, BaseNotAhead, SameRequest, Writing, Between
  <2>2. CASE pc[d] \notin {"idle", "commit"}
    <3> DEFINE t == Item(d).topic
    <3>1. t \in Topics /\ work[d].base.version \in Nat /\ topic[t].version \in Nat
      BY <1>1, <2>2, ItemTyped DEF ItemType, TypeInv, Types, WorkType, Row
    <3>2. topic'[t].version \in Nat /\ topic'[t].version >= topic[t].version
      BY <3>1, TrailsKept
    <3>3. work[d].base.version <= topic[t].version => work[d].base.version <= topic'[t].version
      BY <3>1, <3>2
    <3> QED BY <1>1, <1>2, <3>3 DEF Session, BaseNotAhead, SameRequest
  <2> QED BY <2>1, <2>2
<1>7. Fresh(d)'
  BY <1>1, <1>2 DEF Session, Fresh, SameRequest, SameChanges
<1> QED BY <1>4, <1>5, <1>6, <1>7 DEF Session

-----------------------------------------------------------------------------
(* Steps of the session itself.                                            *)

\* An answered request leaves nothing uncommitted.
LEMMA CloseSession ==
  ASSUME TrailInv, NEW c \in Clients, NEW answer, Close(c, answer)
  PROVE  Session(c)'
<1>1. /\ pc'[c] = "idle" /\ draft'[c] = NoDraft /\ revised'[c] = {}
      /\ job' = job /\ work' = work
  BY DEF Close, Goto, TrailInv, TypeInv, Types
<1>2. DOMAIN NoDraft = {}
  BY DEF NoDraft
<1>3. Session(c)
  BY DEF TrailInv
<1>4. DraftStates(c)' /\ Flushed(c)'
  BY <1>1, <1>2 DEF DraftStates, Flushed
<1>5. BaseNotAhead(c)'
  BY <1>1, <1>3 DEF Session, BaseNotAhead, Writing, Between
<1>6. Fresh(c)'
  BY <1>1, <1>2, <1>3 DEF Session, Fresh, Unflushed
<1> QED BY <1>4, <1>5, <1>6 DEF Session

\* A step before the first flush, or after the last, keeps what is drafted.
LEMMA DraftsStay ==
  ASSUME TrailInv, NEW c \in Clients, pc[c] \notin Between,
         UNCHANGED <<topic, draft, revised>>
  PROVE  DraftStates(c)'
BY DEF TrailInv, Session, DraftStates, Clean, Pending, Revised, Unrevised

LEMMA BeginSession ==
  ASSUME TrailInv, NEW c \in Clients, Begin(c)
  PROVE  Session(c)'
<1>1. PICK op \in Ops : \E mode \in Modes \cup {"upsert"}, batch \in Batches(op) :
        /\ job' = [job EXCEPT ![c] = [op |-> op, mode |-> mode, items |-> batch,
                                      serial |-> serial', edited |-> {}]]
        /\ pc' = [pc EXCEPT ![c] = FirstStep(op)]
  BY DEF Begin, Goto
<1>2. PICK batch \in Batches(op) :
        job'[c].items = batch /\ job'[c].op = op /\ pc'[c] = FirstStep(op)
  BY <1>1 DEF TrailInv, TypeInv, Types
<1>3. FirstStep(op) \in {"create", "archive", "probe", "load"}
      /\ (op = "bulk" => FirstStep(op) = "probe")
  BY DEF FirstStep
<1>4. pc[c] = "idle" /\ UNCHANGED <<topic, work, draft, revised>> /\ Session(c)
  BY DEF Begin, database, pending, TrailInv
<1>5. DraftStates(c)'
  BY <1>4, DraftsStay DEF Between
<1>6. Flushed(c)' /\ BaseNotAhead(c)'
  BY <1>2, <1>3, <1>4 DEF Session, Flushed, BaseNotAhead, Writing, Between
<1>7. Fresh(c)'
  BY <1>2, <1>3, <1>4, BatchType DEF Session, Fresh
<1> QED BY <1>5, <1>6, <1>7 DEF Session

\* What c sees of an item that is not drafted is the committed row.
LEMMA SeenFresh ==
  ASSUME TrailInv, NEW c \in Clients, pc[c] \in Unflushed
  PROVE  /\ Item(c).topic \in Topics /\ Item(c).topic \notin DOMAIN draft[c]
         /\ Seen(c, Item(c).topic) = topic[Item(c).topic]
         /\ topic[Item(c).topic] \in Row /\ topic[Item(c).topic].version \in Nat
<1>1. TypeInv /\ pc[c] \notin {"idle", "commit"} /\ Fresh(c)
  BY DEF TrailInv, Session, Unflushed
<1>2. Item(c).topic \in Topics /\ Item(c) = job[c].items[1] /\ 1 \in 1..Len(job[c].items)
  BY <1>1, ItemTyped DEF ItemType
<1>3. Item(c).topic \notin DOMAIN draft[c]
  BY <1>1, <1>2 DEF Fresh
<1>4. topic[Item(c).topic] \in Row
  BY <1>1, <1>2 DEF TypeInv, Types
<1> QED BY <1>2, <1>3, <1>4 DEF Seen, Row

\* create_topic and update_topic before their first statement.
LEMMA CreateSession ==
  ASSUME TrailInv, NEW c \in Clients, pc[c] \in Unflushed, job[c].op # "update", Create(c),
         UNCHANGED <<database, serial, snap, pending, status>>
  PROVE  Session(c)'
<1>1. pc[c] \notin {"idle", "commit"} /\ pc[c] \notin Between /\ Session(c) /\ TypeInv
  BY DEF Unflushed, Between, TrailInv
<1>2. /\ pc'[c] = "flush" /\ work'[c].base = NoRow /\ work'[c].revise /\ SameItems(c)
  BY <1>1, CreateType
<1>3. Item(c)' = Item(c) /\ topic' = topic /\ draft' = draft /\ revised' = revised
  BY <1>2 DEF Item, SameItems, database, pending
<1>4. DraftStates(c)'
  BY <1>1, <1>3, DraftsStay
<1>5. Flushed(c)'
  BY <1>2 DEF Flushed
<1>6. BaseNotAhead(c)'
  <2>1. topic[Item(c).topic].version \in Nat /\ NoRow.version = 0
    BY SeenFresh DEF NoRow
  <2>2. 0 <= topic[Item(c).topic].version
    BY <2>1
  <2> QED BY <1>2, <1>3, <2>1, <2>2 DEF BaseNotAhead
<1>7. Fresh(c)'
  BY <1>1, <1>2, <1>3 DEF Session, Fresh, SameItems
<1> QED BY <1>4, <1>5, <1>6, <1>7 DEF Session

LEMMA UpdateSession ==
  ASSUME TrailInv, NEW c \in Clients, pc[c] \in Unflushed, NEW row \in Row, Update(c, row),
         row.version <= topic[Item(c).topic].version,
         UNCHANGED <<database, serial, snap, pending, status>>
  PROVE  Session(c)'
<1>1. pc[c] \notin {"idle", "commit"} /\ pc[c] \notin Between /\ Session(c) /\ TypeInv
  BY DEF Unflushed, Between, TrailInv
<1>2. /\ pc'[c] \in {"erase", "reread"} /\ work'[c].base = row /\ work'[c].kind = "update"
      /\ SameItems(c)
  BY <1>1, UpdateType
<1>3. Item(c)' = Item(c) /\ topic' = topic /\ draft' = draft /\ revised' = revised
  BY <1>2 DEF Item, SameItems, database, pending
<1>4. DraftStates(c)'
  BY <1>1, <1>3, DraftsStay
<1>5. Flushed(c)'
  BY <1>2 DEF Flushed
<1>6. BaseNotAhead(c)'
  BY <1>2, <1>3 DEF BaseNotAhead
<1>7. Fresh(c)'
  BY <1>1, <1>2, <1>3 DEF Session, Fresh, SameItems
<1> QED BY <1>4, <1>5, <1>6, <1>7 DEF Session

\* A step that only goes on.
LEMMA GotoSession ==
  ASSUME TrailInv, NEW c \in Clients, pc[c] \notin Between \cup {"idle"},
         NEW step \in {"next", "reread", "erasing", "flush", "parse"},
         step \in {"erasing", "flush", "parse"} => pc[c] \in Unflushed \cap Writing,
         pc'[c] = step, UNCHANGED <<topic, job, work, draft, revised>>
  PROVE  Session(c)'
<1>1. Session(c) /\ Item(c)' = Item(c)
  BY DEF TrailInv, Item
<1>2. DraftStates(c)'
  BY DraftsStay
<1>3. Flushed(c)'
  BY DEF Flushed
<1>4. BaseNotAhead(c)'
  BY <1>1 DEF Session, BaseNotAhead, Writing, Between
<1>5. Fresh(c)'
  BY <1>1 DEF Session, Fresh, Unflushed, Writing, Between
<1> QED BY <1>1, <1>2, <1>3, <1>4, <1>5 DEF Session

LEMMA ProbeSession ==
  ASSUME TrailInv, NEW c \in Clients, Probe(c)
  PROVE  Session(c)'
<1> DEFINE load == /\ work' = [work EXCEPT ![c].base = Seen(c, Item(c).topic)]
                   /\ Goto(c, "load")
                   /\ UNCHANGED job
<1>1. pc[c] = "probe" /\ job[c].op # "update" /\ TypeInv /\ Session(c)
      /\ UNCHANGED <<database, serial, snap, pending, status>>
  BY DEF Probe, TypeInv, Shape, TrailInv
<1>2. \/ load
      \/ Create(c)
      \/ Skip(c)
  BY DEF Probe, Upsert
<1>3. CASE load
  <2>1. pc'[c] = "load" /\ work'[c].base = Seen(c, Item(c).topic)
        /\ work'[c].kind = work[c].kind /\ work'[c].revise = work[c].revise
    BY <1>1, <1>3 DEF Goto, TypeInv, Types, WorkType
  <2>2. Item(c)' = Item(c) /\ topic' = topic /\ draft' = draft /\ revised' = revised /\ job' = job
    BY <1>1, <1>3 DEF Item, database, pending
  <2>3. DraftStates(c)'
    BY <1>1, <2>2, DraftsStay DEF Between
  <2>4. Flushed(c)'
    BY <2>1 DEF Flushed
  <2>5. BaseNotAhead(c)'
    <3>1. topic[Item(c).topic].version \in Nat
          /\ Seen(c, Item(c).topic).version = topic[Item(c).topic].version
      BY <1>1, SeenFresh DEF Unflushed
    <3>2. Seen(c, Item(c).topic).version <= topic[Item(c).topic].version
      BY <3>1
    <3> QED BY <1>1, <2>1, <2>2, <3>2 DEF Session, BaseNotAhead
  <2>6. Fresh(c)'
    BY <1>1, <2>1, <2>2 DEF Session, Fresh, Unflushed
  <2> QED BY <2>3, <2>4, <2>5, <2>6 DEF Session
<1>4. CASE Create(c)
  BY <1>1, <1>4, CreateSession DEF Unflushed
<1>5. CASE Skip(c)
  BY <1>1, <1>5, GotoSession DEF Skip, Goto, Between, TypeInv, Types, database, pending
<1> QED BY <1>2, <1>3, <1>4, <1>5

LEMMA LoadSession ==
  ASSUME TrailInv, NEW c \in Clients, Load(c)
  PROVE  Session(c)'
<1> DEFINE row == Seen(c, Item(c).topic)
           rest == UNCHANGED <<database, serial, snap, pending, status>>
           v == topic[Item(c).topic].version
<1>1. pc[c] = "load" /\ pc[c] \in Unflushed /\ TypeInv /\ Session(c)
  BY DEF Load, Unflushed, TrailInv
<1>2. row \in Row /\ row.version = v /\ v \in Nat /\ work[c].base \in Row
  BY <1>1, SeenFresh DEF TypeInv, Types, WorkType
<1>3. row.version <= v /\ (job[c].op = "bulk" => work[c].base.version <= v)
  BY <1>1, <1>2 DEF Session, BaseNotAhead
<1>4. \/ Fail(c, "failed")
      \/ \E r \in Row : r.version <= v /\ Update(c, r) /\ rest
      \/ job[c].op # "update" /\ Create(c) /\ rest
      \/ Skip(c) /\ rest
  BY <1>1, <1>2, <1>3 DEF Load, Upsert
<1>5. ASSUME Fail(c, "failed") PROVE Session(c)'
  BY <1>5, CloseSession DEF Fail
<1>6. ASSUME NEW r \in Row, r.version <= v, Update(c, r), rest PROVE Session(c)'
  BY <1>1, <1>6, UpdateSession
<1>7. ASSUME job[c].op # "update", Create(c), rest PROVE Session(c)'
  BY <1>1, <1>7, CreateSession
<1>8. ASSUME Skip(c), rest PROVE Session(c)'
  BY <1>1, <1>8, GotoSession DEF Skip, Goto, Between, TypeInv, Types, database, pending
<1> QED BY <1>4, <1>5, <1>6, <1>7, <1>8

\* The first flush: a new body waits for its revision from here on.
LEMMA FlushSession ==
  ASSUME TrailInv, NEW c \in Clients, Flush(c)
  PROVE  Session(c)'
<1> DEFINE t == Item(c).topic
           new == [Seen(c, t) EXCEPT !.phase = IF work[c].kind = "create" THEN "live" ELSE @,
                                     !.body = work[c].body,
                                     !.version = work[c].base.version + 1]
<1>1. CASE Fail(c, "failed")
  BY <1>1, CloseSession DEF Fail
<1>2. CASE ~Fail(c, "failed")
  <2>1. /\ pc[c] = "flush" /\ IF Dirty(c) THEN Put(c, new) ELSE UNCHANGED draft
        /\ \E step \in Between : Goto(c, step)
        /\ UNCHANGED <<database, serial, job, work, snap, erased, added, revised, status>>
    BY <1>2 DEF Flush, Between
  <2>2. TypeInv /\ Session(c) /\ pc'[c] \in Between
    BY <2>1 DEF TrailInv, TypeInv, Types, Goto
  <2>3. Item(c)' = Item(c) /\ topic' = topic /\ revised' = revised /\ work' = work /\ job' = job
    BY <2>1 DEF Item, database
  <2>4. t \in Topics /\ t \notin DOMAIN draft[c] /\ Seen(c, t) \in Row /\ t = job[c].items[1].topic
        /\ 1 \in 1..Len(job[c].items)
    BY <2>1, <2>2, SeenFresh, ItemTyped DEF Unflushed
  <2>5. Dirty(c) <=> work[c].revise
    BY <2>2 DEF Dirty, Session, BaseNotAhead
  <2>6. new.body = work[c].body /\ new.version = work[c].base.version + 1
    BY <2>4 DEF Row
  <2>7. new \in Row
    <3>1. work[c].body \in Bodies /\ work[c].base.version + 1 \in Nat
      BY <2>2 DEF TypeInv, Types, WorkType, Row
    <3>2. CASE work[c].kind = "create"
      BY <2>4, <3>1, <3>2 DEF Row
    <3>3. CASE work[c].kind # "create"
      BY <2>4, <3>1, <3>3 DEF Row
    <3> QED BY <3>2, <3>3
  <2> HIDE DEF new
  <2>8. \A u \in DOMAIN draft[c] : u # t /\ (Clean(c, u) \/ Revised(c, u))
    BY <2>1, <2>2, <2>4 DEF Session, DraftStates, Pending, Between
  <2>9. \A r \in revised[c] : r.topic # t /\ r.topic \in DOMAIN draft[c]
    BY <2>2, <2>4 DEF Session, DraftStates
  <2>10. BaseNotAhead(c)'
    BY <2>1, <2>2, <2>3 DEF Session, BaseNotAhead, Writing
  <2>11. CASE Dirty(c)
    <3>1. /\ DOMAIN draft'[c] = DOMAIN draft[c] \cup {t} /\ draft'[c][t] = new
          /\ \A u \in DOMAIN draft[c] : u # t => draft'[c][u] = draft[c][u]
      BY <2>1, <2>2, <2>4, <2>7, <2>11, PutTyped
    <3>2. Pending(c, t)'
      BY <2>2, <2>3, <2>5, <2>6, <2>9, <2>11, <3>1 DEF Pending, Unrevised
    <3>3. \A u \in DOMAIN draft[c] : Clean(c, u)' \/ Revised(c, u)'
      BY <2>3, <2>8, <3>1 DEF Clean, Revised, Unrevised
    <3>4. DraftStates(c)'
      BY <2>3, <2>9, <3>1, <3>2, <3>3 DEF DraftStates
    <3>5. Flushed(c)'
      BY <2>3, <3>1, <3>2 DEF Flushed
    <3>6. Fresh(c)'
      BY <2>2, <2>3, <2>4, <3>1 DEF Session, Fresh, Unflushed, Between
    <3> QED BY <2>10, <3>4, <3>5, <3>6 DEF Session
  <2>12. CASE ~Dirty(c)
    <3>1. draft' = draft
      BY <2>1, <2>12
    <3>2. DraftStates(c)'
      BY <2>1, <2>3, <3>1, DraftsStay DEF Between
    <3>3. Flushed(c)'
      BY <2>3, <2>5, <2>12 DEF Flushed
    <3>4. Fresh(c)'
      BY <2>2, <2>3, <3>1 DEF Session, Fresh, Unflushed, Between
    <3> QED BY <2>10, <3>2, <3>3, <3>4 DEF Session
  <2> QED BY <2>11, <2>12
<1> QED BY <1>1, <1>2

LEMMA InsertSession ==
  ASSUME TrailInv, NEW c \in Clients, Insert(c)
  PROVE  Session(c)'
<1>1. CASE Fail(c, "failed")
  BY <1>1, CloseSession DEF Fail
<1>2. CASE ~Fail(c, "failed")
  <2>1. /\ pc[c] = "insert"
        /\ work' = [work EXCEPT ![c].todo = Tail(@)]
        /\ \E step \in {"revise", "insert"} : Goto(c, step)
        /\ UNCHANGED <<database, serial, job, snap, draft, erased, revised, status>>
    BY <1>2 DEF Insert
  <2>2. Session(c) /\ pc'[c] \in {"revise", "insert"}
    BY <2>1 DEF TrailInv, TypeInv, Types, Goto
  <2>3. Item(c)' = Item(c) /\ topic' = topic /\ draft' = draft /\ revised' = revised /\ job' = job
    BY <2>1 DEF Item, database
  <2>4. /\ work'[c].kind = work[c].kind /\ work'[c].revise = work[c].revise
        /\ work'[c].base = work[c].base /\ work'[c].body = work[c].body
    BY <2>1 DEF TrailInv, TypeInv, Types, WorkType
  <2>5. \A t : Pending(c, t) => Pending(c, t)'
    BY <2>2, <2>3, <2>4 DEF Pending, Unrevised, Between
  <2>6. DraftStates(c)'
    BY <2>2, <2>3, <2>5 DEF Session, DraftStates, Clean, Revised, Unrevised
  <2>7. Flushed(c)'
    BY <2>1, <2>2, <2>3, <2>4, <2>5 DEF Session, Flushed
  <2>8. BaseNotAhead(c)'
    BY <2>1, <2>2, <2>3, <2>4 DEF Session, BaseNotAhead, Writing, Between
  <2>9. Fresh(c)'
    BY <2>2, <2>3 DEF Session, Fresh, Unflushed
  <2> QED BY <2>6, <2>7, <2>8, <2>9 DEF Session
<1> QED BY <1>1, <1>2

\* A revision that meets no other is counted from the committed row: the base
\* row was not stale.
LEMMA NoConflict ==
  ASSUME TrailInv, NEW c \in Clients, pc[c] = "revise",
         ~ \E r \in revisions : SameVersion(r, Revision(c))
  PROVE  Revision(c).version = topic[Item(c).topic].version + 1
<1> DEFINE t == Item(c).topic
           v == work[c].base.version
           n == topic[t].version
<1>1. t \in Topics /\ v \in Nat /\ n \in Nat
  BY ItemTyped DEF TrailInv, ItemType, TypeInv, Types, WorkType, Row
<1>2. v <= n
  BY DEF TrailInv, Session, BaseNotAhead, Writing, Between
<1>3. Revision(c).topic = t /\ Revision(c).version = v + 1
  BY DEF Revision
<1>4. v + 1 \notin First(t)..n
  BY <1>1, <1>3 DEF TrailInv, Trail, SameVersion
<1>5. v + 1 >= First(t) /\ First(t) \in {1, 2}
  BY <1>1 DEF TrailInv, BaseImported, Writing, Between, First
<1>6. v = n
  BY <1>1, <1>2, <1>4, <1>5
<1> QED BY <1>3, <1>6

\* What Recount leaves of the uncommitted topics rows: it changes no phase, no
\* version and no body.
LEMMA RecountDrafts ==
  ASSUME TrailInv, NEW c \in Clients, pc[c] = "revise", Recount(c)
  PROVE  /\ DOMAIN draft[c] \subseteq DOMAIN draft'[c]
         /\ DOMAIN draft'[c] \subseteq DOMAIN draft[c] \cup {Item(c).topic}
         /\ \A u \in DOMAIN draft'[c] :
              /\ draft'[c][u].phase = Seen(c, u).phase
              /\ draft'[c][u].version = Seen(c, u).version
              /\ draft'[c][u].body = Seen(c, u).body
<1> DEFINE t == Item(c).topic
           row == Seen(c, t)
           new == [row EXCEPT !.count = work[c].count]
<1>1. TypeInv /\ t \in Topics /\ new \in Row
  BY RecountTyped DEF TrailInv
<1>2. row \in Row
  BY <1>1, SeenTyped
<1>3. new.phase = row.phase /\ new.version = row.version /\ new.body = row.body
  BY <1>2 DEF Row
<1> HIDE DEF new
<1>4. CASE Recounted(c)
  <2>1. /\ DOMAIN draft'[c] = DOMAIN draft[c] \cup {t} /\ draft'[c][t] = new
        /\ \A u \in DOMAIN draft[c] : u # t => draft'[c][u] = draft[c][u]
    BY <1>1, <1>4, PutTyped DEF Recount, new
  <2> QED BY <1>3, <2>1 DEF Seen
<1>5. CASE ~Recounted(c)
  BY <1>5 DEF Recount, Seen
<1> QED BY <1>4, <1>5

LEMMA ReviseSession ==
  ASSUME TrailInv, NEW c \in Clients, Revise(c)
  PROVE  Session(c)'
<1> DEFINE t == Item(c).topic
<1>1. CASE Fail(c, "failed")
  BY <1>1, CloseSession DEF Fail
<1>2. CASE ~Fail(c, "failed")
  <2>1. /\ pc[c] = "revise" /\ Recount(c)
        /\ work[c].revise => ~ \E r \in revisions : SameVersion(r, Revision(c))
        /\ revised' = [revised EXCEPT ![c] = IF work[c].revise THEN @ \cup {Revision(c)} ELSE @]
        /\ \E step \in {"next", "reread"} : Goto(c, step)
        /\ UNCHANGED <<database, serial, job, work, snap, erased, added, status>>
    BY <1>2 DEF Revise
  <2>2. TypeInv /\ Session(c) /\ pc'[c] \in {"next", "reread"}
    BY <2>1 DEF TrailInv, TypeInv, Types, Goto
  <2>3. Item(c)' = Item(c) /\ topic' = topic /\ work' = work /\ job' = job
    BY <2>1 DEF Item, database
  <2>4. t = job[c].items[1].topic /\ 1 \in 1..Len(job[c].items)
    BY <2>1, <2>2, ItemTyped
  <2>5. revised'[c] = IF work[c].revise THEN revised[c] \cup {Revision(c)} ELSE revised[c]
    BY <2>1, <2>2 DEF TypeInv, Types
  <2>6. Revision(c).topic = t /\ Revision(c).body = work[c].body
        /\ Revision(c).version = work[c].base.version + 1
    BY DEF Revision
  <2>7. Flushed(c)' /\ BaseNotAhead(c)'
    BY <2>2, <2>3 DEF Session, Flushed, BaseNotAhead, Writing, Between
  <2>8. Fresh(c)'
    BY <2>1, <2>2, <2>3, <2>4, RecountDrafts DEF Session, Fresh, Unflushed
  <2>9. ASSUME NEW u \in DOMAIN draft'[c], u # t
        PROVE  Clean(c, u)' \/ Revised(c, u)'
    <3>1. u \in DOMAIN draft[c] /\ draft'[c][u].version = draft[c][u].version
          /\ draft'[c][u].body = draft[c][u].body
      BY <2>1, <2>9, RecountDrafts DEF Seen
    <3>2. Clean(c, u) \/ Revised(c, u)
      BY <2>2, <2>9, <3>1 DEF Session, DraftStates, Pending
    <3>3. \A r \in revised'[c] : r.topic = u => r \in revised[c]
      BY <2>5, <2>6, <2>9
    <3>4. revised[c] \subseteq revised'[c]
      BY <2>5
    <3> QED BY <2>3, <3>1, <3>2, <3>3, <3>4 DEF Clean, Revised, Unrevised
  <2>10. CASE work[c].revise
    <3>1. t \in DOMAIN draft[c] /\ Pending(c, t)
      BY <2>1, <2>2, <2>10 DEF Session, Flushed
    <3>2. t \in DOMAIN draft'[c] /\ draft'[c][t].version = Revision(c).version
          /\ draft'[c][t].body = Revision(c).body
      BY <2>1, <2>6, <3>1, RecountDrafts DEF Seen, Pending
    <3>3. Revision(c).version = topic[t].version + 1
      BY <2>1, <2>10, NoConflict
    <3>4. Revised(c, t)'
      BY <2>3, <2>5, <2>6, <2>10, <3>1, <3>2, <3>3 DEF Revised, Pending, Unrevised
    <3>5. \A r \in revised'[c] : r.topic \in DOMAIN draft'[c]
      BY <2>1, <2>2, <2>5, <2>6, <3>2, RecountDrafts DEF Session, DraftStates
    <3>6. DraftStates(c)'
      BY <2>3, <2>9, <3>4, <3>5 DEF DraftStates
    <3> QED BY <2>7, <2>8, <3>6 DEF Session
  <2>11. CASE ~work[c].revise
    <3>1. revised'[c] = revised[c]
      BY <2>5, <2>11
    <3>2. ASSUME t \in DOMAIN draft'[c] PROVE Clean(c, t)' \/ Revised(c, t)'
      <4>1. draft'[c][t].version = Seen(c, t).version /\ draft'[c][t].body = Seen(c, t).body
        BY <2>1, <3>2, RecountDrafts
      <4>2. CASE t \in DOMAIN draft[c]
        <5>1. Clean(c, t) \/ Revised(c, t)
          BY <2>2, <2>11, <4>2 DEF Session, DraftStates, Pending
        <5> QED BY <2>3, <3>1, <4>1, <4>2, <5>1 DEF Seen, Clean, Revised, Unrevised
      <4>3. CASE t \notin DOMAIN draft[c]
        <5>1. Unrevised(c, t)
          BY <2>2, <4>3 DEF Session, DraftStates, Unrevised
        <5> QED BY <2>3, <3>1, <4>1, <4>3, <5>1 DEF Seen, Clean, Unrevised
      <4> QED BY <4>2, <4>3
    <3>3. \A r \in revised'[c] : r.topic \in DOMAIN draft'[c]
      BY <2>1, <2>2, <3>1, RecountDrafts DEF Session, DraftStates
    <3>4. DraftStates(c)'
      BY <2>3, <2>9, <3>2, <3>3 DEF DraftStates
    <3> QED BY <2>7, <2>8, <3>4 DEF Session
  <2> QED BY <2>10, <2>11
<1> QED BY <1>1, <1>2

LEMMA ArchiveSession ==
  ASSUME TrailInv, NEW c \in Clients, Archive(c)
  PROVE  Session(c)'
<1> DEFINE t == Item(c).topic
           new == [Seen(c, t) EXCEPT !.phase = "archived"]
<1>1. CASE Fail(c, "failed")
  BY <1>1, CloseSession DEF Fail
<1>2. CASE ~Fail(c, "failed")
  <2>1. /\ pc[c] = "archive" /\ Put(c, new) /\ Goto(c, "next")
        /\ UNCHANGED <<database, serial, job, work, snap, erased, added, revised, status>>
    BY <1>2 DEF Archive
  <2>2. TypeInv /\ Session(c) /\ pc'[c] = "next" /\ pc[c] \in Unflushed
    BY <2>1 DEF TrailInv, TypeInv, Types, Goto, Unflushed
  <2>3. /\ Item(c)' = Item(c) /\ topic' = topic /\ work' = work /\ job' = job
        /\ revised' = revised
    BY <2>1 DEF Item, database
  <2>4. t \in Topics /\ t \notin DOMAIN draft[c] /\ Seen(c, t) = topic[t] /\ Seen(c, t) \in Row
    BY <2>2, SeenFresh
  <2>5. t = job[c].items[1].topic /\ 1 \in 1..Len(job[c].items)
    BY <2>1, <2>2, ItemTyped
  <2>6. new \in Row /\ new.version = topic[t].version /\ new.body = topic[t].body
    BY <2>4 DEF Row
  <2> HIDE DEF new
  <2>7. /\ DOMAIN draft'[c] = DOMAIN draft[c] \cup {t} /\ draft'[c][t] = new
        /\ \A u \in DOMAIN draft[c] : u # t => draft'[c][u] = draft[c][u]
    BY <2>1, <2>2, <2>4, <2>6, PutTyped
  <2>8. \A u \in DOMAIN draft[c] : Clean(c, u)' \/ Revised(c, u)'
    <3>1. \A u \in DOMAIN draft[c] : u # t /\ (Clean(c, u) \/ Revised(c, u))
      BY <2>1, <2>2, <2>4 DEF Session, DraftStates, Pending, Between
    <3> QED BY <2>3, <2>7, <3>1 DEF Clean, Revised, Unrevised
  <2>9. Clean(c, t)'
    <3>1. Unrevised(c, t)
      BY <2>2, <2>4 DEF Session, DraftStates, Unrevised
    <3> QED BY <2>3, <2>6, <2>7, <3>1 DEF Clean, Unrevised
  <2>10. DraftStates(c)'
    BY <2>2, <2>3, <2>7, <2>8, <2>9 DEF Session, DraftStates
  <2>11. Flushed(c)' /\ BaseNotAhead(c)'
    BY <2>2, <2>3 DEF Session, Flushed, BaseNotAhead, Writing, Between
  <2>12. Fresh(c)'
    BY <2>2, <2>3, <2>5, <2>7 DEF Session, Fresh, Unflushed
  <2> QED BY <2>10, <2>11, <2>12 DEF Session
<1> QED BY <1>1, <1>2

LEMMA AdvanceSession ==
  ASSUME TrailInv, NEW c \in Clients, Advance(c)
  PROVE  Session(c)'
<1>1. TypeInv /\ Session(c) /\ pc[c] = "next"
      /\ UNCHANGED <<topic, work, draft, revised>>
  BY DEF Advance, TrailInv, database, pending
<1>2. pc'[c] \in {"commit", "create", "archive", "probe", "load"}
      /\ (pc'[c] = "load" => job'[c].op # "bulk")
  BY <1>1, AdvanceItems DEF FirstStep
<1>3. DraftStates(c)'
  BY <1>1, DraftsStay DEF Between
<1>4. Flushed(c)' /\ BaseNotAhead(c)'
  BY <1>1, <1>2 DEF Session, Flushed, BaseNotAhead, Writing, Between
<1>5. Fresh(c)'
  <2>1. /\ Len(job[c].items) \in Nat \ {0} /\ Len(job'[c].items) = Len(job[c].items) - 1
        /\ \A i \in 1..Len(job'[c].items) :
             i + 1 \in 1..Len(job[c].items) /\ job'[c].items[i] = job[c].items[i + 1]
    BY <1>1, AdvanceItems
  <2>2. ASSUME NEW i \in 1..Len(job'[c].items)
        PROVE  job'[c].items[i].topic \notin DOMAIN draft[c]
    <3>1. i + 1 \in 1..Len(job[c].items) /\ i + 1 > 1
      BY <2>1, <2>2
    <3> QED BY <1>1, <2>1, <3>1 DEF Session, Fresh
  <2>3. ASSUME NEW i \in 1..Len(job'[c].items), NEW j \in 1..Len(job'[c].items),
               job'[c].items[i].topic = job'[c].items[j].topic
        PROVE  i = j
    <3>1. i + 1 = j + 1
      <4>1. /\ i + 1 \in 1..Len(job[c].items) /\ j + 1 \in 1..Len(job[c].items)
            /\ job[c].items[i + 1].topic = job[c].items[j + 1].topic
        BY <2>1, <2>3
      <4>2. \A m, n \in 1..Len(job[c].items) :
              job[c].items[m].topic = job[c].items[n].topic => m = n
        BY <1>1 DEF Session, Fresh
      <4> QED BY <4>1, <4>2
    <3>2. i \in Nat /\ j \in Nat
      BY <2>1, <2>3
    <3> QED BY <3>1, <3>2
  <2> QED BY <1>1, <1>2, <2>2, <2>3 DEF Fresh
<1> QED BY <1>3, <1>4, <1>5 DEF Session

LEMMA OwnSession ==
  ASSUME TrailInv, NEW c \in Clients, Begin(c) \/ Step(c) \/ Victim(c) \/ Die(c)
  PROVE  Session(c)'
<1>1. CASE Erase(c)
  BY <1>1, GotoSession DEF Erase, Goto, Between, Unflushed, Writing, TrailInv, TypeInv, Types,
     database, pending
<1>2. CASE Erasing(c)
  BY <1>2, GotoSession DEF Erasing, Goto, Between, Unflushed, Writing, TrailInv, TypeInv, Types,
     database
<1>3. CASE Reread(c)
  <2>1. CASE Fail(c, "failed")
    BY <2>1, CloseSession DEF Fail
  <2>2. CASE ~Fail(c, "failed")
    BY <1>3, <2>2, GotoSession DEF Reread, Goto, Between, TrailInv, TypeInv, Types,
       database, pending
  <2> QED BY <2>1, <2>2
<1>4. CASE Parse(c) \/ Commit(c) \/ Victim(c) \/ Die(c)
  BY <1>4, CloseSession DEF Parse, Commit, Victim, Die, Fail
<1> QED
  BY <1>1, <1>2, <1>3, <1>4, BeginSession, ProbeSession, LoadSession, FlushSession,
     InsertSession, ReviseSession, ArchiveSession, AdvanceSession, CreateSession
     DEF Step, StartCreate, TrailInv, TypeInv, Shape, Unflushed

\* The base rows of imported topics: what is loaded is a stored row, and a
\* create does not get past its first flush.
LEMMA OwnImported ==
  ASSUME TrailInv, NEW c \in Clients, Begin(c) \/ Step(c) \/ Victim(c) \/ Die(c)
  PROVE  BaseImported(c)'
<1> DEFINE t == Item(c).topic
<1>1. TypeInv /\ BaseImported(c) /\ imported' = imported
  BY OnlyCommitsWrite DEF TrailInv, Commit, database
<1>2. ASSUME NEW answer, Close(c, answer) PROVE BaseImported(c)'
  <2>1. pc'[c] = "idle"
    BY <1>1, <1>2 DEF Close, Goto, TypeInv, Types
  <2> QED BY <2>1 DEF BaseImported, Writing, Between
<1>3. ASSUME pc'[c] \notin Writing \cup {"load"} PROVE BaseImported(c)'
  BY <1>3 DEF BaseImported
<1>4. pc[c] \in Unflushed =>
        /\ t \in imported => Seen(c, t).version >= 1 /\ Seen(c, t).phase # "absent"
        /\ Seen(c, t) \in Row
  BY SeenFresh DEF TrailInv, Trail, Imported
<1>5. ASSUME pc[c] \in Unflushed, job[c].op # "update", Create(c) PROVE BaseImported(c)'
  <2>1. pc'[c] = "flush" /\ work'[c].kind = "create"
    BY <1>1, <1>5 DEF Create, Goto, TypeInv, Types
  <2> QED BY <2>1 DEF BaseImported
<1>6. ASSUME pc[c] \in Unflushed, NEW row \in Row, Update(c, row),
             t \in imported => row.version >= 1
      PROVE  BaseImported(c)'
  <2>1. pc'[c] \in {"erase", "reread"} /\ work'[c].base = row /\ SameItems(c)
    BY <1>1, <1>6, UpdateType DEF Unflushed
  <2> QED BY <1>1, <1>6, <2>1 DEF BaseImported, Item, SameItems
<1>7. CASE Begin(c)
  <2>1. PICK op \in Ops : job'[c].op = op /\ pc'[c] = FirstStep(op)
    BY <1>1, <1>7 DEF Begin, Goto, TypeInv, Types
  <2> QED BY <2>1 DEF BaseImported, FirstStep, Writing, Between
<1>8. CASE StartCreate(c)
  BY <1>1, <1>5, <1>8 DEF StartCreate, Unflushed, TypeInv, Shape
<1>9. CASE Probe(c)
  <2>1. pc[c] = "probe" /\ pc[c] \in Unflushed /\ job[c].op # "update"
    BY <1>1, <1>9 DEF Probe, Unflushed, TypeInv, Shape
  <2>2. CASE Create(c)
    BY <1>5, <2>1, <2>2
  <2>3. CASE Skip(c)
    BY <1>1, <1>3, <2>3 DEF Skip, Goto, Writing, Between, TypeInv, Types
  <2>4. CASE /\ work' = [work EXCEPT ![c].base = Seen(c, t)]
             /\ Goto(c, "load") /\ UNCHANGED job
    <3>1. pc'[c] = "load" /\ work'[c].base = Seen(c, t) /\ Item(c)' = Item(c)
      BY <1>1, <2>4 DEF Goto, Item, TypeInv, Types, WorkType
    <3> QED BY <1>1, <1>4, <2>1, <3>1 DEF BaseImported, Writing, Between
  <2> QED BY <1>9, <2>2, <2>3, <2>4 DEF Probe, Upsert
<1>10. CASE Load(c)
  <2>1. pc[c] = "load" /\ pc[c] \in Unflushed
    BY <1>10 DEF Load, Unflushed
  <2>2. work[c].base \in Row
    BY <1>1 DEF TypeInv, Types, WorkType
  <2>3. CASE Fail(c, "failed")
    BY <1>2, <2>3 DEF Fail
  <2>4. CASE Skip(c)
    BY <1>1, <1>3, <2>4 DEF Skip, Goto, Writing, Between, TypeInv, Types
  <2>5. CASE job[c].op # "update" /\ Create(c)
    BY <1>5, <2>1, <2>5
  <2>6. CASE Update(c, Seen(c, t))
    BY <1>4, <1>6, <2>1, <2>6
  <2>7. CASE job[c].op = "bulk" /\ Update(c, work[c].base)
    BY <1>1, <1>6, <2>1, <2>2, <2>7 DEF BaseImported
  <2> QED BY <1>10, <2>3, <2>4, <2>5, <2>6, <2>7 DEF Load, Upsert
<1>11. CASE Flush(c)
  <2>1. CASE Fail(c, "failed")
    BY <1>2, <2>1 DEF Fail
  <2>2. CASE ~Fail(c, "failed")
    <3>1. /\ pc[c] = "flush" /\ ~(work[c].kind = "create" /\ Seen(c, t).phase # "absent")
          /\ \E step \in Between : Goto(c, step)
          /\ UNCHANGED <<job, work>>
      BY <1>11, <2>2 DEF Flush, Between
    <3>2. pc'[c] \in Between /\ Item(c)' = Item(c)
      BY <1>1, <3>1 DEF Goto, Item, TypeInv, Types
    <3>3. t \in imported => work[c].base.version >= 1
      BY <1>1, <1>4, <3>1 DEF BaseImported, Unflushed, Writing
    <3> QED BY <1>1, <3>1, <3>2, <3>3 DEF BaseImported, Between
  <2> QED BY <2>1, <2>2
<1>12. CASE Insert(c)
  <2>1. CASE Fail(c, "failed")
    BY <1>2, <2>1 DEF Fail
  <2>2. CASE ~Fail(c, "failed")
    <3>1. pc[c] = "insert" /\ pc'[c] \in {"insert", "revise"} /\ Item(c)' = Item(c)
          /\ work'[c].base = work[c].base
      BY <1>1, <1>12, <2>2 DEF Insert, Goto, Item, TypeInv, Types, WorkType
    <3> QED BY <1>1, <3>1 DEF BaseImported, Writing, Between
  <2> QED BY <2>1, <2>2
<1>13. CASE Erase(c) \/ Erasing(c)
  <2>1. pc[c] \in {"erase", "erasing"} /\ pc'[c] \in {"erasing", "flush", "parse"}
        /\ work' = work /\ Item(c)' = Item(c)
    BY <1>1, <1>13 DEF Erase, Erasing, Goto, Item, TypeInv, Types
  <2> QED BY <1>1, <2>1 DEF BaseImported, Writing, Between
<1>14. CASE Revise(c) \/ Reread(c) \/ Archive(c)
  <2>1. (\E answer : Close(c, answer)) \/ (\E step \in {"next", "reread"} : Goto(c, step))
    BY <1>14 DEF Revise, Reread, Archive, Fail
  <2>2. ASSUME NEW step \in {"next", "reread"}, Goto(c, step) PROVE BaseImported(c)'
    BY <1>1, <1>3, <2>2 DEF Goto, Writing, Between, TypeInv, Types
  <2> QED BY <1>2, <2>1, <2>2
<1>15. CASE Advance(c)
  <2>1. pc'[c] \in {"commit", "create", "archive", "probe", "load"}
        /\ (pc'[c] = "load" => job'[c].op # "bulk")
    BY <1>1, <1>15, AdvanceItems DEF FirstStep
  <2> QED BY <2>1 DEF BaseImported, Writing, Between
<1>16. CASE Parse(c) \/ Commit(c) \/ Victim(c) \/ Die(c)
  BY <1>2, <1>16 DEF Parse, Commit, Victim, Die, Fail
<1> QED
  BY <1>7, <1>8, <1>9, <1>10, <1>11, <1>12, <1>13, <1>14, <1>15, <1>16 DEF Step

LEMMA OtherImported ==
  ASSUME TrailInv, NEW c \in Clients, Begin(c) \/ Step(c) \/ Victim(c) \/ Die(c),
         NEW d \in Clients \ {c}
  PROVE  BaseImported(d)'
<1>1. TypeInv /\ BaseImported(d) /\ imported' = imported
  BY OnlyCommitsWrite DEF TrailInv, Commit, database
<1>2. SameRequest(d) /\ Item(d)' = Item(d)
  BY <1>1, StepIsLocal DEF SameRequest, Item
<1> QED BY <1>1, <1>2 DEF BaseImported, SameRequest

-----------------------------------------------------------------------------
(* The revision trail.                                                     *)

LEMMA InitTrail == Init => TrailInv
<1> SUFFICES ASSUME Init PROVE TrailInv
  OBVIOUS
<1>1. TypeInv
  BY InitType
<1>2. PICK old \in SUBSET Topics, body \in Bodies, list \in Lists \ {<< >>} :
        Stored(old, body, list)
  BY DEF Init
<1>3. ASSUME NEW t \in Topics PROVE Trail(t)
  <2>1. CASE t \in old \ imported
    <3> DEFINE r == [topic |-> t, version |-> 1, body |-> body, by |-> 0]
    <3>1. topic[t].version = 1 /\ topic[t].body = body /\ First(t) = 1
      BY <1>2, <2>1 DEF Stored, Born, First
    <3>2. r \in revisions /\ \A q \in revisions : q.topic = t => q = r
      BY <1>2, <2>1 DEF Stored
    <3>3. r.topic = t /\ r.version = 1 /\ r.body = body
      OBVIOUS
    <3>4. \A v \in 1..1 : v = 1
      OBVIOUS
    <3>5. 1 \in 1..1
      OBVIOUS
    <3> HIDE DEF r
    <3> QED BY <2>1, <3>1, <3>2, <3>3, <3>4, <3>5 DEF Trail, SameVersion
  <2>2. CASE t \notin old \ imported
    <3>1. \A q \in revisions : q.topic # t
      BY <1>2, <2>2 DEF Stored
    <3>2. (t \in imported => topic[t].version = 1) /\ First(t)..topic[t].version = {}
      <4>1. CASE t \in old
        <5>1. topic[t].version = 1 /\ First(t) = 2
          BY <1>2, <2>2, <4>1 DEF Stored, Born, First
        <5> QED BY <5>1
      <4>2. CASE t \notin old
        <5>1. topic[t].version = 0 /\ First(t) = 1 /\ t \notin imported
          BY <1>2, <4>2 DEF Stored, NoRow, First
        <5> QED BY <5>1
      <4> QED BY <4>1, <4>2
    <3> QED BY <3>1, <3>2 DEF Trail, SameVersion
  <2> QED BY <2>1, <2>2
<1>4. ASSUME NEW c \in Clients PROVE Session(c) /\ BaseImported(c)
  <2>1. /\ pc[c] = "idle" /\ draft[c] = NoDraft /\ revised[c] = {} /\ job[c].items = << >>
        /\ work[c].kind = "update"
    BY DEF Init
  <2>2. DOMAIN NoDraft = {}
    BY DEF NoDraft
  <2>3. DraftStates(c) /\ Flushed(c)
    BY <2>1, <2>2 DEF DraftStates, Flushed
  <2>4. BaseNotAhead(c) /\ BaseImported(c)
    BY <2>1 DEF BaseNotAhead, BaseImported, Writing, Between
  <2>5. Fresh(c)
    <3>1. Len(job[c].items) = 0 /\ 1..0 = {}
      BY <2>1
    <3> QED BY <2>1, <2>2, <3>1 DEF Fresh
  <2> QED BY <2>3, <2>4, <2>5 DEF Session
<1>5. ASSUME NEW t \in Topics PROVE Imported(t)
  <2>1. t \in imported => t \in old /\ topic[t] = Born(t, body, list)
    BY <1>2 DEF Stored
  <2>2. \A c \in Clients : DOMAIN draft[c] = {}
    BY DEF Init, NoDraft
  <2> QED BY <2>1, <2>2 DEF Imported, Born
<1> QED BY <1>1, <1>3, <1>4, <1>5 DEF TrailInv

LEMMA NextTrail == TrailInv /\ [Next]_vars => TrailInv'
<1> SUFFICES ASSUME TrailInv, [Next]_vars PROVE TrailInv'
  OBVIOUS
<1>1. TypeInv'
  BY NextType DEF TrailInv
<1>2. CASE UNCHANGED vars
  <2>1. (\A t \in Topics : Imported(t) /\ Trail(t))'
    BY <1>2 DEF TrailInv, Imported, Trail, First, vars, database, pending
  <2>2. ASSUME NEW c \in Clients PROVE Session(c)' /\ BaseImported(c)'
    <3>1. DraftStates(c)'
      BY <1>2 DEF TrailInv, Session, DraftStates, Clean, Pending, Revised, Unrevised, Item,
         vars, database, pending
    <3>2. Flushed(c)'
      BY <1>2 DEF TrailInv, Session, Flushed, Pending, Unrevised, Item, vars, database, pending
    <3>3. BaseNotAhead(c)' /\ BaseImported(c)' /\ Fresh(c)'
      BY <1>2 DEF TrailInv, Session, BaseNotAhead, BaseImported, Fresh, Item, vars, database, pending
    <3> QED BY <3>1, <3>2, <3>3 DEF Session
  <2> QED BY <1>1, <2>1, <2>2 DEF TrailInv
<1>3. CASE Next
  <2>1. PICK c \in Clients : Begin(c) \/ Step(c) \/ Victim(c) \/ Die(c)
    BY <1>3 DEF Next
  <2>2. (\A t \in Topics : Imported(t) /\ Trail(t))'
    BY <2>1, TrailsKept, ImportedKept
  <2>3. \A d \in Clients : Session(d)'
    BY <2>1, OwnSession, OtherSessions
  <2>4. \A d \in Clients : BaseImported(d)'
    BY <2>1, OwnImported, OtherImported
  <2> QED BY <1>1, <2>2, <2>3, <2>4 DEF TrailInv
<1> QED BY <1>2, <1>3

\* topic_revisions keeps the edit history: the revisions of each topic are
\* numbered from its first to its version without gap or repetition and the
\* last one has its body, however PATCH, POST, DELETE and bulk transactions
\* interleave, although each counts the version from a row that may be stale.
\* Topics may come from the importer, which writes no revision.
THEOREM RevisionTrailKept == Spec => []RevisionTrail
<1>1. TrailInv => RevisionTrail
  <2> SUFFICES ASSUME TrailInv, NEW t \in Topics
               PROVE  LET trail == {r \in revisions : r.topic = t} IN
                      /\ {r.version : r \in trail} = First(t)..topic[t].version
                      /\ \A r, q \in trail : r.version = q.version => r = q
                      /\ \A r \in trail : r.version = topic[t].version => r.body = topic[t].body
    BY DEF RevisionTrail
  <2> DEFINE trail == {r \in revisions : r.topic = t}
  <2>1. Trail(t)
    BY DEF TrailInv
  <2>2. {r.version : r \in trail} = First(t)..topic[t].version
    BY <2>1 DEF Trail
  <2>3. /\ \A r, q \in trail : r.version = q.version => r = q
        /\ \A r \in trail : r.version = topic[t].version => r.body = topic[t].body
    BY <2>1 DEF Trail, SameVersion
  <2> QED BY <2>2, <2>3
<1> QED BY <1>1, InitTrail, NextTrail, PTL DEF Spec

-----------------------------------------------------------------------------
(* Acknowledged edits.                                                     *)

\* The history is only added to.
LEMMA HistoryGrows ==
  ASSUME NEW c \in Clients, Begin(c) \/ Step(c) \/ Victim(c) \/ Die(c)
  PROVE  revisions \subseteq revisions'
BY OnlyCommitsWrite DEF Commit, database

\* An answer other than "done" promises nothing.
LEMMA CloseEdits ==
  ASSUME TypeInv, NEW c \in Clients, NEW answer \in Answers \ {"done"}, Close(c, answer)
  PROVE  Edits(c)'
BY DEF TypeInv, Types, Edits, Close, Goto

\* A step before the writing of an item adds no edit but the one it starts.
LEMMA StartEdits ==
  ASSUME EditInv, NEW c \in Clients, pc[c] \notin Writing \cup {"idle"}, SameItems(c),
         UNCHANGED <<revised, status>>, pc'[c] # "idle",
         \/ job'[c].edited = job[c].edited
         \/ /\ pc'[c] \in Writing /\ work'[c].revise
            /\ job'[c].edited = job[c].edited \cup {<<Item(c).topic, work'[c].body>>}
  PROVE  Edits(c)'
<1>1. status[c] = "none" /\ \A e \in job[c].edited : InHistory(e, revised[c], job[c].serial)
  BY DEF EditInv, Edits, BeingWritten
<1>2. Item(c)' = Item(c)
  BY DEF SameItems, Item
<1>3. \A e \in job[c].edited : InHistory(e, revised'[c], job'[c].serial)
  BY <1>1 DEF SameItems
<1>4. \A e \in job'[c].edited : InHistory(e, revised'[c], job'[c].serial) \/ BeingWritten(c, e)'
  BY <1>2, <1>3 DEF BeingWritten
<1>5. status'[c] = "none"
  BY <1>1
<1> QED BY <1>4, <1>5 DEF Edits, InHistory

\* A step that goes on writing the item keeps its edit.
LEMMA WritingEdits ==
  ASSUME EditInv, NEW c \in Clients, pc[c] \in Writing, pc'[c] \in Writing,
         UNCHANGED <<job, revised, status>>, work'[c].revise = work[c].revise,
         work'[c].body = work[c].body
  PROVE  Edits(c)'
<1>1. pc[c] # "idle" /\ Edits(c)
  BY DEF Writing, Between, EditInv
<1>2. \A e \in job[c].edited : InHistory(e, revised[c], job[c].serial) \/ BeingWritten(c, e)
  BY <1>1 DEF Edits
<1>3. \A e : BeingWritten(c, e) => BeingWritten(c, e)'
  BY DEF BeingWritten, Item
<1>4. \A e \in job'[c].edited : InHistory(e, revised'[c], job'[c].serial) \/ BeingWritten(c, e)'
  BY <1>2, <1>3
<1>5. status'[c] = "none"
  BY <1>1 DEF Edits
<1> QED BY <1>4, <1>5 DEF Edits, InHistory

\* The last flush writes the revision of the item's edit.
LEMMA ReviseEdits ==
  ASSUME EditInv, NEW c \in Clients, Revise(c)
  PROVE  Edits(c)'
<1>1. CASE Fail(c, "failed")
  BY <1>1, CloseEdits DEF Fail, Answers, EditInv
<1>2. CASE ~Fail(c, "failed")
  <2>1. /\ pc[c] = "revise" /\ job' = job /\ status' = status
        /\ revised' = [revised EXCEPT ![c] = IF work[c].revise THEN @ \cup {Revision(c)} ELSE @]
    BY <1>2 DEF Revise
  <2>2. revised'[c] = IF work[c].revise THEN revised[c] \cup {Revision(c)} ELSE revised[c]
    BY <2>1 DEF EditInv, TypeInv, Types
  <2>3. status[c] = "none" /\ \A e \in job[c].edited :
          InHistory(e, revised[c], job[c].serial) \/ BeingWritten(c, e)
    BY <2>1 DEF EditInv, Edits
  <2>4. Revision(c).topic = Item(c).topic /\ Revision(c).body = work[c].body
        /\ Revision(c).by = job[c].serial
    BY DEF Revision
  <2>5. ASSUME NEW e \in job[c].edited PROVE InHistory(e, revised'[c], job[c].serial)
    <3>1. CASE InHistory(e, revised[c], job[c].serial)
      BY <2>2, <3>1 DEF InHistory
    <3>2. CASE BeingWritten(c, e)
      <4>1. e[1] = Item(c).topic /\ e[2] = work[c].body /\ work[c].revise
        BY <3>2 DEF BeingWritten
      <4> QED BY <2>2, <2>4, <4>1 DEF InHistory
    <3> QED BY <2>3, <3>1, <3>2
  <2> QED BY <2>1, <2>3, <2>5 DEF Edits, InHistory
<1> QED BY <1>1, <1>2

\* A commit makes the uncommitted revisions part of the history.
LEMMA CommitEdits ==
  ASSUME EditInv, NEW c \in Clients, Commit(c)
  PROVE  Edits(c)'
<1>1. pc[c] = "commit" /\ pc'[c] = "idle" /\ job' = job /\ revisions' = revisions \cup revised[c]
  BY DEF Commit, Close, Goto, EditInv, TypeInv, Types
<1>2. \A e \in job[c].edited : InHistory(e, revised[c], job[c].serial)
  BY <1>1 DEF EditInv, Edits, BeingWritten, Writing, Between
<1>3. \A e \in job[c].edited : InHistory(e, revisions', job[c].serial)
  BY <1>1, <1>2 DEF InHistory
<1> QED BY <1>1, <1>3 DEF Edits, InHistory

LEMMA OwnEdits ==
  ASSUME EditInv, NEW c \in Clients, Begin(c) \/ Step(c) \/ Victim(c) \/ Die(c)
  PROVE  Edits(c)'
<1> DEFINE going == pc[c] \notin Writing \cup {"idle"}
<1>1. TypeInv /\ job[c] \in JobType
  BY DEF EditInv, TypeInv, Types
<1>2. ASSUME NEW answer \in Answers \ {"done"}, Fail(c, answer) PROVE Edits(c)'
  BY <1>1, <1>2, CloseEdits DEF Fail
<1>3. ASSUME going, pc[c] # "commit", job[c].op # "update", Create(c), UNCHANGED <<revised, status>>
      PROVE  Edits(c)'
  BY <1>1, <1>3, CreateType, StartEdits DEF Writing
<1>4. ASSUME going, pc[c] # "commit", NEW row \in Row, Update(c, row), UNCHANGED <<revised, status>>
      PROVE  Edits(c)'
  BY <1>1, <1>4, UpdateType, StartEdits DEF Writing
<1>5. ASSUME going, NEW step \in {"next", "load", "reread", "erasing"}, Goto(c, step),
             UNCHANGED <<job, revised, status>>
      PROVE  Edits(c)'
  BY <1>1, <1>5, StartEdits DEF Goto, SameItems, TypeInv, Types
<1>6. CASE Begin(c)
  <2>1. job'[c].edited = {} /\ status'[c] = "none"
    BY <1>1, <1>6 DEF Begin, TypeInv, Types
  <2> QED BY <2>1 DEF Edits
<1>7. CASE StartCreate(c)
  BY <1>1, <1>3, <1>7 DEF StartCreate, pending, Writing, Between, TypeInv, Shape
<1>8. CASE Probe(c)
  BY <1>1, <1>3, <1>5, <1>8 DEF Probe, Upsert, Skip, pending, Writing, Between, TypeInv, Shape
<1>9. CASE Load(c)
  <2>1. Seen(c, Item(c).topic) \in Row /\ work[c].base \in Row
    BY <1>1, <1>9, ItemTyped, SeenTyped DEF Load, ItemType, TypeInv, Types, WorkType
  <2> QED BY <1>2, <1>3, <1>4, <1>5, <1>9, <2>1
          DEF Load, Upsert, Skip, pending, Writing, Between, Answers
<1>10. CASE Flush(c)
  <2>1. CASE ~Fail(c, "failed")
    BY <1>1, <1>10, <2>1, WritingEdits DEF Flush, Goto, Writing, Between, TypeInv, Types
  <2> QED BY <1>2, <2>1 DEF Answers
<1>11. CASE Erase(c)
  BY <1>1, <1>11, WritingEdits DEF Erase, Goto, Writing, Between, TypeInv, Types, pending
<1>12. CASE Erasing(c)
  BY <1>1, <1>12, WritingEdits DEF Erasing, Goto, Writing, Between, TypeInv, Types
<1>13. CASE Insert(c)
  <2>1. CASE ~Fail(c, "failed")
    <3>1. work'[c].revise = work[c].revise /\ work'[c].body = work[c].body
      BY <1>1, <1>13, <2>1 DEF Insert, TypeInv, Types, WorkType
    <3>2. pc[c] \in Writing /\ pc'[c] \in Writing /\ UNCHANGED <<job, revised, status>>
      BY <1>1, <1>13, <2>1 DEF Insert, Goto, Writing, Between, TypeInv, Types
    <3> QED BY <3>1, <3>2, WritingEdits
  <2> QED BY <1>2, <2>1 DEF Answers
<1>14. CASE Reread(c)
  BY <1>2, <1>5, <1>14 DEF Reread, pending, Writing, Between, Answers
<1>15. CASE Archive(c)
  BY <1>2, <1>5, <1>15 DEF Archive, Writing, Between, Answers
<1>16. CASE Advance(c)
  <2>1. /\ job'[c].serial = job[c].serial /\ job'[c].edited = job[c].edited
        /\ pc'[c] \in {"commit", "create", "archive", "probe", "load"} /\ pc[c] = "next"
        /\ UNCHANGED <<revised, status>>
    BY <1>1, <1>16, AdvanceItems DEF Advance, pending
  <2>2. status[c] = "none" /\ \A e \in job[c].edited : InHistory(e, revised[c], job[c].serial)
    BY <2>1 DEF EditInv, Edits, BeingWritten, Writing, Between
  <2> QED BY <2>1, <2>2 DEF Edits, InHistory
<1>17. CASE Parse(c) \/ Victim(c) \/ Die(c)
  BY <1>2, <1>17 DEF Parse, Victim, Die, Answers
<1> QED
  BY <1>6, <1>7, <1>8, <1>9, <1>10, <1>11, <1>12, <1>13, <1>14, <1>15, <1>16, <1>17,
     ReviseEdits, CommitEdits DEF Step

LEMMA OtherEdits ==
  ASSUME EditInv, NEW c \in Clients, Begin(c) \/ Step(c) \/ Victim(c) \/ Die(c),
         NEW d \in Clients \ {c}
  PROVE  Edits(d)'
<1>1. SameRequest(d) /\ SameChanges(d) /\ status'[d] = status[d]
  BY StepIsLocal DEF EditInv
<1>2. Item(d)' = Item(d) /\ \A e : BeingWritten(d, e) => BeingWritten(d, e)'
  BY <1>1 DEF SameRequest, Item, BeingWritten
<1>3. revisions \subseteq revisions' /\ Edits(d)
  BY HistoryGrows DEF EditInv
<1>4. pc'[d] # "idle" =>
        /\ status'[d] = "none"
        /\ \A e \in job'[d].edited :
             InHistory(e, revised'[d], job'[d].serial) \/ BeingWritten(d, e)'
  BY <1>1, <1>2, <1>3 DEF Edits, SameRequest, SameChanges
<1>5. status'[d] = "done" =>
        \A e \in job'[d].edited : InHistory(e, revisions', job'[d].serial)
  BY <1>1, <1>3 DEF Edits, SameRequest, InHistory
<1> QED BY <1>4, <1>5 DEF Edits, InHistory

\* A body edit answered with success is in the history for good, under the
\* request that made it, for any number of concurrent edits: the stale ones fail.
THEOREM EditsKept == Spec => []AcknowledgedEditInHistory
<1>1. Init => EditInv
  BY InitType DEF Init, EditInv, Edits
<1>2. EditInv /\ [Next]_vars => EditInv'
  <2> SUFFICES ASSUME EditInv, [Next]_vars PROVE EditInv'
    OBVIOUS
  <2>1. TypeInv'
    BY NextType DEF EditInv
  <2>2. CASE UNCHANGED vars
    BY <2>1, <2>2 DEF EditInv, Edits, InHistory, BeingWritten, Item, vars, database, pending
  <2>3. CASE Next
    <3>1. PICK c \in Clients : Begin(c) \/ Step(c) \/ Victim(c) \/ Die(c)
      BY <2>3 DEF Next
    <3>2. \A d \in Clients : Edits(d)'
      BY <3>1, OwnEdits, OtherEdits
    <3> QED BY <2>1, <3>2 DEF EditInv
  <2> QED BY <2>2, <2>3
<1>3. EditInv => AcknowledgedEditInHistory
  BY DEF EditInv, Edits, InHistory, AcknowledgedEditInHistory
<1> QED BY <1>1, <1>2, <1>3, PTL DEF Spec

-----------------------------------------------------------------------------
(* Archived topics.                                                        *)

\* A step of c leaves the rows that another session has drafted.
LEMMA LockedRows ==
  ASSUME TrailInv, NEW c \in Clients, Begin(c) \/ Step(c) \/ Victim(c) \/ Die(c),
         NEW d \in Clients \ {c}, NEW t \in DOMAIN draft[d]
  PROVE  t \in Topics /\ topic'[t] = topic[t]
<1>1. DOMAIN draft[d] \subseteq Topics /\ DOMAIN draft[d] \cap DOMAIN draft[c] = {}
  BY DEF TrailInv, TypeInv, Types, AreRows, Locks
<1> QED BY <1>1, TrailsKept

LEMMA OtherFrozen ==
  ASSUME FrozenInv, NEW c \in Clients, Begin(c) \/ Step(c) \/ Victim(c) \/ Die(c),
         NEW d \in Clients \ {c}
  PROVE  Frozen(d)'
<1>1. TrailInv /\ TypeInv /\ Frozen(d)
  BY DEF FrozenInv, TrailInv
<1>2. SameRequest(d) /\ SameChanges(d) /\ Item(d)' = Item(d)
  BY <1>1, StepIsLocal DEF SameRequest, Item
<1>3. \A t \in DOMAIN draft[d] : topic'[t] = topic[t]
  BY <1>1, LockedRows
<1> QED BY <1>1, <1>2, <1>3 DEF Frozen, Single, SameRequest, SameChanges

LEMMA CloseFrozen ==
  ASSUME FrozenInv, NEW c \in Clients, NEW answer, Close(c, answer)
  PROVE  Frozen(c)'
<1>1. pc'[c] = "idle" /\ draft'[c] = NoDraft /\ job' = job
  BY DEF Close, Goto, FrozenInv, TrailInv, TypeInv, Types
<1>2. DOMAIN NoDraft = {}
  BY DEF NoDraft
<1> QED BY <1>1, <1>2 DEF FrozenInv, Frozen, Single, Writing, Between

\* A step that drafts nothing, before the last SELECT.
LEMMA StayFrozen ==
  ASSUME FrozenInv, NEW c \in Clients, pc[c] \notin {"idle", "commit"}, SameItems(c),
         pc'[c] \notin {"idle", "probe", "next", "commit"}, UNCHANGED <<topic, draft>>,
         Single(c) /\ pc'[c] \in Writing /\ work'[c].kind = "update" => job[c].op = "update"
  PROVE  Frozen(c)'
<1>1. Item(c)' = Item(c) /\ Frozen(c)
  BY DEF SameItems, Item, FrozenInv
<1> QED BY <1>1 DEF Frozen, Single, SameItems

LEMMA BeginFrozen ==
  ASSUME FrozenInv, NEW c \in Clients, Begin(c)
  PROVE  Frozen(c)'
<1>1. PICK op \in Ops : \E mode \in Modes \cup {"upsert"}, batch \in Batches(op) :
        /\ job' = [job EXCEPT ![c] = [op |-> op, mode |-> mode, items |-> batch,
                                      serial |-> serial', edited |-> {}]]
        /\ pc' = [pc EXCEPT ![c] = FirstStep(op)]
  BY DEF Begin, Goto
<1>2. PICK batch \in Batches(op) :
        job'[c].items = batch /\ job'[c].op = op /\ pc'[c] = FirstStep(op)
  BY <1>1 DEF FrozenInv, TrailInv, TypeInv, Types
<1>3. ASSUME ~Bulk(op) PROVE Len(batch) <= 1 /\ FirstStep(op) \in {"create", "archive", "load"}
  <2>1. batch \in [1..1 -> Items(op)]
    BY <1>2, <1>3 DEF Batches
  <2>2. Len(batch) = 1
    BY <2>1
  <2> QED BY <1>3, <2>2 DEF FirstStep, Bulk
<1>4. DOMAIN draft'[c] = {}
  BY DEF Begin, pending, FrozenInv, TrailInv, Session, Fresh
<1> QED BY <1>2, <1>3, <1>4 DEF Frozen, Single, Writing, Between

\* The first flush writes a new row, or that of a PATCH.
LEMMA FlushFrozen ==
  ASSUME FrozenInv, NEW c \in Clients, Flush(c)
  PROVE  Frozen(c)'
<1> DEFINE t == Item(c).topic
           row == Seen(c, t)
           new == [row EXCEPT !.phase = IF work[c].kind = "create" THEN "live" ELSE @,
                              !.body = work[c].body,
                              !.version = work[c].base.version + 1]
<1>1. CASE Fail(c, "failed")
  BY <1>1, CloseFrozen DEF Fail
<1>2. CASE ~Fail(c, "failed")
  <2>1. /\ pc[c] = "flush" /\ IF Dirty(c) THEN Put(c, new) ELSE UNCHANGED draft
        /\ ~(work[c].kind = "create" /\ row.phase # "absent")
        /\ \E step \in Between : Goto(c, step)
        /\ UNCHANGED <<database, serial, job, work, snap, erased, added, revised, status>>
    BY <1>2 DEF Flush, Between
  <2>2. TrailInv /\ TypeInv /\ Frozen(c) /\ pc'[c] \in Between
    BY <2>1 DEF FrozenInv, TrailInv, TypeInv, Types, Goto
  <2>3. Item(c)' = Item(c) /\ topic' = topic /\ work' = work /\ job' = job
    BY <2>1 DEF Item, database
  <2>4. t \in Topics /\ t \notin DOMAIN draft[c] /\ row = topic[t] /\ row \in Row
    BY <2>1, <2>2, SeenFresh DEF Unflushed
  <2>5. new.phase = (IF work[c].kind = "create" THEN "live" ELSE row.phase)
    BY <2>4 DEF Row
  <2>6. new \in Row
    <3>1. work[c].body \in Bodies /\ work[c].base.version + 1 \in Nat
      BY <2>2 DEF TypeInv, Types, WorkType, Row
    <3>2. CASE work[c].kind = "create"
      BY <2>4, <3>1, <3>2 DEF Row
    <3>3. CASE work[c].kind # "create"
      BY <2>4, <3>1, <3>3 DEF Row
    <3> QED BY <3>2, <3>3
  <2> HIDE DEF new
  <2>7. CASE Dirty(c)
    <3>1. /\ DOMAIN draft'[c] = DOMAIN draft[c] \cup {t} /\ draft'[c][t] = new
          /\ \A u \in DOMAIN draft[c] : u # t => draft'[c][u] = draft[c][u]
      BY <2>1, <2>2, <2>4, <2>6, <2>7, PutTyped
    <3>2. work[c].kind \in {"create", "update"}
      BY <2>2 DEF TypeInv, Types, WorkType
    <3>3. Single(c) /\ topic[t].phase = "archived" => job[c].op = "update" /\ new.phase = "archived"
      BY <2>1, <2>2, <2>4, <2>5, <3>2 DEF Frozen, Writing
    <3> QED BY <2>1, <2>2, <2>3, <2>4, <3>1, <3>3 DEF Frozen, Single, Writing, Between
  <2>8. CASE ~Dirty(c)
    BY <2>1, <2>2, <2>3, <2>8, StayFrozen DEF SameItems, Frozen, Writing, Between
  <2> QED BY <2>7, <2>8
<1> QED BY <1>1, <1>2

\* The last flush recounts the sections of the row that it finds.
LEMMA ReviseFrozen ==
  ASSUME FrozenInv, NEW c \in Clients, Revise(c)
  PROVE  Frozen(c)'
<1> DEFINE t == Item(c).topic
<1>1. CASE Fail(c, "failed")
  BY <1>1, CloseFrozen DEF Fail
<1>2. CASE ~Fail(c, "failed")
  <2>1. /\ pc[c] = "revise" /\ Recount(c)
        /\ pc' = [pc EXCEPT ![c] = IF job[c].op = "bulk_fast" THEN "next" ELSE "reread"]
        /\ UNCHANGED <<database, serial, job, work, snap, erased, added, status>>
    BY <1>2 DEF Revise, Goto
  <2>2. TrailInv /\ TypeInv /\ Session(c) /\ Frozen(c)
    BY DEF FrozenInv, TrailInv
  <2>3. Single(c) => pc'[c] = "reread"
    BY <2>1, <2>2 DEF TypeInv, Types, Single, Bulk
  <2>4. Item(c)' = Item(c) /\ topic' = topic /\ work' = work /\ job' = job
    BY <2>1 DEF Item, database
  <2>5. /\ DOMAIN draft'[c] \subseteq DOMAIN draft[c] \cup {t}
        /\ \A u \in DOMAIN draft'[c] : draft'[c][u].phase = Seen(c, u).phase
    BY <2>1, <2>2, RecountDrafts
  <2>6. Single(c) /\ t \notin DOMAIN draft[c] => job[c].op = "update"
    <3>1. work[c].kind \in {"create", "update"}
      BY <2>2 DEF TypeInv, Types, WorkType
    <3> QED BY <2>1, <2>2, <3>1 DEF Session, Flushed, BaseNotAhead, Frozen, Writing, Between
  <2>7. ASSUME Single(c), NEW u \in DOMAIN draft'[c], topic[u].phase = "archived"
        PROVE  job[c].op = "update" /\ draft'[c][u].phase = "archived"
    <3>1. CASE u \in DOMAIN draft[c]
      BY <2>1, <2>2, <2>5, <2>7, <3>1 DEF Frozen, Seen
    <3>2. CASE u \notin DOMAIN draft[c]
      BY <2>5, <2>6, <2>7, <3>2 DEF Seen
    <3> QED BY <3>1, <3>2
  <2> QED BY <2>1, <2>2, <2>3, <2>4, <2>5, <2>7 DEF Frozen, Single, Writing, Between
<1> QED BY <1>1, <1>2

\* A PATCH gets past its last SELECT when its topic is live.
LEMMA RereadFrozen ==
  ASSUME FrozenInv, NEW c \in Clients, Reread(c)
  PROVE  Frozen(c)'
<1>1. CASE Fail(c, "failed")
  BY <1>1, CloseFrozen DEF Fail
<1>2. CASE ~Fail(c, "failed")
  <2>1. /\ pc[c] = "reread" /\ (job[c].op = "update" => Live(c)) /\ Goto(c, "next")
        /\ UNCHANGED <<database, serial, job, work, snap, pending, status>>
    BY <1>2 DEF Reread
  <2>2. pc'[c] = "next" /\ Frozen(c)
    BY <2>1 DEF Goto, FrozenInv, TrailInv, TypeInv, Types
  <2>3. Item(c)' = Item(c) /\ topic' = topic /\ work' = work /\ job' = job /\ draft' = draft
    BY <2>1 DEF Item, database, pending
  <2>4. Single(c) => \A t \in DOMAIN draft[c] : topic[t].phase # "archived"
    BY <2>1, <2>2 DEF Frozen, Live, Seen
  <2> QED BY <2>1, <2>2, <2>3, <2>4 DEF Frozen, Single, Writing, Between
<1> QED BY <1>1, <1>2

\* A DELETE archives a live row.
LEMMA ArchiveFrozen ==
  ASSUME FrozenInv, NEW c \in Clients, Archive(c)
  PROVE  Frozen(c)'
<1> DEFINE t == Item(c).topic
           new == [Seen(c, t) EXCEPT !.phase = "archived"]
<1>1. CASE Fail(c, "failed")
  BY <1>1, CloseFrozen DEF Fail
<1>2. CASE ~Fail(c, "failed")
  <2>1. /\ pc[c] = "archive" /\ Live(c) /\ Put(c, new) /\ Goto(c, "next")
        /\ UNCHANGED <<database, serial, job, work, snap, erased, added, revised, status>>
    BY <1>2 DEF Archive
  <2>2. TrailInv /\ TypeInv /\ Frozen(c) /\ pc'[c] = "next"
    BY <2>1 DEF FrozenInv, TrailInv, TypeInv, Types, Goto
  <2>3. Item(c)' = Item(c) /\ topic' = topic /\ work' = work /\ job' = job
    BY <2>1 DEF Item, database
  <2>4. t \in Topics /\ t \notin DOMAIN draft[c] /\ Seen(c, t) = topic[t] /\ Seen(c, t) \in Row
    BY <2>1, <2>2, SeenFresh DEF Unflushed
  <2>5. topic[t].phase = "live"
    BY <2>1, <2>4 DEF Live
  <2>6. new \in Row
    BY <2>4 DEF Row
  <2> HIDE DEF new
  <2>7. DOMAIN draft'[c] = DOMAIN draft[c] \cup {t}
    BY <2>1, <2>2, <2>4, <2>6, PutTyped
  <2>8. Single(c) => DOMAIN draft'[c] = {t}
    BY <2>1, <2>2, <2>7 DEF Frozen
  <2> QED BY <2>1, <2>2, <2>3, <2>5, <2>8 DEF Frozen, Single, Writing, Between
<1> QED BY <1>1, <1>2

\* A request of one item is at its commit after it.
LEMMA AdvanceFrozen ==
  ASSUME FrozenInv, NEW c \in Clients, Advance(c)
  PROVE  Frozen(c)'
<1>1. TypeInv /\ Frozen(c) /\ pc[c] = "next" /\ UNCHANGED <<topic, draft>>
  BY DEF FrozenInv, TrailInv, Advance, database, pending
<1>2. /\ job'[c].op = job[c].op
      /\ Len(job[c].items) \in Nat \ {0} /\ Len(job'[c].items) = Len(job[c].items) - 1
  BY <1>1, AdvanceItems
<1>3. pc'[c] = IF Len(job[c].items) = 1 THEN "commit" ELSE FirstStep(job[c].op)
  BY <1>1 DEF Advance, Goto, TypeInv, Types
<1>4. ASSUME Single(c) PROVE Len(job'[c].items) <= 1 /\ pc'[c] = "commit"
  <2>1. Len(job[c].items) <= 1
    BY <1>1, <1>4 DEF Frozen
  <2>2. Len(job[c].items) = 1
    <3>1. \A n \in Nat \ {0} : n <= 1 => n = 1
      OBVIOUS
    <3> QED BY <1>2, <2>1, <3>1
  <2> QED BY <1>2, <1>3, <2>2
<1> QED BY <1>1, <1>2, <1>4 DEF Frozen, Single, Writing, Between

LEMMA OwnFrozen ==
  ASSUME FrozenInv, NEW c \in Clients, Begin(c) \/ Step(c) \/ Victim(c) \/ Die(c)
  PROVE  Frozen(c)'
<1>1. TypeInv /\ Frozen(c)
  BY DEF FrozenInv, TrailInv
<1>2. ASSUME NEW answer, Fail(c, answer) PROVE Frozen(c)'
  BY <1>2, CloseFrozen DEF Fail
<1>3. ASSUME pc[c] \notin {"idle", "commit"}, job[c].op # "update", Create(c),
             UNCHANGED <<topic, draft>>
      PROVE  Frozen(c)'
  BY <1>1, <1>3, CreateType, StayFrozen
<1>4. ASSUME ~Single(c), pc'[c] # "idle", SameItems(c)
      PROVE  Frozen(c)'
  BY <1>4 DEF Frozen, Single, SameItems
<1>5. CASE StartCreate(c)
  BY <1>1, <1>3, <1>5 DEF StartCreate, database, pending, TypeInv, Shape
<1>6. CASE Probe(c)
  <2>1. ~Single(c)
    BY <1>1, <1>6 DEF Probe, Frozen
  <2>2. job'[c].op = job[c].op
    BY <1>1, <1>6, CreateType DEF Probe, Upsert, Skip, SameItems, TypeInv, Shape
  <2> QED BY <2>1, <2>2 DEF Frozen, Single
<1>7. CASE Load(c)
  <2>1. Seen(c, Item(c).topic) \in Row /\ work[c].base \in Row
    BY <1>1, <1>7, ItemTyped, SeenTyped DEF Load, ItemType, TypeInv, Types, WorkType
  <2>2. ASSUME job[c].op = "update", NEW row \in Row, Update(c, row), UNCHANGED <<topic, draft>>,
               pc[c] = "load"
        PROVE  Frozen(c)'
    BY <1>1, <2>2, UpdateType, StayFrozen
  <2>3. CASE job[c].op = "update"
    BY <1>2, <1>7, <2>1, <2>2, <2>3 DEF Load, database, pending
  <2>4. CASE job[c].op # "update"
    <3>1. ~Single(c)
      BY <1>7, <2>4 DEF Load, Single, Bulk
    <3>2. job'[c].op = job[c].op
      <4>1. \/ \E row \in Row : Update(c, row)
            \/ Create(c)
            \/ Skip(c)
        BY <1>7, <2>1, <2>4 DEF Load, Upsert
      <4> QED BY <1>1, <1>7, <2>4, <4>1, CreateType, UpdateType DEF Load, Skip, SameItems
    <3> QED BY <3>1, <3>2 DEF Frozen, Single
  <2> QED BY <2>3, <2>4
<1>8. CASE Erase(c)
  BY <1>1, <1>8, StayFrozen
     DEF Erase, Goto, SameItems, Frozen, Writing, TypeInv, Types, database, pending
<1>9. CASE Erasing(c)
  BY <1>1, <1>9, StayFrozen
     DEF Erasing, Goto, SameItems, Frozen, Writing, Between, TypeInv, Types, database
<1>10. CASE Insert(c)
  <2>1. CASE ~Fail(c, "failed")
    <3>1. work'[c].kind = work[c].kind
      BY <1>1, <1>10, <2>1 DEF Insert, TypeInv, Types, WorkType
    <3>2. pc[c] = "insert" /\ pc'[c] \in {"insert", "revise"} /\ UNCHANGED <<topic, job, draft>>
      BY <1>1, <1>10, <2>1 DEF Insert, Goto, TypeInv, Types, database
    <3> QED BY <1>1, <3>1, <3>2, StayFrozen DEF SameItems, Frozen, Writing, Between
  <2> QED BY <1>2, <2>1
<1>11. CASE Parse(c) \/ Victim(c) \/ Die(c)
  BY <1>2, <1>11 DEF Parse, Victim, Die
<1>12. CASE Commit(c)
  BY <1>12, CloseFrozen DEF Commit
<1> QED
  BY <1>5, <1>6, <1>7, <1>8, <1>9, <1>10, <1>11, <1>12, BeginFrozen, FlushFrozen,
     ReviseFrozen, RereadFrozen, ArchiveFrozen, AdvanceFrozen DEF Step

LEMMA FrozenInvariant == Spec => []FrozenInv
<1>1. Init => FrozenInv
  <2> SUFFICES ASSUME Init PROVE FrozenInv
    OBVIOUS
  <2>1. ASSUME NEW c \in Clients PROVE Frozen(c)
    <3>1. pc[c] = "idle" /\ draft[c] = NoDraft /\ job[c].items = << >>
      BY DEF Init
    <3>2. DOMAIN NoDraft = {} /\ Len(<< >>) = 0
      BY DEF NoDraft
    <3>3. Len(job[c].items) <= 1
      BY <3>1, <3>2
    <3> QED BY <3>1, <3>2, <3>3 DEF Frozen, Writing, Between
  <2> QED BY <2>1, InitTrail DEF FrozenInv
<1>2. FrozenInv /\ [Next]_vars => FrozenInv'
  <2> SUFFICES ASSUME FrozenInv, [Next]_vars PROVE FrozenInv'
    OBVIOUS
  <2>1. TrailInv'
    BY NextTrail DEF FrozenInv
  <2>2. CASE UNCHANGED vars
    BY <2>1, <2>2 DEF FrozenInv, Frozen, Single, Item, vars, database, pending
  <2>3. CASE Next
    <3>1. PICK c \in Clients : Begin(c) \/ Step(c) \/ Victim(c) \/ Die(c)
      BY <2>3 DEF Next
    <3>2. \A d \in Clients : Frozen(d)'
      BY <3>1, OwnFrozen, OtherFrozen
    <3> QED BY <2>1, <3>2 DEF FrozenInv
  <2> QED BY <2>2, <2>3
<1> QED BY <1>1, <1>2, PTL DEF Spec

\* The commit of a POST, PATCH or DELETE leaves every archived row as it is,
\* whatever runs beside it, bulk requests included.
THEOREM SingleRequestsSpareArchived ==
  Spec => [][\A c \in Clients, t \in Topics :
               Commit(c) /\ Single(c) /\ topic[t].phase = "archived"
                 => topic'[t] = topic[t]]_vars
<1>1. FrozenInv /\ [Next]_vars =>
        [\A c \in Clients, t \in Topics :
           Commit(c) /\ Single(c) /\ topic[t].phase = "archived" => topic'[t] = topic[t]]_vars
  <2> SUFFICES ASSUME FrozenInv, NEW c \in Clients, NEW t \in Topics,
                      Commit(c), Single(c), topic[t].phase = "archived"
               PROVE  topic'[t] = topic[t]
    OBVIOUS
  <2>1. t \notin DOMAIN draft[c]
    BY DEF FrozenInv, Frozen, Commit
  <2> QED BY <2>1 DEF Commit, Seen
<1> QED BY <1>1, FrozenInvariant, PTL DEF Spec

\* PATCH and DELETE never change the row of an archived topic, even when they
\* loaded it before it was archived.  Bulk requests can: the assumption leaves
\* them out, as the run does.
THEOREM ArchivedStaysFrozen ==
  ASSUME Ops \cap {"bulk", "bulk_fast"} = {}
  PROVE  Spec => ArchivedIsFrozen
<1>1. FrozenInv /\ [Next]_vars =>
        [\A t \in Topics : topic[t].phase = "archived" => topic'[t] = topic[t]]_vars
  <2> SUFFICES ASSUME FrozenInv, Next, NEW t \in Topics, topic[t].phase = "archived"
               PROVE  topic'[t] = topic[t]
    BY DEF vars, database
  <2>1. PICK c \in Clients : Begin(c) \/ Step(c) \/ Victim(c) \/ Die(c)
    BY DEF Next
  <2>2. CASE Commit(c)
    <3>1. job[c].op \in Ops \cup {"update"}
      BY DEF FrozenInv, TrailInv, TypeInv, Types, JobType
    <3>2. Single(c)
      BY <3>1 DEF Single, Bulk
    <3>3. t \notin DOMAIN draft[c]
      BY <2>2, <3>2 DEF FrozenInv, Frozen, Commit
    <3> QED BY <2>2, <3>3 DEF Commit, Seen
  <2>3. CASE UNCHANGED database
    BY <2>3 DEF database
  <2> QED BY <2>1, <2>2, <2>3, OnlyCommitsWrite
<1> QED BY <1>1, FrozenInvariant, PTL DEF Spec, ArchivedIsFrozen
=============================================================================
