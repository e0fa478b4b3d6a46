------------------------ MODULE TopicSectionsProofs ------------------------
(***************************************************************************)
(* Proof that section_count is the number of a topic's section rows as     *)
(* long as one caller at a time writes the topic store.                    *)
(***************************************************************************)
EXTENDS TopicStoreProofs, FiniteSetTheorems

-----------------------------------------------------------------------------
(* The inductive invariant.                                                *)

\* The section rows of a topic, and those that the session of c sees.
Own(rows, t) == {r \in rows : r.topic = t}
View(c) == (sections \ erased[c]) \cup added[c]

\* A topic has n section rows, all of one request.
Counted(rows, t, n) ==
  /\ IsFiniteSet(Own(rows, t))
  /\ Cardinality(Own(rows, t)) = n
  /\ \A r, q \in Own(rows, t) : r.by = q.by

\* The steps of a replacement: before the DELETE, and from it on.
BeforeDelete(c) == pc[c] \in {"erase", "erasing"}
Deleted(c) == pc[c] = "flush" /\ work[c].kind = "update"
Inserting(c) == pc[c] \in {"insert", "revise"}
Replacing(c) == Deleted(c) \/ Inserting(c) \/ pc[c] = "parse"

\* Where a request is with the sections of its item: the rows of the list that
\* are in place and those to come make up the count to be stored, and the base
\* row has the count that is stored now.
Progress(c) ==
  LET t == Item(c).topic
      todo == work[c].todo IN
  /\ pc[c] = "load" /\ job[c].op = "bulk" => work[c].base = Seen(c, t)
  /\ (BeforeDelete(c) \/ pc[c] = "flush") /\ todo # None => Len(todo) = work[c].count
  /\ BeforeDelete(c) => work[c].kind = "update"
  /\ pc[c] = "flush" /\ work[c].kind = "create" => work[c].base = NoRow
  /\ BeforeDelete(c) \/ Deleted(c) \/ Inserting(c) =>
       Seen(c, t).phase = "live" /\ Seen(c, t).count = work[c].base.count
  /\ pc[c] = "erasing" => snap[c] = Own(sections, t)
  /\ Deleted(c) => todo # None /\ Own(View(c), t) = {}
  /\ Inserting(c) =>
       /\ IsFiniteSet(Own(View(c), t))
       /\ Cardinality(Own(View(c), t)) + Len(todo) = work[c].count
       /\ \A r \in Own(View(c), t) : r.by = job[c].serial
       /\ (pc[c] = "revise" => todo = << >>)

\* The rows a session has inserted are of the items it is done with, and gone
\* when it is closed.
Inserted(c) ==
  /\ \A i \in 1..Len(job[c].items) : i > 1 \/ pc[c] \in Unflushed =>
       \A r \in added[c] : r.topic # job[c].items[i].topic
  /\ pc[c] = "idle" => added[c] = {} /\ erased[c] = {}

Sectioned(c) ==
  /\ \A t \in Topics : Counted(View(c), t, Seen(c, t).count) \/ (Replacing(c) /\ t = Item(c).topic)
  /\ Progress(c)
  /\ Inserted(c)

\* A session's row of a topic that does not exist counts no sections.
Uncounted(row) == row.phase = "absent" => row.count = 0

SectionsInv ==
  /\ TrailInv
  /\ \A t \in Topics : Counted(sections, t, topic[t].count) /\ Uncounted(topic[t])
  /\ \A c \in Clients : Sectioned(c) /\ \A t \in Topics : Uncounted(Seen(c, t))
-----------------------------------------------------------------------------
(* Lemmas about the operators.                                             *)

\* Counting none, and one more.
LEMMA NoneCounted ==
  ASSUME NEW rows, NEW t, Own(rows, t) = {}
  PROVE  Counted(rows, t, 0)
BY FS_EmptySet DEF Counted

LEMMA NoneOwned ==
  ASSUME NEW rows, NEW t, Counted(rows, t, 0)
  PROVE  Own(rows, t) = {}
BY FS_EmptySet DEF Counted

\* What the session sees once it has put a row.
LEMMA PutSeen ==
  ASSUME TypeInv, NEW c \in Clients, Item(c).topic \in Topics, NEW row \in Row, Put(c, row),
         topic' = topic
  PROVE  \A t \in Topics :
           Seen(c, t)' = IF t = Item(c).topic THEN row ELSE Seen(c, t)
BY PutTyped DEF Seen

LEMMA SeenStays ==
  ASSUME NEW c \in Clients, topic' = topic, draft'[c] = draft[c]
  PROVE  \A t \in Topics : Seen(c, t)' = Seen(c, t)
BY DEF Seen

LEMMA ViewStays ==
  ASSUME NEW c \in Clients, sections' = sections, erased'[c] = erased[c], added'[c] = added[c]
  PROVE  View(c)' = View(c)
BY DEF View

\* A request at one of its steps has an item.
LEMMA ItemTopic ==
  ASSUME SectionsInv, NEW c \in Clients, pc[c] \notin {"idle", "commit"}
  PROVE  /\ TypeInv /\ Item(c).topic \in Topics /\ Item(c) = job[c].items[1]
         /\ Len(job[c].items) \in Nat \ {0}
         /\ Seen(c, Item(c).topic) \in Row
         /\ work[c].base \in Row /\ work[c].count \in Nat
<1>1. TypeInv
  BY DEF SectionsInv, TrailInv
<1>2. Item(c) \in ItemType /\ Item(c) = job[c].items[1] /\ Len(job[c].items) \in Nat \ {0}
  BY <1>1, ItemTyped
<1>3. Item(c).topic \in Topics
  BY <1>2 DEF ItemType
<1>4. work[c].base \in Row /\ work[c].count \in Nat
  BY <1>1 DEF TypeInv, Types, WorkType
<1> QED BY <1>1, <1>2, <1>3, <1>4, SeenTyped

-----------------------------------------------------------------------------
(* The steps of a session.                                                 *)

\* What a step has to show of the session it is in.
Kept(c) == Sectioned(c)' /\ \A t \in Topics : Uncounted(Seen(c, t))'

Agreed == \A t \in Topics : Counted(sections, t, topic[t].count) /\ Uncounted(topic[t])

\* A closed session sees what is committed.
LEMMA CloseKept ==
  ASSUME SectionsInv, NEW c \in Clients, NEW answer, Close(c, answer), Agreed'
  PROVE  Kept(c)
<1>t. TypeInv
  BY DEF SectionsInv, TrailInv
<1>1. /\ pc'[c] = "idle" /\ draft'[c] = NoDraft /\ erased'[c] = {} /\ added'[c] = {}
  BY <1>t DEF TypeInv, Types, Close, Goto
<1>2. View(c)' = sections' /\ \A t \in Topics : Seen(c, t)' = topic'[t]
  BY <1>1 DEF View, Seen, NoDraft
<1>3. Progress(c)'
  BY <1>1 DEF Progress, BeforeDelete, Deleted, Inserting
<1>4. Inserted(c)'
  BY <1>1 DEF Inserted
<1> QED BY <1>2, <1>3, <1>4 DEF Kept, Sectioned, Agreed

LEMMA FailKept ==
  ASSUME SectionsInv, NEW c \in Clients, NEW answer, Fail(c, answer)
  PROVE  Kept(c)
<1>1. Agreed
  BY DEF SectionsInv, Agreed
<1>2. Agreed'
  BY <1>1 DEF Fail, database, Agreed
<1> QED BY <1>2, CloseKept DEF Fail

LEMMA CommitKept ==
  ASSUME SectionsInv, NEW c \in Clients, Commit(c)
  PROVE  Agreed' /\ Kept(c)
<1>1. /\ pc[c] = "commit" /\ topic' = [t \in Topics |-> Seen(c, t)]
      /\ sections' = View(c)
  BY DEF Commit, View
<1>2. ~Replacing(c)
  BY <1>1 DEF Replacing, Deleted, Inserting
<1>3. \A t \in Topics : Counted(View(c), t, Seen(c, t).count) /\ Uncounted(Seen(c, t))
  BY <1>2 DEF SectionsInv, Sectioned
<1>4. Agreed'
  BY <1>1, <1>3 DEF Agreed
<1> QED BY <1>4, CloseKept DEF Commit

\* A step that leaves the rows alone.
LEMMA SteadyKept ==
  ASSUME SectionsInv, NEW c \in Clients, ~Replacing(c),
         UNCHANGED <<topic, sections>>, draft'[c] = draft[c], erased'[c] = erased[c],
         added'[c] = added[c], Progress(c)', Inserted(c)'
  PROVE  Kept(c)
<1>1. View(c)' = View(c) /\ \A t \in Topics : Seen(c, t)' = Seen(c, t)
  BY ViewStays, SeenStays
<1>2. \A t \in Topics : Counted(View(c), t, Seen(c, t).count) /\ Uncounted(Seen(c, t))
  BY DEF SectionsInv, Sectioned
<1> QED BY <1>1, <1>2 DEF Kept, Sectioned

\* No rows are inserted before the flush, and none of later items.
LEMMA StillInserted ==
  ASSUME SectionsInv, NEW c \in Clients, added'[c] = added[c], job'[c].items = job[c].items,
         pc[c] # "idle", pc'[c] # "idle", pc'[c] \in Unflushed => pc[c] \in Unflushed
  PROVE  Inserted(c)'
BY DEF SectionsInv, Sectioned, Inserted

LEMMA BeginKept ==
  ASSUME SectionsInv, NEW c \in Clients, Begin(c)
  PROVE  Kept(c)
<1>t. TypeInv /\ added[c] = {}
  BY DEF SectionsInv, TrailInv, Sectioned, Inserted, Begin
<1>1. PICK op \in Ops : \E mode \in Modes \cup {"upsert"}, batch \in Batches(op) :
        /\ job' = [job EXCEPT ![c] = [op |-> op, mode |-> mode, items |-> batch,
                                      serial |-> serial', edited |-> {}]]
        /\ Goto(c, FirstStep(op))
  BY DEF Begin
<1>2. /\ pc[c] = "idle" /\ job'[c].op = op /\ pc'[c] = FirstStep(op)
      /\ UNCHANGED <<topic, sections, draft, erased, added>>
  BY <1>t, <1>1 DEF Begin, Goto, TypeInv, Types, database, pending
<1>3. Progress(c)'
  BY <1>2 DEF Progress, FirstStep, BeforeDelete, Deleted, Inserting
<1>4. Inserted(c)'
  BY <1>t, <1>2 DEF Inserted, FirstStep
<1>5. ~Replacing(c)
  BY <1>2 DEF Replacing, Deleted, Inserting
<1> QED BY <1>2, <1>3, <1>4, <1>5, SteadyKept

\* create_topic and update_topic before their first statement.
LEMMA CreateKept ==
  ASSUME SectionsInv, NEW c \in Clients, pc[c] \in {"create", "probe", "load"},
         job[c].op # "update", Create(c), UNCHANGED <<database, serial, snap, pending, status>>
  PROVE  Kept(c)
<1>1. TypeInv /\ pc[c] \notin {"idle", "commit"}
  BY DEF SectionsInv, TrailInv
<1>2. /\ pc'[c] = "flush" /\ work'[c].kind = "create" /\ work'[c].base = NoRow /\ SameItems(c)
  BY <1>1, CreateType
<1>3. work'[c].todo # None => Len(work'[c].todo) = work'[c].count
  BY <1>1 DEF Create, TypeInv, Types
<1>4. UNCHANGED <<topic, sections, draft, erased, added>>
  BY DEF database, pending
<1>5. Progress(c)'
  BY <1>2, <1>3 DEF Progress, BeforeDelete, Deleted, Inserting
<1>6. Inserted(c)'
  BY <1>1, <1>2, <1>4, StillInserted DEF Unflushed, SameItems
<1>7. ~Replacing(c)
  BY DEF Replacing, Deleted, Inserting
<1> QED BY <1>4, <1>5, <1>6, <1>7, SteadyKept

LEMMA UpdateKept ==
  ASSUME SectionsInv, NEW c \in Clients, pc[c] = "load", Live(c),
         Update(c, Seen(c, Item(c).topic)), UNCHANGED <<database, serial, snap, pending, status>>
  PROVE  Kept(c)
<1> DEFINE row == Seen(c, Item(c).topic)
<1>1. TypeInv /\ row \in Row /\ row.phase = "live" /\ Item(c).topic \in Topics
  BY ItemTopic DEF Live
<1>2. /\ pc'[c] \in {"erase", "reread"} /\ work'[c].kind = "update" /\ work'[c].base = row
      /\ SameItems(c)
  BY <1>1, UpdateType
<1>3. work'[c].todo # None => Len(work'[c].todo) = work'[c].count
  BY <1>1 DEF Update, TypeInv, Types
<1>4. UNCHANGED <<topic, sections, draft, erased, added>> /\ Item(c)' = Item(c)
  BY <1>2 DEF database, pending, SameItems, Item
<1>5. Seen(c, Item(c).topic)' = row
  BY <1>4 DEF Seen
<1>6. Progress(c)'
  BY <1>1, <1>2, <1>3, <1>5 DEF Progress, BeforeDelete, Deleted, Inserting
<1>7. Inserted(c)'
  BY <1>2, <1>4, StillInserted DEF Unflushed, SameItems
<1>8. ~Replacing(c)
  BY DEF Replacing, Deleted, Inserting
<1> QED BY <1>4, <1>6, <1>7, <1>8, SteadyKept

\* A step that only goes on, from a step that is not of a replacement.
LEMMA GotoKept ==
  ASSUME SectionsInv, NEW c \in Clients, pc[c] \in {"probe", "load", "reread", "archive"},
         NEW step \in {"next", "reread"}, Goto(c, step),
         UNCHANGED <<database, job, work, pending>>
  PROVE  Kept(c)
<1>1. pc'[c] = step
  BY DEF SectionsInv, TrailInv, TypeInv, Types, Goto
<1>2. UNCHANGED <<topic, sections, draft, erased, added>>
  BY DEF database, pending
<1>3. Progress(c)'
  BY <1>1 DEF Progress, BeforeDelete, Deleted, Inserting
<1>4. Inserted(c)'
  BY <1>1, <1>2, StillInserted DEF Unflushed
<1>5. ~Replacing(c)
  BY DEF Replacing, Deleted, Inserting
<1> QED BY <1>2, <1>3, <1>4, <1>5, SteadyKept

LEMMA ProbeKept ==
  ASSUME SectionsInv, NEW c \in Clients, Probe(c)
  PROVE  Kept(c)
<1>t. TypeInv /\ pc[c] = "probe" /\ job[c].op # "update"
  BY DEF SectionsInv, TrailInv, TypeInv, Shape, Probe
<1>u. UNCHANGED <<database, serial, snap, pending, status>>
  BY DEF Probe
<1>1. CASE Create(c)
  BY <1>t, <1>u, <1>1, CreateKept
<1>2. CASE Skip(c)
  BY <1>t, <1>u, <1>2, GotoKept DEF Skip
<1>3. CASE /\ work' = [work EXCEPT ![c].base = Seen(c, Item(c).topic)]
           /\ Goto(c, "load") /\ UNCHANGED job
  <2>1. /\ pc'[c] = "load" /\ work'[c].base = Seen(c, Item(c).topic)
        /\ Item(c)' = Item(c)
    BY <1>t, <1>3 DEF TypeInv, Types, Goto, WorkType, Item
  <2>2. UNCHANGED <<topic, sections, draft, erased, added>>
    BY <1>u DEF database, pending
  <2>3. Seen(c, Item(c).topic)' = Seen(c, Item(c).topic)
    BY <2>1, <2>2 DEF Seen
  <2>4. Progress(c)'
    BY <2>1, <2>3 DEF Progress, BeforeDelete, Deleted, Inserting
  <2>5. Inserted(c)'
    BY <1>t, <1>3, <2>1, <2>2, StillInserted DEF Unflushed
  <2>6. ~Replacing(c)
    BY <1>t DEF Replacing, Deleted, Inserting
  <2> QED BY <2>2, <2>4, <2>5, <2>6, SteadyKept
<1> QED BY <1>1, <1>2, <1>3 DEF Probe, Upsert

LEMMA LoadKept ==
  ASSUME SectionsInv, NEW c \in Clients, Load(c)
  PROVE  Kept(c)
<1> DEFINE row == Seen(c, Item(c).topic)
           rest == UNCHANGED <<database, serial, snap, pending, status>>
<1>1. pc[c] = "load"
  BY DEF Load
<1>2. job[c].op = "bulk" => work[c].base = row
  BY <1>1 DEF SectionsInv, Sectioned, Progress
<1>3. \/ Fail(c, "failed")
      \/ Live(c) /\ Update(c, row) /\ rest
      \/ job[c].op # "update" /\ Create(c) /\ rest
      \/ Skip(c) /\ rest
  BY <1>1, <1>2 DEF Load, Upsert
<1>4. CASE Skip(c) /\ rest
  BY <1>1, <1>4, GotoKept DEF Skip
<1> QED BY <1>1, <1>3, <1>4, FailKept, UpdateKept, CreateKept

LEMMA EraseKept ==
  ASSUME SectionsInv, NEW c \in Clients, Erase(c)
  PROVE  Kept(c)
<1>1. /\ pc[c] = "erase" /\ pc'[c] = "erasing" /\ snap'[c] = Own(sections, Item(c).topic)
      /\ UNCHANGED <<topic, sections, job, work, draft, erased, added>>
  BY DEF Erase, SectionsInv, TrailInv, TypeInv, Types, Goto, database, pending, Own
<1>2. Item(c)' = Item(c)
  BY <1>1 DEF Item
<1>3. Seen(c, Item(c).topic)' = Seen(c, Item(c).topic)
  BY <1>1, <1>2 DEF Seen
<1>4. Progress(c)
  BY DEF SectionsInv, Sectioned
<1>5. Progress(c)'
  BY <1>1, <1>2, <1>3, <1>4 DEF Progress, BeforeDelete, Deleted, Inserting
<1>6. Inserted(c)'
  BY <1>1, StillInserted DEF Unflushed
<1>7. ~Replacing(c)
  BY <1>1 DEF Replacing, Deleted, Inserting
<1> QED BY <1>1, <1>5, <1>6, <1>7, SteadyKept

\* The DELETE takes all of the topic's rows, and no other's.
LEMMA ErasingKept ==
  ASSUME SectionsInv, NEW c \in Clients, Erasing(c)
  PROVE  Kept(c)
<1> DEFINE t == Item(c).topic
<1>1. /\ pc[c] = "erasing" /\ erased'[c] = erased[c] \cup (snap[c] \cap sections)
      /\ pc'[c] = IF work[c].todo = None THEN "parse" ELSE "flush"
      /\ UNCHANGED <<topic, sections, job, work, draft, added>>
  BY DEF Erasing, SectionsInv, TrailInv, TypeInv, Types, Goto, database
<1>2. Item(c)' = Item(c)
  BY <1>1 DEF Item
<1>3. Seen(c, Item(c).topic)' = Seen(c, Item(c).topic)
  BY <1>1, <1>2 DEF Seen
<1>4. Progress(c) /\ Inserted(c) /\ snap[c] = Own(sections, t) /\ work[c].kind = "update"
  BY <1>1 DEF SectionsInv, Sectioned, Progress, BeforeDelete
<1>5. t = job[c].items[1].topic /\ 1 \in 1..Len(job[c].items)
  BY <1>1, ItemTopic
<1>6. \A r \in added[c] : r.topic # t
  BY <1>1, <1>4, <1>5 DEF Inserted, Unflushed
<1>7. View(c)' = {r \in View(c) : r.topic # t}
  BY <1>1, <1>4, <1>6 DEF View, Own
<1>8. Own(View(c)', t) = {} /\ \A u : u # t => Own(View(c)', u) = Own(View(c), u)
  BY <1>7 DEF Own
<1>9. Progress(c)'
  BY <1>1, <1>2, <1>3, <1>4, <1>8 DEF Progress, BeforeDelete, Deleted, Inserting
<1>10. Inserted(c)'
  BY <1>1, StillInserted DEF Unflushed
<1>11. \A u \in Topics : Seen(c, u)' = Seen(c, u)
  BY <1>1, SeenStays
<1>12. \A u \in Topics : Counted(View(c), u, Seen(c, u).count) /\ Uncounted(Seen(c, u))
  BY <1>1 DEF SectionsInv, Sectioned, Replacing, Deleted, Inserting
<1>13. Replacing(c)'
  BY <1>1, <1>4 DEF Replacing, Deleted
<1>14. \A u \in Topics : u # t => Counted(View(c)', u, Seen(c, u).count)
  BY <1>8, <1>12 DEF Counted
<1> QED BY <1>2, <1>9, <1>10, <1>11, <1>12, <1>13, <1>14 DEF Kept, Sectioned

\* A step of a replacement that leaves the count alone, and the rows of the
\* other topics.
LEMMA InsertingKept ==
  ASSUME SectionsInv, NEW c \in Clients, UNCHANGED <<topic, sections>>,
         pc[c] \in {"flush", "insert"}, pc'[c] \in {"insert", "revise", "parse"},
         Item(c)' = Item(c), Progress(c)', Inserted(c)',
         \A t \in Topics : t # Item(c).topic => Own(View(c)', t) = Own(View(c), t),
         \A t \in Topics : t # Item(c).topic => Seen(c, t)' = Seen(c, t),
         Uncounted(Seen(c, Item(c).topic))'
  PROVE  Kept(c)
<1>1. \A t \in Topics : t # Item(c).topic =>
        Counted(View(c), t, Seen(c, t).count) /\ Uncounted(Seen(c, t))
  BY DEF SectionsInv, Sectioned
<1>2. \A t \in Topics : t # Item(c).topic =>
        Counted(View(c)', t, Seen(c, t).count) /\ Uncounted(Seen(c, t))
  BY <1>1 DEF Counted
<1>3. \A t \in Topics : Counted(View(c), t, Seen(c, t).count)' \/ t = Item(c).topic
  BY <1>2
<1>4. \A t \in Topics : Uncounted(Seen(c, t))'
  BY <1>2
<1>5. Replacing(c)'
  BY DEF Replacing, Inserting
<1> QED BY <1>3, <1>4, <1>5 DEF Kept, Sectioned

\* A new topic has no section rows, and a replaced list none any more.
LEMMA FlushKept ==
  ASSUME SectionsInv, NEW c \in Clients, Flush(c)
  PROVE  Kept(c)
<1> DEFINE t == Item(c).topic
           new == [Seen(c, t) EXCEPT !.phase = IF work[c].kind = "create" THEN "live" ELSE @,
                                     !.body = work[c].body,
                                     !.version = work[c].base.version + 1]
<1>1. CASE Fail(c, "failed")
  BY <1>1, FailKept
<1>2. CASE ~Fail(c, "failed")
  <2>1. /\ pc[c] = "flush" /\ IF Dirty(c) THEN Put(c, new) ELSE UNCHANGED draft
        /\ work[c].kind = "create" => Seen(c, t).phase = "absent"
        /\ Goto(c, CASE work[c].todo = None -> "parse"
                     [] work[c].todo = << >> -> "revise"
                     [] OTHER -> "insert")
        /\ UNCHANGED <<database, serial, job, work, snap, erased, added, revised, status>>
    BY <1>2 DEF Flush
  <2>2. /\ TypeInv /\ t \in Topics /\ Seen(c, t) \in Row /\ Progress(c) /\ Inserted(c)
        /\ work[c].kind \in {"create", "update"} /\ work[c].body \in Bodies
        /\ work[c].base \in Row
    BY <2>1, ItemTopic DEF SectionsInv, Sectioned, TypeInv, Types, WorkType
  <2>3. /\ pc'[c] \in {"parse", "revise", "insert"}
        /\ pc'[c] # "parse" => work[c].todo # None
        /\ pc'[c] = "revise" => work[c].todo = << >>
    <3>1. pc'[c] = CASE work[c].todo = None -> "parse"
                     [] work[c].todo = << >> -> "revise"
                     [] OTHER -> "insert"
      BY <2>1, <2>2 DEF TypeInv, Types, Goto
    <3>2. CASE work[c].todo = None
      BY <3>1, <3>2, PayloadAssumption
    <3>3. CASE work[c].todo # None /\ work[c].todo = << >>
      BY <3>1, <3>3
    <3>4. CASE work[c].todo # None /\ work[c].todo # << >>
      BY <3>1, <3>4
    <3> QED BY <3>2, <3>3, <3>4
  <2>4. Item(c)' = Item(c) /\ View(c)' = View(c) /\ topic' = topic /\ sections' = sections
    BY <2>1 DEF Item, View, database
  <2>5. Inserted(c)'
    BY <2>1, <2>3, StillInserted DEF Unflushed
  <2>6. Dirty(c) \/ work[c].kind = "update"
    BY <2>2 DEF Dirty
  <2>7. /\ new \in Row /\ new.count = Seen(c, t).count
        /\ new.phase = IF work[c].kind = "create" THEN "live" ELSE Seen(c, t).phase
    <3>1. work[c].base.version + 1 \in Nat
      BY <2>2 DEF Row
    <3>2. CASE work[c].kind = "create"
      BY <2>2, <3>1, <3>2 DEF Row
    <3>3. CASE work[c].kind # "create"
      BY <2>2, <3>1, <3>3 DEF Row
    <3> QED BY <3>2, <3>3
  <2> HIDE DEF new
  <2>8. \A u \in Topics : Seen(c, u)' = IF u = t /\ Dirty(c) THEN new ELSE Seen(c, u)
    <3>1. CASE Dirty(c)
      BY <2>1, <2>2, <2>4, <2>7, <3>1, PutSeen
    <3>2. CASE ~Dirty(c)
      BY <2>1, <2>4, <3>2, SeenStays
    <3> QED BY <3>1, <3>2
  <2>9. Own(View(c), t) = {} /\ Seen(c, t).count = work[c].base.count
    <3>1. CASE work[c].kind = "create"
      <4>1. Seen(c, t).count = 0 /\ Counted(View(c), t, Seen(c, t).count)
        BY <2>1, <2>2, <3>1 DEF SectionsInv, Sectioned, Uncounted, Replacing, Deleted, Inserting
      <4>2. work[c].base = NoRow
        BY <2>1, <2>2, <3>1 DEF Progress
      <4> QED BY <4>1, <4>2, NoneOwned DEF NoRow
    <3>2. CASE work[c].kind = "update"
      BY <2>1, <2>2, <3>2 DEF Progress, Deleted
    <3> QED BY <2>2, <3>1, <3>2
  <2>10. /\ Seen(c, Item(c).topic)'.phase = "live"
         /\ Seen(c, Item(c).topic)'.count = work[c].base.count
    <3>1. ASSUME NEW u \in Topics, u = t
          PROVE  Seen(c, u)'.phase = "live" /\ Seen(c, u)'.count = work[c].base.count
      <4>1. CASE work[c].kind = "create"
        BY <2>7, <2>8, <2>9, <3>1, <4>1 DEF Dirty
      <4>2. CASE work[c].kind = "update"
        BY <2>1, <2>2, <2>7, <2>8, <2>9, <3>1, <4>2 DEF Progress, Deleted
      <4> QED BY <2>2, <4>1, <4>2
    <3> QED BY <2>2, <2>4, <3>1 DEF Seen
  <2>11. Progress(c)'
    <3>1. pc'[c] # "parse" =>
            /\ Len(work[c].todo) = work[c].count
            /\ work[c].count \in Nat
      BY <2>1, <2>2, <2>3, ItemTopic DEF Progress
    <3>2. 0 + work[c].count = work[c].count
      BY <2>1, ItemTopic
    <3>3. IsFiniteSet({}) /\ Cardinality({}) = 0
      BY FS_EmptySet
    <3>4. Inserting(c)' =>
            /\ IsFiniteSet(Own(View(c), t))
            /\ Cardinality(Own(View(c), t)) + Len(work[c].todo) = work[c].count
            /\ \A r \in Own(View(c), t) : r.by = job[c].serial
      BY <2>3, <2>9, <3>1, <3>2, <3>3 DEF Inserting
    <3>5. work' = work /\ job' = job
      BY <2>1
    <3> QED BY <2>3, <2>4, <2>9, <2>10, <3>4, <3>5 DEF Progress, BeforeDelete, Deleted, Inserting
  <2>12. Uncounted(Seen(c, Item(c).topic))'
    BY <2>10 DEF Uncounted
  <2> QED BY <2>1, <2>3, <2>4, <2>5, <2>8, <2>11, <2>12, InsertingKept
<1> QED BY <1>1, <1>2

\* An INSERT that meets no row of its slug adds one.
LEMMA InsertKept ==
  ASSUME SectionsInv, NEW c \in Clients, Insert(c)
  PROVE  Kept(c)
<1> DEFINE t == Item(c).topic
           row == Section(c, Head(work[c].todo))
<1>1. CASE Fail(c, "failed")
  BY <1>1, FailKept
<1>2. CASE ~Fail(c, "failed")
  <2>1. /\ pc[c] = "insert"
        /\ \A r \in View(c) : ~SameSection(r, row)
        /\ added' = [added EXCEPT ![c] = @ \cup {row}]
        /\ work' = [work EXCEPT ![c].todo = Tail(@)]
        /\ Goto(c, IF Len(work[c].todo) = 1 THEN "revise" ELSE "insert")
        /\ UNCHANGED <<database, serial, job, snap, draft, erased, revised, status>>
    BY <1>2 DEF Insert, View
  <2>2. /\ TypeInv /\ t \in Topics /\ Progress(c) /\ Inserted(c) /\ Inserting(c)
        /\ Fresh(c) /\ t = job[c].items[1].topic /\ Len(job[c].items) \in Nat \ {0}
        /\ work[c] \in WorkType /\ work[c].todo \in Seq(SectionSlugs) /\ work[c].todo # << >>
    BY <2>1, ItemTopic DEF SectionsInv, TrailInv, Session, Sectioned, TypeInv, Types, Shape, Inserting
  <2>3. /\ pc'[c] = IF Len(work[c].todo) = 1 THEN "revise" ELSE "insert"
        /\ added'[c] = added[c] \cup {row}
        /\ work'[c].todo = Tail(work[c].todo)
        /\ work'[c].base = work[c].base /\ work'[c].count = work[c].count
    BY <2>1, <2>2 DEF TypeInv, Types, Goto, WorkType
  <2>4. Item(c)' = Item(c) /\ topic' = topic /\ sections' = sections /\ View(c)' = View(c) \cup {row}
    BY <2>1, <2>3 DEF Item, View, database
  <2>5. row.topic = t /\ row.by = job[c].serial
    BY DEF Section
  <2>6. row \notin View(c)
    BY <2>1 DEF SameSection
  <2> HIDE DEF row
  <2>7. /\ Own(View(c)', t) = Own(View(c), t) \cup {row} /\ row \notin Own(View(c), t)
        /\ \A u : u # t => Own(View(c)', u) = Own(View(c), u)
    BY <2>4, <2>5, <2>6 DEF Own
  <2>8. \A u \in Topics : Seen(c, u)' = Seen(c, u)
    BY <2>1, <2>4, SeenStays
  <2>9. /\ IsFiniteSet(Own(View(c), t))
        /\ Cardinality(Own(View(c), t)) + Len(work[c].todo) = work[c].count
        /\ \A r \in Own(View(c), t) : r.by = job[c].serial
        /\ Seen(c, t).phase = "live" /\ Seen(c, t).count = work[c].base.count
    BY <2>2 DEF Progress, Inserting
  <2>10. /\ IsFiniteSet(Own(View(c)', t))
         /\ Cardinality(Own(View(c)', t)) = Cardinality(Own(View(c), t)) + 1
         /\ Cardinality(Own(View(c), t)) \in Nat
    BY <2>7, <2>9, FS_AddElement, FS_CardinalityType
  <2>11. /\ Len(work[c].todo) \in Nat \ {0} /\ Len(Tail(work[c].todo)) = Len(work[c].todo) - 1
         /\ Tail(work[c].todo) \in Seq(SectionSlugs)
    BY <2>2, HeadAndTail
  <2>12. Cardinality(Own(View(c)', t)) + Len(work'[c].todo) = work[c].count
    <3>1. \A a, b \in Nat : (a + 1) + (b - 1) = a + b
      OBVIOUS
    <3> QED BY <2>3, <2>9, <2>10, <2>11, <3>1
  <2>13. pc'[c] = "revise" => work'[c].todo = << >>
    <3>1. \A b \in Nat : b = 1 => b - 1 = 0
      OBVIOUS
    <3>2. Len(work[c].todo) = 1 => Tail(work[c].todo) = << >>
      BY <2>11, <3>1, EmptySeq
    <3> QED BY <2>3, <3>2
  <2>14. \A r \in Own(View(c)', t) : r.by = job[c].serial
    BY <2>5, <2>7, <2>9
  <2>15. Progress(c)'
    BY <2>1, <2>3, <2>4, <2>8, <2>2, <2>9, <2>10, <2>12, <2>13, <2>14
       DEF Progress, BeforeDelete, Deleted, Inserting
  <2>16. Inserted(c)'
    <3>1. ASSUME NEW i \in 1..Len(job[c].items), i > 1
          PROVE  \A r \in added'[c] : r.topic # job[c].items[i].topic
      <4>1. job[c].items[i].topic # t
        BY <2>2, <3>1 DEF Fresh
      <4> QED BY <2>2, <2>3, <2>5, <3>1, <4>1 DEF Inserted
    <3> QED BY <2>1, <2>3, <3>1 DEF Inserted, Unflushed
  <2>17. Uncounted(Seen(c, t))'
    BY <2>2, <2>4, <2>8, <2>9 DEF Uncounted
  <2> QED BY <2>1, <2>3, <2>4, <2>7, <2>8, <2>15, <2>16, <2>17, InsertingKept
<1> QED BY <1>1, <1>2

\* The last flush stores the count of the list.
LEMMA ReviseKept ==
  ASSUME SectionsInv, NEW c \in Clients, Revise(c)
  PROVE  Kept(c)
<1> DEFINE t == Item(c).topic
           new == [Seen(c, t) EXCEPT !.count = work[c].count]
<1>1. CASE Fail(c, "failed")
  BY <1>1, FailKept
<1>2. CASE ~Fail(c, "failed")
  <2>1. /\ pc[c] = "revise" /\ Recount(c)
        /\ Goto(c, IF job[c].op = "bulk_fast" THEN "next" ELSE "reread")
        /\ UNCHANGED <<database, serial, job, work, snap, erased, added, status>>
    BY <1>2 DEF Revise
  <2>2. /\ TypeInv /\ t \in Topics /\ Progress(c) /\ Inserted(c) /\ Inserting(c)
        /\ Seen(c, t) \in Row /\ work[c].count \in Nat
    BY <2>1, ItemTopic DEF SectionsInv, Sectioned, Inserting
  <2>3. /\ IsFiniteSet(Own(View(c), t)) /\ Cardinality(Own(View(c), t)) = work[c].count
        /\ \A r \in Own(View(c), t) : r.by = job[c].serial
        /\ Seen(c, t).phase = "live" /\ Seen(c, t).count = work[c].base.count
    <3>1. /\ IsFiniteSet(Own(View(c), t))
          /\ Cardinality(Own(View(c), t)) + Len(work[c].todo) = work[c].count
          /\ \A r \in Own(View(c), t) : r.by = job[c].serial
          /\ Seen(c, t).phase = "live" /\ Seen(c, t).count = work[c].base.count
          /\ work[c].todo = << >>
      BY <2>1, <2>2 DEF Progress, Inserting
    <3>2. Len(<< >>) = 0 /\ Cardinality(Own(View(c), t)) \in Nat
      BY <3>1, EmptySeq, FS_CardinalityType
    <3>3. Cardinality(Own(View(c), t)) + 0 = Cardinality(Own(View(c), t))
      BY <3>2
    <3> QED BY <3>1, <3>2, <3>3
  <2>4. Item(c)' = Item(c) /\ View(c)' = View(c) /\ topic' = topic /\ sections' = sections
    BY <2>1 DEF Item, View, database
  <2>5. new \in Row /\ new.phase = "live" /\ new.count = work[c].count
    BY <2>2, <2>3 DEF Row
  <2> HIDE DEF new
  <2>6. \A u \in Topics : Seen(c, u)' = IF u = t /\ Recounted(c) THEN new ELSE Seen(c, u)
    <3>1. CASE Recounted(c)
      BY <2>1, <2>2, <2>4, <2>5, <3>1, PutSeen DEF Recount, new
    <3>2. CASE ~Recounted(c)
      BY <2>1, <2>4, <3>2, SeenStays DEF Recount
    <3> QED BY <3>1, <3>2
  <2>7. \A u \in Topics : u = t =>
          Seen(c, u)'.count = work[c].count /\ Seen(c, u)'.phase = "live"
    BY <2>2, <2>3, <2>5, <2>6 DEF Recounted
  <2>8. pc'[c] \in {"next", "reread"}
    BY <2>1, <2>2 DEF TypeInv, Types, Goto
  <2>9. Progress(c)'
    BY <2>8 DEF Progress, BeforeDelete, Deleted, Inserting
  <2>10. Inserted(c)'
    BY <2>1, <2>8, StillInserted DEF Unflushed
  <2>11. ASSUME NEW u \in Topics
         PROVE  Counted(View(c), u, Seen(c, u).count)' /\ Uncounted(Seen(c, u))'
    <3>1. CASE u = t
      <4>1. Counted(View(c), u, work[c].count)
        BY <2>3, <3>1 DEF Counted
      <4>2. Seen(c, u)'.count = work[c].count /\ Seen(c, u)'.phase = "live"
        BY <2>7, <3>1
      <4> QED BY <2>4, <4>1, <4>2 DEF Uncounted
    <3>2. CASE u # t
      <4>1. Seen(c, u)' = Seen(c, u)
        BY <2>6, <3>2
      <4>2. Counted(View(c), u, Seen(c, u).count) /\ Uncounted(Seen(c, u))
        BY <3>2 DEF SectionsInv, Sectioned
      <4> QED BY <2>4, <4>1, <4>2
    <3> QED BY <3>1, <3>2
  <2> QED BY <2>9, <2>10, <2>11 DEF Kept, Sectioned
<1> QED BY <1>1, <1>2

LEMMA ArchiveKept ==
  ASSUME SectionsInv, NEW c \in Clients, Archive(c)
  PROVE  Kept(c)
<1> DEFINE t == Item(c).topic
           new == [Seen(c, t) EXCEPT !.phase = "archived"]
<1>1. CASE Fail(c, "failed")
  BY <1>1, FailKept
<1>2. CASE ~Fail(c, "failed")
  <2>1. /\ pc[c] = "archive" /\ Put(c, new) /\ Goto(c, "next")
        /\ UNCHANGED <<database, serial, job, work, snap, erased, added, revised, status>>
    BY <1>2 DEF Archive
  <2>2. TypeInv /\ t \in Topics /\ Seen(c, t) \in Row /\ pc'[c] = "next"
    BY <2>1, ItemTopic DEF TypeInv, Types, Goto
  <2>3. View(c)' = View(c) /\ topic' = topic
    BY <2>1 DEF View, database
  <2>4. new \in Row /\ new.phase = "archived" /\ new.count = Seen(c, t).count
    BY <2>2 DEF Row
  <2> HIDE DEF new
  <2>5. \A u \in Topics : Seen(c, u)' = IF u = t THEN new ELSE Seen(c, u)
    BY <2>1, <2>2, <2>3, <2>4, PutSeen DEF new
  <2>6. \A u \in Topics : Counted(View(c), u, Seen(c, u).count) /\ Uncounted(Seen(c, u))
    BY <2>1 DEF SectionsInv, Sectioned, Replacing, Deleted, Inserting
  <2>7. \A u \in Topics : Counted(View(c), u, Seen(c, u).count)' /\ Uncounted(Seen(c, u))'
    <3> SUFFICES ASSUME NEW u \in Topics
                 PROVE  Counted(View(c), u, Seen(c, u).count)' /\ Uncounted(Seen(c, u))'
      OBVIOUS
    <3>1. Seen(c, u)'.count = Seen(c, u).count /\ (Seen(c, u)' = Seen(c, u) \/ Seen(c, u)'.phase = "archived")
      BY <2>4, <2>5
    <3> QED BY <2>3, <2>6, <3>1 DEF Uncounted
  <2>8. Progress(c)'
    BY <2>2 DEF Progress, BeforeDelete, Deleted, Inserting
  <2>9. Inserted(c)'
    BY <2>1, <2>2, StillInserted DEF Unflushed
  <2> QED BY <2>7, <2>8, <2>9 DEF Kept, Sectioned
<1> QED BY <1>1, <1>2

\* The rows of the item that is done are of none of the next.
LEMMA AdvanceKept ==
  ASSUME SectionsInv, NEW c \in Clients, Advance(c)
  PROVE  Kept(c)
<1>1. TypeInv /\ pc[c] = "next" /\ UNCHANGED <<topic, sections, draft, erased, added>>
  BY DEF SectionsInv, TrailInv, Advance, database, pending
<1>2. pc'[c] \in {"commit", "create", "archive", "probe", "load"}
      /\ (pc'[c] = "load" => job'[c].op # "bulk")
  BY <1>1, AdvanceItems DEF FirstStep
<1>3. Progress(c)'
  BY <1>2 DEF Progress, BeforeDelete, Deleted, Inserting
<1>4. Inserted(c)'
  <2>1. ASSUME NEW i \in 1..Len(job'[c].items)
        PROVE  \A r \in added[c] : r.topic # job'[c].items[i].topic
    <3>1. i + 1 \in 1..Len(job[c].items) /\ job'[c].items[i] = job[c].items[i + 1] /\ i + 1 > 1
      BY <1>1, AdvanceItems
    <3> QED BY <3>1 DEF SectionsInv, Sectioned, Inserted
  <2> QED BY <1>1, <1>2, <2>1 DEF Inserted
<1>5. ~Replacing(c)
  BY <1>1 DEF Replacing, Deleted, Inserting
<1> QED BY <1>1, <1>3, <1>4, <1>5, SteadyKept

LEMMA OwnKept ==
  ASSUME SectionsInv, NEW c \in Clients, Begin(c) \/ Step(c) \/ Victim(c) \/ Die(c)
  PROVE  Kept(c)
<1>1. CASE StartCreate(c)
  <2>1. job[c].op # "update"
    BY <1>1 DEF StartCreate, SectionsInv, TrailInv, TypeInv, Shape
  <2> QED BY <1>1, <2>1, CreateKept DEF StartCreate
<1>2. CASE Reread(c)
  BY <1>2, FailKept, GotoKept DEF Reread
<1>3. CASE Parse(c) \/ Victim(c) \/ Die(c)
  BY <1>3, FailKept DEF Parse, Victim, Die
<1> QED BY <1>1, <1>2, <1>3, BeginKept, ProbeKept, LoadKept, FlushKept, EraseKept, ErasingKept,
           InsertKept, ReviseKept, ArchiveKept, AdvanceKept, CommitKept DEF Step

\* The rows of one list count as long as the list.
LEMMA ListCounted ==
  ASSUME NEW t \in Topics, NEW list \in Seq(SectionSlugs), NEW rows,
         \A i, j \in DOMAIN list : list[i] = list[j] => i = j,
         Own(rows, t) = {[topic |-> t, slug |-> list[i], by |-> 0] : i \in DOMAIN list}
  PROVE  Counted(rows, t, Len(list))
<1> DEFINE row(i) == [topic |-> t, slug |-> list[i], by |-> 0]
           f == [i \in 1..Len(list) |-> row(i)]
<1>1. Len(list) \in Nat /\ DOMAIN list = 1..Len(list)
  OBVIOUS
<1>2. \A i, j \in 1..Len(list) : row(i) = row(j) => i = j
  <2>1. \A i : row(i).slug = list[i]
    OBVIOUS
  <2> HIDE DEF row
  <2> QED BY <1>1, <2>1
<1>3. Own(rows, t) = {row(i) : i \in 1..Len(list)} /\ \A r \in Own(rows, t) : r.by = 0
  BY <1>1
<1> HIDE DEF row
<1>4. /\ DOMAIN f = 1..Len(list) /\ \A i \in 1..Len(list) : f[i] = row(i)
      /\ f \in [1..Len(list) -> Own(rows, t)]
  BY <1>3
<1> HIDE DEF f
<1>5. f \in Injection(1..Len(list), Own(rows, t))
  BY <1>2, <1>4 DEF Injection, IsInjective
<1>6. f \in Surjection(1..Len(list), Own(rows, t))
  BY <1>3, <1>4 DEF Surjection
<1>7. ExistsBijection(1..Len(list), Own(rows, t))
  BY <1>5, <1>6 DEF Bijection, ExistsBijection
<1>8. IsFiniteSet(1..Len(list)) /\ Cardinality(1..Len(list)) = Len(list)
  <2>1. 1 \in Int /\ Len(list) \in Int
    BY <1>1
  <2>2. (IF 1 > Len(list) THEN 0 ELSE Len(list) - 1 + 1) = Len(list)
    BY <1>1
  <2> QED BY <2>1, <2>2, FS_Interval
<1>9. IsFiniteSet(Own(rows, t)) /\ Cardinality(Own(rows, t)) = Len(list)
  BY <1>7, <1>8, FS_Bijection
<1> QED BY <1>3, <1>9 DEF Counted

LEMMA InitSections == Init => SectionsInv
<1> SUFFICES ASSUME Init PROVE SectionsInv
  OBVIOUS
<1>1. PICK old \in SUBSET Topics, body \in Bodies, list \in Lists \ {<< >>} :
        Stored(old, body, list)
  BY DEF Init
<1>2. ASSUME NEW t \in Topics
      PROVE  Counted(sections, t, topic[t].count) /\ Uncounted(topic[t])
  <2>1. CASE t \in old
    <3>1. topic[t].count = Len(list) /\ topic[t].phase = "live"
      BY <1>1, <2>1 DEF Stored, Born
    <3>2. \A i, j \in DOMAIN list : list[i] = list[j] => i = j
      BY <1>1 DEF Stored
    <3>3. list \in Seq(SectionSlugs)
      BY PayloadAssumption
    <3>4. Own(sections, t) = {[topic |-> t, slug |-> list[i], by |-> 0] : i \in DOMAIN list}
      BY <1>1, <2>1 DEF Stored, Own
    <3> QED BY <3>1, <3>2, <3>3, <3>4, ListCounted DEF Uncounted
  <2>2. CASE t \notin old
    <3>1. topic[t].count = 0
      BY <1>1, <2>2 DEF Stored, NoRow
    <3>2. Own(sections, t) = {}
      BY <1>1, <2>2 DEF Stored, Own
    <3> QED BY <3>1, <3>2, NoneCounted DEF Uncounted
  <2> QED BY <2>1, <2>2
<1>3. ASSUME NEW c \in Clients PROVE Sectioned(c) /\ \A t \in Topics : Uncounted(Seen(c, t))
  <2>1. /\ pc[c] = "idle" /\ erased[c] = {} /\ added[c] = {} /\ draft[c] = NoDraft
    BY DEF Init
  <2>2. View(c) = sections /\ \A t \in Topics : Seen(c, t) = topic[t]
    BY <2>1 DEF View, Seen, NoDraft
  <2>3. Progress(c) /\ Inserted(c)
    BY <2>1 DEF Progress, Inserted, BeforeDelete, Deleted, Inserting
  <2> QED BY <1>2, <2>2, <2>3 DEF Sectioned
<1> QED BY <1>2, <1>3, InitTrail DEF SectionsInv

\* One caller at a time, section_count is the number of a topic's section rows,
\* and they are all of the request that last wrote its list, whatever requests
\* come after one another, bulk requests included, and wherever one fails.
THEOREM SectionsAreCounted ==
  ASSUME \A c, d \in Clients : c = d
  PROVE  Spec => []SectionsMatchCount
<1>1. SectionsInv /\ [Next]_vars => SectionsInv'
  <2> SUFFICES ASSUME SectionsInv, [Next]_vars PROVE SectionsInv'
    OBVIOUS
  <2>1. TrailInv'
    BY NextTrail DEF SectionsInv
  <2>2. CASE UNCHANGED vars
    <3>1. UNCHANGED <<topic, sections, draft, erased, added, pc, job, work, snap>>
      BY <2>2 DEF vars, database, pending
    <3>2. ASSUME NEW c \in Clients
          PROVE  (Sectioned(c) /\ \A t \in Topics : Uncounted(Seen(c, t)))'
      <4>1. Item(c)' = Item(c) /\ View(c)' = View(c) /\ \A t \in Topics : Seen(c, t)' = Seen(c, t)
        BY <3>1 DEF Item, View, Seen
      <4>2. Seen(c, Item(c).topic)' = Seen(c, Item(c).topic)
        BY <3>1 DEF Item, Seen
      <4>3. Progress(c)'
        BY <3>1, <4>1, <4>2 DEF SectionsInv, Sectioned, Progress, BeforeDelete, Deleted, Inserting
      <4>4. Inserted(c)' /\ (Replacing(c)' <=> Replacing(c))
        BY <3>1 DEF SectionsInv, Sectioned, Inserted, Replacing, Deleted, Inserting
      <4> QED BY <4>1, <4>3, <4>4 DEF SectionsInv, Sectioned
    <3> QED BY <2>1, <3>1, <3>2 DEF SectionsInv
  <2>3. ASSUME NEW c \in Clients, Begin(c) \/ Step(c) \/ Victim(c) \/ Die(c)
        PROVE  SectionsInv'
    <3>1. Kept(c)
      BY <2>3, OwnKept
    <3>2. \A d \in Clients : d = c
      OBVIOUS
    <3>3. \A d \in Clients : (Sectioned(d) /\ \A t \in Topics : Uncounted(Seen(d, t)))'
      BY <3>1, <3>2 DEF Kept
    <3>4. Agreed'
      <4>1. CASE Commit(c)
        BY <4>1, CommitKept
      <4>2. CASE UNCHANGED database
        BY <4>2 DEF SectionsInv, Agreed, database
      <4> QED BY <2>3, <4>1, <4>2, OnlyCommitsWrite
    <3> QED BY <2>1, <3>3, <3>4 DEF SectionsInv, Agreed
  <2> QED BY <2>2, <2>3 DEF Next
<1>2. SectionsInv => SectionsMatchCount
  BY DEF SectionsInv, SectionsMatchCount, Counted, Own
<1> QED BY <1>1, <1>2, InitSections, PTL DEF Spec
=============================================================================
