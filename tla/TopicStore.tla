----------------------------- MODULE TopicStore -----------------------------
(***************************************************************************)
(* How the admin endpoints write topics: TopicRepository's create, update, *)
(* soft delete and bulk upsert as transactions of concurrent sessions at   *)
(* READ COMMITTED, one SQL statement at a time, with the row locks and the *)
(* unique constraints they meet.                                           *)
(*                                                                         *)
(* A section row carries the request that wrote it, so that a DELETE can   *)
(* be limited to the rows its snapshot saw.  Columns that only get stored  *)
(* (title, group, tags, sources, ...) are left out: body stands for what   *)
(* an update changes and section_count for what it derives.                *)
(*                                                                         *)
(* RereadNothing, AdvanceInPlace and the other definitions that Next does  *)
(* not use are the faulty variants that the runs must tell from the code.  *)
(***************************************************************************)
EXTENDS Naturals, Sequences, FiniteSets

CONSTANTS
  Clients,    \* concurrent callers of the admin endpoints
  Topics,     \* topic slugs
  Importable, \* those that import_notes_to_neon.py may have loaded
  Bodies,     \* markdown bodies
  Blank,      \* the empty body
  Lists,      \* section lists a payload may give: sequences of section slugs
  None,       \* a field the payload leaves out
  Ops,        \* the requests the clients make
  Modes,      \* the modes of their bulk requests
  MaxWrites   \* bound on the number of requests

SectionSlugs == UNION {{l[i] : i \in DOMAIN l} : l \in Lists}

ASSUME BoundAssumption == MaxWrites \in Nat
ASSUME PayloadAssumption ==
  /\ Lists \subseteq Seq(SectionSlugs)
  /\ Blank \in Bodies
  /\ << >> \in Lists
  /\ None \notin Bodies
  /\ None \notin Lists

VARIABLES
  topic,     \* the committed topics rows
  sections,  \* the committed topic_sections rows
  revisions, \* the committed topic_revisions rows
  imported,  \* the topics that import_notes_to_neon.py loaded
  serial,    \* requests begun so far
  pc,        \* the next step of each client's request
  job,       \* the request, with the items it has still to write
  work,      \* the item being written: the loaded row and what becomes of it
  snap,      \* the section rows that the running DELETE found
  draft,     \* uncommitted topics rows; their row locks
  erased,    \* uncommitted deletions of section rows; their row locks
  added,     \* uncommitted section rows
  revised,   \* uncommitted revisions
  status     \* how a client's last request was answered

database == <<topic, sections, revisions, imported>>
pending  == <<draft, erased, added, revised>>
vars == <<database, serial, pc, job, work, snap, pending, status>>

Row == [phase : {"absent", "live", "archived"}, body : Bodies,
        version : Nat, count : Nat]
NoRow == [phase |-> "absent", body |-> Blank, version |-> 0, count |-> 0]

-----------------------------------------------------------------------------
(* Sessions.                                                               *)

Goto(c, step) == pc' = [pc EXCEPT ![c] = step]

Item(c) == Head(job[c].items)

\* The row of t as the session of c sees it, and an uncommitted change of it.
Seen(c, t) == IF t \in DOMAIN draft[c] THEN draft[c][t] ELSE topic[t]
Live(c) == Seen(c, Item(c).topic).phase = "live"
Put(c, row) ==
  draft' = [draft EXCEPT ![c] =
    [t \in DOMAIN @ \cup {Item(c).topic} |-> IF t = Item(c).topic THEN row ELSE @[t]]]

NoDraft == [t \in {} |-> NoRow]

\* Answer the request and close its session.
Close(c, answer) ==
  /\ Goto(c, "idle")
  /\ status' = [status EXCEPT ![c] = answer]
  /\ snap' = [snap EXCEPT ![c] = {}]
  /\ draft' = [draft EXCEPT ![c] = NoDraft]
  /\ erased' = [erased EXCEPT ![c] = {}]
  /\ added' = [added EXCEPT ![c] = {}]
  /\ revised' = [revised EXCEPT ![c] = {}]
  /\ UNCHANGED <<serial, job, work>>

\* What was not committed is rolled back.
Fail(c, answer) == Close(c, answer) /\ UNCHANGED database

\* The first flush has columns of the topics row to write.
Dirty(c) == work[c].kind = "create" \/ work[c].revise

\* SQLAlchemy compares a count with the one it loaded, not with the stored one.
Recounted(c) == work[c].count # work[c].base.count

Section(c, slug) == [topic |-> Item(c).topic, slug |-> slug, by |-> job[c].serial]

Revision(c) ==
  [topic |-> Item(c).topic, version |-> work[c].base.version + 1,
   body |-> work[c].body, by |-> job[c].serial]

SameSection(r, q) == r.topic = q.topic /\ r.slug = q.slug
SameVersion(r, q) == r.topic = q.topic /\ r.version = q.version

\* The open transaction of o holds a row, or a unique key, that the next
\* statement of c needs.
Holds(o, c) ==
  CASE pc[c] = "flush" -> Dirty(c) /\ Item(c).topic \in DOMAIN draft[o]
    [] pc[c] = "archive" -> Item(c).topic \in DOMAIN draft[o]
    [] pc[c] = "erasing" -> erased[o] \cap snap[c] # {}
    [] pc[c] = "insert" -> \E r \in erased[o] \cup added[o] :
                             SameSection(r, Section(c, Head(work[c].todo)))
    [] pc[c] = "revise" -> \/ Recounted(c) /\ Item(c).topic \in DOMAIN draft[o]
                           \/ \E r \in revised[o] : SameVersion(r, Revision(c))
    [] OTHER -> FALSE

Blockers(c) == {o \in Clients \ {c} : Holds(o, c)}

-----------------------------------------------------------------------------
(* Requests.  An item is one topic's payload.                              *)

Items(op) ==
  [topic : Topics,
   body : IF op = "create" THEN Bodies ELSE Bodies \cup {None},
   sections : IF op = "update" THEN Lists \cup {None} ELSE Lists]

Bulk(op) == op \in {"bulk", "bulk_fast"}

\* The items of a bulk request are about different topics.
Batches(op) ==
  IF Bulk(op)
  THEN {b \in UNION {[1..n -> Items(op)] : n \in 1..Cardinality(Topics)} :
          \A i, j \in DOMAIN b : b[i].topic = b[j].topic => i = j}
  ELSE [1..1 -> Items(op)]

FirstStep(op) ==
  CASE op = "create" -> "create"
    [] op = "delete" -> "archive"
    [] op = "bulk" -> "probe"
    [] OTHER -> "load"

Begin(c) ==
  /\ pc[c] = "idle"
  /\ serial < MaxWrites
  /\ serial' = serial + 1
  /\ \E op \in Ops : \E mode \in IF Bulk(op) THEN Modes ELSE {"upsert"}, batch \in Batches(op) :
       /\ job' = [job EXCEPT ![c] = [op |-> op, mode |-> mode, items |-> batch,
                                     serial |-> serial', edited |-> {}]]
       /\ Goto(c, FirstStep(op))
  /\ status' = [status EXCEPT ![c] = "none"]
  /\ UNCHANGED <<database, work, snap, pending>>

AdvanceInPlace(c) ==
  /\ pc[c] = "next"
  /\ Goto(c, IF Len(job[c].items) = 1 THEN "commit" ELSE FirstStep(job[c].op))
  /\ UNCHANGED <<database, serial, job, work, snap, pending, status>>

\* On to the next item, or to the commit.
Advance(c) ==
  /\ pc[c] = "next"
  /\ job' = [job EXCEPT ![c].items = Tail(@)]
  /\ Goto(c, IF Len(job[c].items) = 1 THEN "commit" ELSE FirstStep(job[c].op))
  /\ UNCHANGED <<database, serial, work, snap, pending, status>>

\* create_topic: an empty section list counts as none given.
Create(c) ==
  LET body == IF Item(c).body = None THEN Blank ELSE Item(c).body
      list == Item(c).sections IN
  /\ work' = [work EXCEPT ![c] =
       [kind |-> "create", base |-> NoRow, body |-> body, revise |-> TRUE,
        todo |-> IF list = << >> THEN None ELSE list, count |-> Len(list)]]
  /\ job' = [job EXCEPT ![c].edited = @ \cup {<<Item(c).topic, body>>}]
  /\ Goto(c, "flush")

\* update_topic on a loaded row: sections are replaced when the payload has a
\* list, even an empty one, and when the body changes.
Update(c, row) ==
  LET body == Item(c).body
      list == Item(c).sections
      changed == body # None /\ body # row.body IN
  /\ work' = [work EXCEPT ![c] =
       [kind |-> "update", base |-> row, revise |-> changed,
        body |-> IF changed THEN body ELSE row.body, todo |-> list,
        count |-> IF list = None THEN row.count ELSE Len(list)]]
  /\ job' = [job EXCEPT ![c].edited = IF changed THEN @ \cup {<<Item(c).topic, body>>} ELSE @]
  /\ Goto(c, IF changed \/ list # None THEN "erase" ELSE "reread")

Skip(c) == Goto(c, "next") /\ UNCHANGED <<job, work>>

Upsert(c, found, update) ==
  \/ /\ found
     /\ IF job[c].mode = "insert_only" THEN Skip(c) ELSE update
  \/ /\ ~found
     /\ IF job[c].mode = "update_only" THEN Skip(c) ELSE Create(c)

StartCreate(c) ==
  /\ pc[c] = "create"
  /\ Create(c)
  /\ UNCHANGED <<database, serial, snap, pending, status>>

\* bulk_upsert_topics asks get_topic_detail which of the two it is.
Probe(c) ==
  /\ pc[c] = "probe"
  /\ Upsert(c, Live(c), /\ work' = [work EXCEPT ![c].base = Seen(c, Item(c).topic)]
                        /\ Goto(c, "load")
                        /\ UNCHANGED job)
  /\ UNCHANGED <<database, serial, snap, pending, status>>

\* The SELECT of a live row by its slug.  After a probe the session may still
\* hold the object of the first SELECT, and then does not refresh it.
Load(c) ==
  LET row == Seen(c, Item(c).topic) IN
  /\ pc[c] = "load"
  /\ \/ /\ job[c].op = "update"
        /\ IF Live(c) THEN Update(c, row) /\ UNCHANGED <<database, serial, snap, pending, status>>
                      ELSE Fail(c, "failed")
     \/ /\ job[c].op = "bulk"
        /\ IF Live(c) THEN \E r \in {row, work[c].base} : Update(c, r) ELSE Skip(c)
        /\ UNCHANGED <<database, serial, snap, pending, status>>
     \/ /\ job[c].op = "bulk_fast"
        /\ Upsert(c, Live(c), Update(c, row))
        /\ UNCHANGED <<database, serial, snap, pending, status>>

-----------------------------------------------------------------------------
(* Statements of a write.                                                  *)

\* INSERT of the topics row, or UPDATE of the columns the session changed:
\* with the version counted from the loaded row.
Flush(c) ==
  LET row == Seen(c, Item(c).topic) IN
  /\ pc[c] = "flush"
  /\ Blockers(c) = {}
  /\ IF work[c].kind = "create" /\ row.phase # "absent"
     THEN Fail(c, "failed")
     ELSE /\ IF Dirty(c)
             THEN Put(c, [row EXCEPT !.phase = IF work[c].kind = "create" THEN "live" ELSE @,
                                     !.body = work[c].body,
                                     !.version = work[c].base.version + 1])
             ELSE UNCHANGED draft
          /\ Goto(c, CASE work[c].todo = None -> "parse"
                       [] work[c].todo = << >> -> "revise"
                       [] OTHER -> "insert")
          /\ UNCHANGED <<database, serial, job, work, snap, erased, added, revised, status>>

\* _replace_sections: the DELETE takes its snapshot, then waits for the rows
\* that another session has deleted; rows inserted since are not in it.
Erase(c) ==
  /\ pc[c] = "erase"
  /\ snap' = [snap EXCEPT ![c] = {r \in sections : r.topic = Item(c).topic}]
  /\ Goto(c, "erasing")
  /\ UNCHANGED <<database, serial, job, work, pending, status>>

ErasingSkipLocked(c) ==
  /\ pc[c] = "erasing"
  /\ erased' = [erased EXCEPT ![c] = @ \cup (snap[c] \cap sections)]
  /\ snap' = [snap EXCEPT ![c] = {}]
  /\ Goto(c, IF work[c].todo = None THEN "parse" ELSE "flush")
  /\ UNCHANGED <<database, serial, job, work, draft, added, revised, status>>

Erasing(c) ==
  /\ pc[c] = "erasing"
  /\ Blockers(c) = {}
  /\ erased' = [erased EXCEPT ![c] = @ \cup (snap[c] \cap sections)]
  /\ snap' = [snap EXCEPT ![c] = {}]
  /\ Goto(c, IF work[c].todo = None THEN "parse" ELSE "flush")
  /\ UNCHANGED <<database, serial, job, work, draft, added, revised, status>>

\* Sections that have to be parsed from the body.  Every body has at least one
\* (utils/text.py:56), and section.__dict__ of a dataclass with slots is an
\* AttributeError.
Parse(c) ==
  /\ pc[c] = "parse"
  /\ Fail(c, "error")

Insert(c) ==
  LET row == Section(c, Head(work[c].todo)) IN
  /\ pc[c] = "insert"
  /\ Blockers(c) = {}
  /\ IF \E r \in (sections \ erased[c]) \cup added[c] : SameSection(r, row)
     THEN Fail(c, "failed")
     ELSE /\ added' = [added EXCEPT ![c] = @ \cup {row}]
          /\ work' = [work EXCEPT ![c].todo = Tail(@)]
          /\ Goto(c, IF Len(work[c].todo) = 1 THEN "revise" ELSE "insert")
          /\ UNCHANGED <<database, serial, job, snap, draft, erased, revised, status>>

RecountWithBodyOnly(c) ==
  IF Recounted(c) /\ work[c].revise
  THEN Put(c, [Seen(c, Item(c).topic) EXCEPT !.count = work[c].count])
  ELSE UNCHANGED draft

Recount(c) ==
  IF Recounted(c) THEN Put(c, [Seen(c, Item(c).topic) EXCEPT !.count = work[c].count])
                  ELSE UNCHANGED draft

ReviseOnConflictDoNothing(c) ==
  LET new == {r \in {Revision(c)} : ~ \E q \in revisions : SameVersion(q, r)} IN
  /\ pc[c] = "revise"
  /\ Blockers(c) = {}
  /\ Recount(c)
  /\ revised' = [revised EXCEPT ![c] = IF work[c].revise THEN @ \cup new ELSE @]
  /\ Goto(c, IF job[c].op = "bulk_fast" THEN "next" ELSE "reread")
  /\ UNCHANGED <<database, serial, job, work, snap, erased, added, status>>

\* The last flush: section_count, and the revision of a changed body.
Revise(c) ==
  /\ pc[c] = "revise"
  /\ Blockers(c) = {}
  /\ IF work[c].revise /\ \E r \in revisions \cup revised[c] : SameVersion(r, Revision(c))
     THEN Fail(c, "failed")
     ELSE /\ Recount(c)
          /\ revised' = [revised EXCEPT ![c] = IF work[c].revise THEN @ \cup {Revision(c)} ELSE @]
          /\ Goto(c, IF job[c].op = "bulk_fast" THEN "next" ELSE "reread")
          /\ UNCHANGED <<database, serial, job, work, snap, erased, added, status>>

RereadNothing(c) ==
  /\ pc[c] = "reread"
  /\ Goto(c, "next")
  /\ UNCHANGED <<database, serial, job, work, snap, pending, status>>

\* update_topic answers with get_topic_detail: None, hence 404, for a topic
\* archived meanwhile.  bulk_upsert_topics leaves such a topic out of its
\* answer and goes on.
Reread(c) ==
  /\ pc[c] = "reread"
  /\ IF job[c].op = "update" /\ ~Live(c)
     THEN Fail(c, "failed")
     ELSE /\ Goto(c, "next")
          /\ UNCHANGED <<database, serial, job, work, snap, pending, status>>

\* soft_delete_topic: one UPDATE of a row that is not deleted yet.
Archive(c) ==
  /\ pc[c] = "archive"
  /\ Blockers(c) = {}
  /\ IF Live(c)
     THEN /\ Put(c, [Seen(c, Item(c).topic) EXCEPT !.phase = "archived"])
          /\ Goto(c, "next")
          /\ UNCHANGED <<database, serial, job, work, snap, erased, added, revised, status>>
     ELSE Fail(c, "failed")

Commit(c) ==
  /\ pc[c] = "commit"
  /\ topic' = [t \in Topics |-> Seen(c, t)]
  /\ sections' = (sections \ erased[c]) \cup added[c]
  /\ revisions' = revisions \cup revised[c]
  /\ UNCHANGED imported
  /\ Close(c, "done")

-----------------------------------------------------------------------------
(* The environment.                                                        *)

\* PostgreSQL rolls back a session that waits in a cycle.
Victim(c) ==
  /\ \E S \in SUBSET Clients : c \in S /\ \A d \in S : Blockers(d) \cap S # {}
  /\ Fail(c, "failed")

\* The worker dies, or the connection is lost, before the commit.
Die(c) ==
  /\ pc[c] # "idle"
  /\ Fail(c, "lost")

Born(t, body, list) == [phase |-> "live", body |-> body, version |-> 1, count |-> Len(list)]

\* A store that was given some topics, with sections whose slugs differ:
\* create_topic leaves a first revision, the importer leaves none.
Stored(old, body, list) ==
  /\ \A i, j \in DOMAIN list : list[i] = list[j] => i = j
  /\ topic = [t \in Topics |-> IF t \in old THEN Born(t, body, list) ELSE NoRow]
  /\ sections = {[topic |-> t, slug |-> list[i], by |-> 0] : t \in old, i \in DOMAIN list}
  /\ imported \in SUBSET (old \cap Importable)
  /\ revisions = {[topic |-> t, version |-> 1, body |-> body, by |-> 0] : t \in old \ imported}

Init ==
  /\ \E old \in SUBSET Topics, body \in Bodies, list \in Lists \ {<< >>} :
       Stored(old, body, list)
  /\ serial = 0
  /\ pc = [c \in Clients |-> "idle"]
  /\ job = [c \in Clients |-> [op |-> "update", mode |-> "upsert", items |-> << >>,
                               serial |-> 0, edited |-> {}]]
  /\ work = [c \in Clients |-> [kind |-> "update", base |-> NoRow, body |-> Blank,
                                revise |-> FALSE, todo |-> None, count |-> 0]]
  /\ snap = [c \in Clients |-> {}]
  /\ draft = [c \in Clients |-> NoDraft]
  /\ erased = [c \in Clients |-> {}]
  /\ added = [c \in Clients |-> {}]
  /\ revised = [c \in Clients |-> {}]
  /\ status = [c \in Clients |-> "none"]

Step(c) ==
  \/ StartCreate(c) \/ Probe(c) \/ Load(c) \/ Flush(c) \/ Erase(c) \/ Erasing(c)
  \/ Parse(c) \/ Insert(c) \/ Revise(c) \/ Reread(c) \/ Archive(c)
  \/ Advance(c) \/ Commit(c)

Next == \E c \in Clients : Begin(c) \/ Step(c) \/ Victim(c) \/ Die(c)

Spec == Init /\ [][Next]_vars

\* Statements return, PostgreSQL finds deadlocks and serves lock waiters in
\* order.  Clients need not ask, and nothing has to fail.
FairSpec == Spec /\ \A c \in Clients : SF_vars(Step(c)) /\ WF_vars(Victim(c))

-----------------------------------------------------------------------------
(* Properties.                                                             *)

Steps == {"idle", "create", "probe", "load", "flush", "erase", "erasing", "parse",
          "insert", "revise", "reread", "archive", "next", "commit"}

SectionRows == [topic : Topics, slug : SectionSlugs, by : 0..MaxWrites]
Revisions == [topic : Topics, version : Nat, body : Bodies, by : 0..MaxWrites]

\* Every variable has its type, and a row or a key is held by one session at
\* a time: topics rows, deleted section rows, new section keys.
TypeOK ==
  /\ topic \in [Topics -> Row]
  /\ sections \subseteq SectionRows
  /\ revisions \subseteq Revisions
  /\ imported \subseteq Topics
  /\ serial \in 0..MaxWrites
  /\ pc \in [Clients -> Steps]
  /\ \A c \in Clients :
       /\ job[c].serial \in 0..serial
       /\ work[c].base \in Row
       /\ work[c].body \in Bodies
       /\ snap[c] \subseteq SectionRows
       /\ DOMAIN draft[c] \subseteq Topics /\ draft[c] \in [DOMAIN draft[c] -> Row]
       /\ erased[c] \subseteq sections
       /\ added[c] \subseteq SectionRows
       /\ revised[c] \subseteq Revisions
  /\ \A c, o \in Clients : c # o =>
       /\ DOMAIN draft[c] \cap DOMAIN draft[o] = {}
       /\ erased[c] \cap erased[o] = {}
  /\ status \in [Clients -> {"none", "done", "failed", "error", "lost"}]

\* The number of a topic's first revision: create_topic writes revision 1, an
\* imported topic has its first when its body is first edited.
First(t) == IF t \in imported THEN 2 ELSE 1

\* docs/ARCHITECTURE.md:29 "topic_revisions keeps safe edit history": the
\* revisions of a topic are numbered from its first to its version without gap
\* or repetition, and the last one has the topic's body, although concurrent
\* updates count versions from the rows they loaded.  The body that an
\* imported topic came with is in no revision.
RevisionTrail ==
  \A t \in Topics :
    LET trail == {r \in revisions : r.topic = t} IN
    /\ {r.version : r \in trail} = First(t)..topic[t].version
    /\ \A r, q \in trail : r.version = q.version => r = q
    /\ \A r \in trail : r.version = topic[t].version => r.body = topic[t].body

\* A body edit that was answered with success is in the history for good,
\* under the request that made it: concurrent edits do not get lost, they fail.
AcknowledgedEditInHistory ==
  \A c \in Clients : status[c] = "done" =>
    \A e \in job[c].edited :
      \E r \in revisions : r.topic = e[1] /\ r.body = e[2] /\ r.by = job[c].serial

\* PATCH and DELETE never change the row of an archived topic, even when they
\* loaded it before it was archived.
ArchivedIsFrozen ==
  [][\A t \in Topics : topic[t].phase = "archived" => topic'[t] = topic[t]]_vars

\* One caller at a time, section_count is the number of section rows, and
\* they are all of the same request.
SectionsMatchCount ==
  \A t \in Topics :
    LET own == {r \in sections : r.topic = t} IN
    /\ Cardinality(own) = topic[t].count
    /\ \A r, q \in own : r.by = q.by

\* Every request is answered, although bulk requests lock topics in any order.
RequestsFinish == \A c \in Clients : pc[c] # "idle" ~> pc[c] = "idle"
=============================================================================
