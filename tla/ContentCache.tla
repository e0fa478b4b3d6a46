---------------------------- MODULE ContentCache ----------------------------
(***************************************************************************)
(* The read path and the cache invalidation of the notes backend: what     *)
(* GET /topics/{id}, GET /topics/tree and GET /bootstrap serve while the   *)
(* admin endpoints write topics, clear caches and rebuild them.            *)
(*                                                                         *)
(* Content lives in PostgreSQL, read statement by statement at READ        *)
(* COMMITTED.  Two caches stand before it: one process-local memory cache  *)
(* per gunicorn worker (JsonCache, with a TTL) and the app_cache table     *)
(* shared by the workers (no TTL).  A request is one client's: it runs on  *)
(* one worker, in one database session, one database statement or          *)
(* in-process step at a time.                                              *)
(*                                                                         *)
(* A cached document is represented by the two commits its build saw: the  *)
(* one its first statement read (head) and the one its last statement read *)
(* (tail).  With head = tail the document is a consistent snapshot.        *)
(*                                                                         *)
(* Any statement on app_cache may fail: the table is missing, the          *)
(* connection is lost, a lock wait ends in a deadlock or a timeout.  The   *)
(* repository swallows the exception after rolling the whole session back, *)
(* and the request goes on; job.swallowed records that an uncommitted      *)
(* write of the request went with it.                                      *)
(*                                                                         *)
(* ReadHeadSkipLocked, CommitForgotten and the other definitions that      *)
(* Next does not use are the faulty variants that the runs must tell from  *)
(* the code.                                                               *)
(***************************************************************************)
EXTENDS Naturals, Sequences

CONSTANTS
  Clients,         \* concurrent callers, one request each at a time
  Workers,         \* gunicorn worker processes
  Topics,          \* topic slugs; the key of a topic's detail document
  Tree,            \* the key topics:tree:v2
  Bootstrap,       \* the key bootstrap:v6:compact
  None,            \* no document, no app_cache row, no If-None-Match header
  Ops,             \* the requests the clients make
  AppCacheAtStart, \* whether migration 0002 has been applied at the start
  MaxCommits       \* bound on the committed content states

Keys == Topics \cup {Tree, Bootstrap}

ASSUME KeysAssumption ==
  /\ Workers # {}
  /\ Tree \notin Topics
  /\ Bootstrap \notin Topics
  /\ Tree # Bootstrap

ASSUME BoundsAssumption ==
  /\ AppCacheAtStart \in BOOLEAN
  /\ MaxCommits \in Nat

\* What the routes tell apart in a topic's rows: whether it may be shown
\* (status and deleted_at), the version its body edits count, and an edition
\* that every write changes (title, sections, tags, ...).
Phases == {"absent", "draft", "published", "deleted"}
TopicState == [phase : Phases, version : Nat, edition : Nat]
Content == [Topics -> TopicState]

Doc == [head : Nat, tail : Nat]

ASSUME NoneAssumption == None \notin Doc

Reads  == {"get_topic", "topic_tree", "bootstrap", "refresh_bootstrap"}
Writes == {"create_topic", "update_topic", "delete_topic", "bulk_upsert",
           "bulk_upsert_fast", "reindex_search"}
Admin  == {"rebuild_bootstrap", "rebuild_topics", "clear_bootstrap"}

VARIABLES
  commits,   \* the committed contents, oldest first
  app_cache, \* the committed app_cache rows
  migrated,  \* the app_cache table exists
  memory,    \* memory[w]: the memory cache of worker w
  pc,        \* the next step of each client's request
  job,       \* the request itself
  doc,       \* the document a request is building or has been answered with
  todo,      \* the rows a DELETE has still to lock, the topics to warm
  draft,     \* uncommitted topic rows; their row locks
  rows,      \* uncommitted app_cache rows; their row locks
  status     \* how a client's last request was answered

database == <<commits, app_cache, migrated>>
pending  == <<draft, rows>>
request  == <<job, doc, todo>>
vars == <<database, memory, pc, request, pending, status>>

-----------------------------------------------------------------------------
(* Views of the content.                                                   *)

Latest == commits[Len(commits)]
LiveWhateverStatus(i) == {t \in Topics : commits[i][t].phase \notin {"absent", "deleted"}}
Live(i) == {t \in Topics : commits[i][t].phase = "published"}

\* The data a document shows.  A topic's own row comes from the first
\* statement, its sections from the last, in the detail and in the tree;
\* bootstrap counts come from the first statement (sections are counted over
\* all topics) and the topic list from the last.
View(k, d) ==
  CASE k \in Topics -> <<commits[d.head][k], commits[d.tail][k].edition>>
    [] k = Tree -> [t \in Live(d.head) |-> <<commits[d.head][t], commits[d.tail][t].edition>>]
    [] OTHER -> <<commits[d.head], [t \in Live(d.tail) |-> commits[d.tail][t]]>>

\* content_etag(id, body_hash, version) for a topic, weak_etag_for(payload)
\* for the rest.
ETag(k, d) ==
  IF k \in Topics THEN commits[d.head][k].version ELSE View(k, d)

\* What a build would read now, and a document that shows just that.
Now == [head |-> Len(commits), tail |-> Len(commits)]
Fresh(k, d) == View(k, d) = View(k, Now)

-----------------------------------------------------------------------------
(* Sessions and transactions.                                              *)

NoRows == [k \in {} |-> None]
NoDraft == [t \in {} |-> [phase |-> "absent", version |-> 0, edition |-> 0]]

\* No other open transaction holds the app_cache row of k, or one of these
\* topics rows.
RowFree(c, k) == \A o \in Clients \ {c} : k \notin DOMAIN rows[o]
TopicsFree(c, S) == \A o \in Clients \ {c} : DOMAIN draft[o] \cap S = {}

Rollback(c) ==
  /\ draft' = [draft EXCEPT ![c] = NoDraft]
  /\ rows'  = [rows EXCEPT ![c] = NoRows]

Drafted(c) ==
  [t \in Topics |-> IF t \in DOMAIN draft[c] THEN draft[c][t] ELSE Latest[t]]

\* The DELETE of BootstrapRepository.invalidate is under way.
Deleting(c) == pc[c] \in {"delete_bootstrap", "delete_topics"}

\* A row whose deletion is committed is gone from the snapshot of every other
\* DELETE, even if it is inserted anew.
CommitSession(c) ==
  /\ commits' = IF Drafted(c) = Latest THEN commits ELSE Append(commits, Drafted(c))
  /\ app_cache' = [k \in Keys |-> IF k \in DOMAIN rows[c] THEN rows[c][k]
                                                          ELSE app_cache[k]]
  /\ todo' = [o \in Clients |->
       IF Deleting(o) THEN {k \in todo[o] : k \in DOMAIN rows[c] => rows[c][k] # None}
                      ELSE todo[o]]
  /\ Rollback(c)

PutRow(c, k, d) ==
  rows' = [rows EXCEPT ![c] = [x \in DOMAIN rows[c] \cup {k} |->
                                 IF x = k THEN d ELSE rows[c][x]]]

Goto(c, step) == pc' = [pc EXCEPT ![c] = step]

\* Answer a request; the session closes, and what it did not commit is rolled
\* back.
Close(c, answer, d) ==
  /\ Rollback(c)
  /\ Goto(c, "idle")
  /\ status' = [status EXCEPT ![c] = answer]
  /\ doc' = [doc EXCEPT ![c] = d]
  /\ UNCHANGED job

Finish(c, answer, d) == Close(c, answer, d) /\ UNCHANGED todo

Matches(j, d) ==
  /\ j.copy # None
  /\ ETag(j.key, j.copy) = ETag(j.key, d)

\* not_modified_if_match, then the payload.
Serve(c, d) == Finish(c, IF Matches(job[c], d) THEN "304" ELSE "200", d)

Remember(w, k, d) == memory' = [memory EXCEPT ![w][k] = d]
Forget(w, K) ==
  memory' = [memory EXCEPT ![w] = [k \in Keys |-> IF k \in K THEN None ELSE @[k]]]

-----------------------------------------------------------------------------
(* Requests.                                                               *)

\* The document a client still holds for key k, if its last answer had one.
Held(c, k) ==
  IF job[c].key # k THEN None
  ELSE CASE status[c] = "200" -> doc[c]
         [] status[c] = "304" -> job[c].copy
         [] OTHER -> None

Request(op, w, k, copy) ==
  [op |-> op, worker |-> w, key |-> k, copy |-> copy,
   since |-> Len(commits), change |-> NoDraft, swallowed |-> FALSE]

Begin(c, j, step) ==
  /\ pc[c] = "idle"
  /\ j.op \in Ops
  /\ Goto(c, step)
  /\ job' = [job EXCEPT ![c] = j]
  /\ doc' = [doc EXCEPT ![c] = None]
  /\ status' = [status EXCEPT ![c] = "none"]
  /\ UNCHANGED <<database, memory, todo, pending>>

\* A hit in the worker's memory cache is answered without touching the
\* database.
MemoryHit(c, j) ==
  LET d == memory[j.worker][j.key] IN
  /\ pc[c] = "idle"
  /\ j.op \in Ops
  /\ d # None
  /\ job' = [job EXCEPT ![c] = j]
  /\ doc' = [doc EXCEPT ![c] = d]
  /\ status' = [status EXCEPT ![c] = IF Matches(j, d) THEN "304" ELSE "200"]
  /\ UNCHANGED <<database, memory, pc, todo, pending>>

Fetch(c, j, miss) ==
  \/ MemoryHit(c, j)
  \/ memory[j.worker][j.key] = None /\ Begin(c, j, miss)

GetTopic(c) ==
  \E w \in Workers, t \in Topics : \E copy \in {None, Held(c, t)} :
    Fetch(c, Request("get_topic", w, t, copy), "get_cached")

TopicTree(c) ==
  \E w \in Workers : Fetch(c, Request("topic_tree", w, Tree, None), "head")

GetBootstrapIgnoringRefresh(c) ==
  \E w \in Workers, op \in {"bootstrap", "refresh_bootstrap"} :
    Fetch(c, Request(op, w, Bootstrap, None), "get_cached")

GetBootstrap(c) ==
  \E w \in Workers, copy \in {None, Held(c, Bootstrap)} :
    \/ Fetch(c, Request("bootstrap", w, Bootstrap, copy), "get_cached")
    \/ Begin(c, Request("refresh_bootstrap", w, Bootstrap, copy), "head")

WriteTopics(c) ==
  /\ Len(commits) < MaxCommits
  /\ \E w \in Workers, op \in Writes : Begin(c, Request(op, w, Bootstrap, None), "write")

RebuildBootstrap(c) ==
  \E w \in Workers :
    Begin(c, Request("rebuild_bootstrap", w, Bootstrap, None), "head")

RebuildTopics(c) ==
  \E w \in Workers :
    Begin(c, Request("rebuild_topics", w, Bootstrap, None), "invalidate_topics")

ClearBootstrap(c) ==
  \E w \in Workers :
    Begin(c, Request("clear_bootstrap", w, Bootstrap, None), "clear")

-----------------------------------------------------------------------------
(* The statements on app_cache.                                            *)

CacheSteps == {"get_cached", "set_cached", "invalidate_bootstrap", "delete_bootstrap",
               "invalidate_topics", "delete_topics"}

\* Where a request goes on after a get_cached that found nothing, a
\* set_cached or an invalidate, whether it failed or not.
After(c) ==
  CASE pc[c] = "get_cached" -> "head"
    [] pc[c] = "set_cached" -> IF job[c].op = "rebuild_topics" THEN "raise" ELSE "store"
    [] pc[c] \in {"invalidate_bootstrap", "delete_bootstrap"} ->
         IF job[c].op = "clear_bootstrap" THEN "commit" ELSE "invalidate_topics"
    [] OTHER -> IF job[c].op = "rebuild_topics" THEN "drop" ELSE "commit"

\* The except branches of get_cached, set_cached and invalidate: the session
\* is rolled back, the write of the request included.
Swallow(c) ==
  /\ pc[c] \in CacheSteps
  /\ Rollback(c)
  /\ Goto(c, After(c))
  /\ job' = [job EXCEPT ![c].swallowed = @ \/ DOMAIN draft[c] # {}]
  /\ todo' = [todo EXCEPT ![c] = IF Deleting(c) THEN {} ELSE @]
  /\ UNCHANGED <<database, memory, doc, status>>

\* The rows that the statement of c has still to lock.
Wanted(c) ==
  CASE pc[c] = "set_cached" -> {job[c].key}
    [] Deleting(c) -> todo[c]
    [] OTHER -> {}

Waiting(c) == Wanted(c) # {} /\ \A k \in Wanted(c) : ~RowFree(c, k)

\* c is one of the sessions that wait for each other in a cycle.
Deadlocked(c) ==
  \E S \in SUBSET Clients :
    /\ c \in S
    /\ \A d \in S : Waiting(d) /\ \E o \in S \ {d} : DOMAIN rows[o] \cap Wanted(d) # {}

\* A statement that cannot succeed.
MustFail(c) == Swallow(c) /\ (~migrated \/ Deadlocked(c))

-----------------------------------------------------------------------------
(* Steps of a read.                                                        *)

\* BootstrapRepository.get_cached: a miss falls through to the build.
GetCached(c) ==
  LET row == app_cache[job[c].key] IN
  /\ pc[c] = "get_cached"
  /\ migrated
  /\ doc' = [doc EXCEPT ![c] = row]
  /\ Goto(c, IF row = None THEN After(c) ELSE "adopt")
  /\ UNCHANGED <<database, memory, job, todo, pending, status>>

Adopt(c) ==
  /\ pc[c] = "adopt"
  /\ Remember(job[c].worker, job[c].key, doc[c])
  /\ Serve(c, doc[c])
  /\ UNCHANGED database

ReadHeadSkipLocked(c) ==
  /\ pc[c] = "head"
  /\ ~TopicsFree(c, {job[c].key})
  /\ Finish(c, "404", None)
  /\ UNCHANGED <<database, memory>>

\* The first statement of a build.  A topic that is not live is a 404; a
\* rebuild passes over it.
ReadHead(c) ==
  LET k == job[c].key
      found == k \in Topics => k \in Live(Len(commits)) IN
  /\ pc[c] = "head"
  /\ \/ /\ found
        /\ doc' = [doc EXCEPT ![c] = Now]
        /\ Goto(c, "tail")
        /\ UNCHANGED <<job, todo, status, pending>>
     \/ /\ ~found
        /\ job[c].op = "rebuild_topics"
        /\ Goto(c, "next")
        /\ UNCHANGED <<request, status, pending>>
     \/ /\ ~found
        /\ job[c].op # "rebuild_topics"
        /\ Finish(c, "404", None)
  /\ UNCHANGED <<database, memory>>

ReadTail(c) ==
  /\ pc[c] = "tail"
  /\ doc' = [doc EXCEPT ![c].tail = Len(commits)]
  /\ Goto(c, IF job[c].op \in {"get_topic", "topic_tree"} THEN "built" ELSE "set_cached")
  /\ UNCHANGED <<database, memory, job, todo, pending, status>>

\* get_topic answers 304 before it caches anything; topic_tree caches in
\* memory only.
Built(c) ==
  /\ pc[c] = "built"
  /\ \/ /\ job[c].op = "get_topic"
        /\ Matches(job[c], doc[c])
        /\ Finish(c, "304", doc[c])
        /\ UNCHANGED memory
     \/ /\ job[c].op = "get_topic"
        /\ ~Matches(job[c], doc[c])
        /\ Remember(job[c].worker, job[c].key, doc[c])
        /\ Goto(c, "set_cached")
        /\ UNCHANGED <<request, pending, status>>
     \/ /\ job[c].op = "topic_tree"
        /\ Remember(job[c].worker, Tree, doc[c])
        /\ Serve(c, doc[c])
  /\ UNCHANGED database

\* BootstrapRepository.set_cached: an upsert in the open transaction.
SetCached(c) ==
  /\ pc[c] = "set_cached"
  /\ migrated
  /\ RowFree(c, job[c].key)
  /\ PutRow(c, job[c].key, doc[c])
  /\ Goto(c, After(c))
  /\ UNCHANGED <<database, memory, request, draft, status>>

\* The commit of a fill, and the answer of the requests that end with it.
Store(c) ==
  /\ pc[c] = "store"
  /\ CommitSession(c)
  /\ CASE job[c].op = "get_topic" -> Close(c, "200", doc[c])
       [] job[c].op = "bulk_upsert_fast" -> Close(c, "done", None)
       [] job[c].op = "rebuild_bootstrap" -> Goto(c, "drop") /\ UNCHANGED <<job, doc, status>>
       [] OTHER -> Goto(c, "publish") /\ UNCHANGED <<job, doc, status>>
  /\ UNCHANGED <<migrated, memory>>

Publish(c) ==
  /\ pc[c] = "publish"
  /\ Remember(job[c].worker, Bootstrap, doc[c])
  /\ Serve(c, doc[c])
  /\ UNCHANGED database

-----------------------------------------------------------------------------
(* Steps of the admin endpoints.                                           *)

Created(s) ==
  IF s.phase = "absent"
  THEN {[phase |-> p, version |-> 1, edition |-> 1] : p \in {"draft", "published"}}
  ELSE {}

\* A body edit counts a version; any other edit (status, title, sections)
\* leaves the version and the body hash as they are.
Updated(s) ==
  IF s.phase \in {"draft", "published"}
  THEN {[phase |-> p, version |-> v, edition |-> s.edition + 1] :
          p \in {"draft", "published"}, v \in {s.version, s.version + 1}}
  ELSE {}

ArchivedByStatusOnly(s) ==
  IF s.phase \in {"draft", "published"} THEN {[s EXCEPT !.phase = "archived"]} ELSE {}

Archived(s) ==
  IF s.phase \in {"draft", "published"}
  THEN {[phase |-> "deleted", version |-> s.version, edition |-> s.edition + 1]}
  ELSE {}

Results(op, s) ==
  CASE op = "create_topic" -> Created(s)
    [] op = "update_topic" -> Updated(s)
    [] op = "delete_topic" -> Archived(s)
    [] op = "reindex_search" -> IF s.phase = "absent" THEN {} ELSE {s}
    [] OTHER -> Created(s) \cup Updated(s)

\* The topics one request writes: bulk requests any subset (insert_only and
\* update_only skip the others), a reindex every row.
Targets(op) ==
  CASE op \in {"bulk_upsert", "bulk_upsert_fast"} -> SUBSET Topics
    [] op = "reindex_search" -> {{t \in Topics : Latest[t].phase # "absent"}}
    [] OTHER -> {{t} : t \in Topics}

\* The repository call of a write, once the rows it changes are free.
Write(c) ==
  LET op == job[c].op IN
  /\ pc[c] = "write"
  /\ \E S \in Targets(op) :
       /\ TopicsFree(c, S)
       /\ \E change \in [S -> UNION {Results(op, Latest[t]) : t \in S}] :
            /\ \A t \in S : change[t] \in Results(op, Latest[t])
            /\ draft' = [draft EXCEPT ![c] = change]
            /\ job' = [job EXCEPT ![c].change = change]
  /\ Goto(c, "clear")
  /\ UNCHANGED <<database, memory, doc, todo, rows, status>>

\* A write that comes to nothing: no live row (404), a slug that is taken, a
\* repeated section slug.
Refuse(c) ==
  /\ pc[c] = "write"
  /\ Finish(c, "failed", None)
  /\ UNCHANGED <<database, memory>>

ClearTopicMemoryOnly(c) ==
  /\ pc[c] = "clear"
  /\ Forget(job[c].worker, Topics \cup {Tree})
  /\ Goto(c, "invalidate_bootstrap")
  /\ UNCHANGED <<database, request, pending, status>>

\* _clear_content_caches and the first line of clear_bootstrap_cache: the
\* memory of the worker that runs the request.
ClearMemory(c) ==
  /\ pc[c] = "clear"
  /\ Forget(job[c].worker, IF job[c].op = "clear_bootstrap" THEN {Bootstrap} ELSE Keys)
  /\ Goto(c, "invalidate_bootstrap")
  /\ UNCHANGED <<database, request, pending, status>>

\* BootstrapRepository.invalidate: the DELETE takes its snapshot, and is done
\* when it finds nothing.
Invalidate(c, K, deleting) ==
  LET found == {k \in K : app_cache[k] # None} IN
  /\ migrated
  /\ todo' = [todo EXCEPT ![c] = found]
  /\ Goto(c, IF found = {} THEN After(c) ELSE deleting)
  /\ UNCHANGED <<database, memory, job, doc, pending, status>>

InvalidateBootstrap(c) ==
  /\ pc[c] = "invalidate_bootstrap"
  /\ Invalidate(c, {Bootstrap}, "delete_bootstrap")

InvalidateWrongPrefix(c) ==
  /\ pc[c] = "invalidate_topics"
  /\ Invalidate(c, {Bootstrap}, "delete_topics")

InvalidateTopics(c) ==
  /\ pc[c] = "invalidate_topics"
  /\ Invalidate(c, Topics \cup {Tree}, "delete_topics")

\* The DELETE locks and deletes its rows one by one, in any order, waiting for
\* the transactions that hold them and passing over what they delete.
DeleteRow(c) ==
  /\ Deleting(c)
  /\ \/ \E k \in todo[c] :
          /\ RowFree(c, k)
          /\ PutRow(c, k, None)
          /\ todo' = [todo EXCEPT ![c] = @ \ {k}]
          /\ Goto(c, IF todo[c] = {k} THEN After(c) ELSE pc[c])
     \/ /\ todo[c] = {}
        /\ Goto(c, After(c))
        /\ UNCHANGED <<rows, todo>>
  /\ UNCHANGED <<database, memory, job, doc, draft, status>>

CommitForgotten(c) ==
  /\ pc[c] = "commit"
  /\ Finish(c, "done", None)
  /\ UNCHANGED <<database, memory>>

\* The commit of an admin request.  bulk_upsert_topics_fast goes on to
\* rebuild the bootstrap row.
Commit(c) ==
  /\ pc[c] = "commit"
  /\ CommitSession(c)
  /\ \/ job[c].op = "bulk_upsert_fast" /\ Goto(c, "head") /\ UNCHANGED <<job, doc, status>>
     \/ job[c].op # "bulk_upsert_fast" /\ Close(c, "done", None)
  /\ UNCHANGED <<migrated, memory>>

\* cache.delete_prefix after a rebuilt bootstrap row, and before topics are
\* rebuilt.
DropMemory(c) ==
  /\ pc[c] = "drop"
  /\ \/ /\ job[c].op = "rebuild_bootstrap"
        /\ Forget(job[c].worker, {Bootstrap})
        /\ Finish(c, "done", None)
     \/ /\ job[c].op = "rebuild_topics"
        /\ Forget(job[c].worker, Topics \cup {Tree})
        /\ Goto(c, "list")
        /\ UNCHANGED <<request, pending, status>>
  /\ UNCHANGED database

ListTopics(c) ==
  /\ pc[c] = "list"
  /\ todo' = [todo EXCEPT ![c] = Live(Len(commits))]
  /\ Goto(c, "next")
  /\ UNCHANGED <<database, memory, job, doc, pending, status>>

NextTopicAgain(c) ==
  /\ pc[c] = "next"
  /\ \/ \E t \in todo[c] : job' = [job EXCEPT ![c].key = t] /\ Goto(c, "head")
     \/ todo[c] = {} /\ Goto(c, "commit") /\ UNCHANGED job
  /\ UNCHANGED <<database, memory, doc, todo, pending, status>>

NextTopic(c) ==
  /\ pc[c] = "next"
  /\ \/ \E t \in todo[c] :
          /\ todo' = [todo EXCEPT ![c] = @ \ {t}]
          /\ job' = [job EXCEPT ![c].key = t]
          /\ Goto(c, "head")
     \/ todo[c] = {} /\ Goto(c, "commit") /\ UNCHANGED <<job, todo>>
  /\ UNCHANGED <<database, memory, doc, pending, status>>

\* rebuild_topic_detail_cache names settings, which admin.py never imports:
\* after each set_cached the NameError is caught and the session rolled back.
Raise(c) ==
  /\ pc[c] = "raise"
  /\ Rollback(c)
  /\ Goto(c, "next")
  /\ UNCHANGED <<database, memory, request, status>>

-----------------------------------------------------------------------------
(* The environment.                                                        *)

\* JsonCache.get drops an entry whose TTL has passed.
Expire(w, k) ==
  /\ memory[w][k] # None
  /\ Forget(w, {k})
  /\ UNCHANGED <<database, pc, request, pending, status>>

\* A worker dies and is started again: its memory cache is empty, its open
\* requests get no answer ("lost") and their transactions are rolled back.
Restart(w) ==
  LET lost == {c \in Clients : pc[c] # "idle" /\ job[c].worker = w} IN
  /\ Forget(w, Keys)
  /\ pc' = [c \in Clients |-> IF c \in lost THEN "idle" ELSE pc[c]]
  /\ status' = [c \in Clients |-> IF c \in lost THEN "lost" ELSE status[c]]
  /\ doc' = [c \in Clients |-> IF c \in lost THEN None ELSE doc[c]]
  /\ todo' = [c \in Clients |-> IF c \in lost THEN {} ELSE todo[c]]
  /\ draft' = [c \in Clients |-> IF c \in lost THEN NoDraft ELSE draft[c]]
  /\ rows' = [c \in Clients |-> IF c \in lost THEN NoRows ELSE rows[c]]
  /\ UNCHANGED <<database, job>>

\* alembic upgrade to 0002 creates the app_cache table.
Migrate ==
  /\ ~migrated
  /\ migrated' = TRUE
  /\ UNCHANGED <<commits, app_cache, memory, pc, request, pending, status>>

-----------------------------------------------------------------------------
(* The specification.                                                      *)

Init ==
  /\ \E start \in [Topics -> {[phase |-> "absent", version |-> 0, edition |-> 0],
                              [phase |-> "published", version |-> 1, edition |-> 1]}] :
       commits = <<start>>
  /\ app_cache = [k \in Keys |-> None]
  /\ migrated = AppCacheAtStart
  /\ memory = [w \in Workers |-> [k \in Keys |-> None]]
  /\ pc = [c \in Clients |-> "idle"]
  /\ job = [c \in Clients |->
       [op |-> "bootstrap", worker |-> CHOOSE w \in Workers : TRUE,
        key |-> Bootstrap, copy |-> None, since |-> 1, change |-> NoDraft,
        swallowed |-> FALSE]]
  /\ doc = [c \in Clients |-> None]
  /\ todo = [c \in Clients |-> {}]
  /\ draft = [c \in Clients |-> NoDraft]
  /\ rows = [c \in Clients |-> NoRows]
  /\ status = [c \in Clients |-> "none"]

Start(c) ==
  \/ GetTopic(c) \/ TopicTree(c) \/ GetBootstrap(c) \/ WriteTopics(c)
  \/ RebuildBootstrap(c) \/ RebuildTopics(c) \/ ClearBootstrap(c)

Step(c) ==
  \/ GetCached(c) \/ Adopt(c) \/ ReadHead(c) \/ ReadTail(c) \/ Built(c)
  \/ SetCached(c) \/ Store(c) \/ Publish(c)
  \/ Write(c) \/ Refuse(c) \/ ClearMemory(c)
  \/ InvalidateBootstrap(c) \/ InvalidateTopics(c) \/ DeleteRow(c) \/ Commit(c)
  \/ DropMemory(c) \/ ListTopics(c) \/ NextTopic(c) \/ Raise(c)

Environment ==
  \/ \E w \in Workers, k \in Keys : Expire(w, k)
  \/ \E w \in Workers : Restart(w)
  \/ Migrate

Next == (\E c \in Clients : Start(c) \/ Step(c) \/ Swallow(c)) \/ Environment

Spec == Init /\ [][Next]_vars

\* PostgreSQL hands a row lock to its waiters in order and ends a deadlock by
\* failing a statement, and the event loop resumes every request whose
\* statement has returned.  Clients need not ask, statements that can succeed
\* need not fail, entries need not expire, workers need not die.
FairSpec == Spec /\ \A c \in Clients : SF_vars(Step(c)) /\ WF_vars(MustFail(c))

-----------------------------------------------------------------------------
(* Properties.                                                             *)

Steps == {"idle", "get_cached", "adopt", "head", "tail", "built", "set_cached",
          "store", "publish", "write", "clear", "invalidate_bootstrap",
          "delete_bootstrap", "invalidate_topics", "delete_topics", "commit",
          "drop", "list", "next", "raise"}
Answers == {"none", "200", "304", "404", "done", "failed", "lost"}

IsPartial(f, D, R) == DOMAIN f \subseteq D /\ f \in [DOMAIN f -> R]

IsJob(j) ==
  /\ DOMAIN j = {"op", "worker", "key", "copy", "since", "change", "swallowed"}
  /\ j.op \in Reads \cup Writes \cup Admin
  /\ j.worker \in Workers
  /\ j.key \in Keys
  /\ j.copy \in Doc \cup {None}
  /\ j.since \in 1..Len(commits)
  /\ IsPartial(j.change, Topics, TopicState)
  /\ j.swallowed \in BOOLEAN

\* Every variable has its type; the history of contents is never empty.
TypeOK ==
  /\ commits \in Seq(Content) /\ Len(commits) > 0
  /\ app_cache \in [Keys -> Doc \cup {None}]
  /\ migrated \in BOOLEAN
  /\ memory \in [Workers -> [Keys -> Doc \cup {None}]]
  /\ pc \in [Clients -> Steps]
  /\ DOMAIN job = Clients /\ \A c \in Clients : IsJob(job[c])
  /\ doc \in [Clients -> Doc \cup {None}]
  /\ todo \in [Clients -> SUBSET Keys]
  /\ DOMAIN draft = Clients /\ \A c \in Clients : IsPartial(draft[c], Topics, TopicState)
  /\ DOMAIN rows = Clients /\ \A c \in Clients : IsPartial(rows[c], Keys, Doc \cup {None})
  /\ status \in [Clients -> Answers]

\* A document that some build of key k can have read in the history h: its
\* statements ran in order and found committed content, and a topic's own row
\* was published when it was read.
Genuine(h, k, d) ==
  d # None =>
    /\ d.head \in 1..d.tail
    /\ d.tail <= Len(h)
    /\ k \in Topics => h[d.head][k].phase = "published"

\* Whatever the interleaving of builds, writes, archivals and restarts, no
\* cache, open transaction, answer or conditional request ever holds a topic
\* whose own row was not published when it was read (the WHERE clause of
\* get_topic_detail_payload_fast, carried through both caches).
OnlyPublishedRows ==
  /\ \A k \in Keys : Genuine(commits, k, app_cache[k])
  /\ \A w \in Workers, k \in Keys : Genuine(commits, k, memory[w][k])
  /\ \A c \in Clients : \A k \in DOMAIN rows[c] : Genuine(commits, k, rows[c][k])
  /\ \A c \in Clients : Genuine(commits, job[c].key, job[c].copy)
  /\ \A c \in Clients : status[c] \in {"200", "304"} => Genuine(commits, job[c].key, doc[c])

\* The change of request j is in a content committed since it began.
Committed(h, j) ==
  \E i \in j.since..Len(h) : \A t \in DOMAIN j.change : h[i][t] = j.change[t]

\* A write that was answered with success is in the committed content, or was
\* and has been written over, unless a failed cache statement of the same
\* request took it away: other writers, other requests' failures, deadlock
\* victims and a worker's death lose nothing that was acknowledged.
OnlySwallowedWritesAreLost ==
  \A c \in Clients : status[c] = "done" /\ job[c].op \in Writes =>
    Committed(commits, job[c]) \/ job[c].swallowed

\* A 404 is never wrong: the topic was not published at some moment of the
\* request.
NotFoundWasTrue ==
  \A c \in Clients : status[c] = "404" =>
    \E i \in job[c].since..Len(commits) : commits[i][job[c].key].phase # "published"

\* GET /bootstrap?refresh=true ("Force rebuild of bootstrap cache") answers
\* with nothing older than the request, whatever is cached meanwhile.
RefreshIsCurrent ==
  \A c \in Clients : status[c] = "200" /\ job[c].op = "refresh_bootstrap" =>
    doc[c].head >= job[c].since

\* One caller at a time, the app_cache table never disagrees with the topics,
\* not even between the steps of a write or of a rebuild: the rows are deleted
\* by the transaction that outdates them.
PersistentCacheFresh ==
  \A k \in Keys : app_cache[k] # None => Fresh(k, app_cache[k])

\* The same of the memory of a worker that handles every request, although it
\* is cleared before the commit.
MemoryFresh ==
  \A w \in Workers, k \in Keys : memory[w][k] # None => Fresh(k, memory[w][k])

\* Of one caller on one worker, every 200 shows the committed content, and
\* every 304 confirms a copy whose validator is that of the committed content:
\* all of the bootstrap document, but of a topic its version only, so that a
\* copy older than an edit of title, status, tags or sections is confirmed.
AnswersAreCurrent ==
  \A c \in Clients :
    /\ status[c] = "200" => Fresh(job[c].key, doc[c])
    /\ status[c] = "304" => ETag(job[c].key, job[c].copy) = ETag(job[c].key, Now)

\* Every request is answered, though sessions wait for each other's rows.
RequestsFinish == \A c \in Clients : pc[c] # "idle" ~> pc[c] = "idle"

(* What the documentation says and these steps do not keep.                *)

\* app/repositories/bootstrap.py:64 "Keep API functional even before app_cache
\* migration is applied.": a write that was answered with success is in the
\* committed content, or was and has been written over.
AcknowledgedWriteIsDurable ==
  \A c \in Clients : status[c] = "done" /\ job[c].op \in Writes => Committed(commits, job[c])

\* docs/ARCHITECTURE.md:46 "Public endpoints only return published,
\* non-deleted topics": a topic served was published at some moment of the
\* request.
PublicOnlyPublished ==
  \A c \in Clients : status[c] = "200" /\ job[c].key \in Topics =>
    \E i \in job[c].since..Len(commits) : commits[i][job[c].key].phase = "published"
=============================================================================
