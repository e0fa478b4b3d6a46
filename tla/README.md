# A formal model of the technical-notes backend

TLA+ models of the service in this repository (a FastAPI application over
PostgreSQL), model-checked with TLC on small instances and, for the parts named
below, proved with TLAPS for every value of the constants. Paths such as
`admin.py:125` are relative to the root, `app/`, `app/api/v1/routes/` or
`app/repositories/`; `PROJECT.json` gives the full path and lines of every
definition.

## 1. Inventory

| Component | State | Operations | Modelled in |
|---|---|---|---|
| Content caches (`core/cache.py`, `repositories/bootstrap.py`, `routes/topics.py`, `routes/bootstrap.py`, `routes/admin.py`) | per-worker memory cache with TTL; the `app_cache` table without one | GET topic / tree / bootstrap; invalidation by every admin write; cache rebuilds and clear | `ContentCache` |
| Topic store (`repositories/topics.py`, `models/content.py`, `schemas/topics.py`) | `topics`, `topic_sections`, `topic_revisions` | create, update, soft delete, bulk upsert (two variants) | `TopicStore` |
| Rate limiter (`core/middleware.py:35`) | per worker: a deque of times for each host and area | dispatch | `RateLimiter`, abstractly `SlidingWindow` |
| Section parser (`utils/text.py:54`) | a stack of open headings, a counter for each slug | markdown to section records with unique slugs | `SectionParser` |
| Listing and cursors (`topics.py:212`, `utils/http.py:33`) | none; the cursor is the client's | keyset pages | `TopicPages`, abstractly `KeyScan` |
| Exports (`routes/exports.py`) | none; the selection is the client's | manifest, hydrate | `TopicPages` |
| Taxonomy (`repositories/taxonomy.py`; get-or-create in `topics.py:578-630`) | groups, domains, tags, sources | lists with counts; get-or-create on write | group list in `TopicPages`, get-or-create in `CuratedImport`; races planned |
| Neon import (`import_notes_to_neon.py`) | CSV batches, attempts; the database | truncate, batched COPY with retries, checks | `NeonImport` over `ContentTables` |
| Curated import (`scripts/import_curated_notes.mjs`) | chunks left; the database behind the admin API | chunked posts, bootstrap rebuild | `CuratedImport`, both together `SeedImport` |
| Redis backend of the cache (`core/cache.py`) | external keys with TTL | get, set, scan and delete | planned |
| Search, tables browser, health, admin token, headers, configuration, logging, schemas | none of their own | read-only or stateless | not modelled: no state change to check |

How they interact. Every request passes the rate limiter of the worker it
reaches and gets one database session (`db/session.py`); it holds the session's
one transaction until it commits, or loses it when the session closes. Read
routes look in the worker's memory, then in `app_cache`, then build the document
with several SQL statements and fill both caches. Admin routes change rows, then
delete from both caches, then commit, in that order and in one transaction. The
workers share nothing but the database. The curated import is a client of the admin
API; the Neon import writes the tables itself, past the service and its caches.

What is hard. PostgreSQL at READ COMMITTED gives each *statement* its own
snapshot, so a build sees several contents; memory is cleared before the
commit; cache statements share their transaction with the write they belong to
and roll it back when they fail; versions are counted from loaded rows; DELETE
and INSERT of sections race; bulk requests lock rows in payload order; workers
die between two steps; deques forget what they have to count; a psql command may commit
and fail all the same, and nothing spans two of them; a post that timed out may
still commit; pages of a list are read while the list changes. `PROJECT.json`
lists each hazard at its line.

What makes each component correct:

- caches: only published rows are ever cached or served; a cached document
  agrees with the content or is invalidated by the transaction that outdates it;
  only a failed cache statement of its own request undoes an acknowledged write; a
  forced refresh is current; every request ends;
- store: the history of a topic has no gap and no repetition from its first revision
  on, and no lost edit; an archived row is frozen; `section_count` counts; imports do not block each other
  for good;
- rate limiter: its pruned deques decide what a full log would decide;
- parser: parents, paths, bodies and slugs are those that the headings of two to
  four marks define, although the loop keeps a stack, a counter and two indexes only;
- pages: a list only moves up, ends, and shows what was there all along exactly once;
- imports: batches arrive whole and in order, success means that all is stored, and
  a clean run, and a repeated one unless a topic was archived, repairs what a failed one left.

## 2. Modules

### ContentCache

One client makes one request at a time, on a worker of the model's choice.
`pc[c]` is the next statement or in-process step. Between two of them any other
client may run; this is exactly where the code awaits. Actions are named for the code:
`GetCached`, `SetCached`, `Invalidate` are the methods of `BootstrapRepository`
(the DELETE of the last finds its rows in `Invalidate` and locks them one by one, in
any order, in `DeleteRow`), `Swallow` the except branches of all three,
`ReadHead`/`ReadTail` the first and last SELECT of a build, `Built` and
`Publish` what the route does after it, `ClearMemory`, `InvalidateBootstrap`,
`InvalidateTopics`, `Commit` the steps of `_clear_content_caches` and the commit,
`ListTopics`, `NextTopic`, `Raise` the loop of `rebuild_topic_detail_cache`.

Three abstractions carry the model:

- *A document is the pair (head, tail)* of indexes into the history of committed
  contents: what its first and its last statement read. `View` says which part of
  a topic comes from which, `ETag` what the validator covers. Statements between
  the first and the last one (groups, domains, sources) are not distinguished.
- *A topic is (phase, version, edition)*: `phase` decides visibility, `version`
  is what a body edit counts, `edition` changes with every edit. A status other
  than published is `draft`.
- *A repository write is one step* (`Write`, or `Refuse` when it comes to
  nothing). `TopicStore` takes this step apart; here it is enough that the
  transaction holds its row locks until the end. A topic has one cache key: the
  code has one for each combination of query flags, all with the prefix `topics:`
  that the invalidation deletes.

The transaction of a session is `draft` (topics rows) and `rows` (`app_cache`
rows); another session that needs one of these rows waits (`TopicsFree`, `RowFree`).
`Rollback` clears both. Any statement on `app_cache` may fail at any time, whether
the table is missing, the connection is lost or a lock wait ends in a deadlock or a
timeout: `Swallow` rolls the whole session back, as the code does, and the request goes
on (`After`) to commit what is left; `job.swallowed` remembers that its topic write
went with it. Two failures cannot be avoided, a missing table (`migrated = FALSE`) and a
deadlock (`Deadlocked`); `MustFail` is `Swallow` in these states. `Expire` is the TTL
without time, `Restart` kills a worker with its requests and its memory.

### TopicStore

The transactions of `TopicRepository`, one SQL statement per action: `Load` (or
`Probe` for the compatibility bulk endpoint), `Erase`/`Erasing` (the DELETE of the
sections takes its snapshot, then waits), `Flush` (INSERT or UPDATE of the topics row),
`Insert` (one section), `Revise` (the last flush: section count and revision),
`Reread`, `Archive`, `Commit`. `Holds` says whose lock or unique key a statement
waits for; `Victim` is PostgreSQL's deadlock detector; `Die` a lost connection.
`work[c].base` is the row the session loaded, which SQLAlchemy counts the version
from and compares `section_count` with. A section row carries the request that wrote
it (`by`), which stands for its identity: a DELETE removes rows, not slugs.

Left out: titles, groups, domains, tags, sources and the columns derived from the
body; two items about one topic in one bulk request. After a probe, `Load` allows the
session to hold either the row as first read or as it is now.

`Init` starts with rows that earlier requests or `import_notes_to_neon.py` may have left
(`Stored`): a topic at version 1 with a section list whose slugs differ, as the unique key of
`topic_sections` demands. `create_topic` has left revision 1 of it; of a topic in `imported`
there is no revision, since the importer writes none (`import_notes_to_neon.py:463-498`), so
that its trail begins with 2 (`First`). `Importable` names the topics that may be so.

The parser path: a write without an explicit section list reaches `Parse`, which
fails, because `ParsedSection` has slots and `section.__dict__` raises. Any body,
even an empty one, parses to at least one section (`utils/text.py:56`), so this step
has no other outcome.

### RateLimiter and SlidingWindow

`dispatch` does not await between reading and appending, so a request is one step:
`Admit`, `Refuse` or `Probe`. `Area[p]` is what the bucket key keeps of a path.
`admitted` is a history variable, the log of everything let through. `SlidingWindow`
has the log and the answers only: it counts over the whole log.
`CountsEveryAdmission` says that `RateLimiter` implements it, with `now`,
`admitted` and `answer` mapped to themselves and `buckets` hidden.

### SectionParser and Slugs

A slug is the sequence of its hyphen-separated words, numbers included (`Slug` of
`NeonImport`), so that "a-2" is one slug whether a heading spells it or the parser counted to it. A
body is a sequence of non-empty lines; a line has its marks (0 to 4; a line with five is
text and counts as 0), the slug of its title and `bare` (marks and nothing else). Two to four
marks make a heading, one does not, as in `HEADING_RE`; the parser's own test wants one
mark to be a heading too (section 5).
`FindHeading` and `SkipLine` are `HEADING_RE.finditer`: the `\s+` after the marks
matches a line end too, so a bare line takes the next line as its title, and a
bare line at the end is no heading. `ParseHeading` is one iteration of the loop,
`ParsePlain` the body without headings. Paths are sequences of positions; the
code joins them with four digits each, which is the same up to 10,000 headings.
Plain text, word counts and hashes are left out.

### ContentTables, NeonImport, CuratedImport, SeedImport

`ContentTables` has the rows of six tables and the constraints that PostgreSQL checks
on every statement: keys, references, and body columns that must not be NULL.
Its other columns are left out; search documents are computed by triggers, which the
script's refresh repeats.

`NeonImport`: `GroupRows` to `LinkRows` are `build_rows`, `Plan` the commands of
`main` in order, `Chunked` the batches. Each command is a psql process and a
transaction: it commits (`Succeed`), commits while its answer is lost (`LoseAnswer`) or
fails (`FailAttempt`); `Retry` counts attempts and `GiveUp` ends the run. Ids
are drawn once per run, so a repeated COPY meets its own rows.

`CuratedImport`: a post is one transaction of the service and one step (`Post`;
`TopicStore` has its statements). `Upsert` is one item, on what the items before it
left; it fails on an archived topic, which its lookup passes over and whose unique slug the
INSERT meets. `PostTimesOut` leaves the chunk with the service, `LateCommit` commits it later.

`SeedImport` runs both on one database, in any interleaving, while topics may be archived
(`SoftDelete`, the service's `soft_delete_topic`). `CalmDown` is not code:
from then on no connection fails, no process is killed and no topic is archived, which the
recovery properties assume. `mixed` remembers which run another writer met, since neither
importer promises anything for rows somebody else truncates meanwhile.

### KeyScan and TopicPages

`TopicPages` has the topics table as readers see it. A page, the group list, a
manifest and the documents are one SELECT each (or further ones about rows that
nothing else depends on), so one step each; `Edit` is any admin change between them.
`Matching` is the query of `list_topics` with the row comparison of the cursor, `OrderBy` its order, a row being
represented by its key,
`HasNext` and `NextCursor` the row beyond the page. The group stands for all filters, which
are conditions of the same kind. `KeyScan` says what a listing promises:
the list stays sorted as it grows, so that every page starts strictly above the last, and a
page is the last or adds a key.
`PagesScan` says that the pages implement it, with `listed` and `open` mapped to
what the client has seen so far and whether it got a cursor.

### MC modules

`MCContentCache`, `MCTopicStore`, `MCRateLimiter`, `MCSectionParser`, `MCSeedImport`
and `MCTopicPages` hold the workloads, section lists, paths, lines, seeds and tables
that the configurations name.

## 3. What the runs check

Passing runs:

| Run | Instance | Properties |
|---|---|---|
| `serial` | 1 client, 1 worker, 2 topics, every endpoint, 3 contents | `TypeOK`, `PersistentCacheFresh`, `MemoryFresh`, `AnswersAreCurrent` |
| `topics` | 2 clients, 1 worker, 1 topic, GET topic, refresh, create, delete, rebuild, 3 contents | `OnlyPublishedRows`, `OnlySwallowedWritesAreLost`, `NotFoundWasTrue`, `RefreshIsCurrent` |
| `liveness` | 2 clients, 1 worker, 2 topics, GET topic, rebuild, reindex, from before the migration, 2 contents | `RequestsFinish` |
| `rate_limit` | 1 worker, 1 host, 4 paths in 2 areas, limit 2, window 2, time to 4 | `TypeOK`, `WindowBound`, `CountsEveryAdmission` |
| `store_edits` | 2 clients, 1 topic, created or imported, 2 bodies, 2 section lists, 3 requests | `TypeOK`, `RevisionTrail`, `AcknowledgedEditInHistory`, `ArchivedIsFrozen` |
| `store_serial` | 1 client, 1 topic, 4 section lists, every endpoint and mode, 3 requests | `SectionsMatchCount` |
| `store_bulk` | 2 clients, 2 topics, insert-only imports in either order, 2 requests | `RequestsFinish` |
| `parser` | every body of up to 5 lines from 9 kinds of line, text and one mark among them | `TypeOK`, `ParentIsNearestShallower`, `PathsNest`, `BodiesShareTheText`, `RepeatsAreTold` |
| `seed_import` | 2 runs in all, each of either script, 3 seeds, batches of 1 or 2 rows, chunks of 1, 2 attempts | `TypeOK`, `LoadedInOrder`, `CompletedRunIsExact`, `PostedIsStored`, `RunsEnd`, `CleanRunRecovers`, `RepostRecovers` |
| `pages` | 3 topics, 2 orders, 1 group, page sizes 1 and 2, 4 first tables, 2 selections, 2 edits | `TypeOK`, `PagesScan`, `NothingMissedOrRepeated`, `NoEmptyPage`, `GroupCountsAgree`, `ExportFollowsManifest` |

Runs that show where the code departs from what the repository says of it:

| Run | Property | What happens |
|---|---|---|
| `stale_public` | `PublicOnlyPublished` | GET topic and delete, 2 clients: `delete_topic` clears the memory before it commits; a GET that read the topic before fills it again, and after the commit the archived topic is served from it, until the TTL |
| `lost_write` | `AcknowledgedWriteIsDurable` | 1 client, before migration 0002: the DELETE of the invalidation fails and takes the topic write with it; the request commits nothing and answers success |

Each property of a passing run has a mutant, a faulty variant that stands next to
the definition it replaces (`CommitForgotten` next to `Commit`, ...), under which TLC finds
the property violated within the same bounds: the bounds are large enough for the
case the property is about.

Why these bounds. Two clients are enough for every race described above (a
reader and a writer, or two writers); a third adds no new pair of adjacent
steps. A race of the caches needs one key with two contents; `MaxCommits = 3`
leaves room for a write, a write over it and a read of the first one.
Two topics matter where one request touches several (bulk, rebuild, tree: `serial`;
lock order: `store_bulk`). The rate limiter needs limit + 1 admissions and time for a
window to pass twice. `MaxCommits`, `MaxWrites` and `MaxTime` appear in one guard
each (`WriteTopics`, `Begin`, `Tick`) and in no property. Five lines hold every shape
a stack of three levels can take (deeper, skipped, equal, back by one or two) and two repeated
titles with the number between them. Three topics at page size 1 or 2 have pages that are full,
exactly full at the end, and short; two edits move a topic across the cursor and
back. Two imports are a failed one and the one that meets what it left, or two
at once; the seeds are one that both importers take, one with a repeated slug and
an empty text, and one that names a source twice. `MaxEdits` bounds `Edit`, `MaxRuns`
`Start` and `StartCurated`; `Alone` reads it as "no further run", and
`RunsEnd` is about the runs that were started. The runs of `TopicStore`, the
parser, the imports and the pages end when their bound is reached, so they do not check deadlock; a session that
waits for ever would violate `RequestsFinish`.

Symmetry is used for clients in safety runs only.

In the runs of `ContentCache` every cache statement may fail at any time; `serial`,
`topics` and `stale_public` have the table from the start, `liveness` and `lost_write` do not.

Fairness. `ContentCache!FairSpec` and `TopicStore!FairSpec` assume strong fairness of each
client's next step: PostgreSQL queues lock waiters in order of arrival, so a row
that is released again and again reaches every waiter, and the event loop
resumes each request whose statement has returned. `TopicStore` adds weak fairness of
`Victim` and `ContentCache` of `MustFail`, since `deadlock_timeout` is finite and a statement
on a missing table fails. Nothing is assumed of clients, of `Swallow` otherwise, of
`Expire`, `Restart`, `Migrate` or `Die`. `SeedImport!FairSpec` has weak fairness of
the scripts' next step: a process that is not killed goes on, and each step is a command or
a request that ends. It is fairness of the two together: since
neither waits for the other and each has finitely many steps left, both end.
Nothing is assumed of kills, lost answers, late commits or of `CalmDown`; the premises of
`CleanRunRecovers` and `RepostRecovers` name the states in which the connection holds and no
abandoned post still runs (`Alone`: one that commits later may undo either, see section 5),
and `Loadable`, `Postable` and `Archived` which seeds each importer accepts at all.

## 4. What is proved

All proofs are checked by TLAPS down to their leaves. Assumptions are the
named ASSUMEs of the modules (workers exist, the cache keys differ, `None` is
no document, body or section list, limit and window are natural numbers, a
line has at most four marks, slugs and orders are numbers, the table is finite, pages,
batches and chunks hold at least one row, a selection is a sequence of topic ids, a seed a
non-empty sequence of topics), which TLC evaluates too. A theorem that needs more says so in its
ASSUME; what it assumes is what the configuration of the run fixes.

`ContentCacheProofs`, for any number of clients, workers, topics and commits:

- `TypeCorrect`. `TypeOK` alone is not inductive: `ReadTail`, `SetCached` and the
  answers need a document, so `TypeInv` adds that a request at one of the steps
  `DocSteps` has one.
- `OnlyPublishedRowsServed`. The invariant `PublishedInv` adds that the document
  a request is building is genuine, too, and `LoopShape`: only a rebuild visits
  the loop's steps, only there does the key change after the request began. The history only
  grows, so what was genuine stays so (`GenuineKept`).
- `AcknowledgedWritesSurvive`: with or without `app_cache`, an acknowledged write is in the
  history unless a cache statement of the same request failed. `DurableInv` says what holds
  between the repository call and the answer: first the transaction holds the whole change,
  after the commit the history does, or else the request has swallowed a failure. That an
  acknowledged write is durable without exception is false (`lost_write`).

`ContentAnswersProofs`, about the same model:

- `NotFoundIsTrue` and `RefreshesAreCurrent`, for any number of clients.
  `AnswerInv` says that a request under way has no answer yet, that a 404 is backed
  by a content since its request began, and that a refresh visits no step at which it
  would look into a cache, so that its document starts no earlier than itself.
- `AloneTableIsFresh`, for one caller on any number of workers. `AloneInv` says that the
  caller is never disturbed (`Undisturbed`): a transaction with a write is between its
  repository call and its commit, its DELETEs cover every row that the write
  outdates, and a build has read the latest content. That is what makes
  an invalidation in the same transaction enough.
- `AloneMemoryIsFresh` and `AnswersAreCurrentAlone`, for one caller on one worker.
  `OneWorkerInv` adds that the memory is empty from its clearing to the commit
  (`Served`), which with a second caller or worker is false. Of a 304 the second theorem
  says what it confirms, the validator of the committed content (`Confirmed`): of a
  topic that is the version of its body, so that a client may keep a copy from before its own
  edit of title, tags or sections.

`TopicStoreProofs`, for any number of clients, topics, bodies and lists, and any
requests:

- `TypeCorrect`. `TypeInv` adds what a request has at each step (`Shape`) and that an
  uncommitted topics row, and the deletion of a section row, belongs to one session
  (`Locks`): the lock discipline that everything else rests on.
- `RevisionTrailKept`. `TrailInv` says of each uncommitted row where it is between the flush
  of a new body and the revision of it (`DraftStates`: clean, pending or revised), and
  that the base row, which may be stale, is never ahead (`BaseNotAhead`). A stale base
  gives a version that exists already, and the unique key of the revisions refuses it: the
  trail has no gap because whoever counts from an old row fails. The trail of an imported
  topic begins with its first edit; the body it came with is in no revision.
- `EditsKept`. `EditInv` follows an edit from the request through the uncommitted
  revision to the committed one.
- `ArchivedStaysFrozen`, without bulk requests, as in the run; and
  `SingleRequestsSpareArchived`, which has no such assumption: no PATCH, POST or DELETE changes an
  archived row, bulk requests beside it or not. `FrozenInv`: only a PATCH can
  draft an archived topic, and it does not get past its last SELECT.

`TopicSectionsProofs`: `SectionsAreCounted`, for one caller. `SectionsInv` counts at every
step of a replacement the rows in place and those still to come (`Progress`): together
they are the count that will be stored, while every other topic has the count it had.
With two callers it is false (section 5).

`TopicPagesProofs`, for any tables, page sizes and edits between the pages:

- `PagesGoUp`, the refinement of `KeyScan`, `EveryTopicIsMetOnce`, `PagesAreNotEmpty`
  and `GroupsCountTheirTopics`. `PagesInv` says what a client has at its cursor: a sorted list
  that ends there (`CursorIsLast`), with every topic that matches up to the cursor
  and that nobody changed, where it is in the table (`Covered`); and as long as nothing changes there is a row
  beyond the cursor (`Promised`). The properties speak of finished listings and
  of empty pages only, so none of them is inductive.
- `PagesTypeCorrect`, and `DocumentsFollowManifest` for any selections, unknown, archived and repeated
  ids included. `ExportInv` says that until something changes the manifest is what the table still answers
  (the property speaks only of the time after the hydrate), and that the documents are
  a choice among the entries of the selection, in its order. `ElementsKeepOrder` is the lemma it rests on: picking
  the elements at given positions keeps their order.
- ORDER BY is defined by choice (`OrderBy`), so `OrderBySorts` proves that every
  finite set of keys has a sorted list and that it has each key once.

`RateLimiterProofs`, for every limit and window, zero included:

- `TypeCorrect`, `WindowBoundHolds`, and `DecidesLikeTheFullLog`, the refinement
  of `SlidingWindow`. `Inv` says what a deque has kept: it is the tail of the log,
  the log is sorted, what was dropped has expired (`Kept`), and admissions Limit apart
  are a window apart (`Spaced`). `Decision` derives from it that the length of
  the pruned deque is the number of admissions in the window.

`SectionParserProofs`, for bodies of any length, any lines and any words:

- `TypeCorrect`. `Inv` adds that headings lie one after the other in the text
  (`Found`), that entry n of the stack is deeper than n (`Stacked`), so that it has at most
  three and popping ends (`OpenIsPrefix`), and that no counter exceeds the number of sections.
- `ParentsAreNearest` and `PathsAreNested`. What has been popped is gone, so the
  properties are not inductive. `Nested` says what the stack still knows: every
  section so far is covered by an entry, the first one it does not lie after, and is
  at least as deep. `StackSorts` derives from it that the entries which stay are
  exactly the sections the next heading lies in, which settles parent and path.

- `TextFromFirstHeadingIsShared` and `RepeatedTitlesDiffer`. `Shared` adds that the search has missed no line
  between two headings (`Headed`), that a body runs to the next heading, and that a slug is its base
  slug or a number that the counter has reached (`Slugged`). Lines before the first heading are in no section.

`SeedImportProofs`, about both importers on one database, for any seeds, batch and chunk sizes,
numbers of attempts and of runs:

- `SlugsAreUnique`: `ensure_unique_slug` over a list of any length. The number it looks for exists because the
  used slugs are finitely many (`EnsuredSlugIsFree`), so the loop ends.
- `ImportTypeCorrect`, `RunsLoadInOrder`, `SuccessIsExact` and `SuccessIsStored`: the safety properties of
  `seed_import`. The last three are about runs that no other writer met, no late commit and no archival
  among them (`mixed`). All four follow from `ImportInv`, which no step of either importer breaks:
  - `Sound`: keys, references and filled columns (`Keyed`, `Bound`, `Null`), and what
    makes them survive a statement: a row's id has the number of the run that wrote it and the
    row's own key (`Shaped`), and no row comes from a later run than the last (`Dated`), so that the
    rows of a new run meet none of their own.
  - `Scripted` and `PostsInOrder`: what is left to do is the end of a plan (or of the chunks) of a
    seed, so that success, which is an empty rest, means the whole plan.
  - `LoadInv`: the tables have exactly the rows of the first `done` commands, or of one more while
    an answer is lost (`Exactly`); a section of a run's topic comes from that run, which is what makes the count of
    the sections right; and after --clean nobody else's row is there. `LoadedInOrder` says the
    first only, without relating the plan to the seed, and is not inductive.
  - `PostInv`: of the items posted so far, the last one for each slug is stored (`Kept`), its
    source rows among it: a later item may add a source row, but none that an item stored before
    already has (`SourcesThere`), and it replaces the rows of its own topic only (`ItemIsUpserted`).
- The rows come from definitions by recursion (unique slugs, flattened lists, the items of a post, the
  links of a topic). The library's induction theorem takes an operator as a parameter, which the provers cannot
  instantiate; the lemmas about these definitions argue by the least number that is not in a
  set of good ones (`LeastNumber`, `Counting`), which is a set and can be cited.

Only model-checked: liveness, that is `RequestsFinish` (of the cache and of the store), `RunsEnd`,
`CleanRunRecovers` and `RepostRecovers`. They rest on fairness and ENABLED, which are beyond the prover. The two runs
that show a departure from the documentation are counterexamples and need no proof.

## 5. Not covered

- Agreement of caches under concurrency. It does not hold: a fill that read before a
  write can store after it, in memory and in `app_cache`. `serial` shows what one caller
  may rely on.
- Departures that the models exhibit and no run states:
  `settings` is not imported in `admin.py` (`admin.py:286`), so a rebuild of the detail
  cache fails at the first topic and rolls back every row it has written, where `admin.py:249`
  says it warms them; the topic validator covers the body only (`routes/topics.py:133`, README.md:600),
  so after an edit of title, tags or sections a client is told 304; the parser's test
  wants `# Title` to be a section and the parent of `## Child`
  (`tests/test_text_utils.py:8-13`), where `HEADING_RE` takes two to four marks
  (`text.py:8`): the code returns the section `Child` alone, without a parent, and the title and
  its introduction are in no section, so the test fails; a create without sections, or a body
  edit without a list, reaches `section.__dict__` of a dataclass with slots (`topics.py:667`,
  `text.py:38`) and is answered 500, where README.md:288 says "When content is created or
  updated, the repository layer computes and stores:" and README.md:294 "parsed section
  records"; a topic that `import_notes_to_neon.py` loaded has no revision 1
  (`import_notes_to_neon.py:463-498`), so that its original body is lost from the history once it
  is edited (docs/ARCHITECTURE.md:29: "topic_revisions keeps safe edit history"); a seed with a
  topic that was archived can never be posted again: the lookup passes over the archived row
  (`topics.py:705-707`) and the INSERT meets its slug (`topics.py:758`); an empty text is loaded as NULL and stops
  the Neon import half-way (`import_notes_to_neon.py:293`), and a source named twice stops its last COPY
  (`import_notes_to_neon.py:535`); a group whose topics are all drafts is not listed, while one without
  topics is, with 0 (`taxonomy.py:18`); a bare heading line takes the next line as its title (`text.py:8`);
  sections are read
  without a status condition, so a draft's sections can be served with the published row
  read before (`topics.py:441`, README.md:587); an import of an existing topic without sections
  deletes them (`topics.py:824`, README.md:288); two concurrent updates with explicit lists leave
  both lists (`topics.py:633`); the limiter's key is the same for every API path
  (`middleware.py:45`, README.md:592) and every worker counts for itself
  (`middleware.py:38`, README.md:503).
- Staleness across workers, which the TTL bounds: time is abstracted in `Expire`.
- Bulk imports that race an archival: they write to the archived row.
- The caches after a Neon import: it truncates the content tables and leaves
  `app_cache` alone (`import_notes_to_neon.py:558`), so the old documents are served on.
- Recovery while an abandoned post still runs: it may commit between or after the commands of
  a later run (`import_curated_notes.mjs:71`), which `Alone` excludes from `CleanRunRecovers` and
  `RepostRecovers`. Nor do these cover the seeds that an importer never accepts (`Loadable`, `Postable`).
- The components marked "planned" or "not modelled" in the inventory.

## 6. Plan

Done: `ContentCache`, `RateLimiter` with `SlidingWindow`, `TopicStore`, `SectionParser`,
the imports, `TopicPages` with `KeyScan`, and the proofs above: every safety property and every
refinement that the passing runs check is a theorem.

Next modules, in this order:

1. `TopicStore` shown to implement the one-step `Write`/`Refuse` of `ContentCache`.
2. `Taxonomy`: get-or-create of groups, domains, tags and sources under concurrent imports.
3. `JsonCache`: both backends with time, shown to implement a map with expiry; it
   justifies `Remember`, `Forget` and `Expire` of `ContentCache`.

Next theorem: `TopicStore` implements a store whose requests are one step each.
