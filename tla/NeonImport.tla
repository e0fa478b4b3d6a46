----------------------------- MODULE NeonImport -----------------------------
(***************************************************************************)
(* import_notes_to_neon.py: a seed file becomes rows, the rows become CSV  *)
(* batches, and psql loads one batch per command.  Every command is a      *)
(* transaction of its own and is tried up to Retries times; nothing spans  *)
(* two commands, so a run that stops leaves what it had loaded.            *)
(*                                                                         *)
(* A seed is a sequence of topics.  Slugs stand for the names they come    *)
(* from, and blank says that a text column is the empty string.  Row ids   *)
(* are drawn once per run (uuid4): the run and the row's own key.          *)
(*                                                                         *)
(* RetryForever and the other definitions that Next does not use are the   *)
(* faulty variants that the runs must tell from the code.                  *)
(***************************************************************************)
EXTENDS ContentTables, Slugs

CONSTANTS
  Words,         \* the words of slugs that are no numbers
  Names,         \* the names of source files
  Seeds,         \* the seed files there are
  TopicBatch,    \* rows per CSV file
  SectionBatch,
  LinkBatch,
  Retries,       \* attempts per psql command
  Options,       \* command lines: --clean, and no --skip-search-refresh
  MaxRuns        \* bound on the runs of the import scripts

ASSUME BatchAssumption == {TopicBatch, SectionBatch, LinkBatch} \subseteq Nat \ {0}

Slug == Seq(Words \cup Nat)
SeedSection == [id : Slug, blank : BOOLEAN]
SeedTopic == [id : Slug, group : Slug, domain : Slug, blank : BOOLEAN,
              sections : Seq(SeedSection), sources : Seq(Names)]

ASSUME SeedAssumption ==
  \A seed \in Seeds : seed \in Seq(SeedTopic) /\ seed # << >>  \* "No topics found"
ASSUME RunAssumption == Retries \in Nat /\ MaxRuns \in Nat
ASSUME OptionAssumption == Options \subseteq [clean : BOOLEAN, search : BOOLEAN]

VARIABLES
  script,   \* the process: its options, the commands left, failed attempts
  runs,     \* import runs started so far
  calm,     \* from now on no connection fails, no process is killed, no topic archived
  mixed     \* the scripts ("neon", "curated") whose run another writer met

-----------------------------------------------------------------------------
(* build_rows.                                                             *)

Lookup(n, slugs) == SetToSeq({[id |-> <<n, slug>>, slug |-> slug] : slug \in slugs})

GroupRows(n, seed) == Lookup(n, {seed[i].group : i \in DOMAIN seed})
DomainRows(n, seed) == Lookup(n, {seed[i].domain : i \in DOMAIN seed})

\* The source key carries a hash of the name.
SourceKey(name) == <<"hashed", name>>
SourceRows(n, seed) ==
  Lookup(n, {SourceKey(name) : name \in UNION {ToSet(seed[i].sources) : i \in DOMAIN seed}})

TopicSlugs(seed) == UniqueSlugs([i \in DOMAIN seed |-> seed[i].id])

\* The empty string is written as an empty CSV field, which COPY reads as NULL.
TopicRows(n, seed) ==
  [i \in DOMAIN seed |->
    [id |-> <<n, TopicSlugs(seed)[i]>>, slug |-> TopicSlugs(seed)[i],
     group |-> <<n, seed[i].group>>, domain |-> <<n, seed[i].domain>>,
     count |-> Len(seed[i].sections), null |-> seed[i].blank, live |-> TRUE]]

SectionsOf(n, topic, list) ==
  LET slugs == UniqueSlugs([j \in DOMAIN list |-> list[j].id]) IN
  [j \in DOMAIN list |->
    [id |-> topic.id \o <<slugs[j]>>, topic |-> topic.id, slug |-> slugs[j],
     null |-> list[j].blank]]

SectionRows(n, seed) ==
  FlattenSeq([i \in DOMAIN seed |-> SectionsOf(n, TopicRows(n, seed)[i], seed[i].sections)])

\* One link per mention: a source that a topic names twice is linked twice.
LinkRows(n, seed) ==
  FlattenSeq([i \in DOMAIN seed |->
    [j \in DOMAIN seed[i].sources |->
      [topic |-> TopicRows(n, seed)[i].id, source |-> <<n, SourceKey(seed[i].sources[j])>>]]])

-----------------------------------------------------------------------------
(* The commands of a run, in order.                                        *)

Copy(table, rows) == [op |-> "copy", table |-> table, rows |-> rows]
Truncate == [op |-> "truncate", table |-> "all", rows |-> << >>]
Select == [op |-> "select", table |-> "all", rows |-> << >>]

ChunkedFloor(table, rows, size) ==
  [k \in 1..(Len(rows) \div size) |->
    Copy(table, SubSeq(rows, (k - 1) * size + 1, k * size))]

Chunked(table, rows, size) ==
  LET last(k) == IF k * size < Len(rows) THEN k * size ELSE Len(rows) IN
  [k \in 1..((Len(rows) + size - 1) \div size) |->
    Copy(table, SubSeq(rows, (k - 1) * size + 1, last(k)))]

\* main: --clean truncates first, refresh_search and verify_counts only read
\* or rewrite what the triggers of the tables have computed already.
Plan(n, seed, options) ==
  (IF options.clean THEN <<Truncate>> ELSE << >>)
  \o <<Copy("groups", GroupRows(n, seed)), Copy("domains", DomainRows(n, seed))>>
  \o Chunked("topics", TopicRows(n, seed), TopicBatch)
  \o Chunked("topic_sections", SectionRows(n, seed), SectionBatch)
  \o <<Copy("source_files", SourceRows(n, seed))>>
  \o Chunked("topic_source_links", LinkRows(n, seed), LinkBatch)
  \o (IF options.search THEN <<Select>> ELSE << >>)
  \o <<Select>>

\* PostgreSQL accepts the command, and what the tables are then.
Accepts(cmd) == cmd.op = "copy" => Fits(db, cmd.table, cmd.rows)

LoadedKeepingSources(cmd) ==
  CASE cmd.op = "copy" -> With(db, cmd.table, cmd.rows)
    [] cmd.op = "truncate" -> [Empty EXCEPT !["source_files"] = db["source_files"]]
    [] OTHER -> db

Loaded(cmd) ==
  CASE cmd.op = "copy" -> With(db, cmd.table, cmd.rows)
    [] cmd.op = "truncate" -> Empty
    [] OTHER -> db

-----------------------------------------------------------------------------
Running == script.pc = "running"
Command == Head(script.todo)

Start ==
  /\ ~Running
  /\ runs < MaxRuns
  /\ runs' = runs + 1
  /\ mixed' = mixed \ {"neon"}
  /\ \E seed \in Seeds, options \in Options :
       \E plan \in {Plan(runs', seed, options)} :
         script' = [pc |-> "running", run |-> runs', seed |-> seed,
                    clean |-> options.clean, plan |-> plan, todo |-> plan, failures |-> 0]
  /\ UNCHANGED <<db, calm>>

\* run_psql, one attempt: psql reaches the database and the command commits.
Commits ==
  /\ Running /\ script.todo # << >> /\ script.failures < Retries
  /\ Accepts(Command)
  /\ db' = Loaded(Command)
  /\ mixed' = mixed \cup (IF Command.op = "select" THEN {} ELSE {"curated"})
  /\ UNCHANGED <<runs, calm>>

RetryForever == script' = script

Retry == script' = [script EXCEPT !.failures = @ + 1]

Succeed ==
  /\ Commits
  /\ script' = [script EXCEPT !.todo = Tail(@), !.failures = 0]

\* The connection breaks after the commit: psql fails although the rows are in.
LoseAnswer ==
  /\ ~calm
  /\ Commits
  /\ Retry

FailAttemptOnceMore ==
  /\ Running /\ script.todo # << >> /\ script.failures <= Retries
  /\ Accepts(Command) => ~calm
  /\ Retry
  /\ UNCHANGED <<db, runs, calm, mixed>>

\* A constraint refuses the command, or psql does not get through.
FailAttempt ==
  /\ Running /\ script.todo # << >> /\ script.failures < Retries
  /\ Accepts(Command) => ~calm
  /\ Retry
  /\ UNCHANGED <<db, runs, calm, mixed>>

GoOn ==
  /\ Running /\ script.todo # << >> /\ script.failures = Retries
  /\ script' = [script EXCEPT !.todo = Tail(@), !.failures = 0]
  /\ UNCHANGED <<db, runs, calm, mixed>>

\* The last error is raised and nothing catches it.
GiveUp ==
  /\ Running /\ script.todo # << >> /\ script.failures = Retries
  /\ script' = [script EXCEPT !.pc = "failed"]
  /\ UNCHANGED <<db, runs, calm, mixed>>

Complete ==
  /\ Running /\ script.todo = << >>
  /\ script' = [script EXCEPT !.pc = "done"]
  /\ UNCHANGED <<db, runs, calm, mixed>>

Killed ==
  /\ Running /\ ~calm
  /\ script' = [script EXCEPT !.pc = "failed"]
  /\ UNCHANGED <<db, runs, calm, mixed>>

NeonStep == Succeed \/ LoseAnswer \/ FailAttempt \/ GiveUp \/ Complete

NeonInit ==
  script = [pc |-> "failed", run |-> 0, seed |-> << >>, clean |-> FALSE,
            plan |-> << >>, todo |-> << >>, failures |-> 0]

NeonNext == Start \/ NeonStep \/ Killed
=============================================================================
