----------------------------- MODULE SeedImport -----------------------------
(***************************************************************************)
(* Both seed importers at work on one database, in any order, concurrently *)
(* and again after failures: import_notes_to_neon.py writes the tables     *)
(* itself, import_curated_notes.mjs through the admin API.                 *)
(***************************************************************************)
EXTENDS CuratedImport

vars == <<db, script, runs, calm, mixed, curated, inflight>>

\* An administrator archives a topic meanwhile: its row, its slug, sections and
\* links stay.
SoftDelete ==
  /\ ~calm
  /\ \E t \in db["topics"] :
       /\ t.live
       /\ db' = [db EXCEPT !["topics"] = (@ \ {t}) \cup {[t EXCEPT !.live = FALSE]}]
  /\ mixed' = {"neon", "curated"}
  /\ UNCHANGED <<script, runs, calm, curated, inflight>>

\* From now on nothing breaks and nobody archives.
CalmDown ==
  /\ ~calm
  /\ calm' = TRUE
  /\ UNCHANGED <<db, script, runs, mixed, curated, inflight>>

Init ==
  /\ db = Empty
  /\ runs = 0
  /\ calm = FALSE
  /\ mixed = {}
  /\ NeonInit
  /\ CuratedInit

Next ==
  \/ NeonNext /\ UNCHANGED <<curated, inflight>>
  \/ CuratedNext
  \/ SoftDelete
  \/ CalmDown

Spec == Init /\ [][Next]_vars

\* A process that is not killed goes on: sleeps and requests end.
FairSpec == Spec /\ WF_vars((NeonStep /\ UNCHANGED <<curated, inflight>>) \/ CuratedStep)

-----------------------------------------------------------------------------
(* Properties.                                                             *)

\* Every variable has its type: a command is attempted Retries times at most.
\* The rows of a post, which the model stores without asking PostgreSQL, leave
\* the keys unique, the references present and the body columns filled too, so
\* that the database refuses none of them.
TypeOK ==
  /\ \A table \in Tables : \A r \in db[table] :
       /\ ~Null(table, r)
       /\ \A q \in db[table] \ {r} : ~Clash(table, r, q)
       /\ \A ref \in References(table, r) : \E q \in db[ref[1]] : q.id = ref[2]
  /\ script.pc \in {"running", "done", "failed"}
  /\ script.failures \in 0..Retries
  /\ runs \in 0..MaxRuns
  /\ calm \in BOOLEAN
  /\ mixed \subseteq {"neon", "curated"}
  /\ curated.pc \in {"running", "rebuild", "done", "failed"}

RunOf(table, row) == IF table = "topic_source_links" THEN row.topic[1] ELSE row.id[1]

RowsOf(plan, table) ==
  UNION {ToSet(cmd.rows) : cmd \in {c \in ToSet(plan) : c.op = "copy" /\ c.table = table}}

\* A run of import_notes_to_neon.py that met no other writer has loaded the
\* first batches of its plan, whole and in order, and no others: however often
\* answers were lost, commands tried again and runs given up (run_psql,
\* copy_csv).
LoadedInOrder ==
  script.run # 0 /\ "neon" \notin mixed =>
    LET done == Len(script.plan) - Len(script.todo) IN
    \E k \in {done, done + 1} : \A table \in Tables :
      {r \in db[table] : RunOf(table, r) = script.run}
        = RowsOf(SubSeq(script.plan, 1, k), table)

\* When import_notes_to_neon.py reports success and nobody else wrote, every
\* row of the seed is there, after --clean no other, and each topic has as
\* many sections as its section_count says.
CompletedRunIsExact ==
  script.pc = "done" /\ "neon" \notin mixed =>
    /\ \A table \in Tables :
         /\ RowsOf(script.plan, table) \subseteq db[table]
         /\ script.clean => RowsOf(script.plan, table) = db[table]
    /\ \A t \in RowsOf(script.plan, "topics") :
         Cardinality({r \in db["topic_sections"] : r.topic = t.id}) = t.count

\* When import_curated_notes.mjs says "Import complete." and nobody else wrote
\* meanwhile, no abandoned post either, every topic is live and has the
\* sections and the sources its last record in the seed names, whatever an
\* earlier run had left there.
PostedIsStored ==
  curated.pc \in {"rebuild", "done"} /\ "curated" \notin mixed =>
    \A i \in DOMAIN curated.seed :
      LET item == curated.seed[i] IN
      (\A j \in DOMAIN curated.seed : j > i => curated.seed[j].id # item.id) =>
        \E t \in db["topics"] :
          /\ t.slug = item.id /\ t.live
          /\ t.count = Len(item.sections)
          /\ {r.slug : r \in {q \in db["topic_sections"] : q.topic = t.id}}
               = {s.id : s \in ToSet(item.sections)}
          /\ {r.source : r \in {q \in db["topic_source_links"] : q.topic = t.id}}
               = {r.id : r \in {q \in db["source_files"] :
                                  q.slug \in {<<"plain", name>> : name \in ToSet(item.sources)}}}

\* Every run ends, whatever fails meanwhile (run_psql's bounded retries).
RunsEnd == <>[](script.pc # "running" /\ curated.pc \notin {"running", "rebuild"})

Alone == calm /\ runs = MaxRuns /\ inflight = {}

\* What COPY accepts of any seed: no empty text, no source twice in a topic.
Loadable(seed) ==
  \A i \in DOMAIN seed :
    /\ ~seed[i].blank
    /\ \A j \in DOMAIN seed[i].sections : ~seed[i].sections[j].blank
    /\ IsInjective(seed[i].sources)

\* Whatever earlier runs, the other importer and the administrators left,
\* import_notes_to_neon.py --clean with such a seed succeeds once the connection
\* holds and no abandoned post still runs.
CleanRunRecovers ==
  (/\ Alone /\ curated.pc \notin {"running", "rebuild"}
   /\ script.pc = "running" /\ script.clean /\ Loadable(script.seed)
   /\ script.failures = 0 /\ script.todo # << >> /\ Head(script.todo) = Truncate)
    ~> script.pc = "done"

\* What the admin API accepts: sections for every topic, each slug once.
Postable(seed) ==
  \A i \in DOMAIN seed :
    /\ seed[i].sections # << >>
    /\ IsInjective([j \in DOMAIN seed[i].sections |-> seed[i].sections[j].id])

\* The post passes over archived topics, whose slugs stay taken.
Archived(seed) ==
  \E i \in DOMAIN seed : \E t \in db["topics"] : t.slug = seed[i].id /\ ~t.live

\* Posting such a seed again succeeds whatever earlier runs of both importers
\* left, when none of its topics was archived and no abandoned post still runs.
RepostRecovers ==
  (/\ Alone /\ script.pc # "running"
   /\ curated.pc = "running" /\ Postable(curated.seed) /\ ~Archived(curated.seed)
   /\ curated.todo = Chunks(curated.seed))
    ~> curated.pc = "done"
=============================================================================
