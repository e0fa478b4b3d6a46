--------------------------- MODULE CuratedImport ---------------------------
(***************************************************************************)
(* scripts/import_curated_notes.mjs: the topics of a seed file are posted  *)
(* to /admin/topics/bulk-upsert-fast, one chunk after the other, and the   *)
(* first chunk that fails ends the script.  A post is one transaction of   *)
(* the service (TopicStore has its statements), here one step; it may also *)
(* be answered too late, and then commits when the script is gone.         *)
(***************************************************************************)
EXTENDS NeonImport

CONSTANT ChunkSize  \* BATCH_SIZE: topics per request

ASSUME ChunkAssumption == ChunkSize \in Nat \ {0}

VARIABLES
  curated,   \* the process: its seed and the chunks left
  inflight   \* chunks the service still works on although nobody waits

-----------------------------------------------------------------------------
(* The service's side: bulk_upsert_topics_fast.                            *)

\* Rows of the service carry 0 in place of a run.
GetOrCreate(tables, table, slug) ==
  IF \E r \in tables[table] : r.slug = slug THEN tables
  ELSE With(tables, table, <<[id |-> <<0, slug>>, slug |-> slug]>>)

IdOf(tables, table, slug) == (CHOOSE r \in tables[table] : r.slug = slug).id

StoredKeepingSections(tables, item) ==
  LET known == {r \in tables["topics"] : r.slug = item.id}
      id == IF known = {} THEN <<0, item.id>> ELSE IdOf(tables, "topics", item.id)
      named == GetOrCreate(GetOrCreate(tables, "groups", item.group), "domains", item.domain)
      row == [id |-> id, slug |-> item.id, count |-> Len(item.sections), null |-> FALSE,
              live |-> TRUE, group |-> IdOf(named, "groups", item.group),
              domain |-> IdOf(named, "domains", item.domain)]
  IN [named EXCEPT !["topics"] = (@ \ known) \cup {row},
                   !["topic_source_links"] = {r \in @ : r.topic # id}]

\* create_topic_slim or update_topic_slim: the topic keeps its id, its sections
\* and links are replaced.
Stored(tables, item) ==
  LET known == {r \in tables["topics"] : r.slug = item.id}
      id == IF known = {} THEN <<0, item.id>> ELSE IdOf(tables, "topics", item.id)
      named == GetOrCreate(GetOrCreate(tables, "groups", item.group), "domains", item.domain)
      row == [id |-> id, slug |-> item.id, count |-> Len(item.sections), null |-> FALSE,
              live |-> TRUE, group |-> IdOf(named, "groups", item.group),
              domain |-> IdOf(named, "domains", item.domain)]
  IN [named EXCEPT !["topics"] = (@ \ known) \cup {row},
                   !["topic_sections"] = {r \in @ : r.topic # id},
                   !["topic_source_links"] = {r \in @ : r.topic # id}]

\* _replace_sections: the slugs of an explicit list are taken as they are.
SectionRowsOf(id, list) ==
  [j \in DOMAIN list |->
    [id |-> <<0, id, list[j].id>>, topic |-> id, slug |-> list[j].id, null |-> FALSE]]

\* _replace_sources: every name once, under its own key.
Linked(tables, id, name) ==
  LET known == GetOrCreate(tables, "source_files", <<"plain", name>>) IN
  With(known, "topic_source_links",
       <<[topic |-> id, source |-> IdOf(known, "source_files", <<"plain", name>>)]>>)

\* One item, on what the items before it left; a failure fails the request.
\* A topic is not created without sections: the parser's path raises.  Nor is
\* one under the slug of an archived topic: the lookup passes over that row and
\* the INSERT meets its unique slug.
Upsert(result, item) ==
  LET known == {r \in result.tables["topics"] : r.slug = item.id}
      archived == \E r \in known : ~r.live
      stored == Stored(result.tables, item)
      id == IdOf(stored, "topics", item.id)
      rows == SectionRowsOf(id, item.sections)
      names == SetToSeq(ToSet(item.sources))
      linked[n \in 0..Len(names)] ==
        IF n = 0 THEN With(stored, "topic_sections", rows)
        ELSE Linked(linked[n - 1], id, names[n])
  IN IF \/ ~result.ok
        \/ archived
        \/ known = {} /\ item.sections = << >>
        \/ ~Fits(stored, "topic_sections", rows)
     THEN [result EXCEPT !.ok = FALSE]
     ELSE [ok |-> TRUE, tables |-> linked[Len(names)]]

Posted(chunk) ==
  LET upTo[n \in 0..Len(chunk)] ==
        IF n = 0 THEN [ok |-> TRUE, tables |-> db] ELSE Upsert(upTo[n - 1], chunk[n])
  IN upTo[Len(chunk)]

-----------------------------------------------------------------------------
(* The script.                                                             *)

Chunks(seed) ==
  LET last(k) == IF k * ChunkSize < Len(seed) THEN k * ChunkSize ELSE Len(seed) IN
  [k \in 1..((Len(seed) + ChunkSize - 1) \div ChunkSize) |->
    SubSeq(seed, (k - 1) * ChunkSize + 1, last(k))]

Posting == curated.pc = "running" /\ curated.todo # << >>

StartCurated ==
  /\ curated.pc \notin {"running", "rebuild"}
  /\ runs < MaxRuns
  /\ runs' = runs + 1
  /\ mixed' = mixed \ {"curated"}
  /\ \E seed \in Seeds :
       curated' = [pc |-> "running", seed |-> seed, todo |-> Chunks(seed)]
  /\ UNCHANGED <<db, calm, script, inflight>>

Post ==
  /\ Posting
  /\ \E result \in {Posted(Head(curated.todo))} : result.ok /\ db' = result.tables
  /\ mixed' = mixed \cup {"neon"}
  /\ curated' = [curated EXCEPT !.todo = Tail(@)]
  /\ UNCHANGED <<runs, calm, script, inflight>>

\* The service answers with an error, or does not answer: the script exits.
PostFails ==
  /\ Posting
  /\ Posted(Head(curated.todo)).ok => ~calm
  /\ curated' = [curated EXCEPT !.pc = "failed"]
  /\ UNCHANGED <<db, runs, calm, mixed, script, inflight>>

\* The script gives up after ten minutes, or is killed, while the service goes on.
PostTimesOut ==
  /\ Posting /\ ~calm
  /\ curated' = [curated EXCEPT !.pc = "failed"]
  /\ inflight' = inflight \cup {Head(curated.todo)}
  /\ UNCHANGED <<db, runs, calm, mixed, script>>

LateCommit ==
  \E chunk \in inflight :
    /\ inflight' = inflight \ {chunk}
    /\ \E result \in {Posted(chunk)} : db' = IF result.ok THEN result.tables ELSE db
    /\ mixed' = {"neon", "curated"}
    /\ UNCHANGED <<runs, calm, script, curated>>

\* "Import complete.", then the bootstrap rebuild, whose failure is a warning.
AllPosted ==
  /\ curated.pc = "running" /\ curated.todo = << >>
  /\ curated' = [curated EXCEPT !.pc = "rebuild"]
  /\ UNCHANGED <<db, runs, calm, mixed, script, inflight>>

RebuildBootstrap ==
  /\ curated.pc = "rebuild"
  /\ curated' = [curated EXCEPT !.pc = "done"]
  /\ UNCHANGED <<db, runs, calm, mixed, script, inflight>>

CuratedStep == Post \/ PostFails \/ AllPosted \/ RebuildBootstrap

CuratedInit ==
  /\ curated = [pc |-> "failed", seed |-> << >>, todo |-> << >>]
  /\ inflight = {}

CuratedNext == StartCurated \/ CuratedStep \/ PostTimesOut \/ LateCommit
=============================================================================
