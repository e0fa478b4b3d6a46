--------------------------- MODULE ContentTables ---------------------------
(***************************************************************************)
(* The tables both seed importers write, with the constraints PostgreSQL   *)
(* checks on every statement: primary and unique keys, foreign keys, and   *)
(* the text columns that must not be NULL.                                 *)
(***************************************************************************)
EXTENDS Naturals, SequencesExt

VARIABLE db  \* the rows of each table

Tables == {"groups", "domains", "topics", "topic_sections", "source_files",
           "topic_source_links"}
Empty == [table \in Tables |-> {}]

\* The unique keys of a row.
Keys(table, row) ==
  CASE table = "topic_sections" -> {<<"id", row.id>>, <<"slug", row.topic, row.slug>>}
    [] table = "topic_source_links" -> {<<"id", row.topic, row.source>>}
    [] OTHER -> {<<"id", row.id>>, <<"slug", row.slug>>}

\* The rows it refers to.
References(table, row) ==
  CASE table = "topics" -> {<<"groups", row.group>>, <<"domains", row.domain>>}
    [] table = "topic_sections" -> {<<"topics", row.topic>>}
    [] table = "topic_source_links" -> {<<"topics", row.topic>>, <<"source_files", row.source>>}
    [] OTHER -> {}

Clash(table, r, q) == Keys(table, r) \cap Keys(table, q) # {}

\* One of the row's body columns is NULL.
Null(table, row) == table \in {"topics", "topic_sections"} /\ row.null

\* Inserting rows (a sequence) into table breaks no constraint of tables.
Fits(tables, table, rows) ==
  /\ \A i \in DOMAIN rows :
       /\ ~Null(table, rows[i])
       /\ \A j \in DOMAIN rows : i # j => ~Clash(table, rows[i], rows[j])
       /\ \A r \in tables[table] : ~Clash(table, rows[i], r)
       /\ \A ref \in References(table, rows[i]) : \E r \in tables[ref[1]] : r.id = ref[2]

With(tables, table, rows) == [tables EXCEPT ![table] = @ \cup ToSet(rows)]
=============================================================================
