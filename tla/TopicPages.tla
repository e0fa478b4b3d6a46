----------------------------- MODULE TopicPages -----------------------------
(***************************************************************************)
(* What readers get of the topics table over several requests while admin  *)
(* requests change it: GET /topics page by page with keyset cursors, the   *)
(* group list of GET /groups, and the export of a selection as a manifest  *)
(* followed by the documents.  Every request is one statement (plus reads  *)
(* that depend on nothing else), so it is one step; slugs are numbers.     *)
(*                                                                         *)
(* AboveOrEqual and the other definitions that Next does not use are the   *)
(* faulty variants that the runs must tell from the code.                  *)
(***************************************************************************)
EXTENDS Naturals, FiniteSets, SequencesExt

CONSTANTS
  Topics,      \* slugs: numbers, in the order of the database's collation
  Orders,      \* order_index values
  Groups,      \* group slugs
  None,        \* no group; no filter
  Limits,      \* page sizes
  Selections,  \* sequences of slugs and unknown ids a client exports
  Tables,      \* the tables to begin with
  MaxEdits     \* bound on the changes by admin requests

ASSUME NumberAssumption ==
  /\ Topics \subseteq Nat /\ IsFiniteSet(Topics) /\ Orders \subseteq Nat /\ MaxEdits \in Nat
  /\ Limits \subseteq Nat \ {0}  \* Query(ge=1)
  /\ None \notin Groups

VARIABLES
  topics,    \* the committed rows
  edits,     \* changes so far
  reader,    \* a client that follows next_cursor to the end,
  exporter,  \* and at other times asks for a manifest, then for the documents
  changed,   \* topics changed since the client began
  quiet      \* no change since its last request

vars == <<topics, edits, reader, exporter, changed, quiet>>

Row == [status : {"absent", "draft", "published", "deleted"}, order : Orders,
        group : Groups \cup {None}]

ASSUME SelectionAssumption == Selections \subseteq Seq(Nat)

ASSUME TableAssumption == Tables \subseteq [Topics -> Row]

NotReading == [open |-> FALSE, group |-> None, limit |-> 0, cursor |-> << >>,
               listed |-> << >>, empty |-> FALSE]

NotExporting == [pc |-> "idle", selection |-> << >>, manifest |-> << >>, documents |-> << >>]

Key(t) == <<topics[t].order, t>>
Start == <<>>

AboveOrEqual(k, cursor) ==
  cursor = Start \/ k[1] > cursor[1] \/ (k[1] = cursor[1] /\ k[2] >= cursor[2])

\* tuple_(order_index, slug) > tuple_(...): a row comparison.  A missing or
\* unreadable cursor is none.
Above(k, cursor) ==
  cursor = Start \/ k[1] > cursor[1] \/ (k[1] = cursor[1] /\ k[2] > cursor[2])

Published(t) == topics[t].status = "published"

Matches(t, group) == Published(t) /\ (group # None => topics[t].group = group)

\* order_by's order, of rows represented by their keys.
OrderBy(keys) ==
  CHOOSE s \in [1..Cardinality(keys) -> keys] :
    \A i, j \in DOMAIN s : i < j => Above(s[j], s[i])

\* The rows of the query.
Matching(group, cursor) ==
  {Key(t) : t \in {u \in Topics : Matches(u, group) /\ Above(Key(u), cursor)}}

FullPage(found, limit) == Len(found) >= limit

\* One row more than the page holds is asked for, to see whether it exists.
HasNext(found, limit) == Len(found) > limit

\* The cursor of the next page is the last row that was shown.
PeekedCursor(found, limit) == Last(found)
NextCursor(found, limit) == found[limit]

-----------------------------------------------------------------------------
(* GET /topics.                                                            *)

BeginListing ==
  /\ ~reader.open /\ exporter.pc # "manifest"
  /\ \E group \in Groups \cup {None}, limit \in Limits :
       reader' = [NotReading EXCEPT !.open = TRUE, !.group = group, !.limit = limit]
  /\ exporter' = NotExporting
  /\ changed' = {} /\ quiet' = TRUE
  /\ UNCHANGED <<topics, edits>>

GetPage ==
  /\ reader.open
  /\ LET found == OrderBy(Matching(reader.group, reader.cursor))
         more == HasNext(found, reader.limit)
         page == SubSeq(found, 1, IF more THEN reader.limit ELSE Len(found))
     IN reader' = [reader EXCEPT
          !.open = more,
          !.listed = @ \o page,
          !.empty = quiet /\ reader.cursor # Start /\ page = << >>,
          !.cursor = IF more THEN NextCursor(found, reader.limit) ELSE @]
  /\ quiet' = TRUE
  /\ UNCHANGED <<topics, edits, exporter, changed>>

-----------------------------------------------------------------------------
(* GET /groups: topics are outer-joined, then rows of other than published *)
(* topics are dropped, and with them a group that has no other.            *)

Joined(g) == {t \in Topics : topics[t].status # "absent" /\ topics[t].group = g}

CountWithDrafts(g) == Cardinality({t \in Joined(g) : topics[t].status # "deleted"})
TopicCount(g) == Cardinality({t \in Joined(g) : Published(t)})

ListGroups ==
  {[slug |-> g, count |-> TopicCount(g)] :
     g \in {h \in Groups : Joined(h) = {} \/ \E t \in Joined(h) : Published(t)}}

-----------------------------------------------------------------------------
(* POST /exports/manifest, then POST /exports/hydrate.                     *)

\* The elements of s at these positions, as they come in s.
ElementsAt(s, positions) ==
  LET entries == OrderBy({<<i, s[i]>> : i \in positions})
  IN [i \in DOMAIN entries |-> entries[i][2]]

\* resolved_topic_ids: every id once, where it is named first.
Resolved(selection) ==
  ElementsAt(selection,
             {i \in DOMAIN selection : \A j \in 1..(i - 1) : selection[j] # selection[i]})

\* batch_get_topics: the published ones, in the order asked for.
BatchInTableOrder(slugs) == SelectSeq(SetToSeq(Topics), LAMBDA t : t \in ToSet(slugs) /\ Published(t))
BatchWithUnknown(slugs) == SelectSeq(slugs, LAMBDA t : t \in Topics => Published(t))
Batch(slugs) ==
  ElementsAt(slugs, {i \in DOMAIN slugs : slugs[i] \in Topics /\ Published(slugs[i])})

Manifest ==
  /\ ~reader.open /\ exporter.pc # "manifest"
  /\ \E selection \in Selections :
       /\ Resolved(selection) # << >>
       /\ exporter' = [NotExporting EXCEPT !.pc = "manifest", !.selection = selection,
                                           !.manifest = Batch(Resolved(selection))]
  /\ reader' = NotReading
  /\ changed' = {} /\ quiet' = TRUE
  /\ UNCHANGED <<topics, edits>>

Hydrate ==
  /\ exporter.pc = "manifest"
  /\ exporter' = [exporter EXCEPT !.pc = "done", !.documents = Batch(Resolved(exporter.selection))]
  /\ UNCHANGED <<topics, edits, reader, changed, quiet>>

-----------------------------------------------------------------------------
(* The admin requests, as far as the readers see them: create, change of   *)
(* status, order or group, and soft delete, which keeps the row for good.  *)

Edit ==
  /\ edits < MaxEdits
  /\ edits' = edits + 1
  /\ \E t \in Topics, row \in Row :
       /\ topics[t].status # "deleted" /\ row # topics[t]
       /\ row.status # "absent"
       /\ row.status = "deleted" =>
            topics[t].status # "absent" /\ row = [topics[t] EXCEPT !.status = "deleted"]
       /\ topics' = [topics EXCEPT ![t] = row]
       /\ changed' = changed \cup {t}
  /\ quiet' = FALSE
  /\ UNCHANGED <<reader, exporter>>

Init ==
  /\ topics \in Tables
  /\ edits = 0
  /\ reader = NotReading
  /\ exporter = NotExporting
  /\ changed = {}
  /\ quiet = TRUE

Next == BeginListing \/ GetPage \/ Manifest \/ Hydrate \/ Edit

Spec == Init /\ [][Next]_vars

-----------------------------------------------------------------------------
(* Properties.                                                             *)

TypeOK ==
  /\ topics \in [Topics -> Row]
  /\ edits \in 0..MaxEdits
  /\ reader.group \in Groups \cup {None}
  /\ reader.limit \in Limits \cup {0}
  /\ reader.open => reader.limit > 0
  /\ reader.cursor = Start \/ reader.cursor \in Orders \X Topics
  /\ \A i \in DOMAIN reader.listed : reader.listed[i] \in Orders \X Topics
  /\ changed \subseteq Topics
  /\ exporter.pc \in {"idle", "manifest", "done"}
  /\ \A slugs \in {exporter.manifest, exporter.documents} : ToSet(slugs) \subseteq Topics

\* The pages implement KeyScan: whatever is edited between them, a listing only
\* moves up and every page but the last adds to it: nothing is listed twice at one
\* place, and a client that uses next_cursor comes to the end (list_topics).
Scan == INSTANCE KeyScan WITH
  Keys <- Orders \X Topics,
  listed <- reader.listed,
  open <- reader.open

PagesScan == Scan!Spec

\* A finished listing has every topic that matched it all along, once, although
\* others were created, moved or deleted between its pages.
NothingMissedOrRepeated ==
  ~reader.open /\ reader.limit > 0 =>
    \A t \in Topics \ changed :
      Cardinality({i \in DOMAIN reader.listed : reader.listed[i][2] = t})
        = IF Matches(t, reader.group) THEN 1 ELSE 0

\* The row beyond the page promises the next page: without a change in between
\* next_cursor never leads to an empty page.
NoEmptyPage == ~reader.empty

\* GET /groups and GET /topics?group= agree: an undisturbed listing of a group
\* has topic_count entries, and a group that is not listed has none.
GroupCountsAgree ==
  ~reader.open /\ reader.group # None /\ changed = {} =>
    Len(reader.listed) = IF \E r \in ListGroups : r.slug = reader.group
                         THEN (CHOOSE r \in ListGroups : r.slug = reader.group).count
                         ELSE 0

\* The documents follow the manifest: the same topics in the same order unless
\* something changed in between, each of the selection at most once.
ExportFollowsManifest ==
  exporter.pc = "done" =>
    /\ changed = {} => exporter.documents = exporter.manifest
    /\ IsInjective(exporter.documents)
    /\ \A i, j \in DOMAIN exporter.documents : i < j =>
         \E k, l \in DOMAIN exporter.selection :
           k < l /\ exporter.selection[k] = exporter.documents[i]
                 /\ exporter.selection[l] = exporter.documents[j]
=============================================================================
