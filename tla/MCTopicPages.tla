---------------------------- MODULE MCTopicPages ----------------------------
(***************************************************************************)
(* A small instance of TopicPages for TLC.  Every edit leads to every row, *)
(* so a few tables to begin with are enough.                               *)
(***************************************************************************)
EXTENDS TopicPages, TLC

CONSTANT g

MCTopics == 1..3
MCSelections == {<<2, 1, 2>>, <<3, 9, 1>>}

In(status, order, group) == [status |-> status, order |-> order, group |-> group]

MCTables == {
  [t \in MCTopics |-> In("published", 0, g)],
  [t \in MCTopics |-> In("published", IF t = 1 THEN 1 ELSE 0, IF t = 2 THEN None ELSE g)],
  [t \in MCTopics |-> In(IF t = 2 THEN "published" ELSE "draft", 1, g)],
  [t \in MCTopics |-> In("absent", 0, None)]}
=============================================================================
