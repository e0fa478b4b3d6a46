--------------------------- MODULE MCContentCache ---------------------------
(***************************************************************************)
(* Small instances of ContentCache for TLC.                                *)
(***************************************************************************)
EXTENDS ContentCache, TLC

Symmetry == Permutations(Topics) \cup Permutations(Clients)

\* Workloads.
AllOps == Reads \cup Writes \cup Admin
TopicOps == {"get_topic", "refresh_bootstrap", "create_topic", "delete_topic", "rebuild_topics"}
ReadArchiveOps == {"get_topic", "delete_topic"}
LivenessOps == {"get_topic", "rebuild_topics", "reindex_search"}
=============================================================================
