---------------------------- MODULE MCTopicStore ----------------------------
(***************************************************************************)
(* Small instances of TopicStore for TLC.                                  *)
(***************************************************************************)
EXTENDS TopicStore, TLC

CONSTANTS s1, s2

\* Section lists: none, one section, two in either order.
MCLists == {<< >>, <<s1>>, <<s1, s2>>, <<s2, s1>>}
OneSection == {<< >>, <<s1>>}

Symmetry == Permutations(Clients)
=============================================================================
