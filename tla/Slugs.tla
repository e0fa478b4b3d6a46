------------------------------- MODULE Slugs -------------------------------
(***************************************************************************)
(* Slugs, and how repeated ones are told apart.  A slug is the sequence of *)
(* its hyphen-separated words, so that "a-2" is the same slug whether a    *)
(* heading spells it or a number was appended to "a": <<a, 2>>.  Words are *)
(* model values.                                                           *)
(***************************************************************************)
EXTENDS Naturals, FiniteSets, SequencesExt

Numbered(base, k) == Append(base, k)

Least(S) == CHOOSE k \in S : \A j \in S : k <= j

\* ensure_unique_slug: the base, or the base with the first free number from 2.
EnsureUnique(base, used) ==
  IF base \notin used THEN base
  ELSE Numbered(base, Least({k \in 2..(Cardinality(used) + 2) : Numbered(base, k) \notin used}))

\* The slugs of a list of base slugs, each kept apart from the ones before.
UniqueSlugs(bases) ==
  LET upTo[n \in 0..Len(bases)] ==
        IF n = 0 THEN << >>
        ELSE Append(upTo[n - 1], EnsureUnique(bases[n], ToSet(upTo[n - 1])))
  IN upTo[Len(bases)]
=============================================================================
