---------------------------- MODULE MCSeedImport ----------------------------
(***************************************************************************)
(* A small instance of SeedImport for TLC.                                 *)
(***************************************************************************)
EXTENDS SeedImport, TLC

CONSTANTS a, b, g, d, x, y, f

Part(slug) == [id |-> slug, blank |-> FALSE]
Note(slug, list, files) ==
  [id |-> slug, group |-> <<g>>, domain |-> <<d>>, blank |-> FALSE, sections |-> list,
   sources |-> files]

\* A seed both importers take; one in which a slug repeats and one section is
\* empty; one that names a source twice.
MCSeeds == {
  <<Note(<<a>>, <<Part(<<x>>), Part(<<y>>)>>, <<f>>), Note(<<b>>, <<Part(<<x>>)>>, <<f>>)>>,
  <<Note(<<a>>, <<Part(<<x>>)>>, <<f>>),
    Note(<<a>>, <<Part(<<y>>), [id |-> <<y>>, blank |-> TRUE]>>, << >>)>>,
  <<Note(<<a>>, <<Part(<<y>>)>>, <<f, f>>)>>}

MCOptions == {[clean |-> TRUE, search |-> FALSE], [clean |-> FALSE, search |-> TRUE]}
=============================================================================
