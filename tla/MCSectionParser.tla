-------------------------- MODULE MCSectionParser --------------------------
(***************************************************************************)
(* A small instance of SectionParser for TLC.                              *)
(***************************************************************************)
EXTENDS SectionParser, TLC

CONSTANTS a, b

Line(marks, words, bare) == [marks |-> marks, words |-> words, bare |-> bare]

\* Text, a line with one mark, two titles and a numbered one at several levels,
\* the word "section" with a number, a title without words, and a heading
\* without a title.
MCLines == {
  Line(0, <<b>>, FALSE), Line(1, <<a>>, FALSE),
  Line(2, <<a>>, FALSE), Line(3, <<a>>, FALSE), Line(4, <<b>>, FALSE),
  Line(3, <<a, 2>>, FALSE), Line(2, <<Section, 2>>, FALSE),
  Line(4, << >>, FALSE), Line(2, << >>, TRUE)}

=============================================================================
