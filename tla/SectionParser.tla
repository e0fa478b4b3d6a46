--------------------------- MODULE SectionParser ---------------------------
(***************************************************************************)
(* parse_markdown_sections: a markdown body becomes a list of sections.    *)
(* First the headings are found, from top to bottom, then there is one     *)
(* loop iteration for each.  A body is a sequence of non-empty lines; of a *)
(* line matter its marks (the number of leading #, 0 to 4), its words (the *)
(* slug of what is left of it), and whether there is anything but marks on *)
(* it.  A line with one mark is text, as in the code; the test of the      *)
(* parser, tests/test_text_utils.py:8-13, wants it to be a heading.        *)
(*                                                                         *)
(* CountNever and the other definitions that Next does not use are the     *)
(* faulty variants that the runs must tell from the code.                  *)
(***************************************************************************)
EXTENDS Slugs

CONSTANTS
  Words,     \* the words of titles that are no numbers
  Lines,     \* the lines bodies are made of
  MaxLines,  \* bound on the lines of a body
  Section,   \* the word "section"
  Overview,  \* the slug of a body without headings
  None       \* no parent

ASSUME LineAssumption ==
  /\ MaxLines \in Nat /\ Section \in Words /\ None \notin Nat
  /\ \A line \in Lines :
       line.marks \in 0..4 /\ line.words \in Seq(Words \cup Nat) /\ line.bare \in BOOLEAN

VARIABLES
  text,      \* the lines of the body
  position,  \* the line where the search goes on
  matches,   \* the headings found, with the first and last line of each
  sections,  \* the sections so far
  counters,  \* counters_by_slug
  stack      \* the open headings around the current one

vars == <<text, position, matches, sections, counters, stack>>

-----------------------------------------------------------------------------
(* HEADING_RE: two to four marks.  Its \s+ matches line ends too: a line   *)
(* of marks alone takes the next line as its title, whatever marks that    *)
(* one has.                                                                *)

IsHeading(i) == text[i].marks \in 2..4 /\ (text[i].bare => i < Len(text))

Searching == position <= Len(text)

FindHeading ==
  /\ Searching /\ IsHeading(position)
  /\ \E last \in {IF text[position].bare THEN position + 1 ELSE position} :
       /\ matches' = Append(matches,
            [level |-> text[position].marks, words |-> text[last].words,
             first |-> position, last |-> last])
       /\ position' = last + 1
  /\ UNCHANGED <<text, sections, counters, stack>>

SkipLine ==
  /\ Searching /\ ~IsHeading(position)
  /\ position' = position + 1
  /\ UNCHANGED <<text, matches, sections, counters, stack>>

-----------------------------------------------------------------------------
(* The loop.                                                               *)

\* slugify falls back on the position when a title has no word.
BaseSlug(match, index) == IF match.words = << >> THEN <<Section, index + 1>> ELSE match.words

CountNever(base) == 0
Count(base) == IF base \in DOMAIN counters THEN counters[base] ELSE 0

CounterSlug(base) == IF Count(base) = 0 THEN base ELSE Numbered(base, Count(base) + 1)

\* The headings that stay open around one of this level.
OpenSiblings(level) ==
  SubSeq(stack, 1, CHOOSE n \in 0..Len(stack) :
    /\ n > 0 => stack[n].level <= level
    /\ \A k \in (n + 1)..Len(stack) : stack[k].level > level)

Open(level) ==
  SubSeq(stack, 1, CHOOSE n \in 0..Len(stack) :
    /\ n > 0 => stack[n].level < level
    /\ \A k \in (n + 1)..Len(stack) : stack[k].level >= level)

\* The lines up to the next heading.
BodyToEnd(match, index) == (match.last + 1)..Len(text)
Body(match, index) ==
  (match.last + 1)..(IF index + 1 < Len(matches) THEN matches[index + 2].first - 1 ELSE Len(text))

PathFromTop(open, index) == <<index>>
Path(open, index) == [n \in DOMAIN open |-> open[n].order] \o <<index>>

ParseHeading ==
  LET index == Len(sections)
      match == matches[index + 1]
      base == BaseSlug(match, index)
      open == Open(match.level)
  IN
  /\ ~Searching /\ Len(sections) < Len(matches)
  /\ counters' = [b \in DOMAIN counters \cup {base} |-> IF b = base THEN Count(base) + 1 ELSE counters[b]]
  /\ stack' = Append(open, [level |-> match.level, order |-> index])
  /\ sections' = Append(sections,
       [slug |-> CounterSlug(base), level |-> match.level, order |-> index,
        body |-> Body(match, index), path |-> Path(open, index),
        parent |-> IF open = << >> THEN None ELSE Last(open).order])
  /\ UNCHANGED <<text, position, matches>>

\* A body without headings is one section.
ParsePlain ==
  /\ ~Searching /\ matches = << >> /\ sections = << >>
  /\ sections' = <<[slug |-> Overview, level |-> 1, order |-> 0, body |-> DOMAIN text,
                    path |-> <<0>>, parent |-> None]>>
  /\ UNCHANGED <<text, position, matches, counters, stack>>

Init ==
  /\ text \in BoundedSeq(Lines, MaxLines)
  /\ position = 1
  /\ matches = << >>
  /\ sections = << >>
  /\ counters = [b \in {} |-> 0]
  /\ stack = << >>

Next == FindHeading \/ SkipLine \/ ParseHeading \/ ParsePlain

Spec == Init /\ [][Next]_vars

-----------------------------------------------------------------------------
(* Properties.                                                             *)

\* The variables have their types: a heading ends before the search goes on,
\* order_index is the place in the list, and the stack gets strictly deeper
\* from its bottom to its top.
TypeOK ==
  /\ text \in Seq(Lines)
  /\ position \in 1..(Len(text) + 1)
  /\ \A i \in DOMAIN matches :
       /\ matches[i].level \in {2, 3, 4}
       /\ matches[i].first <= matches[i].last /\ matches[i].last < position
  /\ \A i \in DOMAIN sections :
       /\ sections[i].order = i - 1
       /\ sections[i].level \in {1, 2, 3, 4}
       /\ sections[i].body \subseteq DOMAIN text
  /\ \A b \in DOMAIN counters : counters[b] \in 1..Len(sections)
  /\ \A n, k \in DOMAIN stack : n < k => stack[n].level < stack[k].level

\* The headings before section i that are less deep.
Shallower(i) == {j \in 1..(i - 1) : sections[j].level < sections[i].level}

\* The parent of a section is the nearest heading of two or three marks before
\* it that is less deep, although the loop only keeps a stack of open headings.
\* A title with one mark is no heading and no parent.
ParentIsNearestShallower ==
  \A i \in DOMAIN sections :
    sections[i].parent =
      IF Shallower(i) = {} THEN None
      ELSE CHOOSE k \in 0..i : k + 1 \in Shallower(i) /\ \A j \in Shallower(i) : j <= k + 1

\* materialized_path nests like the document: it is the parent's path and the
\* section's own position, and the sections with its prefix are the run of
\* deeper headings that follows.
PathsNest ==
  \A i, j \in DOMAIN sections :
    /\ sections[j].parent = i - 1 => sections[j].path = Append(sections[i].path, j - 1)
    /\ (i < j /\ IsPrefix(sections[i].path, sections[j].path))
         <=> (i < j /\ \A k \in (i + 1)..j : sections[k].level > sections[i].level)

\* From the first heading on, no line is lost or in two sections: bodies and
\* headings share the rest of the text out, also where a heading takes two
\* lines.  What stands before the first heading, a title with one mark and its
\* introduction too, is in no section (lines 79-90).
BodiesShareTheText ==
  LET headed == {matches[i].first : i \in DOMAIN matches} \cup {matches[i].last : i \in DOMAIN matches}
      top == IF matches = << >> THEN 1 ELSE matches[1].first
      finished == ~Searching /\ Len(sections) >= Len(matches) /\ sections # << >> IN
  /\ \A i, j \in DOMAIN sections : i # j => sections[i].body \cap sections[j].body = {}
  /\ \A i \in DOMAIN sections : sections[i].body \cap headed = {}
  /\ finished => headed \cup UNION {sections[i].body : i \in DOMAIN sections} = top..Len(text)

\* models/content.py:213-215 make slugs unique within a topic.  Repeated titles
\* never get the same slug; only a heading that spells another one's number
\* ("A", "A", "A 2") does.
RepeatsAreTold ==
  \A i, j \in DOMAIN sections :
    LET base(k) == BaseSlug(matches[k], k - 1) IN
    i < j /\ matches # << >> /\ sections[i].slug = sections[j].slug =>
      /\ base(i) # base(j)
      /\ \E n \in 2..Len(sections) :
           base(i) = Numbered(base(j), n) \/ base(j) = Numbered(base(i), n)
=============================================================================
