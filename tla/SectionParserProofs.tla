------------------------ MODULE SectionParserProofs ------------------------
(***************************************************************************)
(* Proofs about parse_markdown_sections, for bodies of any length made of  *)
(* any lines.                                                              *)
(***************************************************************************)
EXTENDS SectionParser, SequenceTheorems, TLAPS

Word == Words \cup Nat

HeadingType == [level : {2, 3, 4}, words : Seq(Word), first : Nat \ {0}, last : Nat]

SectionType ==
  [slug : Seq(Word) \cup {Overview}, level : {1, 2, 3, 4}, order : Nat, body : SUBSET Nat,
   path : Seq(Nat), parent : Nat \cup {None}]

StackType == [level : {2, 3, 4}, order : Nat]

\* The text and the headings found so far, which lie one after the other
\* before the line where the search goes on.
Found ==
  /\ text \in Seq(Lines)
  /\ position \in 1..(Len(text) + 1)
  /\ matches \in Seq(HeadingType)
  /\ \A i \in 1..Len(matches) :
       matches[i].first <= matches[i].last /\ matches[i].last < position
  /\ \A i, j \in 1..Len(matches) : i < j => matches[i].last < matches[j].first

\* Where the loop stands.
Progress ==
  /\ sections \in Seq(SectionType)
  /\ \A i \in 1..Len(sections) : sections[i].order = i - 1 /\ sections[i].body \subseteq 1..Len(text)
  /\ sections # << >> => ~Searching
  /\ matches # << >> => Len(sections) <= Len(matches)
  /\ matches = << >> => stack = << >>

\* At least two marks make a heading, so the stack has at most three entries.
Stacked ==
  /\ stack \in Seq(StackType)
  /\ \A n \in 1..Len(stack) : stack[n].level > n
  /\ \A n, k \in 1..Len(stack) : n < k => stack[n].level < stack[k].level

Counted ==
  /\ counters \in [DOMAIN counters -> 1..Len(sections)]
  /\ DOMAIN counters \subseteq Seq(Word)

Inv == Found /\ Progress /\ Stacked /\ Counted

\* The types of the parts of an entry and of a heading.
LEMMA Levels ==
  /\ \A s \in Seq(StackType) : \A k \in 1..Len(s) :
       s[k] \in StackType /\ s[k].level \in {2, 3, 4} /\ s[k].order \in Nat
  /\ \A s \in Seq(HeadingType) : \A k \in 1..Len(s) :
       /\ s[k] \in HeadingType /\ s[k].level \in {2, 3, 4} /\ s[k].words \in Seq(Word)
       /\ s[k].first \in Nat \ {0} /\ s[k].last \in Nat
  /\ \A s \in Seq(SectionType) : \A k \in 1..Len(s) :
       /\ s[k] \in SectionType /\ s[k].level \in {1, 2, 3, 4} /\ s[k].order \in Nat
       /\ s[k].path \in Seq(Nat)
<1>1. \A s \in Seq(StackType) : \A k \in 1..Len(s) : s[k] \in StackType
  BY ElementOfSeq
<1>2. \A s \in Seq(HeadingType) : \A k \in 1..Len(s) : s[k] \in HeadingType
  BY ElementOfSeq
<1>3. \A s \in Seq(SectionType) : \A k \in 1..Len(s) : s[k] \in SectionType
  BY ElementOfSeq
<1>4. \A e \in StackType : e.level \in {2, 3, 4} /\ e.order \in Nat
  BY DEF StackType
<1>5. \A e \in HeadingType : /\ e.level \in {2, 3, 4} /\ e.words \in Seq(Word)
                             /\ e.first \in Nat \ {0} /\ e.last \in Nat
  BY DEF HeadingType
<1>6. \A e \in SectionType : /\ e.level \in {1, 2, 3, 4} /\ e.order \in Nat
                             /\ e.path \in Seq(Nat)
  BY DEF SectionType
<1> QED
  BY <1>1, <1>2, <1>3, <1>4, <1>5, <1>6, Zenon

\* No stack has more entries than there are levels.
LEMMA StackIsShort ==
  ASSUME Stacked
  PROVE  Len(stack) \in 0..3
<1>1. stack \in Seq(StackType) /\ Len(stack) \in Nat
  BY LenProperties DEF Stacked
<1>2. ASSUME Len(stack) > 3 PROVE FALSE
  <2>1. 4 \in 1..Len(stack)
    BY <1>1, <1>2
  <2>2. stack[4].level > 4 /\ stack[4].level \in {2, 3, 4}
    BY <1>1, <2>1, Levels DEF Stacked
  <2>3. \A x \in {2, 3, 4} : ~(x > 4)
    OBVIOUS
  <2> QED
    BY <2>2, <2>3
<1>3. \A l \in Nat : ~(l > 3) => l \in 0..3
  OBVIOUS
<1> QED
  BY <1>1, <1>2, <1>3, Zenon

\* Popping ends: Open cuts the stack below the first entry that is as deep as
\* the level.
LEMMA OpenIsPrefix ==
  ASSUME Stacked, NEW level \in {2, 3, 4}
  PROVE  \E n \in 0..Len(stack) :
           /\ Open(level) = SubSeq(stack, 1, n)
           /\ n > 0 => stack[n].level < level
           /\ \A k \in (n + 1)..Len(stack) : stack[k].level >= level
<1> DEFINE Cut(n) ==
      /\ n > 0 => stack[n].level < level
      /\ \A k \in (n + 1)..Len(stack) : stack[k].level >= level
<1>1. Len(stack) \in 0..3 /\ stack \in Seq(StackType)
  BY StackIsShort DEF Stacked
<1>2. \A k \in 1..Len(stack) : stack[k].level \in {2, 3, 4}
  BY <1>1, Levels
<1>3. \E n \in 0..Len(stack) : Cut(n)
  <2>1. CASE Len(stack) = 0
    BY <2>1
  <2>2. CASE Len(stack) = 1
    <3>1. Cut(0) \/ Cut(1)
      BY <2>2, <1>2
    <3> QED BY <2>2, <3>1
  <2>3. CASE Len(stack) = 2
    <3>1. Cut(0) \/ Cut(1) \/ Cut(2)
      BY <2>3, <1>2 DEF Stacked
    <3> QED BY <2>3, <3>1
  <2>4. CASE Len(stack) = 3
    <3>1. Cut(0) \/ Cut(1) \/ Cut(2) \/ Cut(3)
      BY <2>4, <1>2 DEF Stacked
    <3> QED BY <2>4, <3>1
  <2> QED
    BY <1>1, <2>1, <2>2, <2>3, <2>4
<1>4. Cut(CHOOSE n \in 0..Len(stack) : Cut(n)) /\ (CHOOSE n \in 0..Len(stack) : Cut(n)) \in 0..Len(stack)
  BY <1>3
<1>5. Open(level) = SubSeq(stack, 1, CHOOSE n \in 0..Len(stack) : Cut(n))
  BY DEF Open
<1> QED
  BY <1>4, <1>5

-----------------------------------------------------------------------------
(* What one iteration of the loop does.                                    *)

Match == matches[Len(sections) + 1]
Base == BaseSlug(Match, Len(sections))

\* It keeps n entries of the stack and adds one entry and one section.
Iteration(n) ==
  /\ n > 0 => stack[n].level < Match.level
  /\ \A k \in (n + 1)..Len(stack) : stack[k].level >= Match.level
  /\ Len(stack') = n + 1
  /\ \A k \in 1..n : stack'[k] = stack[k]
  /\ stack'[n + 1] = [level |-> Match.level, order |-> Len(sections)]
  /\ Len(sections') = Len(sections) + 1
  /\ \A k \in 1..Len(sections) : sections'[k] = sections[k]
  /\ sections'[Len(sections) + 1].slug = CounterSlug(Base)
  /\ sections'[Len(sections) + 1].level = Match.level
  /\ sections'[Len(sections) + 1].order = Len(sections)
  /\ sections'[Len(sections) + 1].body = Body(Match, Len(sections))
  /\ sections'[Len(sections) + 1].parent = IF n = 0 THEN None ELSE stack[n].order
  /\ sections'[Len(sections) + 1].path = [k \in 1..n |-> stack[k].order] \o <<Len(sections)>>

\* A count is a natural number, and a slug a sequence of words.
LEMMA SlugTypes ==
  ASSUME Inv, Len(sections) < Len(matches)
  PROVE  /\ Match \in HeadingType
         /\ Base \in Seq(Word)
         /\ Count(Base) \in Nat /\ Count(Base) <= Len(sections)
         /\ CounterSlug(Base) \in Seq(Word)
<1>1. Len(sections) \in Nat /\ Len(matches) \in Nat
  BY LenProperties DEF Inv, Found, Progress
<1>2. Match \in HeadingType /\ Match.words \in Seq(Word)
  BY <1>1, Levels DEF Inv, Found, Match
<1>3. Section \in Word /\ Len(sections) + 1 \in Word
  BY <1>1, LineAssumption DEF Word
<1>4. Base \in Seq(Word)
  BY <1>2, <1>3 DEF Base, BaseSlug
<1>5. Count(Base) \in Nat /\ Count(Base) <= Len(sections)
  BY <1>1 DEF Inv, Counted, Count
<1>6. Count(Base) + 1 \in Word
  BY <1>5 DEF Word
<1>7. CounterSlug(Base) \in Seq(Word)
  BY <1>4, <1>6, AppendProperties DEF CounterSlug, Numbered
<1> QED
  BY <1>2, <1>4, <1>5, <1>7

LEMMA BodyInText ==
  ASSUME Inv, Len(sections) < Len(matches)
  PROVE  Body(Match, Len(sections)) \subseteq 1..Len(text)
<1>1. Len(sections) \in Nat /\ Len(matches) \in Nat /\ Len(text) \in Nat /\ position \in Nat
  BY LenProperties DEF Inv, Found, Progress
<1>2. /\ Match.last \in Nat /\ Match.last >= 1
  BY <1>1, Levels DEF Inv, Found, Match
<1>3. ASSUME Len(sections) + 1 < Len(matches)
      PROVE  matches[Len(sections) + 2].first \in Nat /\ matches[Len(sections) + 2].first <= Len(text)
  <2>1. Len(sections) + 2 \in 1..Len(matches)
    BY <1>1, <1>3
  <2>2. /\ matches[Len(sections) + 2].first \in Nat
        /\ matches[Len(sections) + 2].last \in Nat
        /\ matches[Len(sections) + 2].first <= matches[Len(sections) + 2].last
        /\ matches[Len(sections) + 2].last < position
    BY <2>1, Levels DEF Inv, Found
  <2>3. position <= Len(text) + 1
    BY DEF Inv, Found
  <2> QED
    BY <2>2, <2>3, <1>1
<1> QED
  BY <1>1, <1>2, <1>3 DEF Body

LEMMA OneIteration ==
  ASSUME Inv, ParseHeading
  PROVE  /\ \E n \in 0..Len(stack) : Iteration(n)
         /\ stack' \in Seq(StackType)
         /\ sections' \in Seq(SectionType)
<1> DEFINE entry == [level |-> Match.level, order |-> Len(sections)]
           open == Open(Match.level)
           section == [slug |-> CounterSlug(Base), level |-> Match.level, order |-> Len(sections),
                       body |-> Body(Match, Len(sections)), path |-> Path(open, Len(sections)),
                       parent |-> IF open = << >> THEN None ELSE Last(open).order]
<1>1. /\ ~Searching /\ Len(sections) < Len(matches)
      /\ stack' = Append(open, entry)
      /\ sections' = Append(sections, section)
  BY DEF ParseHeading, Match, Base
<1>2. /\ Match \in HeadingType /\ Match.level \in {2, 3, 4}
      /\ CounterSlug(Base) \in Seq(Word)
  BY <1>1, SlugTypes DEF HeadingType
<1>3. /\ stack \in Seq(StackType) /\ Len(stack) \in Nat
      /\ sections \in Seq(SectionType) /\ Len(sections) \in Nat
  BY LenProperties DEF Inv, Stacked, Progress
<1>4. PICK n \in 0..Len(stack) :
        /\ open = SubSeq(stack, 1, n)
        /\ n > 0 => stack[n].level < Match.level
        /\ \A k \in (n + 1)..Len(stack) : stack[k].level >= Match.level
  BY <1>2, OpenIsPrefix DEF Inv
<1>5. /\ open \in Seq(StackType) /\ Len(open) = n
      /\ \A k \in 1..n : open[k] = stack[k]
  <2>1. \A k \in 1..n : stack[k] \in StackType
    BY <1>3, Levels
  <2>2. 1 \in Int /\ n \in Int /\ n - 1 + 1 = n /\ \A k \in 1..n : 1 + k - 1 = k
    BY <1>3
  <2>3. /\ SubSeq(stack, 1, n) \in Seq(StackType)
        /\ Len(SubSeq(stack, 1, n)) = IF 1 <= n THEN n - 1 + 1 ELSE 0
        /\ \A k \in 1..(n - 1 + 1) : SubSeq(stack, 1, n)[k] = stack[1 + k - 1]
    BY <2>1, <2>2, SubSeqProperties
  <2> QED
    BY <2>2, <2>3, <1>3, <1>4
<1>6. entry \in StackType
  BY <1>2, <1>3 DEF StackType
<1>7. /\ stack' \in Seq(StackType) /\ Len(stack') = n + 1
      /\ \A k \in 1..n : stack'[k] = stack[k]
      /\ stack'[n + 1] = entry
  BY <1>1, <1>5, <1>6, AppendProperties
<1>8. Path(open, Len(sections)) = [k \in 1..n |-> stack[k].order] \o <<Len(sections)>>
  <2>1. DOMAIN open = 1..n
    BY <1>5, LenProperties
  <2>2. [k \in DOMAIN open |-> open[k].order] = [k \in 1..n |-> stack[k].order]
    BY <2>1, <1>5
  <2> QED
    BY <2>2 DEF Path
<1>9. [k \in 1..n |-> stack[k].order] \o <<Len(sections)>> \in Seq(Nat)
  <2>1. \A k \in 1..n : stack[k].order \in Nat
    BY <1>3, Levels
  <2>2. [k \in 1..n |-> stack[k].order] \in Seq(Nat)
    BY <2>1, <1>3, SeqDef
  <2>3. <<Len(sections)>> \in Seq(Nat)
    BY <1>3
  <2> QED
    BY <2>2, <2>3, ConcatProperties
<1>10. /\ section.parent = IF n = 0 THEN None ELSE stack[n].order
       /\ section.parent \in Nat \cup {None}
  <2>1. CASE n = 0
    <3>1. open = << >>
      BY <2>1, <1>4, <1>5, EmptySeq
    <3> QED
      BY <3>1, <2>1
  <2>2. CASE n > 0
    <3>1. open # << >>
      BY <2>2, <1>5, EmptySeq
    <3>2. Last(open) = stack[n] /\ stack[n].order \in Nat
      BY <2>2, <1>3, <1>5, Levels DEF Last
    <3> QED
      BY <3>1, <3>2, <2>2
  <2> QED
    BY <2>1, <2>2
<1>11. Body(Match, Len(sections)) \in SUBSET Nat
  BY <1>1, BodyInText, LenProperties DEF Inv, Found
<1>12. section \in SectionType
  <2>1. Path(open, Len(sections)) \in Seq(Nat)
    BY <1>8, <1>9
  <2> HIDE DEF open
  <2> QED
    BY <2>1, <1>2, <1>3, <1>10, <1>11 DEF SectionType
<1>13. /\ sections' \in Seq(SectionType)
       /\ Len(sections') = Len(sections) + 1
       /\ \A k \in 1..Len(sections) : sections'[k] = sections[k]
       /\ sections'[Len(sections) + 1] = section
  <2> HIDE DEF section
  <2> QED
    BY <1>1, <1>3, <1>12, AppendProperties
<1>14. Iteration(n)
  <2>1. /\ section.slug = CounterSlug(Base)
        /\ section.level = Match.level
        /\ section.order = Len(sections)
        /\ section.body = Body(Match, Len(sections))
        /\ section.path = [k \in 1..n |-> stack[k].order] \o <<Len(sections)>>
    BY <1>8
  <2> HIDE DEF section, open
  <2> QED
    BY <1>4, <1>7, <1>10, <1>13, <2>1 DEF Iteration
<1> QED
  BY <1>7, <1>13, <1>14

-----------------------------------------------------------------------------
(* Type correctness.                                                       *)

LEMMA InitInv == Init => Inv
<1> SUFFICES ASSUME Init PROVE Inv
  OBVIOUS
<1>1. text \in Seq(Lines)
  BY LineAssumption, SeqDef DEF Init, BoundedSeq, SeqOf
<1>2. Found
  BY <1>1, LenProperties DEF Init, Found
<1>3. Progress /\ Stacked
  BY DEF Init, Progress, Stacked
<1>4. Counted
  <2>1. counters = [b \in {} |-> 0] /\ DOMAIN counters = {}
    BY DEF Init
  <2> QED
    BY <2>1 DEF Counted
<1> QED
  BY <1>2, <1>3, <1>4 DEF Inv

LEMMA FindHeadingKeepsInv ==
  ASSUME Inv, FindHeading
  PROVE  Inv'
<1> DEFINE last == IF text[position].bare THEN position + 1 ELSE position
           heading == [level |-> text[position].marks, words |-> text[last].words,
                       first |-> position, last |-> last]
<1>1. /\ matches' = Append(matches, heading) /\ position' = last + 1
      /\ Searching /\ IsHeading(position)
      /\ text' = text /\ sections' = sections /\ counters' = counters /\ stack' = stack
  BY DEF FindHeading
<1>2. /\ Len(text) \in Nat /\ Len(matches) \in Nat
      /\ position \in 1..Len(text) /\ text \in Seq(Lines)
  BY <1>1, LenProperties DEF Searching, Inv, Found
<1>3. /\ text[position] \in Lines
      /\ last \in 1..Len(text) /\ text[last] \in Lines /\ position <= last
  <2>1. text[position] \in Lines /\ text[position].bare \in BOOLEAN
    BY <1>2, ElementOfSeq, LineAssumption
  <2>2. last \in 1..Len(text) /\ position <= last
    BY <1>1, <1>2, <2>1 DEF IsHeading
  <2> QED
    BY <2>1, <2>2, <1>2, ElementOfSeq
<1>4. heading \in HeadingType
  <2>1. text[position].marks \in {2, 3, 4}
    BY <1>1, <1>3, LineAssumption DEF IsHeading
  <2>2. text[last].words \in Seq(Word)
    BY <1>3, LineAssumption DEF Word
  <2>3. position \in Nat \ {0} /\ last \in Nat
    BY <1>2, <1>3
  <2> HIDE DEF last
  <2> QED
    BY <2>1, <2>2, <2>3 DEF HeadingType
<1>5. /\ matches \in Seq(HeadingType) /\ matches' \in Seq(HeadingType)
      /\ Len(matches') = Len(matches) + 1 /\ matches' # << >>
      /\ \A i \in 1..Len(matches) : matches'[i] = matches[i]
      /\ matches'[Len(matches) + 1].first = position
      /\ matches'[Len(matches) + 1].last = last
  <2>1. heading.first = position /\ heading.last = last
    OBVIOUS
  <2>2. matches \in Seq(HeadingType)
    BY DEF Inv, Found
  <2> HIDE DEF heading
  <2> QED
    BY <1>1, <1>4, <2>1, <2>2, AppendProperties
<1>6. Found'
  <2>1. \A i \in 1..Len(matches) :
          /\ matches'[i].first <= matches'[i].last /\ matches'[i].last < position
          /\ matches'[i].first \in Nat /\ matches'[i].last \in Nat
    BY <1>5, Levels DEF Inv, Found
  <2> HIDE DEF last
  <2>2. /\ text' \in Seq(Lines) /\ position' \in 1..(Len(text') + 1)
    BY <1>1, <1>2, <1>3
  <2>3. \A i \in 1..Len(matches') :
          matches'[i].first <= matches'[i].last /\ matches'[i].last < position'
    BY <1>1, <1>2, <1>3, <1>5, <2>1
  <2>4. \A i, j \in 1..Len(matches') : i < j => matches'[i].last < matches'[j].first
    <3> SUFFICES ASSUME NEW i \in 1..Len(matches'), NEW j \in 1..Len(matches'), i < j
                 PROVE  matches'[i].last < matches'[j].first
      OBVIOUS
    <3>1. CASE j = Len(matches) + 1
      BY <3>1, <1>2, <1>5, <2>1
    <3>2. CASE j # Len(matches) + 1
      <4>1. i \in 1..Len(matches) /\ j \in 1..Len(matches)
        BY <3>2, <1>2, <1>5
      <4>2. matches[i].last < matches[j].first
        BY <4>1 DEF Inv, Found
      <4> QED
        BY <4>1, <4>2, <1>5
    <3> QED
      BY <3>1, <3>2
  <2> QED
    BY <1>5, <2>2, <2>3, <2>4 DEF Found
<1>7. Progress'
  <2>1. sections = << >> /\ Len(sections) = 0
    BY <1>1 DEF Inv, Progress
  <2>2. sections' = << >> /\ sections' \in Seq(SectionType) /\ Len(sections') = 0
    BY <1>1, <2>1
  <2> QED
    BY <2>2, <1>2, <1>5 DEF Progress
<1>8. Stacked' /\ Counted'
  BY <1>1 DEF Inv, Stacked, Counted
<1> QED
  BY <1>6, <1>7, <1>8 DEF Inv

LEMMA SkipLineKeepsInv ==
  ASSUME Inv, SkipLine
  PROVE  Inv'
<1>1. Len(text) \in Nat /\ \A i \in 1..Len(matches) : matches[i].last \in Nat
  BY Levels, LenProperties DEF Inv, Found
<1>2. Found'
  BY <1>1 DEF SkipLine, Searching, Inv, Found
<1>3. sections = << >> /\ sections' = << >>
  BY DEF SkipLine, Inv, Progress
<1>4. Progress'
  BY <1>3 DEF SkipLine, Inv, Progress
<1>5. Stacked' /\ Counted'
  BY DEF SkipLine, Inv, Stacked, Counted
<1> QED
  BY <1>2, <1>4, <1>5 DEF Inv

LEMMA ParseHeadingKeepsInv ==
  ASSUME Inv, ParseHeading
  PROVE  Inv'
<1>1. /\ text' = text /\ position' = position /\ matches' = matches
      /\ ~Searching /\ Len(sections) < Len(matches)
      /\ counters' = [b \in DOMAIN counters \cup {Base} |->
                        IF b = Base THEN Count(Base) + 1 ELSE counters[b]]
  BY DEF ParseHeading, Match, Base
<1>2. PICK n \in 0..Len(stack) : Iteration(n)
  BY OneIteration
<1>3. stack' \in Seq(StackType) /\ sections' \in Seq(SectionType)
  BY OneIteration
<1>4. /\ Len(sections) \in Nat /\ Len(stack) \in Nat /\ Len(matches) \in Nat
      /\ stack \in Seq(StackType)
  BY LenProperties DEF Inv, Found, Progress, Stacked
<1>5. Match \in HeadingType /\ Match.level \in {2, 3, 4}
  BY <1>1, SlugTypes DEF HeadingType
<1>6. Found'
  BY <1>1 DEF Inv, Found
<1>7. Progress'
  <2>1. Len(sections') = Len(sections) + 1
    BY <1>2 DEF Iteration
  <2>2. \A i \in 1..Len(sections') :
          sections'[i].order = i - 1 /\ sections'[i].body \subseteq 1..Len(text)
    <3> SUFFICES ASSUME NEW i \in 1..Len(sections')
                 PROVE  sections'[i].order = i - 1 /\ sections'[i].body \subseteq 1..Len(text)
      OBVIOUS
    <3>1. CASE i \in 1..Len(sections)
      BY <3>1, <1>2 DEF Iteration, Inv, Progress
    <3>2. CASE i = Len(sections) + 1
      BY <3>2, <1>1, <1>2, <1>4, BodyInText DEF Iteration
    <3> QED
      BY <2>1, <1>4, <3>1, <3>2
  <2>3. ~Searching' /\ matches' # << >>
    BY <1>1, <1>4 DEF Searching
  <2> QED
    BY <1>1, <1>3, <1>4, <2>1, <2>2, <2>3 DEF Progress
<1>8. Stacked'
  <2>1. \A k \in 1..Len(stack) : stack[k].level \in {2, 3, 4}
    BY <1>4, Levels
  <2>2. /\ Len(stack') = n + 1
        /\ \A k \in 1..n : stack'[k] = stack[k]
        /\ stack'[n + 1].level = Match.level
        /\ n > 0 => stack[n].level < Match.level
    BY <1>2 DEF Iteration
  <2>3. \A k \in 1..n : stack[k].level < Match.level
    <3> SUFFICES ASSUME NEW k \in 1..n PROVE stack[k].level < Match.level
      OBVIOUS
    <3>1. n \in 1..Len(stack) /\ k \in 1..Len(stack)
      BY <1>4
    <3>2. k < n => stack[k].level < stack[n].level
      BY <3>1 DEF Inv, Stacked
    <3> QED
      BY <3>1, <3>2, <2>1, <2>2, <1>4, <1>5
  <2>4. \A k \in 1..Len(stack') : stack'[k].level > k
    <3>1. n = 0 \/ (n \in 1..Len(stack) /\ stack[n].level > n)
      BY <1>4 DEF Inv, Stacked
    <3>2. Match.level > n + 1
      BY <3>1, <2>1, <2>2, <1>4, <1>5
    <3>3. \A k \in 1..n : stack[k].level > k
      BY <1>4 DEF Inv, Stacked
    <3> QED
      BY <3>2, <3>3, <2>2, <1>4
  <2>5. \A l, k \in 1..Len(stack') : l < k => stack'[l].level < stack'[k].level
    <3> SUFFICES ASSUME NEW l \in 1..Len(stack'), NEW k \in 1..Len(stack'), l < k
                 PROVE  stack'[l].level < stack'[k].level
      OBVIOUS
    <3>1. CASE k = n + 1
      BY <3>1, <2>2, <2>3, <1>4
    <3>2. CASE k # n + 1
      <4>1. l \in 1..n /\ k \in 1..n /\ l \in 1..Len(stack) /\ k \in 1..Len(stack)
        BY <3>2, <2>2, <1>4
      <4>2. stack[l].level < stack[k].level
        BY <4>1 DEF Inv, Stacked
      <4> QED
        BY <4>1, <4>2, <2>2
    <3> QED
      BY <3>1, <3>2
  <2> QED
    BY <1>3, <2>4, <2>5 DEF Stacked
<1>9. Counted'
  <2>1. Base \in Seq(Word) /\ Count(Base) \in Nat /\ Count(Base) <= Len(sections)
    BY <1>1, SlugTypes
  <2>2. Len(sections') = Len(sections) + 1
    BY <1>2 DEF Iteration
  <2>3. \A b \in DOMAIN counters : counters[b] \in 1..Len(sections)
    BY DEF Inv, Counted
  <2> QED
    BY <1>1, <1>4, <2>1, <2>2, <2>3 DEF Inv, Counted
<1> QED
  BY <1>6, <1>7, <1>8, <1>9 DEF Inv

LEMMA ParsePlainKeepsInv ==
  ASSUME Inv, ParsePlain
  PROVE  Inv'
<1> DEFINE section == [slug |-> Overview, level |-> 1, order |-> 0, body |-> DOMAIN text,
                       path |-> <<0>>, parent |-> None]
<1>1. /\ sections' = <<section>> /\ ~Searching /\ matches = << >> /\ sections = << >>
      /\ UNCHANGED <<text, position, matches, counters, stack>>
  BY DEF ParsePlain
<1>2. text \in Seq(Lines) /\ Len(text) \in Nat /\ DOMAIN text = 1..Len(text)
  BY LenProperties DEF Inv, Found
<1>3. section \in SectionType
  <2>1. <<0>> \in Seq(Nat)
    OBVIOUS
  <2> QED
    BY <1>2, <2>1 DEF SectionType
<1>4. section.order = 0 /\ section.body = 1..Len(text)
  BY <1>2
<1>5. /\ sections' \in Seq(SectionType) /\ Len(sections') = 1 /\ sections'[1] = section
      /\ sections' # << >>
  <2> HIDE DEF section
  <2> QED
    BY <1>1, <1>3
<1>6. Found' /\ Stacked'
  BY <1>1 DEF Inv, Found, Stacked
<1>7. Progress'
  <2> HIDE DEF section
  <2>1. ~Searching' /\ matches' = << >> /\ stack' = << >> /\ text' = text
    BY <1>1 DEF Searching, Inv, Progress
  <2>2. \A i \in 1..Len(sections') : i = 1
    BY <1>5
  <2>3. sections'[1].order = 0 /\ sections'[1].body = 1..Len(text)
    BY <1>4, <1>5
  <2>4. \A i \in 1..Len(sections') :
          sections'[i].order = i - 1 /\ sections'[i].body \subseteq 1..Len(text')
    BY <2>1, <2>2, <2>3
  <2> QED
    BY <1>5, <2>1, <2>4 DEF Progress
<1>8. Counted'
  <2>1. \A b \in DOMAIN counters : counters[b] \in 1..Len(sections)
    BY DEF Inv, Counted
  <2>2. 1..Len(sections) = {}
    BY <1>1
  <2>3. DOMAIN counters = {}
    BY <2>1, <2>2
  <2>4. DOMAIN counters' \subseteq Seq(Word) /\ counters' \in [DOMAIN counters' -> 1..Len(sections')]
    BY <1>1, <2>3 DEF Inv, Counted
  <2> QED
    BY <2>4 DEF Counted
<1> QED
  BY <1>6, <1>7, <1>8 DEF Inv

LEMMA NextKeepsInv == Inv /\ [Next]_vars => Inv'
<1> SUFFICES ASSUME Inv, [Next]_vars PROVE Inv'
  OBVIOUS
<1>1. CASE FindHeading
  BY <1>1, FindHeadingKeepsInv
<1>2. CASE SkipLine
  BY <1>2, SkipLineKeepsInv
<1>3. CASE ParseHeading
  BY <1>3, ParseHeadingKeepsInv
<1>4. CASE ParsePlain
  BY <1>4, ParsePlainKeepsInv
<1>5. CASE UNCHANGED vars
  BY <1>5 DEF vars, Inv, Found, Progress, Stacked, Counted, Searching
<1> QED
  BY <1>1, <1>2, <1>3, <1>4, <1>5 DEF Next

LEMMA InvIsTypeOK == Inv => TypeOK
<1> SUFFICES ASSUME Inv PROVE TypeOK
  OBVIOUS
<1>1. /\ DOMAIN text = 1..Len(text) /\ DOMAIN matches = 1..Len(matches)
      /\ DOMAIN sections = 1..Len(sections) /\ DOMAIN stack = 1..Len(stack)
  BY LenProperties DEF Inv, Found, Progress, Stacked
<1>2. \A i \in DOMAIN matches : matches[i].level \in {2, 3, 4}
  BY <1>1, Levels DEF Inv, Found
<1>3. \A i \in DOMAIN sections : sections[i].level \in {1, 2, 3, 4}
  BY <1>1, Levels DEF Inv, Progress
<1>4. \A b \in DOMAIN counters : counters[b] \in 1..Len(sections)
  BY DEF Inv, Counted
<1> QED
  BY <1>1, <1>2, <1>3, <1>4 DEF TypeOK, Inv, Found, Progress, Stacked

\* Every state of the parser is well typed: headings end before the search goes
\* on, bodies lie in the text, and the stack of open headings gets deeper.
THEOREM TypeCorrect == Spec => []TypeOK
<1>1. Spec => []Inv
  BY InitInv, NextKeepsInv, PTL DEF Spec
<1> QED
  BY <1>1, InvIsTypeOK, PTL

-----------------------------------------------------------------------------
(* Parents and paths.                                                      *)

\* Entry m of the stack is the one section i lies under or is: what came after
\* it and was not as deep has popped everything above.
Covers(m, i) ==
  /\ i <= stack[m].order + 1
  /\ sections[i].level >= stack[m].level
  /\ \A l \in 1..(m - 1) : stack[l].order + 1 < i

\* The positions on the stack up to entry n.
Chain(n) == [k \in 1..n |-> stack[k].order]

\* The stack holds open sections with their levels and paths, in their order,
\* and covers all sections.
Nested ==
  /\ \A n \in 1..Len(stack) :
       /\ stack[n].order < Len(sections)
       /\ sections[stack[n].order + 1].level = stack[n].level
       /\ sections[stack[n].order + 1].path = Chain(n)
  /\ \A n, m \in 1..Len(stack) : n < m => stack[n].order < stack[m].order
  /\ matches # << >> =>
       \A i \in 1..Len(sections) : \E m \in 1..Len(stack) : Covers(m, i)

IsNearest(i, parent) ==
  \/ parent = None /\ Shallower(i) = {}
  \/ /\ parent \in Nat /\ parent + 1 \in Shallower(i)
     /\ \A j \in Shallower(i) : j <= parent + 1

Parents == \A i \in 1..Len(sections) : IsNearest(i, sections[i].parent)

\* The levels of the sections from i + 1 to j are below that of section i.
Deeper(i, j) == \A k \in (i + 1)..j : sections[k].level > sections[i].level

Paths ==
  /\ \A i \in 1..Len(sections) :
       /\ sections[i].path # << >>
       /\ sections[i].path[Len(sections[i].path)] = i - 1
  /\ \A i, j \in 1..Len(sections) :
       sections[j].parent = i - 1 => sections[j].path = Append(sections[i].path, j - 1)
  /\ \A i, j \in 1..Len(sections) :
       i < j => (IsPrefix(sections[i].path, sections[j].path) <=> Deeper(i, j))

\* What the stack of a body says of the sections before the next heading: the
\* entries that stay are those the heading lies in.
LEMMA StackSorts ==
  ASSUME Inv, Nested, matches # << >>, NEW n \in 0..Len(stack), NEW level \in {2, 3, 4},
         n > 0 => stack[n].level < level,
         \A k \in (n + 1)..Len(stack) : stack[k].level >= level,
         NEW i \in 1..Len(sections)
  PROVE  /\ (n = 0 \/ i > stack[n].order + 1) => sections[i].level >= level
         /\ (\E l \in 1..n : stack[l].order = i - 1)
              <=> (Deeper(i, Len(sections)) /\ sections[i].level < level)
<1>1. /\ Len(sections) \in Nat /\ Len(stack) \in Nat /\ level \in Nat /\ n \in Nat /\ i \in Nat
      /\ \A k \in 1..Len(sections) : sections[k].level \in Nat
      /\ \A k \in 1..Len(stack) : stack[k].level \in Nat /\ stack[k].order \in Nat
  <2>1. {1, 2, 3, 4} \subseteq Nat /\ {2, 3, 4} \subseteq Nat
    OBVIOUS
  <2>2. /\ \A k \in 1..Len(sections) : sections[k].level \in {1, 2, 3, 4}
        /\ \A k \in 1..Len(stack) : stack[k].level \in {2, 3, 4} /\ stack[k].order \in Nat
    BY Levels DEF Inv, Progress, Stacked
  <2>3. Len(sections) \in Nat /\ Len(stack) \in Nat
    BY LenProperties DEF Inv, Progress, Stacked
  <2>4. /\ \A k \in 1..Len(sections) : sections[k].level \in Nat
        /\ \A k \in 1..Len(stack) : stack[k].level \in Nat /\ stack[k].order \in Nat
    BY <2>1, <2>2, Zenon
  <2> QED
    BY <2>3, <2>4
<1>2. \A l, m \in 1..Len(stack) : l < m => /\ stack[l].order < stack[m].order
                                           /\ stack[l].level < stack[m].level
  <2>1. \A l, m \in 1..Len(stack) : l < m => stack[l].order < stack[m].order
    BY DEF Nested
  <2>2. \A l, m \in 1..Len(stack) : l < m => stack[l].level < stack[m].level
    BY DEF Inv, Stacked
  <2> QED
    BY <2>1, <2>2, Zenon
<1>3. \A k \in 1..Len(sections) : \E m \in 1..Len(stack) : Covers(m, k)
  BY DEF Nested
<1>4. \A k \in 1..Len(stack) : /\ stack[k].order + 1 \in 1..Len(sections)
                               /\ sections[stack[k].order + 1].level = stack[k].level
  <2>1. \A k \in 1..Len(stack) : /\ stack[k].order < Len(sections)
                                 /\ sections[stack[k].order + 1].level = stack[k].level
    BY DEF Nested
  <2>2. \A x \in Nat : x < Len(sections) => x + 1 \in 1..Len(sections)
    BY <1>1
  <2> QED
    BY <2>1, <2>2, <1>1, Zenon
<1>5. ASSUME n = 0 \/ i > stack[n].order + 1
      PROVE  sections[i].level >= level
  <2>1. PICK m \in 1..Len(stack) : Covers(m, i)
    BY <1>3
  <2>2. m > n
    <3>1. CASE m <= n
      <4>1. n \in 1..Len(stack) /\ (m = n \/ m < n) /\ n # 0
        BY <3>1, <1>1
      <4>2. stack[m].order <= stack[n].order
        <5>1. stack[n].order \in Nat
          BY <4>1, <1>1
        <5>2. m < n => stack[m].order < stack[n].order /\ stack[m].order \in Nat
          BY <4>1, <1>1, <1>2
        <5> QED
          BY <5>1, <5>2, <4>1
      <4>3. i <= stack[m].order + 1
        BY <2>1 DEF Covers
      <4> QED
        BY <4>1, <4>2, <4>3, <1>1, <1>5
    <3> QED
      BY <3>1, <1>1
  <2>3. stack[m].level >= level
    BY <2>2, <1>1
  <2>4. sections[i].level >= stack[m].level
    BY <2>1 DEF Covers
  <2>5. sections[i].level \in Nat /\ stack[m].level \in Nat
    BY <1>1
  <2> QED
    BY <2>3, <2>4, <2>5, <1>1
<1>6. ASSUME NEW l \in 1..n, stack[l].order = i - 1
      PROVE  Deeper(i, Len(sections)) /\ sections[i].level < level
  <2>1. l \in 1..Len(stack) /\ (l = n \/ l < n) /\ n \in 1..Len(stack)
    BY <1>1
  <2>2. sections[i].level = stack[l].level
    BY <2>1, <1>1, <1>4, <1>6
  <2>3. stack[l].level < level
    <3>1. stack[n].level < level /\ stack[n].level \in Nat /\ stack[l].level \in Nat
      BY <2>1, <1>1
    <3>2. l = n \/ stack[l].level < stack[n].level
      BY <2>1, <1>2
    <3>3. CASE l = n
      BY <3>1, <3>3
    <3>4. CASE stack[l].level < stack[n].level
      BY <3>1, <3>4, <1>1
    <3> QED
      BY <3>2, <3>3, <3>4
  <2>4. ASSUME NEW k \in (i + 1)..Len(sections)
        PROVE  sections[k].level > sections[i].level
    <3>1. k \in 1..Len(sections) /\ k > stack[l].order + 1
      BY <1>1, <1>6
    <3>2. PICK m \in 1..Len(stack) : Covers(m, k)
      BY <3>1, <1>3
    <3>3. k <= stack[m].order + 1 /\ sections[k].level >= stack[m].level
      BY <3>2 DEF Covers
    <3>4. /\ stack[m].order \in Nat /\ stack[l].order \in Nat
          /\ stack[m].level \in Nat /\ stack[l].level \in Nat /\ sections[k].level \in Nat
      BY <3>1, <2>1, <1>1
    <3>5. m > l
      <4>1. m # l
        BY <3>1, <3>3, <3>4
      <4>2. CASE m < l
        <5>1. stack[m].order < stack[l].order
          BY <4>2, <2>1, <1>2
        <5>2. k > stack[l].order + 1 /\ k <= stack[m].order + 1 /\ k \in Nat
          BY <3>1, <3>3
        <5>3. \A a, b, x \in Nat : a < b /\ x > b + 1 => ~(x <= a + 1)
          OBVIOUS
        <5> QED
          BY <5>1, <5>2, <5>3, <3>4, Zenon
      <4> QED
        BY <4>1, <4>2
    <3>6. stack[l].level < stack[m].level
      BY <3>5, <2>1, <1>2
    <3> QED
      <4>1. \A x, y, z \in Nat : x < y /\ z >= y => z > x
        OBVIOUS
      <4>2. sections[k].level > stack[l].level
        BY <3>3, <3>4, <3>6, <4>1, Zenon
      <4> QED
        BY <4>2, <2>2, Zenon
  <2> QED
    BY <2>2, <2>3, <2>4 DEF Deeper
<1>7. ASSUME Deeper(i, Len(sections)), sections[i].level < level
      PROVE  \E l \in 1..n : stack[l].order = i - 1
  <2>1. PICK m \in 1..Len(stack) : Covers(m, i)
    BY <1>3
  <2>2. i <= stack[m].order + 1 /\ sections[i].level >= stack[m].level
    BY <2>1 DEF Covers
  <2>3. stack[m].order \in Nat /\ stack[m].level \in Nat /\ sections[i].level \in Nat
    BY <1>1
  <2>4. stack[m].order = i - 1
    <3>1. CASE i < stack[m].order + 1
      <4>1. stack[m].order + 1 \in (i + 1)..Len(sections)
        BY <3>1, <2>3, <1>1, <1>4
      <4>2. sections[stack[m].order + 1].level > sections[i].level
        BY <4>1, <1>7 DEF Deeper
      <4>3. stack[m].level > sections[i].level
        BY <4>2, <1>4
      <4> QED
        BY <4>3, <2>2, <2>3
    <3> QED
      BY <3>1, <2>2, <2>3, <1>1
  <2>5. m <= n
    <3>1. stack[m].level < level
      BY <2>2, <2>3, <1>1, <1>7
    <3>2. CASE m > n
      <4>1. stack[m].level >= level
        BY <3>2, <1>1
      <4> QED
        BY <4>1, <3>1, <2>3, <1>1
    <3> QED
      BY <3>2, <1>1
  <2> QED
    BY <2>4, <2>5
<1> QED
  BY <1>5, <1>6, <1>7

LEMMA PrefixByElements ==
  ASSUME NEW s \in Seq(Nat), NEW t \in Seq(Nat)
  PROVE  IsPrefix(s, t) <=> Len(s) <= Len(t) /\ \A k \in 1..Len(s) : s[k] = t[k]
<1>1. Len(s) \in Nat /\ Len(t) \in Nat /\ SubSeq(s, 1, Len(s)) = s
  BY LenProperties, SubSeqFull
<1>2. ASSUME Len(s) <= Len(t)
      PROVE  SubSeq(s, 1, Len(s)) = SubSeq(t, 1, Len(s))
               <=> \A k \in 1..Len(s) : s[k] = t[k]
  <2>1. \A k \in 1..Len(s) : t[k] \in Nat
    BY <1>1, <1>2, ElementOfSeq
  <2>2. /\ SubSeq(t, 1, Len(s)) \in Seq(Nat)
        /\ Len(SubSeq(t, 1, Len(s))) = IF 1 <= Len(s) THEN Len(s) - 1 + 1 ELSE 0
        /\ \A k \in 1..(Len(s) - 1 + 1) : SubSeq(t, 1, Len(s))[k] = t[1 + k - 1]
    BY <1>1, <2>1, SubSeqProperties
  <2>3. /\ Len(SubSeq(t, 1, Len(s))) = Len(s)
        /\ \A k \in 1..Len(s) : SubSeq(t, 1, Len(s))[k] = t[k]
    BY <1>1, <2>2
  <2>4. (\A k \in 1..Len(s) : s[k] = t[k]) => s = SubSeq(t, 1, Len(s))
    BY <2>2, <2>3, SeqEqual
  <2> QED
    BY <1>1, <2>3, <2>4
<1> QED
  BY <1>1, <1>2 DEF IsPrefix

LEMMA ChainFacts ==
  ASSUME Inv, NEW n \in 0..Len(stack), NEW x \in Nat
  PROVE  /\ Chain(n) \in Seq(Nat) /\ Len(Chain(n)) = n
         /\ \A k \in 1..n : Chain(n)[k] = stack[k].order
         /\ Chain(n) \o <<x>> = Append(Chain(n), x)
         /\ Chain(n) \o <<x>> \in Seq(Nat) /\ Len(Chain(n) \o <<x>>) = n + 1
         /\ \A k \in 1..n : (Chain(n) \o <<x>>)[k] = stack[k].order
         /\ (Chain(n) \o <<x>>)[n + 1] = x
<1>1. \A k \in 1..Len(stack) : stack[k].order \in Nat
  BY Levels DEF Inv, Stacked
<1>2. n \in Nat /\ \A k \in 1..n : k \in 1..Len(stack)
  BY LenProperties DEF Inv, Stacked
<1>3. Chain(n) \in [1..n -> Nat]
  BY <1>1, <1>2 DEF Chain
<1>4. Chain(n) \in Seq(Nat) /\ DOMAIN Chain(n) = 1..n
  BY <1>2, <1>3, SeqDef
<1>5. Len(Chain(n)) = n
  BY <1>2, <1>4
<1>6. \A k \in 1..n : Chain(n)[k] = stack[k].order
  BY DEF Chain
<1>7. Append(Chain(n), x) = Chain(n) \o <<x>>
  BY <1>4, AppendIsConcat
<1>8. /\ Append(Chain(n), x) \in Seq(Nat) /\ Len(Append(Chain(n), x)) = Len(Chain(n)) + 1
      /\ \A k \in 1..Len(Chain(n)) : Append(Chain(n), x)[k] = Chain(n)[k]
      /\ Append(Chain(n), x)[Len(Chain(n)) + 1] = x
  BY <1>4, AppendProperties
<1> QED
  BY <1>4, <1>5, <1>6, <1>7, <1>8, Zenon

\* The next heading and the sections and entries it meets.
LEMMA Meets ==
  ASSUME Inv, Nested, ParseHeading, NEW n \in 0..Len(stack), Iteration(n)
  PROVE  /\ matches # << >> /\ matches' = matches
         /\ n \in Nat /\ Len(sections) \in Nat /\ Len(stack) \in Nat
         /\ Match.level \in {2, 3, 4} /\ Match.level \in Nat
         /\ \A k \in 1..Len(sections) :
              /\ sections'[k] = sections[k] /\ sections[k].level \in Nat
              /\ sections[k].path \in Seq(Nat) /\ k # Len(sections) + 1
              /\ k \in 1..Len(sections')
         /\ \A k \in 1..Len(stack) :
              /\ stack[k].order \in Nat /\ stack[k].level \in Nat
              /\ stack[k].order + 1 \in 1..Len(sections)
              /\ sections[stack[k].order + 1].level = stack[k].level
              /\ sections[stack[k].order + 1].path = Chain(k)
         /\ \A k \in 1..n : k \in 1..Len(stack)
<1>1. Len(sections) < Len(matches) /\ matches' = matches
  BY DEF ParseHeading
<1>2. Len(sections) \in Nat /\ Len(stack) \in Nat /\ Len(matches) \in Nat
  BY LenProperties DEF Inv, Found, Progress, Stacked
<1>3. matches # << >> /\ n \in Nat /\ \A k \in 1..n : k \in 1..Len(stack)
  BY <1>1, <1>2
<1>4. {1, 2, 3, 4} \subseteq Nat /\ {2, 3, 4} \subseteq Nat
  OBVIOUS
<1>5. Match.level \in {2, 3, 4} /\ Match.level \in Nat
  <2>1. Match \in HeadingType
    BY <1>1, SlugTypes
  <2>2. Match.level \in {2, 3, 4}
    BY <2>1 DEF HeadingType
  <2> QED
    BY <2>2, <1>4, Zenon
<1>6. \A k \in 1..Len(sections) :
        /\ sections'[k] = sections[k] /\ sections[k].level \in Nat
        /\ sections[k].path \in Seq(Nat) /\ k # Len(sections) + 1
        /\ k \in 1..Len(sections')
  <2>1. \A k \in 1..Len(sections) : sections[k].level \in {1, 2, 3, 4} /\ sections[k].path \in Seq(Nat)
    BY Levels DEF Inv, Progress
  <2>2. \A k \in 1..Len(sections) : sections'[k] = sections[k]
    BY DEF Iteration
  <2>3. Len(sections') = Len(sections) + 1
    BY DEF Iteration
  <2>4. \A k \in 1..Len(sections) : k # Len(sections) + 1 /\ k \in 1..Len(sections')
    BY <1>2, <2>3
  <2> QED
    BY <1>4, <2>1, <2>2, <2>4, Zenon
<1>7. \A k \in 1..Len(stack) : stack[k].order \in Nat /\ stack[k].level \in Nat
  <2>1. \A k \in 1..Len(stack) : stack[k].order \in Nat /\ stack[k].level \in {2, 3, 4}
    BY Levels DEF Inv, Stacked
  <2> QED
    BY <1>4, <2>1, Zenon
<1>8. \A k \in 1..Len(stack) :
        /\ stack[k].order + 1 \in 1..Len(sections)
        /\ sections[stack[k].order + 1].level = stack[k].level
        /\ sections[stack[k].order + 1].path = Chain(k)
  <2>1. \A k \in 1..Len(stack) :
          /\ stack[k].order < Len(sections)
          /\ sections[stack[k].order + 1].level = stack[k].level
          /\ sections[stack[k].order + 1].path = Chain(k)
    BY DEF Nested
  <2>2. \A x \in Nat : x < Len(sections) => x + 1 \in 1..Len(sections)
    BY <1>2
  <2> QED
    BY <1>7, <2>1, <2>2, Zenon
<1> QED
  BY <1>1, <1>2, <1>3, <1>5, <1>6, <1>7, <1>8, Zenon

LEMMA HeadingKeepsNested ==
  ASSUME Inv, Nested, ParseHeading, NEW n \in 0..Len(stack), Iteration(n)
  PROVE  Nested'
<1>1. /\ matches # << >> /\ n \in Nat /\ Len(sections) \in Nat /\ Len(stack) \in Nat
      /\ Match.level \in Nat
      /\ \A k \in 1..Len(sections) : sections'[k] = sections[k] /\ sections[k].level \in Nat
      /\ \A k \in 1..n : k \in 1..Len(stack)
  BY Meets, Zenon
<1>2. \A k \in 1..Len(stack) :
        /\ stack[k].order \in Nat /\ stack[k].level \in Nat
        /\ stack[k].order + 1 \in 1..Len(sections)
        /\ sections[stack[k].order + 1].level = stack[k].level
        /\ sections[stack[k].order + 1].path = Chain(k)
  BY Meets, Zenon
<1>3. /\ Len(stack') = n + 1 /\ Len(sections') = Len(sections) + 1
      /\ \A k \in 1..n : stack'[k] = stack[k]
      /\ stack'[n + 1].order = Len(sections) /\ stack'[n + 1].level = Match.level
      /\ sections'[Len(sections) + 1].level = Match.level
      /\ sections'[Len(sections) + 1].path = Chain(n) \o <<Len(sections)>>
      /\ n > 0 => stack[n].level < Match.level
      /\ \A k \in (n + 1)..Len(stack) : stack[k].level >= Match.level
  BY DEF Iteration, Chain
<1>4. \A e \in 1..n : e \in Nat /\ Chain(e)' = Chain(e) /\ stack'[e].order = stack[e].order
  <2> SUFFICES ASSUME NEW e \in 1..n
               PROVE  e \in Nat /\ Chain(e)' = Chain(e) /\ stack'[e].order = stack[e].order
    OBVIOUS
  <2>1. e \in Nat /\ \A k \in 1..e : k \in 1..n
    BY <1>1
  <2>2. \A k \in 1..e : stack'[k].order = stack[k].order
    BY <2>1, <1>3
  <2> QED
    BY <2>1, <2>2, <1>3 DEF Chain
<1>5. Chain(n + 1)' = Chain(n) \o <<Len(sections)>>
  <2> DEFINE s == [k \in 1..(n + 1) |-> stack'[k].order]
             t == Chain(n) \o <<Len(sections)>>
  <2>1. /\ t \in Seq(Nat) /\ Len(t) = n + 1
        /\ \A k \in 1..n : t[k] = stack[k].order
        /\ t[n + 1] = Len(sections)
    BY <1>1, ChainFacts
  <2>2. \A k \in 1..(n + 1) : k \in 1..n \/ k = n + 1
    BY <1>1
  <2>3. \A k \in 1..n : stack'[k].order = stack[k].order /\ stack[k].order \in Nat
    BY <1>1, <1>2, <1>3
  <2>4. \A k \in 1..(n + 1) : stack'[k].order \in Nat /\ stack'[k].order = t[k]
    BY <2>1, <2>2, <2>3, <1>1, <1>3, Zenon
  <2>5. \A k \in 1..(n + 1) : s[k] = t[k]
    BY <2>4
  <2>6. n + 1 \in Nat /\ s \in [1..(n + 1) -> Nat]
    BY <2>4, <1>1
  <2>7. s \in Seq(Nat) /\ Len(s) = n + 1
    <3> HIDE DEF s
    <3>1. s \in Seq(Nat) /\ DOMAIN s = 1..(n + 1)
      BY <2>6, SeqDef
    <3> QED
      BY <3>1, <2>6
  <2>8. s = t
    <3> HIDE DEF s, t
    <3> QED
      BY <2>1, <2>5, <2>7, SeqEqual
  <2> QED
    BY <2>8 DEF Chain
<1>6. ASSUME NEW e \in 1..Len(stack')
      PROVE  /\ stack'[e].order < Len(sections')
             /\ sections'[stack'[e].order + 1].level = stack'[e].level
             /\ sections'[stack'[e].order + 1].path = Chain(e)'
  <2>1. CASE e \in 1..n
    <3>1. e \in 1..Len(stack) /\ stack'[e] = stack[e]
      BY <2>1, <1>1, <1>3
    <3>2. /\ stack[e].order + 1 \in 1..Len(sections) /\ stack[e].order \in Nat
          /\ sections'[stack[e].order + 1] = sections[stack[e].order + 1]
      BY <3>1, <1>1, <1>2
    <3>3. stack[e].order < Len(sections')
      BY <3>2, <1>1, <1>3
    <3> QED
      BY <2>1, <3>1, <3>2, <3>3, <1>2, <1>4, Zenon
  <2>2. CASE e = n + 1
    <3>1. Len(sections) < Len(sections')
      BY <1>1, <1>3
    <3>2. stack'[e].order = Len(sections) /\ stack'[e].level = Match.level
      BY <2>2, <1>3
    <3>3. Chain(e)' = Chain(n + 1)'
      BY <2>2
    <3> QED
      BY <3>1, <3>2, <3>3, <1>3, <1>5, Zenon
  <2> QED
    BY <2>1, <2>2, <1>1, <1>3
<1>7. ASSUME NEW l \in 1..Len(stack'), NEW m \in 1..Len(stack'), l < m
      PROVE  stack'[l].order < stack'[m].order
  <2>1. CASE m = n + 1
    <3>1. l \in 1..n
      BY <2>1, <1>1, <1>3, <1>7
    <3>2. stack'[l].order = stack[l].order /\ stack[l].order < Len(sections)
      <4>1. stack'[l] = stack[l]
        BY <3>1, <1>1, <1>3
      <4>2. stack[l].order < Len(sections)
        BY <3>1, <1>1, <1>2
      <4> QED
        BY <4>1, <4>2
    <3> QED
      BY <3>2, <2>1, <1>3
  <2>2. CASE m # n + 1
    <3>1. l \in 1..n /\ m \in 1..n /\ l \in 1..Len(stack) /\ m \in 1..Len(stack)
      BY <2>2, <1>1, <1>3, <1>7
    <3>2. stack[l].order < stack[m].order
      BY <3>1, <1>7 DEF Nested
    <3> QED
      BY <3>1, <3>2, <1>3
  <2> QED
    BY <2>1, <2>2
<1>8. ASSUME NEW i \in 1..Len(sections')
      PROVE  \E m \in 1..Len(stack') : Covers(m, i)'
  <2>1. ASSUME \A l \in 1..n : stack[l].order + 1 < i, sections'[i].level >= Match.level
        PROVE  Covers(n + 1, i)'
    <3>1. i <= stack'[n + 1].order + 1
      BY <1>1, <1>3
    <3>2. \A l \in 1..(n + 1 - 1) : l \in 1..n /\ stack'[l] = stack[l]
      BY <1>1, <1>3
    <3>3. \A l \in 1..(n + 1 - 1) : stack'[l].order + 1 < i
      BY <3>2, <2>1
    <3>4. sections'[i].level >= stack'[n + 1].level
      BY <2>1, <1>3
    <3> QED
      BY <3>1, <3>3, <3>4 DEF Covers
  <2>2. CASE i = Len(sections) + 1
    <3>1. \A l \in 1..n : stack[l].order + 1 < i
      <4>1. \A x \in 1..Len(sections) : x < i
        BY <2>2, <1>1
      <4> QED
        BY <4>1, <1>1, <1>2, Zenon
    <3>2. sections'[i].level >= Match.level
      BY <2>2, <1>1, <1>3
    <3> QED
      BY <3>1, <3>2, <2>1, <1>1, <1>3
  <2>3. CASE i # Len(sections) + 1
    <3>1. i \in 1..Len(sections)
      BY <2>3, <1>1, <1>3
    <3>2. PICK m \in 1..Len(stack) : Covers(m, i)
      BY <3>1, <1>1 DEF Nested
    <3>3. /\ i <= stack[m].order + 1
          /\ sections[i].level >= stack[m].level
          /\ \A l \in 1..(m - 1) : stack[l].order + 1 < i
      BY <3>2 DEF Covers
    <3>4. CASE m <= n
      <4>1. m \in 1..n /\ m \in 1..Len(stack') /\ stack'[m] = stack[m] /\ sections'[i] = sections[i]
        BY <3>1, <3>4, <1>1, <1>3
      <4>2. \A l \in 1..(m - 1) : l \in 1..n /\ stack'[l] = stack[l]
        BY <4>1, <1>1, <1>3
      <4>3. \A l \in 1..(m - 1) : stack'[l].order + 1 < i
        BY <4>2, <3>3
      <4>4. i <= stack'[m].order + 1 /\ sections'[i].level >= stack'[m].level
        BY <4>1, <3>3
      <4>5. Covers(m, i)'
        BY <4>3, <4>4 DEF Covers
      <4> QED
        BY <4>1, <4>5
    <3>5. CASE m > n
      <4>1. m \in (n + 1)..Len(stack) /\ \A l \in 1..n : l \in 1..(m - 1)
        BY <3>5, <1>1
      <4>2. stack[m].level >= Match.level
        BY <4>1, <1>3
      <4>3. stack[m].level \in Nat /\ sections[i].level \in Nat /\ sections'[i] = sections[i]
        BY <3>1, <1>1, <1>2
      <4>4. sections'[i].level >= Match.level
        <5>1. \A x, y, z \in Nat : x >= y /\ y >= z => x >= z
          OBVIOUS
        <5> QED
          BY <4>2, <4>3, <5>1, <3>3, <1>1, Zenon
      <4>5. \A l \in 1..n : stack[l].order + 1 < i
        BY <4>1, <3>3
      <4> QED
        BY <4>4, <4>5, <2>1, <1>1, <1>3
    <3> QED
      BY <3>4, <3>5, <1>1
  <2> QED
    BY <2>2, <2>3
<1> QED
  BY <1>6, <1>7, <1>8 DEF Nested

LEMMA HeadingKeepsParents ==
  ASSUME Inv, Nested, Parents, ParseHeading, NEW n \in 0..Len(stack), Iteration(n)
  PROVE  Parents'
<1>1. /\ matches # << >> /\ n \in Nat /\ Len(sections) \in Nat /\ Len(stack) \in Nat
      /\ Match.level \in Nat /\ Match.level \in {2, 3, 4}
      /\ \A k \in 1..Len(sections) : sections'[k] = sections[k] /\ sections[k].level \in Nat
      /\ \A k \in 1..n : k \in 1..Len(stack)
  BY Meets, Zenon
<1>2. \A k \in 1..Len(stack) :
        /\ stack[k].order \in Nat /\ stack[k].level \in Nat
        /\ stack[k].order + 1 \in 1..Len(sections)
        /\ sections[stack[k].order + 1].level = stack[k].level
  BY Meets, Zenon
<1>3. /\ Len(sections') = Len(sections) + 1
      /\ sections'[Len(sections) + 1].level = Match.level
      /\ sections'[Len(sections) + 1].parent = IF n = 0 THEN None ELSE stack[n].order
      /\ n > 0 => stack[n].level < Match.level
      /\ \A k \in (n + 1)..Len(stack) : stack[k].level >= Match.level
  BY DEF Iteration
<1>4. PICK top \in Nat : top = Len(sections) + 1
  BY <1>1
<1>5. ASSUME NEW i \in 1..Len(sections)
      PROVE  IsNearest(i, sections[i].parent)'
  <2>1. /\ sections'[i] = sections[i]
        /\ \A j \in 1..(i - 1) : sections'[j] = sections[j]
    BY <1>1
  <2>2. Shallower(i)' = Shallower(i)
    BY <2>1 DEF Shallower
  <2>3. IsNearest(i, sections[i].parent)
    BY DEF Parents
  <2> QED
    BY <2>1, <2>2, <2>3 DEF IsNearest
<1>6. \A j \in 1..Len(sections) : n = 0 \/ j > stack[n].order + 1 => sections[j].level >= Match.level
  BY <1>1, <1>3, StackSorts
<1>7. Shallower(top)' = {j \in 1..Len(sections) : sections[j].level < Match.level}
  <2>1. top - 1 = Len(sections) /\ sections'[top].level = Match.level
    BY <1>1, <1>3, <1>4
  <2>2. \A j \in 1..Len(sections) : sections'[j].level = sections[j].level
    BY <1>1
  <2> QED
    BY <2>1, <2>2 DEF Shallower
<1>8. \A x, y \in Nat : ~(x >= y /\ x < y)
  OBVIOUS
<1>9. CASE n = 0
  <2>1. Shallower(top)' = {}
    BY <1>1, <1>6, <1>7, <1>8, <1>9, Zenon
  <2>2. sections'[top].parent = None
    BY <1>3, <1>9, <1>4
  <2>3. IsNearest(top, sections[top].parent)'
    BY <2>1, <2>2 DEF IsNearest
  <2>4. \A i \in 1..Len(sections') : i \in 1..Len(sections) \/ i = top
    BY <1>1, <1>3, <1>4
  <2> QED
    BY <1>5, <2>3, <2>4, Zenon DEF Parents
<1>10. CASE n > 0
  <2>1. /\ n \in 1..Len(stack) /\ sections'[top].parent = stack[n].order
    BY <1>1, <1>3, <1>10, <1>4
  <2>2. /\ stack[n].order \in Nat
        /\ stack[n].order + 1 \in 1..Len(sections)
        /\ sections[stack[n].order + 1].level < Match.level
    BY <2>1, <1>2, <1>3, <1>10
  <2>3. stack[n].order + 1 \in Shallower(top)'
    BY <2>2, <1>7
  <2>4. ASSUME NEW j \in Shallower(top)'
        PROVE  j <= stack[n].order + 1
    <3>1. j \in 1..Len(sections) /\ sections[j].level < Match.level
      BY <1>7
    <3>2. ~(j > stack[n].order + 1)
      BY <3>1, <1>1, <1>6, <1>8, Zenon
    <3> QED
      BY <3>1, <3>2, <2>2, <1>1
  <2>5. IsNearest(top, sections[top].parent)'
    BY <2>1, <2>2, <2>3, <2>4 DEF IsNearest
  <2>6. \A i \in 1..Len(sections') : i \in 1..Len(sections) \/ i = top
    BY <1>1, <1>3, <1>4
  <2> QED
    BY <1>5, <2>6, <2>5, Zenon DEF Parents
<1> QED
  BY <1>1, <1>9, <1>10

\* A section is on the path of the next one when it is on the stack that stays.
LEMMA OnThePath ==
  ASSUME Inv, Nested, Paths, ParseHeading, NEW n \in 0..Len(stack), Iteration(n),
         NEW i \in 1..Len(sections)
  PROVE  IsPrefix(sections[i].path, Chain(n) \o <<Len(sections)>>)
           <=> \E l \in 1..n : stack[l].order = i - 1
<1> DEFINE p == sections[i].path
           q == Chain(n) \o <<Len(sections)>>
<1>1. /\ n \in Nat /\ Len(sections) \in Nat /\ p \in Seq(Nat)
      /\ \A k \in 1..n : k \in 1..Len(stack)
      /\ \A k \in 1..Len(stack) : /\ stack[k].order \in Nat
                                  /\ sections[stack[k].order + 1].path = Chain(k)
  BY Meets
<1>2. /\ q \in Seq(Nat) /\ Len(q) = n + 1
      /\ \A k \in 1..n : q[k] = stack[k].order
      /\ q[n + 1] = Len(sections)
  BY <1>1, ChainFacts
<1>3. p # << >> /\ p[Len(p)] = i - 1
  BY DEF Paths
<1>4. Len(p) \in 1..Len(p)
  BY <1>1, <1>3, LenProperties, EmptySeq
<1>5. IsPrefix(p, q) <=> Len(p) <= Len(q) /\ \A k \in 1..Len(p) : p[k] = q[k]
  <2> HIDE DEF p, q
  <2> QED
    BY <1>1, <1>2, PrefixByElements
<1>6. ASSUME IsPrefix(p, q)
      PROVE  \E l \in 1..n : stack[l].order = i - 1
  <2> HIDE DEF p, q
  <2>1. Len(p) \in 1..(n + 1) /\ q[Len(p)] = i - 1
    BY <1>2, <1>3, <1>4, <1>5, <1>6
  <2>2. Len(p) # n + 1
    BY <2>1, <1>1, <1>2
  <2>3. Len(p) \in 1..n
    BY <2>1, <2>2, <1>1
  <2> QED
    BY <2>1, <2>3, <1>2
<1>7. ASSUME NEW l \in 1..n, stack[l].order = i - 1
      PROVE  IsPrefix(p, q)
  <2>1. l \in 1..Len(stack) /\ \A k \in 1..l : k \in 1..n
    BY <1>1
  <2>2. stack[l].order + 1 = i
    BY <1>7
  <2>3. p = Chain(l)
    BY <2>1, <2>2, <1>1
  <2>4. Len(p) = l /\ \A k \in 1..l : p[k] = stack[k].order
    <3>1. l \in 0..Len(stack)
      BY <2>1
    <3>2. Len(Chain(l)) = l /\ \A k \in 1..l : Chain(l)[k] = stack[k].order
      BY <3>1, <1>1, ChainFacts
    <3> QED
      BY <3>2, <2>3
  <2> HIDE DEF p, q
  <2>5. Len(p) <= Len(q)
    BY <2>4, <1>1, <1>2
  <2>6. \A k \in 1..Len(p) : p[k] = q[k]
    BY <2>1, <2>4, <1>2
  <2> QED
    BY <2>5, <2>6, <1>5
<1> QED
  BY <1>6, <1>7

LEMMA HeadingKeepsPaths ==
  ASSUME Inv, Nested, Parents, Paths, ParseHeading, NEW n \in 0..Len(stack), Iteration(n)
  PROVE  Paths'
<1>1. /\ matches # << >> /\ n \in Nat /\ Len(sections) \in Nat /\ Len(stack) \in Nat
      /\ Match.level \in Nat /\ Match.level \in {2, 3, 4}
      /\ \A k \in 1..Len(sections) : sections'[k] = sections[k] /\ sections[k].level \in Nat
  BY Meets, Zenon
<1>2. \A k \in 1..Len(stack) :
        /\ stack[k].order \in Nat
        /\ stack[k].order + 1 \in 1..Len(sections)
        /\ sections[stack[k].order + 1].path = Chain(k)
  BY Meets, Zenon
<1>3. /\ Len(sections') = Len(sections) + 1
      /\ sections'[Len(sections) + 1].level = Match.level
      /\ sections'[Len(sections) + 1].parent = IF n = 0 THEN None ELSE stack[n].order
      /\ sections'[Len(sections) + 1].path = Chain(n) \o <<Len(sections)>>
      /\ n > 0 => stack[n].level < Match.level
      /\ \A k \in (n + 1)..Len(stack) : stack[k].level >= Match.level
  BY DEF Iteration, Chain
<1>4. PICK top \in Nat : top = Len(sections) + 1
  BY <1>1
<1>5. /\ \A i \in 1..Len(sections') : i \in 1..Len(sections) \/ i = top
      /\ sections'[top].level = Match.level
      /\ sections'[top].parent = IF n = 0 THEN None ELSE stack[n].order
      /\ sections'[top].path = Chain(n) \o <<Len(sections)>>
  BY <1>1, <1>3, <1>4
<1>6. /\ sections'[top].path = Append(Chain(n), Len(sections))
      /\ Len(sections'[top].path) = n + 1 /\ sections'[top].path[n + 1] = Len(sections)
      /\ sections'[top].path # << >>
  <2>1. /\ Chain(n) \o <<Len(sections)>> = Append(Chain(n), Len(sections))
        /\ Len(Chain(n) \o <<Len(sections)>>) = n + 1
        /\ (Chain(n) \o <<Len(sections)>>)[n + 1] = Len(sections)
        /\ Chain(n) \o <<Len(sections)>> \in Seq(Nat)
    BY <1>1, ChainFacts
  <2> QED
    BY <2>1, <1>1, <1>5, EmptySeq
<1>7. ASSUME NEW i \in 1..Len(sections')
      PROVE  sections'[i].path # << >> /\ sections'[i].path[Len(sections'[i].path)] = i - 1
  <2>1. CASE i \in 1..Len(sections)
    BY <2>1, <1>1 DEF Paths
  <2>2. CASE i = top
    BY <2>2, <1>1, <1>4, <1>6
  <2> QED
    BY <2>1, <2>2, <1>5
<1>8. ASSUME NEW i \in 1..Len(sections'), NEW j \in 1..Len(sections'),
             sections'[j].parent = i - 1
      PROVE  sections'[j].path = Append(sections'[i].path, j - 1)
  <2>1. CASE i \in 1..Len(sections) /\ j \in 1..Len(sections)
    <3>1. sections'[i] = sections[i] /\ sections'[j] = sections[j]
      BY <2>1, <1>1
    <3> QED
      BY <2>1, <3>1, <1>8 DEF Paths
  <2>2. CASE j \in 1..Len(sections) /\ i = top
    <3>1. sections[j].parent = Len(sections)
      BY <2>2, <1>1, <1>4, <1>8
    <3>2. IsNearest(j, sections[j].parent)
      BY <2>2 DEF Parents
    <3>3. Len(sections) + 1 \in Shallower(j)
      BY <3>1, <3>2, <1>1, LineAssumption DEF IsNearest
    <3>4. Len(sections) + 1 \in 1..(j - 1)
      BY <3>3 DEF Shallower
    <3> QED
      BY <3>4, <2>2, <1>1
  <2>3. CASE j = top
    <3>1. i - 1 \in Nat /\ sections'[top].parent = i - 1
      BY <2>3, <1>8
    <3>2. n \in 1..Len(stack) /\ stack[n].order = i - 1
      BY <3>1, <1>1, <1>5, LineAssumption
    <3>3. i \in 1..Len(sections) /\ sections[i].path = Chain(n)
      <4>1. stack[n].order + 1 = i
        BY <3>2
      <4> QED
        BY <4>1, <3>2, <1>2
    <3>4. sections'[i].path = Chain(n) /\ j - 1 = Len(sections)
      BY <3>3, <2>3, <1>1, <1>4
    <3> QED
      BY <3>4, <2>3, <1>6
  <2> QED
    BY <2>1, <2>2, <2>3, <1>5
<1>9. ASSUME NEW i \in 1..Len(sections'), NEW j \in 1..Len(sections'), i < j
      PROVE  IsPrefix(sections'[i].path, sections'[j].path) <=> Deeper(i, j)'
  <2>1. i \in 1..Len(sections)
    BY <1>1, <1>3, <1>9
  <2>2. CASE j \in 1..Len(sections)
    <3>1. /\ sections'[i] = sections[i] /\ sections'[j] = sections[j]
          /\ \A k \in (i + 1)..j : sections'[k] = sections[k]
      BY <2>1, <2>2, <1>1
    <3>2. Deeper(i, j)' <=> Deeper(i, j)
      BY <3>1 DEF Deeper
    <3>3. IsPrefix(sections[i].path, sections[j].path) <=> Deeper(i, j)
      BY <2>1, <2>2, <1>9 DEF Paths
    <3> QED
      BY <3>1, <3>2, <3>3
  <2>3. CASE j = top
    <3>1. IsPrefix(sections[i].path, Chain(n) \o <<Len(sections)>>)
            <=> \E l \in 1..n : stack[l].order = i - 1
      BY <2>1, OnThePath
    <3>2. (\E l \in 1..n : stack[l].order = i - 1)
            <=> (Deeper(i, Len(sections)) /\ sections[i].level < Match.level)
      BY <2>1, <1>1, <1>3, StackSorts
    <3>3. Deeper(i, j)' <=> Deeper(i, Len(sections)) /\ sections[i].level < Match.level
      <4>1. \A k : k \in (i + 1)..j <=> k \in (i + 1)..Len(sections) \/ k = top
        BY <2>1, <2>3, <1>1, <1>4
      <4>2. \A k \in (i + 1)..Len(sections) : sections'[k].level = sections[k].level
        BY <2>1, <1>1
      <4>3. sections'[i].level = sections[i].level /\ sections[i].level \in Nat
        BY <2>1, <1>1
      <4>4. Deeper(i, j)' <=> \A k \in (i + 1)..j : sections'[k].level > sections'[i].level
        BY DEF Deeper
      <4>5. Deeper(i, Len(sections))
              <=> \A k \in (i + 1)..Len(sections) : sections[k].level > sections[i].level
        BY DEF Deeper
      <4>6. sections'[top].level > sections[i].level <=> sections[i].level < Match.level
        BY <4>3, <1>1, <1>5
      <4> QED
        BY <4>1, <4>2, <4>3, <4>4, <4>5, <4>6, Zenon
    <3>4. sections'[i].path = sections[i].path /\ sections'[j].path = Chain(n) \o <<Len(sections)>>
      BY <2>1, <2>3, <1>1, <1>5
    <3> QED
      BY <3>1, <3>2, <3>3, <3>4, Zenon
  <2> QED
    BY <2>2, <2>3, <1>5
<1> QED
  BY <1>7, <1>8, <1>9 DEF Paths

-----------------------------------------------------------------------------
(* The other steps have no sections before or after them, or the only one. *)

Outline == Inv /\ Nested /\ Parents /\ Paths

LEMMA InitOutline == Init => Outline
<1> SUFFICES ASSUME Init PROVE Outline
  OBVIOUS
<1>1. Len(sections) = 0 /\ Len(stack) = 0 /\ matches = << >>
  BY DEF Init
<1>2. Nested /\ Parents /\ Paths
  BY <1>1 DEF Nested, Parents, Paths
<1> QED
  BY <1>2, InitInv DEF Outline

LEMMA SearchKeepsOutline ==
  ASSUME Outline, FindHeading \/ SkipLine
  PROVE  Nested' /\ Parents' /\ Paths'
<1>1. Searching /\ sections' = sections /\ stack' = stack
  BY DEF FindHeading, SkipLine
<1>2. sections = << >>
  BY <1>1 DEF Outline, Inv, Progress
<1>3. Len(sections) = 0 /\ Len(sections') = 0
  BY <1>1, <1>2
<1>4. stack = << >>
  <2>1. \A k \in 1..Len(stack) : stack[k].order \in Nat /\ stack[k].order < Len(sections)
    BY Levels DEF Outline, Inv, Stacked, Nested
  <2>2. Len(stack) \in Nat /\ (1 \in 1..Len(stack) => FALSE)
    BY <2>1, <1>3, LenProperties DEF Outline, Inv, Stacked
  <2> QED
    BY <2>2, EmptySeq DEF Outline, Inv, Stacked
<1>5. Len(stack') = 0
  BY <1>1, <1>4
<1> QED
  BY <1>3, <1>5 DEF Nested, Parents, Paths

LEMMA PlainKeepsOutline ==
  ASSUME Outline, ParsePlain
  PROVE  Nested' /\ Parents' /\ Paths'
<1>1. /\ matches' = << >> /\ stack' = << >>
      /\ Len(sections') = 1
      /\ sections'[1].path = <<0>> /\ sections'[1].parent = None
  BY DEF ParsePlain, Outline, Inv, Progress
<1>2. Nested'
  BY <1>1 DEF Nested
<1>3. \A i \in 1..Len(sections') : i = 1
  BY <1>1
<1>4. Shallower(1)' = {}
  BY DEF Shallower
<1>5. Parents'
  <2>1. IsNearest(1, sections[1].parent)'
    BY <1>1, <1>4 DEF IsNearest
  <2> QED
    BY <2>1, <1>3 DEF Parents
<1>6. Paths'
  <2>1. sections'[1].path # << >> /\ sections'[1].path[Len(sections'[1].path)] = 1 - 1
    BY <1>1
  <2>2. None # 1 - 1
    BY LineAssumption
  <2>3. \A i \in 1..Len(sections') :
          sections'[i].path # << >> /\ sections'[i].path[Len(sections'[i].path)] = i - 1
    BY <2>1, <1>3, Zenon
  <2>4. \A i, j \in 1..Len(sections') : sections'[j].parent # i - 1
    BY <2>2, <1>1, <1>3, Zenon
  <2>5. \A i, j \in 1..Len(sections') : ~(i < j)
    BY <1>1
  <2> QED
    BY <2>3, <2>4, <2>5, Zenon DEF Paths
<1> QED
  BY <1>2, <1>5, <1>6

LEMMA NextKeepsOutline == Outline /\ [Next]_vars => Outline'
<1> SUFFICES ASSUME Outline, [Next]_vars PROVE Outline'
  OBVIOUS
<1>1. Inv'
  BY NextKeepsInv DEF Outline
<1>2. CASE FindHeading \/ SkipLine
  BY <1>1, <1>2, SearchKeepsOutline DEF Outline
<1>3. CASE ParseHeading
  <2>1. PICK n \in 0..Len(stack) : Iteration(n)
    BY <1>3, OneIteration DEF Outline
  <2> QED
    BY <1>1, <1>3, <2>1, HeadingKeepsNested, HeadingKeepsParents, HeadingKeepsPaths DEF Outline
<1>4. CASE ParsePlain
  BY <1>1, <1>4, PlainKeepsOutline DEF Outline
<1>5. CASE UNCHANGED vars
  <2>1. sections' = sections /\ stack' = stack /\ matches' = matches
    BY <1>5 DEF vars
  <2>2. Nested'
    BY <2>1 DEF Outline, Nested, Covers, Chain
  <2>3. Parents'
    BY <2>1 DEF Outline, Parents, IsNearest, Shallower
  <2>4. Paths'
    BY <2>1 DEF Outline, Paths, Deeper
  <2> QED
    BY <1>1, <2>2, <2>3, <2>4 DEF Outline
<1> QED
  BY <1>2, <1>3, <1>4, <1>5 DEF Next

LEMMA AlwaysOutlined == Spec => []Outline
<1> QED
  BY InitOutline, NextKeepsOutline, PTL DEF Spec

LEMMA OutlineHasParents == Outline => ParentIsNearestShallower
<1> SUFFICES ASSUME Outline, NEW i \in DOMAIN sections
             PROVE  sections[i].parent =
                      IF Shallower(i) = {} THEN None
                      ELSE CHOOSE k \in 0..i : /\ k + 1 \in Shallower(i)
                                               /\ \A j \in Shallower(i) : j <= k + 1
  BY DEF ParentIsNearestShallower
<1>1. i \in 1..Len(sections) /\ i \in Nat
  BY LenProperties DEF Outline, Inv, Progress
<1> DEFINE Nearest(k) == k + 1 \in Shallower(i) /\ \A j \in Shallower(i) : j <= k + 1
<1>2. IsNearest(i, sections[i].parent)
  BY <1>1 DEF Outline, Parents
<1>3. CASE sections[i].parent = None /\ Shallower(i) = {}
  BY <1>3
<1>4. CASE sections[i].parent \in Nat /\ Nearest(sections[i].parent)
  <2> DEFINE parent == sections[i].parent
  <2>1. Shallower(i) # {} /\ Shallower(i) \subseteq 1..(i - 1)
    BY <1>4 DEF Shallower
  <2>2. parent + 1 \in 1..(i - 1) /\ parent \in Nat
    BY <1>4, <2>1
  <2>3. parent \in 0..i
    BY <2>2, <1>1
  <2>4. ASSUME NEW k \in 0..i, Nearest(k)
        PROVE  k = parent
    <3>1. k + 1 <= parent + 1 /\ parent + 1 <= k + 1
      BY <1>4, <2>4
    <3> QED
      BY <3>1, <2>2, <1>1
  <2>5. parent = CHOOSE k \in 0..i : Nearest(k)
    <3> HIDE DEF parent, Nearest
    <3>1. Nearest(parent)
      BY <1>4 DEF parent
    <3> QED
      BY <2>3, <2>4, <3>1
  <2> QED
    BY <2>1, <2>5
<1> QED
  BY <1>2, <1>3, <1>4 DEF IsNearest

LEMMA OutlineHasPaths == Outline => PathsNest
<1> SUFFICES ASSUME Outline PROVE PathsNest
  OBVIOUS
<1>1. DOMAIN sections = 1..Len(sections)
  BY LenProperties DEF Outline, Inv, Progress
<1>2. \A i, j \in DOMAIN sections :
        sections[j].parent = i - 1 => sections[j].path = Append(sections[i].path, j - 1)
  BY <1>1 DEF Outline, Paths
<1>3. \A i, j \in DOMAIN sections :
        i < j => (IsPrefix(sections[i].path, sections[j].path) <=> Deeper(i, j))
  BY <1>1 DEF Outline, Paths
<1>4. \A i, j : Deeper(i, j) <=> \A k \in (i + 1)..j : sections[k].level > sections[i].level
  BY DEF Deeper
<1> QED
  BY <1>2, <1>3, <1>4, Zenon DEF PathsNest

\* Whatever the body, the parent that the parser gives a section is the nearest
\* heading before it that is less deep: what the stack forgets never matters.
THEOREM ParentsAreNearest == Spec => []ParentIsNearestShallower
<1> QED
  BY AlwaysOutlined, OutlineHasParents, PTL

\* Whatever the body, a section's path is its parent's and its own position, and
\* the sections with its path as a prefix are the run of deeper ones after it.
THEOREM PathsAreNested == Spec => []PathsNest
<1> QED
  BY AlwaysOutlined, OutlineHasPaths, PTL

-----------------------------------------------------------------------------
(* What becomes of the text and the titles: no line gets lost, and repeated *)
(* titles get different slugs.                                             *)

\* A heading takes one line or two, and every line before the search's is above
\* the first heading or belongs to the part of the text that one heading opens.
Headed ==
  /\ \A i \in 1..Len(matches) : matches[i].last \in {matches[i].first, matches[i].first + 1}
  /\ \A x \in 1..(position - 1) :
       \/ matches = << >>
       \/ x < matches[1].first
       \/ \E k \in 1..Len(matches) :
            /\ matches[k].first <= x
            /\ k < Len(matches) => x < matches[k + 1].first

\* The bodies are those of the headings, or the whole text is one body.
Bodied ==
  /\ matches # << >> => \A i \in 1..Len(sections) : sections[i].body = Body(matches[i], i - 1)
  /\ matches = << >> => Len(sections) <= 1 /\ \A i \in 1..Len(sections) : sections[i].body = 1..Len(text)

\* The base slug of section i.
BaseOf(i) == BaseSlug(matches[i], i - 1)

\* A section has its base slug or a numbered one, with a number that the counter
\* has reached; no two sections with one base have the same slug.
Slugged ==
  matches # << >> =>
    /\ \A i \in 1..Len(sections) :
         /\ BaseOf(i) \in DOMAIN counters
         /\ \/ sections[i].slug = BaseOf(i)
            \/ \E n \in 2..counters[BaseOf(i)] : sections[i].slug = Numbered(BaseOf(i), n)
    /\ \A i, j \in 1..Len(sections) :
         i < j /\ BaseOf(i) = BaseOf(j) => sections[i].slug # sections[j].slug

Shared == Inv /\ Headed /\ Bodied /\ Slugged

-----------------------------------------------------------------------------
(* Search.                                                                 *)

LEMMA InitShared == Init => Shared
<1> SUFFICES ASSUME Init PROVE Shared
  OBVIOUS
<1>1. Len(matches) = 0 /\ Len(sections) = 0 /\ matches = << >> /\ position = 1
  BY DEF Init
<1> QED
  BY <1>1, InitInv DEF Shared, Headed, Bodied, Slugged

\* Nothing is parsed while the search goes on.
LEMMA SearchIsFirst ==
  ASSUME Inv, FindHeading \/ SkipLine
  PROVE  Bodied' /\ Slugged'
<1>1. Searching /\ sections' = sections
  BY DEF FindHeading, SkipLine
<1>2. Len(sections') = 0
  BY <1>1 DEF Inv, Progress
<1> QED
  BY <1>2 DEF Bodied, Slugged

LEMMA FindHeadingKeepsHeaded ==
  ASSUME Inv, Headed, FindHeading
  PROVE  Headed'
<1> DEFINE last == IF text[position].bare THEN position + 1 ELSE position
           heading == [level |-> text[position].marks, words |-> text[last].words,
                       first |-> position, last |-> last]
<1>1. matches' = Append(matches, heading) /\ position' = last + 1
  BY DEF FindHeading
<1>2. position \in Nat /\ Len(matches) \in Nat /\ matches \in Seq(HeadingType)
  BY LenProperties DEF Inv, Found
<1>3. last \in {position, position + 1}
  OBVIOUS
<1>4. /\ Len(matches') = Len(matches) + 1
      /\ \A i \in 1..Len(matches) : matches'[i] = matches[i]
      /\ matches'[Len(matches) + 1].first = position
      /\ matches'[Len(matches) + 1].last = last
      /\ matches' # << >>
  <2>1. heading.first = position /\ heading.last = last
    OBVIOUS
  <2>2. matches' \in Seq(HeadingType)
    BY FindHeadingKeepsInv DEF Inv, Found
  <2>3. /\ Len(Append(matches, heading)) = Len(matches) + 1
        /\ \A i \in 1..Len(matches) : Append(matches, heading)[i] = matches[i]
        /\ Append(matches, heading)[Len(matches) + 1] = heading
    <3> HIDE DEF heading
    <3> QED
      BY <1>2
  <2> HIDE DEF heading, last
  <2> QED
    BY <1>1, <1>2, <2>1, <2>2, <2>3, EmptySeq
<1> HIDE DEF last, heading
<1>5. \A i \in 1..Len(matches') : matches'[i].last \in {matches'[i].first, matches'[i].first + 1}
  BY <1>2, <1>3, <1>4 DEF Headed
<1>6. \A i \in 1..Len(matches) : matches[i].first \in Nat /\ matches[i].last \in Nat /\ matches[i].first < position
  BY <1>2, Levels DEF Inv, Found
<1>7. ASSUME NEW x \in 1..(position' - 1)
      PROVE  \/ x < matches'[1].first
             \/ \E k \in 1..Len(matches') :
                  /\ matches'[k].first <= x
                  /\ k < Len(matches') => x < matches'[k + 1].first
  <2>1. CASE x >= position
    <3>1. Len(matches) + 1 \in 1..Len(matches') /\ ~(Len(matches) + 1 < Len(matches'))
      BY <1>2, <1>4
    <3> QED
      BY <2>1, <3>1, <1>4
  <2>2. CASE x < position
    <3>1. x \in 1..(position - 1)
      BY <2>2, <1>2
    <3>2. CASE matches = << >>
      BY <3>2, <2>2, <1>4
    <3>3. CASE matches # << >> /\ x < matches[1].first
      <4>1. 1 \in 1..Len(matches)
        BY <3>3, <1>2, EmptySeq
      <4> QED
        BY <4>1, <3>3, <1>4
    <3>4. ASSUME NEW k \in 1..Len(matches), matches[k].first <= x,
                 k < Len(matches) => x < matches[k + 1].first
          PROVE  /\ k \in 1..Len(matches')
                 /\ matches'[k].first <= x
                 /\ k < Len(matches') => x < matches'[k + 1].first
      <4>1. CASE k = Len(matches)
        BY <4>1, <2>2, <3>4, <1>2, <1>4
      <4>2. CASE k # Len(matches)
        <5>1. k < Len(matches) /\ k + 1 \in 1..Len(matches)
          BY <4>2, <1>2
        <5> QED
          BY <5>1, <3>4, <1>2, <1>4
      <4> QED
        BY <4>1, <4>2
    <3> QED
      BY <3>1, <3>2, <3>3, <3>4 DEF Headed
  <2>3. position' \in Nat
    BY FindHeadingKeepsInv, LenProperties DEF Inv, Found
  <2> QED
    BY <2>1, <2>2, <2>3, <1>2
<1> QED
  BY <1>5, <1>7 DEF Headed

LEMMA SkipLineKeepsHeaded ==
  ASSUME Inv, Headed, SkipLine
  PROVE  Headed'
<1>1. matches' = matches /\ position' = position + 1
  BY DEF SkipLine
<1>2. position \in Nat /\ Len(matches) \in Nat /\ matches \in Seq(HeadingType)
  BY LenProperties DEF Inv, Found
<1>3. ASSUME NEW x \in 1..position
      PROVE  \/ matches = << >>
             \/ x < matches[1].first
             \/ \E k \in 1..Len(matches) :
                  /\ matches[k].first <= x
                  /\ k < Len(matches) => x < matches[k + 1].first
  <2>1. CASE x = position
    <3>1. matches = << >> \/ Len(matches) \in 1..Len(matches)
      BY <1>2, EmptySeq
    <3>2. ASSUME Len(matches) \in 1..Len(matches)
          PROVE  matches[Len(matches)].first <= x
      <4>1. /\ matches[Len(matches)].first \in Nat /\ matches[Len(matches)].last \in Nat
            /\ matches[Len(matches)].first <= matches[Len(matches)].last
            /\ matches[Len(matches)].last < position
        BY <3>2, <1>2, Levels DEF Inv, Found
      <4> QED
        BY <4>1, <2>1, <1>2
    <3>3. ~(Len(matches) < Len(matches))
      BY <1>2
    <3> QED
      BY <3>1, <3>2, <3>3
  <2>2. CASE x # position
    <3>1. x \in 1..(position - 1)
      BY <2>2, <1>2
    <3> QED
      BY <3>1 DEF Headed
  <2> QED
    BY <2>1, <2>2
<1>4. \A x \in 1..(position' - 1) : x \in 1..position
  BY <1>1, <1>2
<1> QED
  BY <1>1, <1>3, <1>4 DEF Headed

-----------------------------------------------------------------------------
(* Bodies.                                                                 *)

LEMMA HeadingKeepsBodied ==
  ASSUME Inv, Bodied, ParseHeading
  PROVE  Bodied'
<1>1. PICK n \in 0..Len(stack) : Iteration(n)
  BY OneIteration
<1>2. Len(sections) < Len(matches) /\ matches' = matches /\ text' = text
  BY DEF ParseHeading
<1>3. Len(sections) \in Nat /\ Len(matches) \in Nat
  BY LenProperties DEF Inv, Found, Progress
<1>4. matches # << >>
  BY <1>2, <1>3
<1>5. ASSUME NEW i \in 1..Len(sections')
      PROVE  sections'[i].body = Body(matches[i], i - 1)
  <2>1. CASE i \in 1..Len(sections)
    <3>1. sections'[i] = sections[i]
      BY <1>1, <2>1 DEF Iteration
    <3> QED
      BY <3>1, <2>1, <1>4 DEF Bodied
  <2>2. CASE i = Len(sections) + 1
    <3>1. sections'[Len(sections) + 1].body = Body(Match, Len(sections))
      BY <1>1 DEF Iteration
    <3>2. i - 1 = Len(sections)
      BY <2>2, <1>3
    <3> QED
      BY <3>1, <3>2, <2>2 DEF Match
  <2>3. Len(sections') = Len(sections) + 1
    BY <1>1 DEF Iteration
  <2> QED
    BY <2>1, <2>2, <2>3, <1>3
<1>6. \A match, index : Body(match, index)' = Body(match, index)
  BY <1>2 DEF Body
<1>7. \A i \in 1..Len(sections') : sections'[i].body = Body(matches[i], i - 1)'
  BY <1>2, <1>5 DEF Body
<1> QED
  BY <1>2, <1>4, <1>7 DEF Bodied

LEMMA PlainKeepsBodied ==
  ASSUME Inv, ParsePlain
  PROVE  Bodied' /\ Slugged'
<1>1. /\ matches' = << >> /\ text' = text
      /\ Len(sections') = 1 /\ sections'[1].body = DOMAIN text
  BY DEF ParsePlain
<1>2. DOMAIN text = 1..Len(text)
  BY LenProperties DEF Inv, Found
<1>3. \A i \in 1..Len(sections') : i = 1
  BY <1>1
<1>4. \A i \in 1..Len(sections') : sections'[i].body = 1..Len(text')
  BY <1>1, <1>2, <1>3
<1> QED
  BY <1>1, <1>4 DEF Bodied, Slugged

-----------------------------------------------------------------------------
(* Slugs.                                                                  *)

\* A number makes a base longer, and says which base and which number it was.
LEMMA NumberedTellsBoth ==
  ASSUME NEW b1 \in Seq(Word), NEW b2 \in Seq(Word), NEW m \in Nat, NEW n \in Nat
  PROVE  /\ Numbered(b1, m) # b1
         /\ Numbered(b1, m) = Numbered(b2, n) => b1 = b2 /\ m = n
<1>1. m \in Word /\ n \in Word
  BY DEF Word
<1>2. Len(b1) \in Nat /\ Len(b2) \in Nat
  BY LenProperties
<1>3. /\ Len(Numbered(b1, m)) = Len(b1) + 1
      /\ \A i \in 1..Len(b1) : Numbered(b1, m)[i] = b1[i]
      /\ Numbered(b1, m)[Len(b1) + 1] = m
  BY <1>1, AppendProperties DEF Numbered
<1>4. /\ Len(Numbered(b2, n)) = Len(b2) + 1
      /\ \A i \in 1..Len(b2) : Numbered(b2, n)[i] = b2[i]
      /\ Numbered(b2, n)[Len(b2) + 1] = n
  BY <1>1, AppendProperties DEF Numbered
<1>5. Numbered(b1, m) # b1
  BY <1>2, <1>3
<1>6. ASSUME Numbered(b1, m) = Numbered(b2, n)
      PROVE  b1 = b2 /\ m = n
  <2>1. Len(b1) = Len(b2)
    BY <1>2, <1>3, <1>4, <1>6
  <2>2. \A i \in 1..Len(b1) : b1[i] = b2[i]
    BY <2>1, <1>3, <1>4, <1>6
  <2>3. b1 = b2
    BY <2>1, <2>2, SeqEqual
  <2> QED
    BY <2>1, <2>3, <1>3, <1>4, <1>6
<1> QED
  BY <1>5, <1>6

\* The base slugs are sequences of words.
LEMMA BaseTypes ==
  ASSUME Inv, NEW i \in 1..Len(matches)
  PROVE  BaseOf(i) \in Seq(Word)
<1>1. i \in Nat /\ matches[i].words \in Seq(Word)
  BY LenProperties, Levels DEF Inv, Found
<1>2. Section \in Word /\ i - 1 + 1 \in Word
  BY <1>1, LineAssumption DEF Word
<1>3. <<Section, i - 1 + 1>> \in Seq(Word)
  BY <1>2
<1> QED
  BY <1>1, <1>3 DEF BaseOf, BaseSlug

LEMMA HeadingKeepsSlugged ==
  ASSUME Inv, Slugged, ParseHeading
  PROVE  Slugged'
<1>1. PICK m \in 0..Len(stack) : Iteration(m)
  BY OneIteration
<1>2. /\ Len(sections) < Len(matches) /\ matches' = matches
      /\ counters' = [b \in DOMAIN counters \cup {Base} |->
                        IF b = Base THEN Count(Base) + 1 ELSE counters[b]]
  BY DEF ParseHeading, Match, Base
<1>3. Len(sections) \in Nat /\ Len(matches) \in Nat /\ matches # << >>
  BY <1>2, LenProperties DEF Inv, Found, Progress
<1>4. PICK top \in Nat : top = Len(sections) + 1
  BY <1>3
<1>5. Base = BaseOf(top) /\ \A i : BaseOf(i)' = BaseOf(i)
  <2>1. top - 1 = Len(sections)
    BY <1>3, <1>4
  <2> QED
    BY <2>1, <1>2, <1>4 DEF Base, BaseOf, Match, BaseSlug
<1>6. /\ \A i \in 1..Len(sections) : sections'[i].slug = sections[i].slug
      /\ sections'[top].slug = CounterSlug(Base)
      /\ \A i \in 1..Len(sections') : i \in 1..Len(sections) \/ i = top
      /\ Len(sections') = Len(sections) + 1
  BY <1>1, <1>3, <1>4 DEF Iteration
<1>7. PICK k \in Nat : k = Count(Base)
  BY <1>2, SlugTypes
<1>8. /\ Base \in DOMAIN counters' /\ counters'[Base] = k + 1
      /\ \A b \in DOMAIN counters : b \in DOMAIN counters' /\ (b # Base => counters'[b] = counters[b])
      /\ Base \in DOMAIN counters => counters[Base] = k /\ k # 0
      /\ Base \notin DOMAIN counters => k = 0
  <2>1. Base \in DOMAIN counters => counters[Base] \in 1..Len(sections)
    BY DEF Inv, Counted
  <2> QED
    BY <2>1, <1>2, <1>7 DEF Count
<1>9. /\ \A i \in 1..Len(matches) : BaseOf(i) \in Seq(Word)
      /\ Base \in Seq(Word)
      /\ \A i \in 1..Len(sections) : i \in 1..Len(matches) /\ BaseOf(i) \in Seq(Word)
  BY <1>2, <1>3, BaseTypes, SlugTypes
<1>10. sections'[top].slug = IF k = 0 THEN Base ELSE Numbered(Base, k + 1)
  BY <1>6, <1>7 DEF CounterSlug
<1>11. ASSUME NEW i \in 1..Len(sections')
       PROVE  /\ BaseOf(i) \in DOMAIN counters'
              /\ \/ sections'[i].slug = BaseOf(i)
                 \/ \E n \in 2..counters'[BaseOf(i)] : sections'[i].slug = Numbered(BaseOf(i), n)
  <2>1. CASE i \in 1..Len(sections)
    <3>1. /\ BaseOf(i) \in DOMAIN counters
          /\ \/ sections[i].slug = BaseOf(i)
             \/ \E n \in 2..counters[BaseOf(i)] : sections[i].slug = Numbered(BaseOf(i), n)
      BY <2>1, <1>3 DEF Slugged
    <3>2. \A n \in 2..counters[BaseOf(i)] : n \in 2..counters'[BaseOf(i)]
      <4>1. CASE BaseOf(i) = Base
        <5>1. counters[BaseOf(i)] = k /\ counters'[BaseOf(i)] = k + 1
          BY <4>1, <3>1, <1>8
        <5>2. \A n \in 2..k : n \in 2..(k + 1)
          BY <1>7
        <5> QED
          BY <5>1, <5>2
      <4>2. CASE BaseOf(i) # Base
        BY <4>2, <3>1, <1>8
      <4> QED
        BY <4>1, <4>2
    <3>3. sections'[i].slug = sections[i].slug /\ BaseOf(i) \in DOMAIN counters'
      BY <2>1, <3>1, <1>6, <1>8
    <3> QED
      BY <3>1, <3>2, <3>3
  <2>2. CASE i = top
    <3>1. k # 0 => k + 1 \in 2..(k + 1)
      BY <1>7
    <3> QED
      BY <2>2, <3>1, <1>5, <1>8, <1>10
  <2> QED
    BY <2>1, <2>2, <1>6
<1>12. ASSUME NEW i \in 1..Len(sections'), NEW j \in 1..Len(sections'),
              i < j, BaseOf(i) = BaseOf(j)
       PROVE  sections'[i].slug # sections'[j].slug
  <2>1. i \in 1..Len(sections)
    BY <1>3, <1>6, <1>12
  <2>2. CASE j \in 1..Len(sections)
    BY <2>1, <2>2, <1>3, <1>6, <1>12 DEF Slugged
  <2>3. CASE j = top
    <3>1. BaseOf(i) = Base
      BY <2>3, <1>5, <1>12
    <3>2. /\ Base \in DOMAIN counters
          /\ \/ sections[i].slug = Base
             \/ \E n \in 2..counters[Base] : sections[i].slug = Numbered(Base, n)
      BY <2>1, <3>1, <1>3 DEF Slugged
    <3>3. k # 0 /\ sections'[top].slug = Numbered(Base, k + 1) /\ counters[Base] = k
      BY <3>2, <1>8, <1>10
    <3>4. Numbered(Base, k + 1) # Base
      BY <1>7, <1>9, NumberedTellsBoth
    <3>5. ASSUME NEW n \in 2..k PROVE Numbered(Base, n) # Numbered(Base, k + 1)
      <4>1. n \in Nat /\ k + 1 \in Nat /\ n # k + 1
        BY <1>7
      <4> QED
        BY <4>1, <1>9, NumberedTellsBoth
    <3>6. sections[i].slug # sections'[top].slug
      BY <3>2, <3>3, <3>4, <3>5
    <3> QED
      BY <3>6, <2>1, <2>3, <1>6
  <2> QED
    BY <2>2, <2>3, <1>6
<1> QED
  BY <1>5, <1>11, <1>12 DEF Slugged

-----------------------------------------------------------------------------
(* The properties.                                                         *)

LEMMA NextKeepsShared == Shared /\ [Next]_vars => Shared'
<1> SUFFICES ASSUME Shared, [Next]_vars PROVE Shared'
  OBVIOUS
<1>1. Inv'
  BY NextKeepsInv DEF Shared
<1>2. CASE FindHeading
  BY <1>1, <1>2, SearchIsFirst, FindHeadingKeepsHeaded DEF Shared
<1>3. CASE SkipLine
  BY <1>1, <1>3, SearchIsFirst, SkipLineKeepsHeaded DEF Shared
<1>4. CASE ParseHeading
  <2>1. Headed'
    BY <1>4 DEF ParseHeading, Shared, Headed
  <2> QED
    BY <1>1, <1>4, <2>1, HeadingKeepsBodied, HeadingKeepsSlugged DEF Shared
<1>5. CASE ParsePlain
  <2>1. Headed'
    BY <1>5 DEF ParsePlain, Shared, Headed
  <2> QED
    BY <1>1, <1>5, <2>1, PlainKeepsBodied DEF Shared
<1>6. CASE UNCHANGED vars
  <2>1. Headed'
    BY <1>6 DEF vars, Shared, Headed
  <2>2. Bodied'
    BY <1>6 DEF vars, Shared, Bodied, Body
  <2>3. Slugged'
    <3>1. \A i : BaseOf(i)' = BaseOf(i)
      BY <1>6 DEF vars, BaseOf, BaseSlug
    <3>2. /\ matches' = matches /\ sections' = sections /\ counters' = counters /\ Slugged
      BY <1>6 DEF vars, Shared
    <3> QED
      BY <3>1, <3>2 DEF Slugged
  <2> QED
    BY <1>1, <2>1, <2>2, <2>3 DEF Shared
<1> QED
  BY <1>2, <1>3, <1>4, <1>5, <1>6 DEF Next

LEMMA AlwaysShared == Spec => []Shared
<1> QED
  BY InitShared, NextKeepsShared, PTL DEF Spec

\* Where the headings lie.
LEMMA Headings ==
  ASSUME Inv
  PROVE  /\ Len(matches) \in Nat /\ Len(text) \in Nat /\ position \in 1..(Len(text) + 1)
         /\ DOMAIN matches = 1..Len(matches)
         /\ \A i \in 1..Len(matches) :
              /\ matches[i].first \in Nat /\ matches[i].last \in Nat
              /\ 1 <= matches[i].first /\ matches[i].first <= matches[i].last
              /\ matches[i].last <= Len(text)
         /\ \A i, j \in 1..Len(matches) : i < j => matches[i].last < matches[j].first
<1>1. /\ Len(matches) \in Nat /\ Len(text) \in Nat /\ position \in 1..(Len(text) + 1)
      /\ DOMAIN matches = 1..Len(matches)
  BY LenProperties DEF Inv, Found
<1>2. \A i \in 1..Len(matches) :
        /\ matches[i].first \in Nat \ {0} /\ matches[i].last \in Nat
        /\ matches[i].first <= matches[i].last /\ matches[i].last < position
  BY Levels DEF Inv, Found
<1>3. \A i \in 1..Len(matches) : 1 <= matches[i].first /\ matches[i].last <= Len(text)
  BY <1>1, <1>2
<1> QED
  BY <1>1, <1>2, <1>3 DEF Inv, Found

\* The lines of a body lie after the heading and before the next one.
LEMMA LinesOfABody ==
  ASSUME Inv, Bodied, matches # << >>, NEW i \in 1..Len(sections)
  PROVE  /\ i \in 1..Len(matches)
         /\ \A x : x \in sections[i].body <=>
              /\ x \in Nat /\ matches[i].last < x /\ x <= Len(text)
              /\ i < Len(matches) => x < matches[i + 1].first
<1>1. /\ Len(matches) \in Nat /\ Len(text) \in Nat
      /\ \A k \in 1..Len(matches) :
           /\ matches[k].first \in Nat /\ matches[k].last \in Nat
           /\ matches[k].first <= matches[k].last /\ matches[k].last <= Len(text)
  BY Headings
<1>2. i \in Nat /\ i \in 1..Len(matches) /\ i - 1 + 1 = i /\ i - 1 + 2 = i + 1
  BY <1>1, LenProperties DEF Inv, Progress
<1>3. sections[i].body
        = (matches[i].last + 1)..(IF i < Len(matches) THEN matches[i + 1].first - 1 ELSE Len(text))
  BY <1>2 DEF Bodied, Body
<1>4. matches[i].last \in Nat /\ \A x : x > matches[i].last /\ x \in Int => x \in Nat
  BY <1>1, <1>2
<1>5. CASE i < Len(matches)
  <2>1. i + 1 \in 1..Len(matches)
    BY <1>1, <1>2, <1>5
  <2>2. matches[i + 1].first \in Nat /\ matches[i + 1].first <= Len(text)
    BY <1>1, <2>1
  <2> QED
    BY <1>1, <1>2, <1>3, <1>4, <1>5, <2>2, SMTT(30)
<1>6. CASE ~(i < Len(matches))
  BY <1>1, <1>2, <1>3, <1>4, <1>6
<1> QED
  BY <1>5, <1>6

BodyLines == UNION {sections[i].body : i \in DOMAIN sections}
HeadedLines == {matches[i].first : i \in DOMAIN matches} \cup {matches[i].last : i \in DOMAIN matches}

LEMMA BodiesAreApart ==
  ASSUME Shared, NEW i \in 1..Len(sections), NEW j \in 1..Len(sections), i < j
  PROVE  sections[i].body \cap sections[j].body = {}
<1>1. Len(sections) \in Nat
  BY LenProperties DEF Shared, Inv, Progress
<1>2. matches # << >>
  BY <1>1 DEF Shared, Bodied
<1>3. SUFFICES ASSUME NEW x \in sections[i].body, x \in sections[j].body
               PROVE  FALSE
  OBVIOUS
<1>4. i \in 1..Len(matches) /\ j \in 1..Len(matches) /\ Len(matches) \in Nat
  BY <1>2, LinesOfABody, Headings DEF Shared
<1>5. i < Len(matches) /\ i + 1 \in 1..Len(matches)
  BY <1>4
<1>6. x \in Nat /\ x < matches[i + 1].first /\ matches[j].last < x
  BY <1>2, <1>3, <1>5, LinesOfABody DEF Shared
<1>7. /\ matches[i + 1].first \in Nat /\ matches[i + 1].last \in Nat
      /\ matches[j].first \in Nat /\ matches[j].last \in Nat
      /\ matches[i + 1].first <= matches[i + 1].last
      /\ matches[j].first <= matches[j].last
      /\ i + 1 < j => matches[i + 1].last < matches[j].first
  BY <1>4, <1>5, Headings DEF Shared
<1>8. i + 1 < j \/ i + 1 = j
  BY <1>4
<1>9. \A a, b, d, e, y \in Nat :
        y < a /\ a <= b /\ d <= e /\ e < y => ~(b < d) /\ ~(a = d /\ b = e)
  OBVIOUS
<1>10. CASE i + 1 = j
  BY <1>6, <1>7, <1>9, <1>10, Zenon
<1>11. CASE i + 1 < j
  BY <1>6, <1>7, <1>9, <1>11, Zenon
<1> QED
  BY <1>8, <1>10, <1>11

LEMMA BodiesHaveNoHeading ==
  ASSUME Shared, NEW i \in 1..Len(sections)
  PROVE  sections[i].body \cap HeadedLines = {}
<1>1. CASE matches = << >>
  BY <1>1, Headings DEF HeadedLines, Shared
<1>2. CASE matches # << >>
  <2>1. SUFFICES ASSUME NEW x \in sections[i].body, x \in HeadedLines
                 PROVE  FALSE
    OBVIOUS
  <2>2. PICK k \in 1..Len(matches) : x = matches[k].first \/ x = matches[k].last
    BY <2>1, Headings DEF HeadedLines, Shared
  <2>3. i \in 1..Len(matches) /\ Len(matches) \in Nat /\ matches[i].last < x /\ x \in Nat
        /\ (i < Len(matches) => x < matches[i + 1].first)
    BY <1>2, <2>1, LinesOfABody, Headings DEF Shared
  <2>4. /\ matches[i].last \in Nat
        /\ matches[k].first \in Nat /\ matches[k].last \in Nat
        /\ matches[k].first <= matches[k].last
        /\ k < i => matches[k].last < matches[i].first
        /\ matches[i].first \in Nat /\ matches[i].first <= matches[i].last
    BY <2>3, Headings DEF Shared
  <2>5. CASE k <= i
    <3>1. k < i \/ k = i
      BY <2>3, <2>5
    <3> QED
      BY <3>1, <2>2, <2>3, <2>4
  <2>6. CASE k > i
    <3>1. i < Len(matches) /\ i + 1 \in 1..Len(matches) /\ (i + 1 < k \/ i + 1 = k)
      BY <2>3, <2>6
    <3>2. /\ matches[i + 1].first \in Nat /\ matches[i + 1].last \in Nat
          /\ matches[i + 1].first <= matches[i + 1].last
          /\ i + 1 < k => matches[i + 1].last < matches[k].first
      BY <3>1, Headings DEF Shared
    <3>3. x < matches[i + 1].first
      BY <2>3, <3>1
    <3>4. \A d, e, y \in Nat : y < d /\ d <= e => y # d /\ y # e
      OBVIOUS
    <3>5. CASE i + 1 = k
      BY <2>2, <2>3, <2>4, <3>4, <3>3, <3>5, Zenon
    <3>6. CASE i + 1 < k
      <4>1. /\ x \in Nat /\ matches[k].first \in Nat
            /\ matches[i + 1].first \in Nat /\ matches[i + 1].last \in Nat
        BY <2>3, <2>4, <3>2
      <4>2. matches[i + 1].first <= matches[i + 1].last /\ matches[i + 1].last < matches[k].first
        BY <3>2, <3>6
      <4>3. x < matches[k].first
        BY <3>3, <4>1, <4>2
      <4>4. matches[k].last \in Nat /\ matches[k].first <= matches[k].last
        BY <2>4
      <4> QED
        BY <2>2, <3>4, <4>1, <4>3, <4>4, Zenon
    <3> QED
      BY <3>1, <3>5, <3>6
  <2>7. k <= i \/ k > i
    BY <2>3
  <2> QED
    BY <2>5, <2>6, <2>7
<1> QED
  BY <1>1, <1>2

\* When the parser is done, every line from the first heading on is used.
LEMMA NoLineIsLost ==
  ASSUME Shared, ~Searching, matches # << >>, Len(sections) >= Len(matches)
  PROVE  HeadedLines \cup BodyLines
           = matches[1].first..Len(text)
<1>1. /\ Len(matches) \in Nat /\ Len(text) \in Nat /\ position \in 1..(Len(text) + 1)
      /\ DOMAIN matches = 1..Len(matches)
  BY Headings DEF Shared
<1>2. \A i \in 1..Len(matches) :
        /\ matches[i].first \in Nat /\ matches[i].last \in Nat
        /\ matches[i].first <= matches[i].last /\ matches[i].last <= Len(text)
  BY Headings DEF Shared
<1>3. \A i, j \in 1..Len(matches) : i < j => matches[i].last < matches[j].first
  BY Headings DEF Shared
<1>4. /\ Len(sections) = Len(matches) /\ DOMAIN sections = 1..Len(matches)
      /\ 1 \in 1..Len(matches)
  <2>1. Len(sections) <= Len(matches) /\ Len(sections) \in Nat /\ DOMAIN sections = 1..Len(sections)
    BY LenProperties DEF Shared, Inv, Progress
  <2>2. Len(matches) # 0
    BY EmptySeq DEF Shared, Inv, Found
  <2>3. \A m, n \in Nat : m <= n /\ m >= n => m = n
    OBVIOUS
  <2>4. Len(sections) = Len(matches)
    BY <1>1, <2>1, <2>3, Zenon
  <2> QED
    BY <1>1, <2>1, <2>2, <2>4
<1>5. position - 1 = Len(text)
  BY <1>1 DEF Searching
<1>6. \A i \in 1..Len(matches) : matches[1].first <= matches[i].first
  <2> SUFFICES ASSUME NEW i \in 1..Len(matches) PROVE matches[1].first <= matches[i].first
    OBVIOUS
  <2>1. i = 1 \/ 1 < i
    BY <1>1
  <2>2. 1 < i => matches[1].last < matches[i].first
    BY <1>3, <1>4
  <2> QED
    BY <1>2, <1>4, <2>1, <2>2
<1>7. ASSUME NEW x \in HeadedLines \cup BodyLines
      PROVE  x \in matches[1].first..Len(text)
  <2>1. CASE x \in HeadedLines
    <3>1. PICK k \in 1..Len(matches) : x = matches[k].first \/ x = matches[k].last
      BY <2>1, <1>1 DEF HeadedLines
    <3> QED
      BY <3>1, <1>1, <1>2, <1>4, <1>6
  <2>2. CASE x \in BodyLines
    <3>1. PICK i \in 1..Len(matches) : x \in sections[i].body
      BY <2>2, <1>4 DEF BodyLines
    <3>2. x \in Nat /\ matches[i].last < x /\ x <= Len(text)
      BY <3>1, <1>4, LinesOfABody DEF Shared
    <3>3. /\ matches[1].first \in Nat /\ matches[i].first \in Nat /\ matches[i].last \in Nat
          /\ matches[i].first <= matches[i].last /\ matches[1].first <= matches[i].first
      BY <3>1, <1>2, <1>4, <1>6
    <3>4. matches[1].first <= x
      BY <3>2, <3>3
    <3> QED
      BY <3>2, <3>3, <3>4, <1>1
  <2> QED
    BY <1>7, <2>1, <2>2
<1>8. ASSUME NEW x \in matches[1].first..Len(text)
      PROVE  x \in HeadedLines \cup BodyLines
  <2>1. x \in Nat /\ x >= 1 /\ x <= Len(text) /\ ~(x < matches[1].first)
    <3>1. 1 <= matches[1].first /\ matches[1].first \in Nat
      BY <1>4, Headings DEF Shared
    <3> QED
      BY <3>1, <1>1
  <2>2. x \in 1..(position - 1)
    BY <1>1, <1>5, <2>1
  <2>3. PICK k \in 1..Len(matches) :
          /\ matches[k].first <= x
          /\ k < Len(matches) => x < matches[k + 1].first
    BY <2>1, <2>2 DEF Shared, Headed
  <2>4. CASE matches[k].last < x
    <3>1. x \in sections[k].body
      BY <2>1, <2>3, <2>4, <1>4, LinesOfABody DEF Shared
    <3> QED
      BY <3>1, <1>4 DEF BodyLines
  <2>5. CASE x <= matches[k].last
    <3>1. matches[k].last \in {matches[k].first, matches[k].first + 1}
      BY DEF Shared, Headed
    <3>2. x = matches[k].first \/ x = matches[k].last
      BY <3>1, <2>1, <2>3, <2>5, <1>2
    <3>3. x \in HeadedLines
      BY <3>2, <1>1 DEF HeadedLines
    <3> QED
      BY <3>3
  <2>6. matches[k].last < x \/ x <= matches[k].last
    BY <2>1, <1>2
  <2> QED
    BY <2>4, <2>5, <2>6
<1> QED
  BY <1>7, <1>8

LEMMA SharedHasBodies == Shared => BodiesShareTheText
<1> SUFFICES ASSUME Shared PROVE BodiesShareTheText
  OBVIOUS
<1>1. DOMAIN sections = 1..Len(sections) /\ Len(sections) \in Nat
  BY LenProperties DEF Shared, Inv, Progress
<1>2. \A i, j \in DOMAIN sections : i # j => sections[i].body \cap sections[j].body = {}
  <2> SUFFICES ASSUME NEW i \in 1..Len(sections), NEW j \in 1..Len(sections), i # j
               PROVE  sections[i].body \cap sections[j].body = {}
    BY <1>1
  <2>1. i < j \/ j < i
    OBVIOUS
  <2> QED
    BY <2>1, BodiesAreApart
<1>3. \A i \in DOMAIN sections : sections[i].body \cap HeadedLines = {}
  BY <1>1, BodiesHaveNoHeading
<1>4. ASSUME ~Searching, Len(sections) >= Len(matches), sections # << >>
      PROVE  HeadedLines \cup BodyLines
               = (IF matches = << >> THEN 1 ELSE matches[1].first)..Len(text)
  <2>1. CASE matches # << >>
    BY <2>1, <1>4, NoLineIsLost
  <2>2. CASE matches = << >>
    <3>1. Len(sections) = 1
      <4>1. Len(sections) # 0
        BY <1>4, EmptySeq DEF Shared, Inv, Progress
      <4> QED
        BY <4>1, <2>2, <1>1 DEF Shared, Bodied
    <3>2. DOMAIN sections = {1} /\ sections[1].body = 1..Len(text)
      BY <3>1, <2>2, <1>1 DEF Shared, Bodied
    <3>3. HeadedLines = {}
      BY <2>2 DEF HeadedLines
    <3>4. BodyLines = 1..Len(text)
      BY <3>2 DEF BodyLines
    <3> QED
      BY <3>3, <3>4, <2>2
  <2> QED
    BY <2>1, <2>2
<1>5. (~Searching /\ Len(sections) >= Len(matches) /\ sections # << >>) =>
        HeadedLines \cup BodyLines
          = (IF matches = << >> THEN 1 ELSE matches[1].first)..Len(text)
  BY <1>4, Zenon
<1> QED
  BY <1>2, <1>3, <1>5, Zenon DEF BodiesShareTheText, BodyLines, HeadedLines

LEMMA SharedTellsRepeats == Shared => RepeatsAreTold
<1> SUFFICES ASSUME Shared, NEW i \in DOMAIN sections, NEW j \in DOMAIN sections,
                    i < j, matches # << >>, sections[i].slug = sections[j].slug
             PROVE  /\ BaseOf(i) # BaseOf(j)
                    /\ \E n \in 2..Len(sections) :
                         BaseOf(i) = Numbered(BaseOf(j), n) \/ BaseOf(j) = Numbered(BaseOf(i), n)
  BY DEF RepeatsAreTold, BaseOf
<1>1. i \in 1..Len(sections) /\ j \in 1..Len(sections) /\ Len(sections) \in Nat
  BY LenProperties DEF Shared, Inv, Progress
<1>2. BaseOf(i) # BaseOf(j)
  BY <1>1 DEF Shared, Slugged
<1>3. BaseOf(i) \in Seq(Word) /\ BaseOf(j) \in Seq(Word)
  <2>1. i \in 1..Len(matches) /\ j \in 1..Len(matches)
    BY <1>1, LinesOfABody DEF Shared
  <2> QED
    BY <2>1, BaseTypes DEF Shared
<1>4. \A b \in DOMAIN counters : \A n \in 2..counters[b] : n \in 2..Len(sections) /\ n \in Nat
  <2>1. \A b \in DOMAIN counters : counters[b] \in 1..Len(sections)
    BY DEF Shared, Inv, Counted
  <2> QED
    BY <2>1, <1>1
<1>5. \A k \in {i, j} :
        \/ sections[k].slug = BaseOf(k)
        \/ \E n \in 2..Len(sections) : n \in Nat /\ sections[k].slug = Numbered(BaseOf(k), n)
  BY <1>1, <1>4 DEF Shared, Slugged
<1>6. CASE sections[i].slug = BaseOf(i)
  BY <1>2, <1>5, <1>6
<1>7. CASE sections[j].slug = BaseOf(j)
  BY <1>2, <1>5, <1>7
<1>8. ASSUME NEW m \in 2..Len(sections), m \in Nat, sections[i].slug = Numbered(BaseOf(i), m),
             NEW n \in 2..Len(sections), n \in Nat, sections[j].slug = Numbered(BaseOf(j), n)
      PROVE  FALSE
  BY <1>2, <1>3, <1>8, NumberedTellsBoth
<1> QED
  BY <1>2, <1>5, <1>6, <1>7, <1>8

\* Whatever the body, no line from the first heading of two to four marks on is
\* lost or in two sections, also where a heading takes the next line as its
\* title.  Nothing is said of the lines before it, which no section has.
THEOREM TextFromFirstHeadingIsShared == Spec => []BodiesShareTheText
<1> QED
  BY AlwaysShared, SharedHasBodies, PTL

\* Whatever the titles, two sections have one slug only when a title spells what
\* the parser makes of another one and a number.
THEOREM RepeatedTitlesDiffer == Spec => []RepeatsAreTold
<1> QED
  BY AlwaysShared, SharedTellsRepeats, PTL
=============================================================================
