---------------------------- MODULE FinalAnalyzers ----------------------------
(***************************************************************************)
(* The analyzers of the second half of the default pipeline: title pages   *)
(* and blank pages, what agents say of pages and blocks, captions, and the *)
(* last two that settle unclaimed blocks and cut paragraphs.               *)
(***************************************************************************)
EXTENDS PageAnalyzers

-----------------------------------------------------------------------------
(* TitlePageAnalyzer *)

IsText(b) == LiveText(b) /\ b.type # "TitlePage"

\* No more than two characters of text.
Bare(b) == b.lines = <<>> \/ (Len(b.lines) = 1 /\ b.lines[1].reads = "scrap")

\* _pages_with_text: only paragraphs count, of the tree's lowest level.
PagesWithText(doc) == {b.page : b \in {t \in Range(Children(doc)) : LiveText(t) /\ ~Bare(t)}}

\* Fault: what was tombstoned comes back as the new block.
BlankPagesRevived(doc) ==
  LET texts == PagesWithText(doc)
      blank(b) == TextBlock(b) /\ b.type # "TitlePage" /\ ~Has(b, "needs_ocr") /\ Bare(b)
                  /\ b.page \notin texts
  IN  EachChild(doc, LAMBDA b :
        IF ~blank(b) THEN b
        ELSE IF b.page = 0 THEN [Put(Become(b, "TitlePage"), "page_role", "cover") EXCEPT !.tomb = FALSE]
        ELSE [Become(b, "BlankPage") EXCEPT !.lines = <<>>, !.tomb = FALSE])

\* _detect_blank_pages: a cover keeps its lines, a blank page has none.
BlankPages(doc) ==
  LET texts == PagesWithText(doc)
      blank(b) == IsText(b) /\ ~Has(b, "needs_ocr") /\ Bare(b) /\ b.page \notin texts
  IN  EachChild(doc, LAMBDA b :
        IF ~blank(b) THEN b
        ELSE IF b.page = 0 THEN Put(Become(b, "TitlePage"), "page_role", "cover")
        ELSE [Become(b, "BlankPage") EXCEPT !.lines = <<>>])

\* _collect_all: a heading counts as its title.
TitleNodes(doc, page) ==
  SelectSeq(Children(doc), LAMBDA b :
    ~b.tomb /\ b.page = page /\ (IsText(b) \/ b.type \in {"BlankPage", "Container"}))

TextOf(doc, b) == IF b.type = "Container" THEN doc.cont[b.id].title ELSE b.lines

\* The score, the length of its texts and the words that must be there: one
\* line of an imprint, and no text of several lines.
ReadsAsTitlePage(doc, page) ==
  LET nodes == TitleNodes(doc, page)
  IN  /\ \E b \in Range(nodes) : \E l \in Range(TextOf(doc, b)) : l.reads = "imprint"
      /\ \A b \in Range(nodes) : Len(TextOf(doc, b)) <= 1

\* already_titled: title pages among the children of the roots.
Titled(doc) ==
  UNION {{b.page : b \in {k \in Range(doc.cont[r].kids) : k.type = "TitlePage" /\ ~k.tomb}} :
           r \in Range(doc.roots)}

\* Where the title page goes: in front of the block with the lowest index among
\* its siblings, the first of several.
TitlePlace(doc, page) ==
  LET at == Places(doc)
      merged(n) == LET b == ChildAt(doc, at[n])
                   IN  b \in Range(TitleNodes(doc, page)) /\ b.type # "Container"
      places == {n \in DOMAIN at : merged(n)}
  IN  IF places = {} THEN <<>>
      ELSE at[CHOOSE n \in places : \A m \in places :
                at[n][2] < at[m][2] \/ (at[n][2] = at[m][2] /\ n <= m)]

TitlePage(doc, page) ==
  LET nodes == TitleNodes(doc, page)
      texts == SelectSeq(nodes, LAMBDA b : TextOf(doc, b) # <<>>)
      place == TitlePlace(doc, page)
      title == Put(Across(Block(Composite("title-page", [i \in DOMAIN nodes |-> nodes[i].id]),
                          "TitlePage", [i \in DOMAIN texts |-> [Head(TextOf(doc, texts[i])) EXCEPT
                                                   !.boxed = texts[i].page # NoPage,
                                                   !.words = Words(TextOf(doc, texts[i]))]]), nodes),
                   "page_role", "title")
      buried == EachChild(doc, LAMBDA b :
                  IF b \in Range(nodes) /\ b.type # "Container"
                  THEN Bury(b, "merged_into_title_page") ELSE b)
  IN  IF ~ReadsAsTitlePage(doc, page) \/ place = <<>> THEN doc
      ELSE [buried EXCEPT !.cont[place[1]].kids = InsertAt(@, place[2], title)]

TitlePageDetector(doc) ==
  LET titled == Titled(BlankPages(doc))
  IN  FoldLeft(LAMBDA d, n : IF n - 1 \in titled THEN d ELSE TitlePage(d, n - 1),
               BlankPages(doc), [n \in 1..TitlePages |-> n])

-----------------------------------------------------------------------------
(* PageAgentAnalyzer: answer[page] is [role, table, types]; "" is no role.     *)
(* A call that failed has no answer.                                           *)

PageTexts(doc, page) == SelectSeq(Children(doc), LAMBDA b : LiveText(b) /\ b.lines # <<>> /\ b.page = page)

TablePages(doc) == {b.page : b \in {t \in Range(Children(doc)) : t.type = "Table" /\ ~t.tomb}}

\* _replace_with_table: one table for all the text of the page.
AgentTable(doc, page) ==
  LET blocks == PageTexts(doc, page)
      table == Put(Across(Block(Composite("agent-table", [i \in DOMAIN blocks |-> blocks[i].id]),
                                "Table", <<>>), blocks), "source", "PageAgent")
  IN  EachContainer(doc, LAMBDA kids :
        FlattenSeq([i \in DOMAIN kids |->
          CASE kids[i] = blocks[1] -> <<table, Bury(kids[i], "merged_into_table_agent")>>
            [] kids[i] # blocks[1] /\ kids[i] \in Range(blocks) ->
                 <<Bury(kids[i], "merged_into_table_agent")>>
            [] OTHER -> <<kids[i]>>]))

\* Tables are looked for before the first answer is applied; whichever came
\* first, the pages are done in their order.
PageAgent(doc, answer) ==
  LET tables == TablePages(doc)
      note(d, page, key, value) ==
        EachChild(d, LAMBDA b : IF b \in Range(PageTexts(d, page)) THEN Put(b, key, value) ELSE b)
      role(d, page) ==
        IF answer[page].role = "" THEN d ELSE note(d, page, "page_role", answer[page].role)
      apply(d, page) ==
        IF PageTexts(d, page) = <<>> THEN d
        ELSE IF answer[page].table /\ page \notin tables THEN AgentTable(role(d, page), page)
        ELSE IF answer[page].types THEN note(role(d, page), page, "llm_suggested_type", "label")
        ELSE role(d, page)
  IN  FoldLeft(apply, doc, SetToSortSeq(DOMAIN answer, <))

-----------------------------------------------------------------------------
(* CaptionAnalyzer *)

CaptionReads == {"caption of figure", "caption of table", "caption of example"}

TargetTypes(reading) ==
  CASE reading = "caption of figure" -> {"Figure", "Diagram"}
    [] reading = "caption of table" -> {"Table"}
    [] OTHER -> {}

\* _nearest_of: the nearest above, and only without one the nearest below.
NearestOf(kids, at, types) ==
  LET of == {i \in DOMAIN kids : ~kids[i].tomb /\ kids[i].type \in types}
      above == {i \in of : i <= at}
  IN  IF of = {} THEN {} ELSE IF above # {} THEN {Max(above)} ELSE {Min(of)}

AtomicTypes == {"Figure", "Diagram", "Table", "Code", "Formula"}

\* _find_nearest_target.
NearestTarget(kids, at) ==
  LET exact == NearestOf(kids, at, TargetTypes(Reading(kids[at].lines[1])))
  IN  IF exact # {} THEN exact ELSE NearestOf(kids, at, AtomicTypes)

Captioned(kids) ==
  LET captions == {i \in DOMAIN kids : LiveText(kids[i]) /\ OpensAs(kids[i], CaptionReads)}
      target(i) == NearestTarget(kids, i)
      \* the last caption that takes a block for its target stays in it
      taker(j) == {i \in captions : j \in target(i)}
      linked(j) == IF taker(j) = {} \/ kids[j].type \notin {"Figure", "Diagram", "Table"} THEN kids[j]
                   ELSE Put(kids[j], "caption_id", kids[Max(taker(j))].id)
  IN  [j \in DOMAIN kids |->
         IF j \notin captions THEN linked(j)
         ELSE [Put(kids[j], "target_block_id",
                   IF target(j) = {} THEN <<>> ELSE kids[CHOOSE t \in target(j) : TRUE].id)
               EXCEPT !.type = "Caption"]]

CaptionDetector(doc) == EachContainer(doc, Captioned)

-----------------------------------------------------------------------------
(* LLMRefinementAnalyzer: `unsure` and `answered` are the ids with a low       *)
(* confidence and those the model answered for in its time; tombstoned blocks  *)
(* are asked about too                                                         *)

LLMRefinement(doc, unsure, answered) ==
  EachChild(doc, LAMBDA b :
    IF /\ TextBlock(b) /\ b.lines # <<>> /\ ~Has(b, "llm_refined")
       /\ b.id \in unsure /\ b.id \in answered
    THEN Put(Put(b, "llm_suggested_type", "paragraph"), "llm_refined", TRUE)
    ELSE b)

(* VisionFallbackAnalyzer: the formulas first, then blocks, while calls last *)

VisionFallback(doc, unsure, calls) ==
  LET formulas == SelectSeq(Children(doc), LAMBDA b : b.type = "Formula" /\ Has(b, "needs_vision_ocr"))
      blocks == SelectSeq(Children(doc), LAMBDA b : LiveText(b) /\ b.id \in unsure)
      queue == formulas \o blocks
      asked == {queue[i] : i \in 1..Min({calls, Len(queue)})}
      answer(b) ==
        IF b.type = "Formula"
        THEN [Put(b, "vision_ocr", TRUE) EXCEPT
                !.meta = [key \in DOMAIN @ \ {"needs_vision_ocr"} |-> @[key]]]
        ELSE Put(b, "vision_suggested_type", "paragraph")
  IN  EachChild(doc, LAMBDA b : IF b \in asked THEN answer(b) ELSE b)

-----------------------------------------------------------------------------
(* UnknownResolverAnalyzer *)

UnknownResolver(doc) ==
  EachChild(doc, LAMBDA b :
    IF b.type = "Unknown" /\ ~b.tomb THEN [b EXCEPT !.type = "Paragraph"] ELSE b)

-----------------------------------------------------------------------------
(* ParagraphAnalyzer *)

Own(b) == IF Has(b, "printed_lines") THEN b.meta["printed_lines"] ELSE <<>>

IndentTol == 8   \* thousandths of the page

WherePlaced(b) == SelectSeq(Boxed(b.lines), LAMBDA l : l.box # <<>>)

\* Where the lines say where they stand: in columns of their own.
InColumns(a, b) ==
  /\ WherePlaced(a) # <<>> /\ WherePlaced(b) # <<>>
  /\ LET first == Hull({l.box : l \in Range(WherePlaced(a))})
         other == Hull({l.box : l \in Range(WherePlaced(b))})
     IN  X0(other) >= X1(first) - IndentTol \/ X0(first) >= X1(other) - IndentTol

\* continues: same page and column, the last line is full, the first is not set in.
Continues(a, b) ==
  /\ Boxed(a.lines) # <<>> /\ Boxed(b.lines) # <<>> /\ a.page = b.page /\ ~InColumns(a, b)
  /\ Last(Boxed(a.lines)).full /\ ~Head(Boxed(b.lines)).indent

Merged(a, b) ==
  LET all == [a EXCEPT !.lines = @ \o b.lines]
  IN  IF Own(a) \o Own(b) = <<>> THEN all ELSE Put(all, "printed_lines", Own(a) \o Own(b))

\* One child: `prev` is the place of the paragraph that may go on, 0 for none.
JoinStep(s, b) ==
  CASE b.tomb -> [s EXCEPT !.out = Append(@, b)]
    [] ~b.tomb /\ b.type # "Paragraph" -> [out |-> Append(s.out, b), prev |-> 0]
    [] ~b.tomb /\ b.type = "Paragraph" /\ s.prev # 0 /\ Continues(s.out[s.prev], b) ->
         [s EXCEPT !.out = Append([@ EXCEPT ![s.prev] = Merged(@, b)],
                                  Bury(b, "merged_into_paragraph"))]
    [] OTHER -> [out |-> Append(s.out, b), prev |-> Len(s.out) + 1]

JoinedKids(kids) == FoldLeft(JoinStep, [out |-> <<>>, prev |-> 0], kids).out

\* _split_misread: the misread lines a paragraph begins and ends with leave it.
SplitMisread(b) ==
  LET n == Len(b.lines)
      bad(i) == b.lines[i].misread /\ b.lines[i].words \in Range(Own(b))
      top == Max({0} \cup {i \in 1..n : \A j \in 1..i : bad(j)})
      end == Min({n} \cup {i \in top..(n - 1) : \A j \in (i + 1)..n : bad(j)})
      \* with what stands on the row of such a line
      head == IF top = 0 THEN 0
              ELSE Max({i \in top..end : \A j \in (top + 1)..i : b.lines[j].beside})
      foot == IF end = n THEN n
              ELSE Min({i \in head..end : \A j \in (i + 1)..end : b.lines[j + 1].beside})
      formula(lines, where) ==
        Put(Put(Across(Block(<<"formula", <<b.id, where>>>>, "Formula", lines), <<b>>),
                "needs_vision_ocr", TRUE), "printed_lines",
            SelectSeq(Own(b), LAMBDA t : \E i \in DOMAIN lines : lines[i].words = t))
      kept == SubSeq(b.lines, head + 1, foot)
  IN  IF b.type # "Paragraph" \/ b.tomb \/ head = foot \/ (head = 0 /\ foot = n) THEN <<b>>
      ELSE (IF head = 0 THEN <<>> ELSE <<formula(SubSeq(b.lines, 1, head), "head")>>)
           \o <<Put([b EXCEPT !.lines = kept], "printed_lines",
                    SelectSeq(Own(b), LAMBDA t : \E i \in DOMAIN kept : kept[i].words = t))>>
           \o (IF foot = n THEN <<>> ELSE <<formula(SubSeq(b.lines, foot + 1, n), "foot")>>)

\* The next column of the page begins over the end of this one.
NextColumn(a, b) ==
  /\ a.page = b.page /\ InColumns(a, b)
  /\ Y0(Head(WherePlaced(b)).box) < Y0(Last(WherePlaced(a)).box)

\* continues_across: to the next column or page, in the middle of a sentence.
ContinuesAcross(a, b) ==
  /\ Boxed(a.lines) # <<>> /\ Boxed(b.lines) # <<>>
  /\ NextColumn(a, b) \/ (a.page # NoPage /\ b.page = a.page + 1)
  /\ ~Last(Boxed(a.lines)).stop /\ Last(Boxed(a.lines)).full
  /\ ~Head(Boxed(b.lines)).capital /\ ~Head(Boxed(b.lines)).indent

\* Fault: merged paragraphs are part of the flow.
JoinedOverMerged(doc) ==
  LET whole == EachContainer(doc, LAMBDA kids :
                 LET joined == JoinedKids(kids)
                 IN  FlattenSeq([i \in DOMAIN joined |-> SplitMisread(joined[i])]))
      flow == SelectSeq(Children(whole), LAMBDA b : b.type = "Paragraph")
      before(b) == {flow[i] : i \in {j \in 1..(Len(flow) - 1) :
                                       flow[j + 1].id = b.id /\ ContinuesAcross(flow[j], flow[j + 1])}}
  IN  EachChild(whole, LAMBDA b :
        IF b.type = "Paragraph" /\ ~b.tomb /\ before(b) # {}
        THEN Put(b, "continues", (CHOOSE a \in before(b) : TRUE).id) ELSE b)

ParagraphsJoined(doc) ==
  LET whole == EachContainer(doc, LAMBDA kids :
                 LET joined == JoinedKids(kids)
                 IN  FlattenSeq([i \in DOMAIN joined |-> SplitMisread(joined[i])]))
      flow == SelectSeq(Children(whole), LAMBDA b : b.type = "Paragraph" /\ ~b.tomb)
      before(b) == {flow[i] : i \in {j \in 1..(Len(flow) - 1) :
                                       flow[j + 1].id = b.id /\ ContinuesAcross(flow[j], flow[j + 1])}}
  IN  EachChild(whole, LAMBDA b :
        IF b.type = "Paragraph" /\ ~b.tomb /\ before(b) # {}
        THEN Put(b, "continues", (CHOOSE a \in before(b) : TRUE).id) ELSE b)
=============================================================================
