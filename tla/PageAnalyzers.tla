---------------------------- MODULE PageAnalyzers ----------------------------
(***************************************************************************)
(* The analyzers that need more than a block's own text: the page it is on,*)
(* the blocks around it, the whole document, or an agent's answer          *)
(* (src/analyzers/<name>/analyzer.py). Boxes are reduced to the page, the  *)
(* margin a block stands in and its rank in the page's reading order;      *)
(* what an agent answers is a parameter.                                   *)
(***************************************************************************)
EXTENDS Blocks

CONSTANTS Scanned,      \* pages that are images (PrintedLinesAnalyzer reads them)
          MinRepeat,    \* MIN_REPEAT_PAGES
          TitlePages    \* TITLE_MAX_PAGES

ASSUME PageAssumption == Scanned \subseteq Nat /\ MinRepeat \in Nat /\ TitlePages \in Nat

Texts(doc) == SelectSeq(Children(doc), LiveExactText)

-----------------------------------------------------------------------------
(* OCRAnalyzer: read[id] is what the agent read on the page of that block *)

OcrTargets(doc) ==
  {b \in Range(Children(doc)) : ~b.tomb /\ b.type # "Container" /\ Has(b, "needs_ocr")}

OcrLine(b, line, k) ==
  Put(Put(Across(Block(PieceId("ocr-line", b.page, k), "Unknown", <<[line EXCEPT !.boxed = FALSE]>>), <<b>>),
          "ocr_source", "vision-agent"), "ocr_geometry", "page")

\* _replace: the lines in front of the block, which is tombstoned.
Recovered(b, lines) ==
  IF lines = <<>> THEN <<b>>
  ELSE [k \in DOMAIN lines |-> OcrLine(b, lines[k], k)]
       \o <<Bury([b EXCEPT !.meta = [key \in DOMAIN @ \ {"needs_ocr"} |-> @[key]]],
                 "replaced_by_ocr")>>

OCR(doc, read) ==
  EachContainer(doc, LAMBDA kids :
    FlattenSeq([i \in DOMAIN kids |->
      IF kids[i] \in OcrTargets(doc) THEN Recovered(kids[i], read[kids[i].id]) ELSE <<kids[i]>>]))

-----------------------------------------------------------------------------
(* PrintedLinesAnalyzer *)

\* _join_row_pieces.
Joined(lines) ==
  LET take(out, l) ==
        IF l.beside /\ l.boxed /\ out # <<>> /\ Last(out).boxed
        THEN [out EXCEPT ![Len(out)] = [@ EXCEPT !.words = @ \o l.words, !.full = l.full,
                                                 !.stop = l.stop]]
        ELSE Append(out, l)
  IN  FoldLeft(take, <<>>, lines)

\* The record of its lines is added to the one it has.
Printed(b) ==
  LET lines == Joined(b.lines)
      old == IF Has(b, "printed_lines") THEN b.meta["printed_lines"] ELSE <<>>
      boxed == Boxed(lines)
      new == [i \in DOMAIN boxed |-> boxed[i].words]
  IN  IF LiveExactText(b) /\ b.page \in Scanned /\ boxed # <<>>
      THEN [Put(b, "printed_lines", old \o new) EXCEPT !.lines = lines] ELSE b

PrintedLines(doc) == EachChild(doc, Printed)

-----------------------------------------------------------------------------
(* PageOrderAnalyzer *)

\* _page_in_order: on a page with printed lines, what is tombstoned comes first,
\* the rest in the reading order of its boxes (module PageOrder).
PageInOrder(blocks) ==
  LET laid == SelectSeq(blocks, LAMBDA b : ~b.tomb)
      order == SortSeq([i \in DOMAIN laid |-> i],
                       LAMBDA i, j : \/ laid[i].rank < laid[j].rank
                                     \/ laid[i].rank = laid[j].rank /\ i < j)
  IN  IF Len(laid) < 2 \/ \A b \in Range(blocks) : ~Has(b, "printed_lines") THEN blocks
      ELSE SelectSeq(blocks, LAMBDA b : b.tomb) \o [i \in DOMAIN order |-> laid[order[i]]]

\* _in_order: page by page, a container between two blocks of a page parts it.
InOrder(kids) ==
  LET same(run, b) == run # <<>> /\ b.type # "Container" /\ run[1].type # "Container"
                      /\ run[1].page = b.page
      take(s, b) == IF same(s.run, b) THEN [s EXCEPT !.run = Append(@, b)]
                    ELSE [out |-> s.out \o PageInOrder(s.run), run |-> <<b>>]
      end == FoldLeft(take, [out |-> <<>>, run |-> <<>>], kids)
  IN  end.out \o PageInOrder(end.run)

PageOrdered(doc) ==
  [doc EXCEPT !.cont = [c \in DOMAIN @ |->
     IF c \in Range(doc.roots) THEN [@[c] EXCEPT !.kids = InOrder(@)] ELSE @[c]]]

-----------------------------------------------------------------------------
(* FontStatsAnalyzer *)

FontRole(b) ==
  CASE b.font = "small" -> "footnote" [] b.font = "large" -> "heading" [] OTHER -> b.font

FontStats(doc) ==
  EachChild(doc, LAMBDA b : IF LiveText(b) THEN Put(b, "font_role", FontRole(b)) ELSE b)

-----------------------------------------------------------------------------
(* EphemeraDetectorAnalyzer *)

Edge(b) == b.at \in {"top", "bottom"}

\* The pages on whose margin the running title stands.
RunningPages(doc) ==
  {b.page : b \in {t \in Range(Texts(doc)) : Edge(t) /\ OpensAs(t, {"running"})}}

\* A page number; a running title that was printed as one, or that repeats.
IsEphemera(doc, b) ==
  /\ LiveExactText(b) /\ Edge(b)
  /\ \/ OpensAs(b, {"folio"})
     \/ /\ OpensAs(b, {"running"})
        /\ (Has(b, "printed_lines") \/ Cardinality(RunningPages(doc)) >= MinRepeat)

Ephemera(doc) ==
  EachChild(doc, LAMBDA b : IF IsEphemera(doc, b) THEN Become(b, "Ephemera") ELSE b)

-----------------------------------------------------------------------------
(* HeadingAnalyzer *)

\* heading_runs: a block of a scan cut where lines that stand apart open after
\* the end of a sentence. A heading's line that is printed smaller (goes_on)
\* counts as standing apart, and no run is longer than MAX_HEADING_LINES.
HeadingCuts(b) ==
  LET n == Len(b.lines)
      apart(i) == b.lines[i].level > 0
      starts == {i \in 1..n : apart(i) /\ (i = 1 \/ (b.lines[i - 1].stop /\ ~apart(i - 1)))}
      ends == {i \in 2..n : ~apart(i) /\ apart(i - 1)
                            /\ \E s \in starts : s < i /\ \A j \in s..(i - 1) : apart(j)}
  IN  IF n < 2 \/ ~Has(b, "printed_lines") \/ (\A i \in 1..n : apart(i)) THEN {}
      ELSE starts \cup ends

\* _split_at_headings: the pieces, then the block itself, tombstoned. A block
\* is of one column: two that OCR ran into one (rules.columns) are left out.
SplitAtHeadings(b) ==
  LET from == SetToSortSeq(HeadingCuts(b) \cup {1}, <)
      end(k) == IF k = Len(from) THEN Len(b.lines) ELSE from[k + 1] - 1
  IN  IF ~LiveText(b) \/ HeadingCuts(b) \subseteq {1} THEN <<b>>
      ELSE [k \in DOMAIN from |->
              LET lines == SubSeq(b.lines, from[k], end(k))
                  own == SelectSeq(b.meta["printed_lines"],
                                   LAMBDA t : \E i \in DOMAIN lines : lines[i].words = t)
                  piece == [Across(Block(PieceId("heading-split", b.id, k), b.type, lines), <<b>>)
                              EXCEPT !.font = b.font]
              IN  IF own = <<>> THEN piece ELSE Put(piece, "printed_lines", own)]
           \o <<Bury(b, "split_at_heading")>>

IsHeading(b) ==
  LiveText(b) /\ b.lines # <<>> /\ \A i \in DOMAIN b.lines : b.lines[i].level > 0

\* Fault: a heading of the same rank stays open.
HeadingUnderEqual(s, b) ==
  LET top == s.stack[Len(s.stack)]
      level == b.lines[1].level
      open == SelectSeq(s.stack, LAMBDA c : c = s.stack[1] \/ s.cont[c].level <= level)
      parent == open[Len(open)]
      heading == ContainerBlock(b)
  IN  IF b.type # "Container" /\ IsHeading(b)
      THEN [stack |-> Append(open, b.id),
            cont |-> (b.id :> Container(b.lines, level, <<>>))
                     @@ [s.cont EXCEPT ![parent].kids = Append(@, heading)]]
      ELSE [s EXCEPT !.cont = [@ EXCEPT ![top].kids = Append(@, b)]]

\* One block of the flat page: `stack` is the path of open containers.
HeadingStep(s, b) ==
  LET top == s.stack[Len(s.stack)]
      level == b.lines[1].level
      \* the outermost container stays
      open == SelectSeq(s.stack, LAMBDA c : c = s.stack[1] \/ s.cont[c].level < level)
      parent == open[Len(open)]
      heading == ContainerBlock(b)
  IN  IF b.type # "Container" /\ IsHeading(b)
      THEN [stack |-> Append(open, b.id),
            cont |-> (b.id :> Container(b.lines, level, <<>>))
                     @@ [s.cont EXCEPT ![parent].kids = Append(@, heading)]]
      ELSE [s EXCEPT !.cont = [@ EXCEPT ![top].kids = Append(@, b)]]

\* _build_tree: nothing is done to a root that has containers other than a toc.
HeadingTree(cont, root) ==
  LET flat == cont[root].kids
      pieces == FlattenSeq([i \in DOMAIN flat |-> SplitAtHeadings(flat[i])])
      nested == \E b \in Range(flat) : b.type = "Container" /\ cont[b.id].semantic # "toc"
  IN  IF nested THEN cont
      ELSE FoldLeft(HeadingStep,
             [stack |-> <<root>>, cont |-> [cont EXCEPT ![root].kids = <<>>]], pieces).cont

HeadingDetector(doc) ==
  [doc EXCEPT !.cont = FoldLeft(HeadingTree, doc.cont, doc.roots)]
=============================================================================
