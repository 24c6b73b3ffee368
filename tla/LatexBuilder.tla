------------------------------ MODULE LatexBuilder ------------------------------
(***************************************************************************)
(* What of a document the LaTeX builder sets (assembler/latex_builder.py:  *)
(* build_latex, render_node) and the page assembler places on its pages    *)
(* (assembler/page_assembler.py). TeX is reduced to the words in it, in    *)
(* the order in which they are written; how they are set is left out.      *)
(* `lang` says whether the book is set in the target language or as it is. *)
(***************************************************************************)
EXTENDS TableRows

-----------------------------------------------------------------------------
(***************************************************************************)
(* Tables (_render_table): every cell goes to the column nearest to it, or *)
(* to the one of its index; what a cell over several rows covers is left   *)
(* empty.  Measures, rules and type are left out, and the columns that the *)
(* rules of the page give.                                                 *)
(***************************************************************************)

ColumnTolerance == 30

\* _cell_text.
CellWords(cell) == Words(CellText(cell))

BoxesOfRow(row) == [i \in DOMAIN row |-> row[i].meta["box"]]

Lefts(boxes) == SortSeq([i \in DOMAIN boxes |-> X0(boxes[i])], <)

\* The columns enough of the cells are in; all of them if that is one or none.
SupportedBins(grid, boxes, bins) ==
  LET support(k) == Cardinality({i \in DOMAIN boxes : NearestBin(X0(boxes[i]), bins) = k})
      often == SelectSeq([k \in DOMAIN bins |-> k], LAMBDA k : support(k) >= 2 /\ 100 * support(k) >= 15 * Len(grid))
  IN  IF Len(often) >= 2 THEN [n \in DOMAIN often |-> bins[often[n]]] ELSE bins

\* _column_bins: the header's columns; without one those that have cells enough.
\* None if a cell has no place, but for a table with a header.
ColumnsSet(grid, header, all) ==
  CASE Len(header) > 1 /\ <<>> \notin Range(header) -> Lefts(header)
    [] ~(Len(header) > 1 /\ <<>> \notin Range(header)) /\ <<>> \in Range(all) -> <<>>
    [] OTHER -> SupportedBins(grid, all, Bins(Lefts(all), ColumnTolerance))

SetColumns(grid) == ColumnsSet(grid, BoxesOfRow(grid[1]), BoxesOfRow(FlattenSeq(grid)))

\* There is no column nearest to a cell without a place: building the book fails.
CannotBeSet(t) ==
  LET grid == Grid(t)
  IN  /\ grid # <<>> /\ ~Has(t, "label_table")
      /\ Len(SetColumns(grid)) > 1 /\ \E c \in Range(FlattenSeq(grid)) : c.meta["box"] = <<>>

\* Fault: of the cells in one place the last is set.
LastOfPlace(row, columns, c) ==
  LET all == SelectSeq(row, LAMBDA cell : NearestBin(CellX0(cell), columns) = c)
  IN  IF all = <<>> THEN <<>> ELSE <<Last(all)>>

\* The cells that come to one column of a row, from the left.
CellsAt(row, columns, c) == ByColumn(SelectSeq(row, LAMBDA cell : NearestBin(CellX0(cell), columns) = c))

\* What is under a cell from a row above; two cells in one place span nothing.
Covered(grid, columns) ==
  LET at(k, c) == CellsAt(grid[k], columns, c)
      over(r, c) == {k \in 1..(r - 1) : \E cell \in Range(at(k, c)) : k + cell.meta["row_span"] > r}
  IN  {<<r, c>> \in (DOMAIN grid) \X (DOMAIN columns) :
         over(r, c) # {} /\ Len(at(Max(over(r, c)), c)) = 1}

CellsWords(cells) == FlattenSeq([i \in DOMAIN cells |-> CellWords(cells[i])])

PlacedRow(grid, r, columns, covered) ==
  FlattenSeq([c \in DOMAIN columns |->
                IF <<r, c>> \in covered THEN <<>> ELSE CellsWords(CellsAt(grid[r], columns, c))])

CountedRow(grid, r) ==
  FlattenSeq([i \in DOMAIN grid[r] |-> IF <<r, i>> \in SpanMap(grid) THEN <<>> ELSE CellWords(grid[r][i])])

RowsSet(grid, columns) ==
  FlattenSeq([r \in DOMAIN grid |->
                IF Len(columns) > 1 THEN PlacedRow(grid, r, columns, Covered(grid, columns)) ELSE CountedRow(grid, r)])

\* _set_table, row after row.
TableWords(t) ==
  CASE Grid(t) = <<>> -> <<>>
    [] Grid(t) # <<>> /\ Has(t, "label_table") -> CellsWords(FlattenSeq(Grid(t)))
    [] OTHER -> RowsSet(Grid(t), SetColumns(Grid(t)))

-----------------------------------------------------------------------------
(* Blocks and pages *)

Join(f) == FlattenSeq(f)

\* _printed_lines: of a paragraph its own; a list has them when every block of
\* its items has.
PrintedOfItems(items) ==
  IF \E p \in Range(items) : ~Has(p, "printed_lines") THEN <<>>
  ELSE Join([i \in DOMAIN items |-> items[i].meta["printed_lines"]])

PrintedLinesOf(b) ==
  CASE b.type = "List" -> PrintedOfItems(Join([i \in DOMAIN b.parts |-> b.parts[i].parts]))
    [] b.type # "List" /\ Has(b, "printed_lines") -> b.meta["printed_lines"]
    [] OTHER -> <<>>

-----------------------------------------------------------------------------
(* render_node *)

\* Fault: what another block has the translation of is set in the source.
TranslatedOrSource(b, words, lang) ==
  IF ~lang \/ ~Has(b, "translation") \/ b.meta["translation"].into # <<>> THEN words
  ELSE b.meta["translation"].text

\* _translated: the translation, nothing where another block has it, or the text.
Translated(b, words, lang) ==
  IF ~lang \/ ~Has(b, "translation") THEN words
  ELSE IF b.meta["translation"].into # <<>> THEN <<>>
  ELSE b.meta["translation"].text

\* The printed lines of a scan, unless the text is a translation or empty.
PrintedFor(text, words, lines) == IF text # <<>> /\ text = words /\ lines # <<>> THEN Join(lines) ELSE text

AsPrinted(b, lang) == PrintedFor(Translated(b, Words(b.lines), lang), Words(b.lines), PrintedLinesOf(b))

\* Text classes; a title page, an algorithm and an index entry are not translated.
Text(b, lang) ==
  CASE b.tomb \/ b.type \in {"Ephemera", "BlankPage", "Figure", "Unknown"} -> <<>>
    [] ~b.tomb /\ b.type \in {"Paragraph", "Caption"} -> AsPrinted(b, lang)
    [] ~b.tomb /\ b.type \in {"Footnote", "BibEntry", "Toc"} -> Translated(b, Words(b.lines), lang)
    [] ~b.tomb /\ b.type = "Formula" /\ Has(b, "needs_vision_ocr") -> AsPrinted(b, FALSE)
    [] OTHER -> Words(b.lines)

\* A list is set as printed if none of it is translated.
ListAsPrinted(b, lang) ==
  /\ PrintedLinesOf(b) # <<>>
  /\ \A i \in DOMAIN b.parts : \A p \in Range(b.parts[i].parts) :
       p.type = "Paragraph" => Translated(p, Words(p.lines), lang) = Words(p.lines)

\* Lists and callouts render what is in them, and have a branch for each class
\* but UnknownBlock.
Rendered(b, lang) ==
  IF b.tomb THEN <<>>
  ELSE CASE b.type = "Callout" -> Join([i \in DOMAIN b.parts |-> Text(b.parts[i], lang)])
         [] b.type = "Table" -> TableWords(b)
         [] b.type = "List" /\ ListAsPrinted(b, lang) -> Join(PrintedLinesOf(b))
         [] b.type = "List" /\ ~ListAsPrinted(b, lang) ->
              Join([i \in DOMAIN b.parts |->
                Join([k \in DOMAIN b.parts[i].parts |-> Text(b.parts[i].parts[k], lang)])])
         [] OTHER -> Text(b, lang)

\* A container of bibliography entries is set as they are, and nothing else of it.
Entries(doc, c) ==
  IF doc.cont[c].semantic = "bibliography"
  THEN SelectSeq(doc.cont[c].kids, LAMBDA b : b.type = "BibEntry") ELSE <<>>

Title(doc, b, lang) == Translated(b, Words(doc.cont[b.id].title), lang)

RenderedAll(blocks, lang) == Join([i \in DOMAIN blocks |-> Rendered(blocks[i], lang)])

Bibliography(doc, b, lang) == Title(doc, b, lang) \o RenderedAll(Entries(doc, b.id), lang)

\* A block, or a container with what is set of what is in it.
SetBlock(doc, b, lang, inner) ==
  CASE b.type # "Container" -> Rendered(b, lang)
    [] b.type = "Container" /\ Entries(doc, b.id) # <<>> -> Bibliography(doc, b, lang)
    [] OTHER -> Title(doc, b, lang) \o inner

\* build_latex: the tree from the roots, which are the document and have no title.
Linear(doc) ==
  LET set[c \in DOMAIN doc.cont] ==
        Join([i \in DOMAIN doc.cont[c].kids |->
                SetBlock(doc, doc.cont[c].kids[i], FALSE, set[doc.cont[c].kids[i].id])])
  IN  Join([i \in DOMAIN doc.roots |-> set[doc.roots[i]]])

-----------------------------------------------------------------------------
(* group_by_page *)

\* first_page_under: a block's own page, or the first there is below it.
FirstPageUnder(doc, b) ==
  LET page(k, below) == IF k.page = NoPage /\ k.type = "Container" THEN below ELSE k.page
      first[c \in DOMAIN doc.cont] ==
        LET kids == doc.cont[c].kids
            pages == SelectSeq([i \in DOMAIN kids |-> page(kids[i], first[kids[i].id])],
                               LAMBDA n : n # NoPage)
        IN  IF pages = <<>> THEN NoPage ELSE Head(pages)
  IN  page(b, first[b.id])

\* A block on its page or that of the block before, the containers it is the first
\* to be placed from in front of it.
Place(s, x) ==
  LET page == IF x.page = NoPage THEN s.last ELSE x.page
      new == SelectSeq(x.above, LAMBDA c : c.id \notin s.placed)
  IN  [slots |-> s.slots \o [i \in DOMAIN new |-> [page |-> page, block |-> new[i]]]
                 \o <<[page |-> page, block |-> x.leaf]>>,
       placed |-> s.placed \cup {new[i].id : i \in DOMAIN new},
       last |-> page]

\* The leaves of the walk with the containers they are in. Ephemera have no place;
\* of a bibliography only the container has one, and those it is in are not placed
\* for its sake.
LeavesOf(doc, b, inner) ==
  CASE b.tomb \/ b.type = "Ephemera" -> <<>>
    [] ~b.tomb /\ b.type = "Container" /\ Entries(doc, b.id) = <<>> ->
         [i \in DOMAIN inner |->
            IF inner[i].leaf.type = "Container" THEN inner[i] ELSE [inner[i] EXCEPT !.above = <<b>> \o @]]
    [] OTHER -> <<[leaf |-> b, page |-> FirstPageUnder(doc, b), above |-> <<>>]>>

Leaves(doc) ==
  LET under[c \in DOMAIN doc.cont] ==
        Join([i \in DOMAIN doc.cont[c].kids |->
                LeavesOf(doc, doc.cont[c].kids[i], under[doc.cont[c].kids[i].id])])
  IN  Join([i \in DOMAIN doc.roots |-> under[doc.roots[i]]])

\* _reading_order of one column: headings of another page, what has a box by
\* where it stands, then the rest.
ReadingOrder(blocks, page) ==
  LET head == SelectSeq(blocks, LAMBDA b : b.page # page /\ b.type = "Container")
      tail == SelectSeq(blocks, LAMBDA b : b.page = NoPage /\ b.type # "Container")
      boxed == SelectSeq(blocks, LAMBDA b : b.page = page)
      order == Sorted(boxed, LAMBDA a, b : a.rank < b.rank)
  IN  head \o order \o tail

\* The pages in their order, each with its blocks.
BlocksOn(placed, page) ==
  LET at == SelectSeq(placed, LAMBDA s : s.page = page) IN [i \in DOMAIN at |-> at[i].block]

Slot(page, came) == [page |-> page, came |-> came, blocks |-> ReadingOrder(came, page)]

Slots(placed) ==
  LET pages == SetToSortSeq({s.page : s \in Range(placed)}, <)
  IN  [n \in DOMAIN pages |-> Slot(pages[n], BlocksOn(placed, pages[n]))]

GroupByPage(doc) ==
  Slots(FoldLeft(Place, [slots |-> <<>>, placed |-> {}, last |-> 0], Leaves(doc)).slots)

-----------------------------------------------------------------------------
(* layout_for *)

PositionalRoles == {"title", "cover", "half_title", "series", "copyright", "toc", "diagram"}

\* _update_role, block after block as they came.
UpdateRole(role, b) ==
  LET own == CASE b.type = "TitlePage" -> IF Has(b, "page_role") THEN b.meta["page_role"] ELSE "title"
               [] b.type = "Toc" /\ role = "text" -> "toc"
               [] b.type = "BlankPage" /\ role = "text" -> "blank"
               [] OTHER -> role
  IN  IF Has(b, "page_role") /\ b.meta["page_role"] \in PositionalRoles THEN b.meta["page_role"] ELSE own

Role(slot) == FoldLeft(UpdateRole, "text", slot.came)

LayoutFor(doc, slot) ==
  LET renders(b) == /\ b.type # "BlankPage"
                    /\ b.type = "Container" => doc.cont[b.id].title # <<>>
  IN  CASE Role(slot) = "blank" /\ ~(\E b \in Range(slot.blocks) : renders(b)) -> "blank"
        [] Role(slot) \in PositionalRoles -> "positional"
        [] OTHER -> "reflow"

-----------------------------------------------------------------------------
(* assemble_pages *)

\* _block_text: the classes a tikz node can hold.
BlockText(doc, b, lang) ==
  LET words(p) == IF p.type \in {"Paragraph", "TitlePage", "Caption", "Footnote", "Toc"}
                  THEN Translated(p, Words(p.lines), lang) ELSE <<>>
      all(blocks) == Join([i \in DOMAIN blocks |-> words(blocks[i])])
  IN  CASE b.type = "Container" -> Title(doc, b, lang)
        [] b.type = "Callout" -> all(b.parts)
        [] b.type = "List" -> Join([i \in DOMAIN b.parts |-> all(b.parts[i].parts)])
        [] OTHER -> words(b)

Atomic == {"Code", "Table", "Formula"}

\* _positioned_lines: of the classes that keep their lines.
PositionedLines(b) ==
  IF TextBlock(b) /\ Len(Boxed(b.lines)) > 1 THEN Boxed(b.lines) ELSE <<>>

\* What a page set by place sets from the source whatever the language: printed
\* lines, and lines that have a place each.
SetFromSource(b) == b.type \notin Atomic /\ (PrintedLinesOf(b) # <<>> \/ PositionedLines(b) # <<>>)

Node(doc, b, lang) ==
  IF PositionedLines(b) # <<>> THEN Words(PositionedLines(b)) ELSE BlockText(doc, b, lang)

\* _render_positional: what has no box first, then the nodes, then what is atomic.
Positional(doc, blocks, lang) ==
  LET atomic(b) == b.type \in Atomic
      printed(b) == b.type \notin Atomic /\ PrintedLinesOf(b) # <<>>
      flow(b) == b.type \notin Atomic /\ ~SetFromSource(b) /\ b.page = NoPage
      placed(b) == /\ b.type \notin Atomic /\ PrintedLinesOf(b) = <<>>
                   /\ PositionedLines(b) # <<>> \/ b.page # NoPage
  IN  RenderedAll(SelectSeq(blocks, flow), lang)
      \o Join([i \in DOMAIN blocks |-> IF placed(blocks[i]) THEN Node(doc, blocks[i], lang) ELSE <<>>])
      \o Join([i \in DOMAIN blocks |-> IF printed(blocks[i]) THEN Join(PrintedLinesOf(blocks[i])) ELSE <<>>])
      \o RenderedAll(SelectSeq(blocks, atomic), lang)

\* _render_reflow: a container is its heading, a bibliography all of its entries. A
\* scanned page read in columns, drawn in one picture, and a table hung where it was
\* printed have the same words, the pictures last.
Reflow(doc, blocks, lang) ==
  Join([i \in DOMAIN blocks |-> SetBlock(doc, blocks[i], lang, <<>>)])

SetPage(doc, slot, lang, layout) ==
  CASE layout = "blank" -> <<>>
    [] layout = "positional" -> Positional(doc, slot.blocks, lang)
    [] layout = "reflow" -> Reflow(doc, slot.blocks, lang)

AssembledPage(doc, slot, lang) == SetPage(doc, slot, lang, LayoutFor(doc, slot))

AssembledPages(doc, slots, lang) == Join([n \in DOMAIN slots |-> AssembledPage(doc, slots[n], lang)])

Assembled(doc, lang) == AssembledPages(doc, GroupByPage(doc), lang)

-----------------------------------------------------------------------------
(* What a builder leaves out *)

PositionalSlots(doc) == {s \in Range(GroupByPage(doc)) : LayoutFor(doc, s) = "positional"}

\* Blocks, those in lists and callouts too, that are set from the source in a
\* translated book.
LeftInSource(doc) ==
  UNION {UNION {{p.id : p \in Range(WithParts(b))} : b \in {k \in Range(s.blocks) : SetFromSource(k)}} :
           s \in PositionalSlots(doc)}

\* Words the translation of which would be where the text is left in the source:
\* the translated book has neither.
GoneInto(doc, left) ==
  UNION {Range(Words(b.lines)) :
           b \in {k \in Range(AllBlocks(doc)) :
                    Has(k, "translation") /\ k.meta["translation"].into \in left /\ k.id \notin left}}

Orphaned(doc) == GoneInto(doc, LeftInSource(doc))

\* Unknown blocks, which lists and callouts have; in a bibliography what is no
\* entry; running titles and folios.
NeverSet(doc) ==
  LET top == Children(doc)
      bib == {c \in DOMAIN doc.cont : Entries(doc, c) # <<>>}
      under[c \in DOMAIN doc.cont] ==
        UNION {{b.id} \cup (IF b.type = "Container" THEN under[b.id] ELSE {}) :
                 b \in Range(doc.cont[c].kids)}
      skipped == {b \in Range(top) : \E c \in bib : b.id \in under[c] /\
                                       ~(b.type = "BibEntry" /\ b \in Range(doc.cont[c].kids))}
      unknown == UNION {{p \in Range(WithParts(b)) : p.type = "Unknown"} : b \in Range(top)}
  IN  UNION {Range(Words(p.lines)) : p \in unknown}
      \cup UNION {UNION {Range(Words(p.lines)) : p \in Range(WithParts(b))} : b \in skipped}
      \cup UNION {Range(Words(doc.cont[b.id].title)) : b \in {k \in skipped : k.type = "Container"}}
      \cup UNION {Range(Words(b.lines)) : b \in {k \in Range(top) : k.type = "Ephemera"}}

\* On pages: the headings under which there is nothing to set or nothing but a
\* bibliography, and the algorithms and index entries of a page set by place.
WordsOfTypes(blocks, types) == UNION {Range(Words(b.lines)) : b \in {k \in blocks : k.type \in types}}

WordsOfEntries(doc, blocks) ==
  UNION {UNION {Range(Words(e.lines)) : e \in Range(Entries(doc, b.id))} :
           b \in {k \in blocks : k.type = "Container"}}

HeadingsOfNothing(doc, leaves) ==
  UNION {Range(Words(doc.cont[c].title)) :
           c \in DOMAIN doc.cont \ UNION {{x.leaf.id} \cup {c.id : c \in Range(x.above)} : x \in Range(leaves)}}

NeverByPlace(doc, blocks) == WordsOfTypes(blocks, {"Algorithm", "IndexEntry"}) \cup WordsOfEntries(doc, blocks)

NeverPlaced(doc) ==
  HeadingsOfNothing(doc, Leaves(doc))
    \cup NeverByPlace(doc, UNION {Range(s.blocks) : s \in PositionalSlots(doc)})
=============================================================================
