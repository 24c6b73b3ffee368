-------------------------------- MODULE Contents --------------------------------
(***************************************************************************)
(* The table of contents (analyzers/toc): TocAnalyzer reads its entries    *)
(* off the lines of the pages and folds the blocks they came from into a   *)
(* container; TocLinkAnalyzer, once there are headings, finds the heading  *)
(* an entry names and the page its number is printed on.                   *)
(*                                                                         *)
(* A row is a line of one column, the page reference part of it. Left out: *)
(* columns side by side, the repair of misread numbers, levels, and the    *)
(* print of scanned entries.                                               *)
(***************************************************************************)
EXTENDS PageAnalyzers

\* toc/signals.py
HeadingMaxPage == 20
MinColumnRefs == 2
MinEntriesPerPage == 2
PagelessMinEntries == 5
HeadinglessMinEntries == 6
ProseChars == 100
MinChain == 3
MaxShiftStep == 8

-----------------------------------------------------------------------------
(* Rows of a page *)

\* Of a block of several lines only those with a box are read.
Readable(b) ==
  IF b.page = NoPage THEN <<>>
  ELSE SelectSeq(b.lines, LAMBDA l : l.words # <<>> /\ (l.boxed \/ Len(b.lines) = 1))

RowsOn(doc, page) ==
  LET on == Sorted(SelectSeq(Texts(doc), LAMBDA b : b.page = page), LAMBDA a, b : a.rank < b.rank)
      rows(b) == LET ls == Readable(b)
                 IN  [k \in DOMAIN ls |-> [line |-> ls[k], block |-> b.id, edge |-> Edge(b), page |-> page]]
  IN  FlattenSeq([i \in DOMAIN on |-> rows(on[i])])

FolioRow(row) == row.line.reads = "folio"
Labelled(row) == row.line.ref # NoRef /\ ~FolioRow(row)
Numbered(row) == row.line.number # ""

\* Where a list of contents is over: prose, another list, the first chapter, as
\* a rank of heading no entry is set in.
EndsContents(row, rank) ==
  \/ row.line.reads = "stop"
  \/ row.line.chars >= ProseChars
  \/ row.line.level \in 1..rank

\* _continues: under the title, not beside it, and no number of its own.
Wraps(rows, row) ==
  /\ row.line.indent => Numbered(Head(rows))
  /\ ~(Numbered(row) /\ Numbered(Head(rows)))

-----------------------------------------------------------------------------
(* read_page, read_pageless *)

\* What was read: entries of [rows, description], rows that are used up, how many
\* rows there were, and whether the list ends here.
NothingRead(rows) ==
  [entries |-> <<>>, pending |-> <<>>, consumed |-> {r \in Range(rows) : r.edge},
   rows |-> 0, stopped |-> FALSE, ended |-> FALSE]

\* flush: rows without a page describe the entry above them; above the first one
\* they are the header of the column.
FlushRows(s) ==
  IF s.pending = <<>> THEN s
  ELSE IF s.entries = <<>> THEN [s EXCEPT !.pending = <<>>, !.consumed = @ \cup Range(s.pending)]
  ELSE [s EXCEPT !.pending = <<>>,
                 !.entries[Len(s.entries)].description = @ \o s.pending]

\* `sized`: an entry has been read, so that a larger row can be told.
ReadRow(s, row, sized) ==
  LET rank == IF sized \/ s.entries # <<>> THEN 2 ELSE 0
      goes == s.pending # <<>> /\ Wraps(s.pending, row)
      t == IF goes THEN s ELSE FlushRows(s)
      rows == IF goes THEN Append(s.pending, row) ELSE <<row>>
  IN  CASE s.ended -> s
        [] ~s.ended /\ FolioRow(row) -> [s EXCEPT !.consumed = @ \cup {row}]
        [] ~s.ended /\ ~FolioRow(row) /\ Labelled(row) ->
             [t EXCEPT !.rows = @ + 1, !.pending = <<>>,
                       !.entries = Append(@, [rows |-> rows, description |-> <<>>])]
        [] ~s.ended /\ ~FolioRow(row) /\ ~Labelled(row) /\ EndsContents(row, rank) ->
             [s EXCEPT !.rows = @ + 1, !.stopped = TRUE, !.ended = TRUE]
        [] OTHER -> [t EXCEPT !.rows = @ + 1, !.pending = rows]

RowsOfEntry(e) == Range(e.rows) \cup Range(e.description)

Consumed(s) ==
  [s EXCEPT !.consumed = @ \cup UNION {RowsOfEntry(e) : e \in Range(s.entries)}]

\* A page without two page references has no column of them, and no entry.
ReadPage(lines, sized) ==
  LET body == SelectSeq(lines, LAMBDA r : ~r.edge)
      stops == {i \in DOMAIN body : body[i].line.reads = "stop"}
      rows == IF stops = {} THEN body ELSE SubSeq(body, 1, Min(stops) - 1)
      column == IF Len(SelectSeq(rows, Labelled)) >= MinColumnRefs THEN rows ELSE <<>>
      none == [NothingRead(lines) EXCEPT !.stopped = stops # {}]
  IN  Consumed(FlushRows(FoldLeft(LAMBDA s, r : ReadRow(s, r, sized), none, column)))

\* Every row an entry, up to the first heading or prose.
ReadPageless(lines, sized) ==
  LET read(s, row) ==
        LET rank == IF sized \/ s.entries # <<>> THEN 1 ELSE 0
        IN  CASE s.ended -> s
              [] ~s.ended /\ FolioRow(row) -> [s EXCEPT !.consumed = @ \cup {row}]
              [] ~s.ended /\ ~FolioRow(row) /\ EndsContents(row, rank) ->
                   [s EXCEPT !.rows = @ + 1, !.stopped = TRUE, !.ended = TRUE]
              [] OTHER -> [s EXCEPT !.rows = @ + 1,
                             !.entries = Append(@, [rows |-> <<row>>, description |-> <<>>])]
  IN  Consumed(FoldLeft(read, NothingRead(lines), SelectSeq(lines, LAMBDA r : ~r.edge)))

IsPagelessList(read) == Len(read.entries) >= PagelessMinEntries

\* accounted: rows that went into entries.
Accounted(read) ==
  FoldFunction(LAMBDA e, n : Len(e.rows) + Len(e.description) + n, 0, read.entries)

IsTocPage(read) ==
  Len(read.entries) >= MinEntriesPerPage /\ 10 * Accounted(read) >= 6 * Max({read.rows, 1})

StartsToc(read) ==
  Len(read.entries) >= HeadinglessMinEntries /\ 2 * Len(read.entries) >= read.rows

-----------------------------------------------------------------------------
(* read_toc *)

NoContents == [heading |-> <<>>, entries |-> <<>>, consumed |-> {}, page |-> NoPage]

\* A page is read as what the pages before it were, or else without page numbers.
ReadAgain(lines, sized, retried, read) ==
  [retried |-> retried, read |-> IF retried THEN ReadPageless(lines, sized) ELSE read]

\* Whether a page goes on, or at the first one opens, a list of contents.
GoesOn(s, first, page) ==
  CASE s.pageless \/ page.retried -> IsPagelessList(page.read)
    [] ~(s.pageless \/ page.retried) /\ first -> page.read.entries # <<>>
    [] OTHER -> IsTocPage(page.read)

WithPage(s, rows, first, page) ==
  IF ~s.on \/ rows = <<>> \/ ~GoesOn(s, first, page) THEN [s EXCEPT !.on = FALSE]
  ELSE [on |-> ~page.read.stopped, pageless |-> s.pageless \/ page.retried,
        entries |-> s.entries \o page.read.entries, consumed |-> s.consumed \cup page.read.consumed]

ReadTurn(s, rows, first, heading) ==
  LET below == LET at == CHOOSE i \in DOMAIN rows : <<rows[i]>> = heading
               IN  SubSeq(rows, at + 1, Len(rows))
      sized == s.entries # <<>>
      tried(lines) == IF s.pageless THEN ReadPageless(lines, sized) ELSE ReadPage(lines, sized)
      fails(read) == first /\ read.entries = <<>> /\ heading # <<>>
      again(lines, read) == ReadAgain(lines, sized, fails(read), read)
      whole(lines) == again(lines, tried(lines))
  IN  WithPage(s, rows, first, whole(IF first /\ heading # <<>> THEN below ELSE rows))

\* One page after the other, as long as they read as contents; `heading` is the
\* row the first page is read below, <<>> for none.
ReadFrom(doc, start, heading, last) ==
  LET turn(s, page) == ReadTurn(s, RowsOn(doc, page), page = start, heading)
      read(s) == [heading |-> heading, entries |-> s.entries, consumed |-> s.consumed, page |-> start]
  IN  read(FoldLeft(turn, [on |-> TRUE, pageless |-> FALSE, entries |-> <<>>, consumed |-> Range(heading)],
                    [n \in 1..(last - start + 1) |-> start + n - 1]))

\* The contents below each heading of theirs that has entries.
ContentsUnder(doc, early, last) ==
  LET headings == SelectSeq(FlattenSeq([i \in DOMAIN early |-> RowsOn(doc, early[i])]),
                            LAMBDA r : r.line.reads = "contents")
  IN  SelectSeq([i \in DOMAIN headings |-> ReadFrom(doc, headings[i].page, <<headings[i]>>, last)],
                LAMBDA toc : toc.entries # <<>>)

\* The contents that start with a page of many entries.
ContentsAlone(doc, early, last) ==
  LET starts == SelectSeq(early, LAMBDA p : StartsToc(ReadPage(RowsOn(doc, p), FALSE)))
  IN  IF starts = <<>> THEN NoContents ELSE ReadFrom(doc, Head(starts), <<>>, last)

FirstContents(found, alone) == IF found # <<>> THEN Head(found) ELSE alone

\* Below the first heading that has entries, or where a page has many.
ReadContents(doc) ==
  LET pages == {b.page : b \in Range(Texts(doc))} \ {NoPage}
      early == SetToSortSeq({p \in pages : p <= HeadingMaxPage}, <)
  IN  IF pages = {} THEN NoContents
      ELSE FirstContents(ContentsUnder(doc, early, Max(pages)), ContentsAlone(doc, early, Max(pages)))

-----------------------------------------------------------------------------
(* TocAnalyzer *)

\* "Оглавление": a word no source has.
DefaultTitle == <<Plain(<<1000>>)>>

SourcesOf(e) == {r.block : r \in Range(e.rows)}

\* _materialise: an entry is the text of its rows on the page of the first; what
\* describes it goes into its metadata.
TocEntry(doc, e, k) ==
  LET first == Head(e.rows)
      anchor == CHOOSE b \in Range(Texts(doc)) : b.id = first.block
      words == FlattenSeq([i \in DOMAIN e.rows |-> e.rows[i].line.words])
      entry == [Block(<<"toc-entry", SourcesOf(e), k>>, "Toc",
                      <<[first.line EXCEPT !.words = words, !.ref = Last(e.rows).line.ref]>>)
                EXCEPT !.page = first.page, !.rank = anchor.rank]
  IN  IF e.description = <<>> THEN entry
      ELSE Put(entry, "toc_description",
               FlattenSeq([i \in DOMAIN e.description |-> e.description[i].line.words]))

ContentBlocks(toc) == UNION {{r.block : r \in RowsOfEntry(e)} : e \in Range(toc.entries)}

HeadingBlocks(toc) == {r.block : r \in Range(toc.heading)}

\* The blocks all of whose lines were read as contents: one that holds the first
\* lines of the book proper as well stays.
Folded(doc, toc) ==
  {b \in Range(Texts(doc)) :
     /\ b.id \in ContentBlocks(toc) \cup HeadingBlocks(toc)
     /\ \A l \in Range(Readable(b)) : \E r \in toc.consumed : r.block = b.id /\ r.line = l}

\* The place of the first block that was read.
ContentsPlace(doc, at, blocks) ==
  at[Min({n \in DOMAIN at : LiveExactText(ChildAt(doc, at[n])) /\ ChildAt(doc, at[n]).id \in blocks})]

\* The container of the contents, before that block.
WithContents(doc, toc, folded, place) ==
  LET id == <<"toc-container", ContentBlocks(toc)>>
      box == [Block(id, "Container", <<>>) EXCEPT !.page = toc.page, !.rank = -1]
      title == IF toc.heading = <<>> THEN DefaultTitle ELSE <<toc.heading[1].line>>
      contents == [Container(title, doc.cont[place[1]].level + 1,
                             [k \in DOMAIN toc.entries |-> TocEntry(doc, toc.entries[k], k)])
                   EXCEPT !.semantic = "toc"]
      buried == EachChild(doc, LAMBDA b : IF b \in folded THEN Bury(b, "merged_into_toc") ELSE b)
  IN  [buried EXCEPT !.cont = (id :> contents) @@ [@ EXCEPT ![place[1]].kids = InsertAt(@, place[2], box)]]

TocDetector(doc) ==
  LET with(toc) ==
        IF toc.entries = <<>> THEN doc
        ELSE WithContents(doc, toc, Folded(doc, toc),
                          ContentsPlace(doc, Places(doc), ContentBlocks(toc) \cup HeadingBlocks(toc)))
  IN  with(ReadContents(doc))

-----------------------------------------------------------------------------
(* PageMap: from the numbers printed on the margins of pages, <<kind, number>> *)
(* each, the pages those numbers are on                                        *)

\* _page_map: on the margin, whether or not the block is tombstoned.
FolioPoints(doc, kind) ==
  LET margin == {b \in Range(Children(doc)) :
                   /\ b.type = "Ephemera" \/ ExactText(b)
                   /\ Edge(b) /\ b.page # NoPage}
  IN  UNION {{<<b.page, l.ref[2]>> : l \in {m \in Range(b.lines) : m.ref # NoRef /\ m.ref[1] = kind}} :
               b \in margin}

Shift(point) == point[1] - point[2]

\* How much the shift between two changes.
ShiftStep(a, b) == LET by == Shift(b) - Shift(a) IN IF by < 0 THEN -by ELSE by

\* _longest_chain: both grow, and the shift between two changes by little; of
\* two as long the one whose shift changes less, the first one met.
LongestChain(points) ==
  LET at == SetToSortSeq(points, LAMBDA a, b : a[1] < b[1] \/ (a[1] = b[1] /\ a[2] < b[2]))
      end(c) == Last(c.chain)
      longer(c, d) == Len(c.chain) > Len(d.chain) \/ (Len(c.chain) = Len(d.chain) /\ c.cost < d.cost)
      best(chains) == FoldLeft(LAMBDA c, d : IF longer(d, c) THEN d ELSE c, Head(chains), chains)
      goes(c, p) == end(c)[1] < p[1] /\ end(c)[2] < p[2] /\ ShiftStep(end(c), p) <= MaxShiftStep
      on(c, p) == [chain |-> Append(c.chain, p), cost |-> c.cost + ShiftStep(end(c), p)]
      \* with the longest chain that ends in this point
      take(chains, p) ==
        LET before == SelectSeq(chains, LAMBDA c : goes(c, p))
            from == [i \in DOMAIN before |-> on(before[i], p)]
        IN  Append(chains, best(<<[chain |-> <<p>>, cost |-> 0]>> \o from))
  IN  IF points = {} THEN <<>> ELSE best(FoldLeft(take, <<>>, at)).chain

\* PageMap: a shift holds that two pages have, or one on the way from one shift
\* to another.
Holding(chain) ==
  LET shift(i) == Shift(chain[i])
      between(i) == \E a, b \in {shift(i - 1), shift(i + 1)} : a # b /\ a <= shift(i) /\ shift(i) <= b
      holds(i) == \/ \E k \in DOMAIN chain \ {i} : shift(k) = shift(i)
                  \/ i > 1 /\ i < Len(chain) /\ between(i)
      held == SelectSeq([i \in DOMAIN chain |-> i], holds)
  IN  IF held = <<>> THEN chain ELSE [i \in DOMAIN held |-> chain[held[i]]]

AdjacentPair(chain) ==
  Len(chain) = 2 /\ chain[2][1] - chain[1][1] \in 1..2 /\ Shift(chain[1]) = Shift(chain[2])

PageMap(doc, kind) ==
  LET held == Holding(LongestChain(FolioPoints(doc, kind)))
  IN  IF Len(held) >= MinChain \/ AdjacentPair(held) THEN Range(held) ELSE {}

\* resolve: the page it is printed on, or one counted from a page before, or, with
\* none before, from the first.
Resolve(points, n) ==
  LET exact == {p \in points : p[2] = n}
      below == {p \in points : p[2] < n}
      by == IF below # {} THEN CHOOSE p \in below : \A q \in below : q[2] <= p[2]
            ELSE CHOOSE p \in points : \A q \in points : p[2] <= q[2]
  IN  IF points = {} THEN <<>>
      ELSE IF exact # {} THEN <<(CHOOSE p \in exact : TRUE)[1]>>
      ELSE <<n + Shift(by)>>

-----------------------------------------------------------------------------
(* TocLinkAnalyzer *)

LinkHeadings(doc) ==
  SelectSeq(Children(doc), LAMBDA b :
    b.type = "Container" /\ doc.cont[b.id].semantic # "toc" /\ doc.cont[b.id].title # <<>>)

HeadLine(doc, h) == Head(doc.cont[h.id].title)

\* What a heading is known by: its number and name, or its name.
NamedBy(doc, h) == LET l == HeadLine(doc, h) IN {<<l.number, l.name>>, <<"", l.name>>}

\* _link: an anchor stays; the one heading with the number, else the first with
\* the title.
Anchored(doc, e, pool) ==
  LET l == Head(e.lines)
      same == SelectSeq(pool, LAMBDA h : HeadLine(doc, h).number = l.number)
      named(key) == SelectSeq(pool, LAMBDA h : l.name # "" /\ key \in NamedBy(doc, h))
      found == CASE l.number # "" /\ Len(same) = 1 -> same
                 [] OTHER -> named(<<l.number, l.name>>) \o named(<<"", l.name>>)
  IN  IF Has(e, "anchor_id") \/ found = <<>> THEN e ELSE Put(e, "anchor_id", Head(found).id)

\* Counter.most_common: the first of those that come most often.
MostCommon(s) ==
  LET times(i) == Cardinality({k \in DOMAIN s : s[k] = s[i]})
  IN  s[CHOOSE i \in DOMAIN s : \A k \in DOMAIN s : times(i) > times(k) \/ (times(i) = times(k) /\ i <= k)]

RefOf(e) == Last(e.lines).ref

Targeted(e, page) ==
  IF page = <<>> THEN [e EXCEPT !.meta = [key \in DOMAIN @ \ {"target_page"} |-> @[key]]]
  ELSE Put(e, "target_page", page[1])

\* _resolve_pages: off the folios; else the page of the heading; else by the shift
\* the headings of its kind of numbers show most.
PagesResolved(entries, pool, map) ==
  LET read(e) == IF RefOf(e) = NoRef \/ \A k \in DOMAIN map : map[k] = {} THEN e
                 ELSE Targeted(e, Resolve(map[RefOf(e)[1]], RefOf(e)[2]))
      first == [i \in DOMAIN entries |-> read(entries[i])]
      page(e) == LET h == {x \in Range(pool) : Has(e, "anchor_id") /\ x.id = e.meta["anchor_id"] /\ x.page # NoPage}
                 IN  IF Has(e, "target_page") \/ RefOf(e) = NoRef \/ h = {} THEN <<>>
                     ELSE <<(CHOOSE x \in h : TRUE).page>>
      shown(kind) == SelectSeq(first, LAMBDA e : page(e) # <<>> /\ RefOf(e)[1] = kind)
      shifts(kind) == [i \in DOMAIN shown(kind) |-> page(shown(kind)[i])[1] - RefOf(shown(kind)[i])[2]]
      counted(e) ==
        CASE Has(e, "target_page") \/ RefOf(e) = NoRef -> e
          [] ~(Has(e, "target_page") \/ RefOf(e) = NoRef) /\ page(e) # <<>> -> Targeted(e, page(e))
          [] ~(Has(e, "target_page") \/ RefOf(e) = NoRef) /\ page(e) = <<>>
             /\ RefOf(e)[1] # "r" /\ shifts(RefOf(e)[1]) # <<>> ->
               Targeted(e, <<RefOf(e)[2] + MostCommon(shifts(RefOf(e)[1]))>>)
          [] OTHER -> e
  IN  [i \in DOMAIN entries |-> counted(first[i])]

\* The headings on the pages after the contents are those it may name.
PoolOf(doc, toc) ==
  SelectSeq(LinkHeadings(doc), LAMBDA h : NoPage \in {toc.page, h.page} \/ h.page > toc.page)

FolioKinds == {"", "r", "c1"}   \* plain numbers, roman ones, "1-5" of chapter 1

TocLink(doc) ==
  LET tocs == SelectSeq(Children(doc), LAMBDA b : b.type = "Container" /\ doc.cont[b.id].semantic = "toc")
      map == [k \in FolioKinds |-> PageMap(doc, k)]
      entries(kids) == SelectSeq(kids, LAMBDA b : b.type = "Toc")
      linked(toc, kids) ==
        LET pool == PoolOf(doc, toc)
            of == entries(kids)
            done == PagesResolved([i \in DOMAIN of |-> Anchored(doc, of[i], pool)], pool, map)
        IN  [i \in DOMAIN kids |->
               IF kids[i].type # "Toc" THEN kids[i]
               ELSE done[Cardinality({k \in 1..i : kids[k].type = "Toc"})]]
  IN  IF tocs = <<>> THEN doc
      ELSE FoldLeft(LAMBDA d, t : [d EXCEPT !.cont[t.id].kids = linked(t, @)], doc, tocs)
=============================================================================
