------------------------------ MODULE MCAnalyzers ------------------------------
(* Documents of one container: every pair of the kinds of blocks below, on a *)
(* printed page and on scanned ones, and longer ones where more have to meet. *)
EXTENDS DefaultPipeline

\* The words of the i-th line of the p-th block.
W(p, i) == <<10 * p + i>>
L(p, i) == Plain(W(p, i))

Mark(style, number) == [style |-> style, number |-> number]
Para(p, lines) == Block(<<"p", p>>, "Unknown", lines)
Reads(p, as) == Para(p, <<[L(p, 1) EXCEPT !.reads = as, !.capital = TRUE]>>)

Kinds ==
  {"prose", "open", "item", "items", "noise", "scrap", "theorem", "note", "footnote",
   "folio", "heading", "headed", "imprint", "caption", "figure", "unread"}

Kind(kind, p) ==
  CASE kind = "prose" -> Para(p, <<L(p, 1)>>)
    \* in the middle of a sentence, to the right margin
    [] kind = "open" -> Para(p, <<L(p, 1), [L(p, 2) EXCEPT !.stop = FALSE, !.full = TRUE]>>)
    \* two columns of a page, the sentence goes on at the head of the right one
    [] kind = "left" -> Para(p, [i \in 1..2 |-> [L(p, i) EXCEPT !.box = <<100, 480, 700 + 20 * i, 715 + 20 * i>>,
                                                               !.stop = i = 1, !.full = TRUE]])
    [] kind = "right" -> Para(p, [i \in 1..2 |-> [L(p, i) EXCEPT !.box = <<520, 900, 80 + 20 * i, 95 + 20 * i>>]])
    [] kind = "cut" -> Para(p, <<L(p, 1), [L(p, 2) EXCEPT !.stop = FALSE]>>)
    [] kind = "item" -> Para(p, <<[L(p, 1) EXCEPT !.mark = Mark("ordered", p)]>>)
    [] kind = "items" -> Para(p, <<[L(p, 1) EXCEPT !.mark = Mark("bullet", 0)], L(p, 2),
                                   [L(p, 3) EXCEPT !.mark = Mark("bullet", 0)]>>)
    [] kind = "footnote" -> [Para(p, <<[L(p, 1) EXCEPT !.mark = Mark("super", 1)]>>)
                               EXCEPT !.font = "small", !.at = "low"]
    [] kind = "note" -> Para(p, <<[L(p, 1) EXCEPT !.label = "note"]>>)
    [] kind \in {"folio", "running"} -> [Reads(p, kind) EXCEPT !.at = "top"]
    [] kind = "heading" -> Para(p, <<[L(p, 1) EXCEPT !.level = 1]>>)
    [] kind = "subheading" -> Para(p, <<[L(p, 1) EXCEPT !.level = 2]>>)
    [] kind \in {"references", "index"} ->
         Para(p, <<[L(p, 1) EXCEPT !.level = 1, !.reads = kind]>>)
    \* the references of a chapter
    [] kind = "further" -> Para(p, <<[L(p, 1) EXCEPT !.level = 2, !.reads = "references"]>>)
    \* a heading between the lines of a block of a scan
    [] kind = "headed" -> Para(p, <<L(p, 1), [L(p, 2) EXCEPT !.level = 1], L(p, 3)>>)
    [] kind = "caption" -> Reads(p, "caption of figure")
    [] kind = "figure" -> Block(<<"p", p>>, "Figure", <<>>)
    [] kind = "unread" -> Put(Para(p, <<>>), "needs_ocr", TRUE)
    [] kind = "misread" -> Para(p, <<[L(p, 1) EXCEPT !.misread = TRUE], L(p, 2)>>)
    [] OTHER -> Reads(p, kind)

\* A scan's blocks come unjudged, those of a text document as paragraphs.
TypeOn(type, page) == IF type = "Unknown" /\ page \notin Scanned THEN "Paragraph" ELSE type

\* Blocks of these kinds on these pages; a page's first block is read last.
Doc(kinds, pages) ==
  [cont |-> <<"root">> :> Container(<<>>, 0,
              [p \in DOMAIN kinds |-> [Kind(kinds[p], p) EXCEPT !.page = pages[p], !.type = TypeOn(@, pages[p]),
                                                                !.rank = Len(kinds) - p]]),
   roots |-> <<<<"root">>>>, units |-> <<>>]

\* What may go over to the next page.
Goes == {"open", "item", "items", "heading", "theorem", "folio"}

\* What the print of a page decides on.
TextKinds == Goes \cup {"prose", "note", "caption"}

\* An adapter flags one block of a page as unread.
Pairs ==
  {Doc(<<a, b>>, <<1, 1>>) : a \in Kinds, b \in Kinds \ {"unread", "noise", "scrap", "imprint"}}
  \cup {Doc(<<a, b>>, <<0, 0>>) : a, b \in TextKinds}
  \cup {Doc(<<a, b>>, <<1, 2>>) : a \in Goes, b \in TextKinds \cup {"headed", "footnote"}}

Longer ==
  {Doc(<<"heading", "item", "item", "prose">>, <<1, 1, 1, 1>>),
   Doc(<<"theorem", "prose", "open", "theorem", "qed">>, <<0, 0, 0, 0, 0>>),
   Doc(<<"heading", "subheading", "prose", "heading", "subheading">>, <<2, 2, 2, 2, 2>>),
   Doc(<<"figure", "caption", "figure", "caption">>, <<1, 1, 1, 1>>),
   Doc(<<"references", "entry", "item", "prose">>, <<2, 2, 2, 2>>),
   Doc(<<"imprint", "heading", "prose", "unread">>, <<0, 0, 1, 1>>),
   Doc(<<"running", "open", "running", "prose", "running">>, <<2, 2, 3, 3, 4>>),
   Doc(<<"references", "index", "entry", "algorithm", "caption">>, <<2, 2, 2, 2, 2>>),
   Doc(<<"references", "prose", "subheading", "prose">>, <<2, 2, 2, 2>>),
   Doc(<<"prose", "heading", "further", "entry">>, <<2, 2, 3, 3>>),
   Doc(<<"heading", "definition", "formula", "running">>, <<1, 1, 1, 1>>),
   Doc(<<"misread", "open", "misread">>, <<1, 1, 2>>),
   Doc(<<"open", "open", "prose">>, <<1, 1, 2>>),
   Doc(<<"prose", "right", "left">>, <<1, 1, 1>>),
   Doc(<<"item", "prose", "item">>, <<1, 1, 2>>),
   Doc(<<"prose", "cut", "prose", "heading">>, <<2, 2, 3, 3>>),
   Doc(<<"open", "noise", "prose", "open", "misread">>, <<1, 1, 1, 1, 1>>)}

\* A line of a cell from x on, the p-th row of the page at y.
Cell(p, i, x, y, n) == [L(p, i) EXCEPT !.box = <<x, x + 80, y, y + 10>>, !.chars = n]

Row(p, y, lefts, n) ==
  [Para(p, [i \in DOMAIN lefts |-> Cell(p, i, lefts[i], y, n)]) EXCEPT !.page = 2, !.rank = p]

RowKind(kind, p, y) ==
  CASE kind = "two" -> Row(p, y, <<100, 400>>, 10)
    [] kind = "three" -> Row(p, y, <<100, 250, 400>>, 10)
    [] kind = "middle" -> Row(p, y, <<250>>, 10)
    [] kind = "mark" -> Row(p, y, <<100>>, 1)
    [] kind = "numbers" -> [Row(p, y, <<100, 400>>, 10) EXCEPT !.lines[2].reads = "numbers", !.lines[2].words = <<10 * p + 2, 10 * p + 3>>]
    [] kind = "rule" -> [Row(p, y, <<100>>, 5) EXCEPT !.lines[1].reads = "separator"]
    [] kind = "label" -> [Row(p, y, <<100, 200>>, 10) EXCEPT !.lines[1].reads = "label"]
    \* a block that is a table by itself
    [] kind = "block" ->
         [Row(p, y, <<100, 100, 100, 100, 100>>, 20) EXCEPT
            !.lines = [i \in 1..5 |-> [@[i] EXCEPT !.box = <<100, 180, y + 11 * i, y + 11 * i + 9>>]]]
    \* two columns, and a mark just above the second row
    [] kind = "stray" ->
         [Row(p, y, <<100, 400, 250, 100, 400, 100, 400>>, 10) EXCEPT
            !.lines = [i \in 1..7 |->
              LET down == <<0, 0, 11, 15, 15, 30, 30>>[i]
              IN  [@[i] EXCEPT !.box = <<@[1], @[2], @[3] + down, @[4] + down>>, !.chars = IF i = 3 THEN 1 ELSE @]]]
    [] kind = "word" -> [Para(p, <<[L(p, 1) EXCEPT !.chars = 20]>>) EXCEPT !.page = 2, !.rank = p]
    [] OTHER -> [Kind(kind, p) EXCEPT !.page = 2, !.rank = p]

\* What stands in rows this far apart.
Rows(kinds, apart) ==
  [cont |-> <<"root">> :> Container(<<>>, 0, [p \in DOMAIN kinds |-> RowKind(kinds[p], p, 100 + apart * p)]),
   roots |-> <<<<"root">>>>, units |-> <<>>]

Tables ==
  {Rows(<<"prose", "three", "two", "mark", "mark", "three">>, 15),
   Rows(<<"two", "middle", "three", "rule", "caption">>, 15),
   Rows(<<"two", "middle", "mark", "rule", "three">>, 15),
   Rows(<<"two", "mark", "two", "middle", "two", "prose">>, 15),
   Rows(<<"heading", "two", "numbers", "numbers">>, 15),
   Rows(<<"label", "label", "label", "prose">>, 15),
   Rows(<<"two", "block", "prose">>, 60),
   Rows(<<"stray", "prose">>, 60),
   Rows(<<"block", "word", "block", "word", "caption">>, 60)}

\* A row of a list of contents, with the page it names or without one.
Listed(p, i, number, name, ref) ==
  [L(p, i) EXCEPT !.chars = 20, !.number = number, !.name = name, !.ref = ref]

On(page, p, lines) == [Para(p, lines) EXCEPT !.page = page, !.rank = p]
ListHead(page, p) == On(page, p, <<[L(p, 1) EXCEPT !.chars = 8, !.reads = "contents", !.level = 1]>>)
Folio(page, p, n) ==
  [On(page, p, <<[L(p, 1) EXCEPT !.chars = 2, !.reads = "folio", !.ref = <<"", n>>]>>) EXCEPT !.at = "top"]
Headed(page, p, number, name) ==
  On(page, p, <<[L(p, 1) EXCEPT !.level = 1, !.number = number, !.name = name]>>)

Book(blocks) ==
  [cont |-> <<"root">> :> Container(<<>>, 0,
              [p \in DOMAIN blocks |-> [blocks[p] EXCEPT !.type = TypeOn(@, blocks[p].page)]]),
   roots |-> <<<<"root">>>>, units |-> <<>>]

Books ==
  {\* a title on two rows, a row that describes an entry, a shift that changes
   Book(<<ListHead(1, 1),
          On(1, 2, <<Listed(2, 1, "1", "one", NoRef), Listed(2, 2, "", "", <<"", 2>>),
                     Listed(2, 3, "", "two", <<"", 5>>), [Listed(2, 4, "", "", NoRef) EXCEPT !.indent = TRUE],
                     Listed(2, 5, "3", "three", <<"", 4>>)>>),
          Headed(3, 3, "1", "one"), Folio(3, 4, 2), Folio(4, 5, 3), Folio(5, 6, 5),
          Headed(5, 7, "", "two"), Folio(6, 8, 6)>>),
   \* the list ends in the middle of a block
   Book(<<ListHead(1, 1),
          On(1, 2, <<Listed(2, 1, "1", "one", <<"", 1>>), Listed(2, 2, "2", "two", <<"", 2>>), L(2, 3)>>),
          Headed(2, 3, "2", "two")>>),
   \* no heading, no folios, a title that comes twice
   Book(<<On(2, 1, [i \in 1..6 |-> Listed(1, i, "", <<"one", "two", "two", "", "five", "">>[i], <<"", i>>)]),
          Headed(3, 2, "", "two"), Headed(4, 3, "", "two"), Headed(6, 4, "4", "five")>>),
   \* the same with prose in the block: read again in the next execution
   Book(<<Headed(0, 1, "", "three"),
          On(2, 2, [i \in 1..7 |-> IF i = 7 THEN L(2, 7) ELSE Listed(2, i, "", "", <<"", i>>)]),
          Headed(3, 3, "", "two")>>),
   \* no page references, over two pages, up to the first heading
   Book(<<ListHead(2, 1), On(2, 2, [i \in 1..5 |-> Listed(2, i, "", "", NoRef)]),
          On(3, 3, [i \in 1..5 |-> Listed(3, i, "", <<"", "one", "", "", "">>[i], NoRef)]),
          Headed(3, 4, "", "one"), Headed(4, 5, "", "one")>>),
   \* a header of the column, another list after this one
   Book(<<ListHead(2, 1), On(2, 2, <<[Listed(2, 1, "", "", NoRef) EXCEPT !.reads = "column"],
                                     [Listed(2, 2, "", "one", <<"", 1>>) EXCEPT !.indent = TRUE],
                                     Listed(2, 3, "", "two", <<"r", 2>>)>>),
          On(2, 3, <<[L(3, 1) EXCEPT !.chars = 8, !.reads = "stop"], Listed(3, 2, "", "one", <<"", 1>>)>>),
          Headed(3, 4, "", "one")>>)}

MCDocuments == Pairs \cup Longer \cup Tables \cup Books

\* The page is not looked at, or there is a frame around its first rows.
MCPageInks ==
  {[source |-> FALSE, rules |-> {}, ruled |-> FALSE]}
  \cup [source : {TRUE}, rules : {{<<105, 90, 500>>, <<180, 90, 500>>}}, ruled : BOOLEAN]

MCOcrReadings == {<<>>, <<L(9, 1), [L(9, 2) EXCEPT !.reads = "formula"]>>}

MCPageAnswers == {[role |-> "toc", table |-> FALSE, types |-> TRUE],
                  [role |-> "table", table |-> TRUE, types |-> FALSE]}
=============================================================================
