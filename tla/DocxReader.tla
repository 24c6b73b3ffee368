------------------------------ MODULE DocxReader ------------------------------
(***************************************************************************)
(* DocxSourceAdapter (adapters/docx_adapter.py): the paragraphs and tables *)
(* of the body one after the other.  A paragraph is [style, level, num,    *)
(* text]: its style, the level of a heading, the number of the list it     *)
(* belongs to or 0, and whether it has a text.  A table is its rows; a     *)
(* cell is [span, merge, text].                                            *)
(***************************************************************************)
EXTENDS SourceTree

\* Items of the list being read, and its number.
DocxStart == [tree |-> EmptyTree, list |-> <<>>, num |-> 0, title |-> 0]

FlushList(d) ==
  [(IF d.list = <<>> THEN d ELSE [d EXCEPT !.tree = Added(@, Item("list", d.list))])
     EXCEPT !.list = <<>>, !.num = 0]

\* _add_paragraph: the style says what it is.
StyledParagraph(d, p, word) ==
  CASE ~p.text -> d
    [] p.text /\ p.style = "title" -> [d EXCEPT !.title = word]
    [] p.text /\ p.style = "heading" -> [d EXCEPT !.tree = Opened(@, <<word>>, p.level)]
    [] p.text /\ p.style \in {"caption", "code", "paragraph"} ->
         [d EXCEPT !.tree = Added(@, Item(p.style, <<word>>))]

\* Fault: the paragraph after a list comes before it.
ParagraphFirst(d, p, word) ==
  IF p.num # 0 /\ p.text
  THEN LET e == IF d.num # 0 /\ p.num # d.num THEN FlushList(d) ELSE d
       IN  [e EXCEPT !.num = p.num, !.list = Append(@, word)]
  ELSE FlushList(StyledParagraph(d, p, word))

\* A numbered paragraph is an item, whatever its style.
DocxParagraph(d, p, word) ==
  IF p.num # 0 /\ p.text
  THEN LET e == IF d.num # 0 /\ p.num # d.num THEN FlushList(d) ELSE d
       IN  [e EXCEPT !.num = p.num, !.list = Append(@, word)]
  ELSE StyledParagraph(FlushList(d), p, word)

-----------------------------------------------------------------------------
(* _table: a cell that continues a merge makes the cell it began in one row longer. *)

\* Where the cells of a row stand: the column each begins at.
Columns(row) ==
  [i \in DOMAIN row |-> FoldLeft(LAMBDA n, cell : n + cell.span, 0, SubSeq(row, 1, i - 1))]

Continues(cell) == cell.merge = "continue"

\* Fault: only the row above is looked at.
OriginAbove(rows, n, at) ==
  IF n > 1 /\ \E i \in DOMAIN rows[n - 1] :
        Columns(rows[n - 1])[i] = at /\ rows[n - 1][i].merge = "restart" THEN n - 1 ELSE 0

\* The row a cell of column `at` of the n-th row belongs to: the last one above that
\* does not continue there, if it began a merge.
Origin(rows, n, at) ==
  LET meets(m) == {i \in DOMAIN rows[m] : Columns(rows[m])[i] = at /\ ~Continues(rows[m][i])}
      above == {m \in 1..(n - 1) : meets(m) # {}}
  IN  IF above = {} THEN 0
      ELSE LET m == CHOOSE x \in above : \A y \in above : y <= x
           IN  IF \E i \in meets(m) : rows[m][i].merge = "restart" THEN m ELSE 0

\* The cells of the block: where each stands and what it covers.
Cells(rows) ==
  LET cell(n, i) ==
        [row |-> n, at |-> Columns(rows[n])[i], span |-> rows[n][i].span,
         down |-> 1 + Cardinality({m \in (n + 1)..Len(rows) : \E j \in DOMAIN rows[m] :
                      /\ Continues(rows[m][j]) /\ Columns(rows[m])[j] = Columns(rows[n])[i]
                      /\ Origin(rows, m, Columns(rows[n])[i]) = n /\ rows[n][i].merge = "restart"})]
  IN  UNION {{cell(n, i) : i \in {j \in DOMAIN rows[n] : ~Continues(rows[n][j])}} : n \in DOMAIN rows}

DocxTable(d, rows, word) ==
  [FlushList(d) EXCEPT !.tree = Added(@, [Item("table", <<word>>) EXCEPT !.cells = Cells(rows)])]

DocxEnd(d) == [FlushList(d) EXCEPT !.tree = Rooted(@)]
=============================================================================
