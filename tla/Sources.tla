-------------------------------- MODULE Sources --------------------------------
(***************************************************************************)
(* The source adapters, each reading a source of its format event by event *)
(* (src/src/adapters).  AdapterRegistry gives a file to the first adapter  *)
(* that takes its extension; which one that is says Init.                  *)
(*                                                                         *)
(* What a source may be is the environment: lines, paragraphs, cells and   *)
(* blocks in any order, and HTML whose elements are closed in the order    *)
(* they were opened and stand where the standard lets them stand.          *)
(***************************************************************************)
EXTENDS TextReaders, DocxReader, PdfReader, TLC

CONSTANTS Levels,      \* of headings
          Grids,       \* tables of a .docx, as DocxReader has them
          Boxes,       \* boxes of a page, as PdfReader has them
          Longest,     \* bound: events of a source, by format
          MaxElements, \* bound: elements of a page of HTML
          MaxWords     \* bound: texts on it

\* The level of a heading is a number (_shared.py:159, docx_adapter.py:74-83).
ASSUME LevelsAssumption == Levels \subseteq Nat

VARIABLES format,  \* which adapter reads
          source,  \* the events it has been given
          reader,  \* what it has made of them
          done

vars == <<format, source, reader, done>>

Formats == {"markdown", "text", "docx", "notebook", "pdf", "html"}

Start ==
  [markdown |-> Reading, text |-> TextStart, docx |-> DocxStart, notebook |-> NotebookStart,
   pdf |-> PdfStart, html |-> HtmlStart]

Init ==
  /\ format \in Formats
  /\ source = <<>>
  /\ reader = Start[format]
  /\ done = FALSE

Word == Len(source) + 1

Reads(f, event) ==
  /\ ~done /\ format = f
  /\ f # "html" => Len(source) < Longest[f]
  /\ source' = Append(source, event)
  /\ UNCHANGED <<format, done>>

-----------------------------------------------------------------------------
(* Lines, paragraphs, cells, pages *)

Line(is) == [is |-> is, level |-> 0]
PlainLines == {Line("text"), Line("blank"), Line("spaces")}
Lines == PlainLines \cup {Line("fence")} \cup {[is |-> "heading", level |-> n] : n \in Levels}

ReadMarkdown == \E line \in Lines :
  /\ Reads("markdown", line)
  /\ reader' = MarkdownLine(reader, line, Word)

ReadText == \E line \in PlainLines :
  /\ Reads("text", line)
  /\ reader' = TextLine(reader, line, Word)

Styles == {<<"heading", n>> : n \in Levels} \cup ({"title", "caption", "code", "paragraph"} \X {0})
Paragraphs ==
  {[is |-> "paragraph", style |-> s[1], level |-> s[2], num |-> k, text |-> t] :
     s \in Styles, k \in 0..2, t \in BOOLEAN}

ReadParagraph == \E p \in Paragraphs :
  /\ ~p.text => p.style = "paragraph"
  /\ Reads("docx", p)
  /\ reader' = DocxParagraph(reader, p, Word)

ReadTable == \E rows \in Grids :
  /\ Reads("docx", [is |-> "table", rows |-> rows])
  /\ reader' = DocxTable(reader, rows, Word)

\* The lines of a Markdown cell, and its end; outputs follow their cell.
Outputs == {"stream", "error", "result", "image", "nothing"}

InMarkdownCell == source # <<>> /\ Last(source).is \in {"text", "blank", "spaces", "fence", "heading"}

ReadCellLine == \E line \in Lines :
  /\ InMarkdownCell \/ line.is \in {"text", "fence", "heading"}
  /\ Reads("notebook", line)
  /\ reader' = MarkdownLine(reader, line, Word)

ReadCellEnd ==
  /\ InMarkdownCell
  /\ Reads("notebook", Line("end"))
  /\ reader' = MarkdownCell(reader)

ReadCodeCell ==
  /\ ~InMarkdownCell
  /\ Reads("notebook", Line("cell"))
  /\ reader' = CodeCell(reader, Word)

ReadOutput == \E output \in Outputs :
  /\ Reads("notebook", Line(output))
  /\ ~InMarkdownCell /\ reader.cell # 0
  /\ reader' = CellOutput(reader, output, Word)

ReadPage == \E images \in BOOLEAN :
  /\ Reads("pdf", [is |-> "page", images |-> images])
  /\ reader' = NextPage(reader, images)

PageBlocks ==
  {[is |-> "block", type |-> ty, box |-> b, text |-> t, mono |-> m] :
     ty \in {"image", "text", "other"}, b \in Boxes, t \in 0..1, m \in BOOLEAN}

ReadBlock == \E block \in PageBlocks :
  /\ Reads("pdf", block)
  /\ reader.page > 0 /\ (block.type = "image" => reader.images)
  /\ block.type # "text" => block.text = 0 /\ ~block.mono
  /\ reader' = PdfBlock(reader, block, Word)

-----------------------------------------------------------------------------
(* HTML *)

\* What may stand in an element: flow content, phrases, or its own parts.  The parser
\* looks through div, figure and dl.  Of what may stand in more places than one, images
\* are tried in items, and scripts and headings of level 1 in the body.
Flow == {"h2", "block", "pre", "quote", "figcaption", "list", "table"}
Inside(tag) ==
  CASE tag = "body" -> Flow \cup {"h1", "title", "meta", "ignored"}
    [] tag = "list" -> {"li"}
    [] tag = "table" -> {"tr"}
    [] tag = "tr" -> {"cell"}
    [] tag = "li" -> Flow \cup {"img"}
    [] tag \in {"quote", "figcaption", "cell"} -> Flow
    [] OTHER -> {}

Void == {"img", "meta"}

\* The elements that are open after the n-th event, by the events they opened at.
Open ==
  LET after[n \in 0..Len(source)] ==
        IF n = 0 THEN <<>>
        ELSE CASE source[n].is = "start" /\ source[n].tag \notin Void -> Append(after[n - 1], n)
               [] source[n].is = "end" -> Front(after[n - 1])
               [] OTHER -> after[n - 1]
  IN  after

InnerTag == LET open == Open[Len(source)] IN IF open = <<>> THEN "body" ELSE source[Last(open)].tag

Count(is) == Cardinality({i \in DOMAIN source : source[i].is = is})

ReadStartTag == format = "html" /\ \E tag \in Inside(InnerTag) :
  /\ Count("start") < MaxElements
  /\ Reads("html", [is |-> "start", tag |-> tag])
  /\ reader' = StartTag(reader, tag)

ReadEndTag ==
  /\ format = "html" /\ Open[Len(source)] # <<>>
  /\ Reads("html", [is |-> "end", tag |-> InnerTag])
  /\ reader' = EndTag(reader, InnerTag)

ReadData ==
  /\ format = "html" /\ InnerTag \notin {"list", "table", "tr"}
  /\ Count("data") < MaxWords
  /\ source # <<>> => Last(source).is # "data"
  /\ Reads("html", [is |-> "data", tag |-> InnerTag])
  /\ reader' = TextData(reader, Word)

-----------------------------------------------------------------------------
(* The source ends, and parse returns the document. *)

Ended ==
  CASE format \in {"markdown", "text", "notebook"} -> [MarkdownEnd(reader) EXCEPT !.tree = Rooted(@)]
    [] format = "docx" -> DocxEnd(reader)
    [] format = "pdf" -> PdfEnd(reader)
    [] format = "html" -> HtmlEnd(reader)

End ==
  /\ ~done
  /\ format = "html" => Open[Len(source)] = <<>>
  /\ done' = TRUE
  /\ reader' = Ended
  /\ UNCHANGED <<format, source>>

Next ==
  \/ ReadMarkdown \/ ReadText \/ ReadParagraph \/ ReadTable
  \/ ReadCellLine \/ ReadCellEnd \/ ReadCodeCell \/ ReadOutput
  \/ ReadPage \/ ReadBlock
  \/ ReadStartTag \/ ReadEndTag \/ ReadData
  \/ End

Spec == Init /\ [][Next]_vars

-----------------------------------------------------------------------------
(* What a source says *)

Tree == reader.tree
Items == Tree.items

\* The tags a word of a page of HTML stands in.
Around(word) == {source[n].tag : n \in Range(Open[word])}

\* Whether an event of the source says something that belongs into the document: text of
\* the body itself, or of a tag the parser looks through, is in nothing that it reads.
Speaks(n) ==
  LET e == source[n]
  IN  CASE format = "docx" -> e.is = "table" \/ (e.text /\ (e.style # "title" \/ e.num # 0))
        [] format = "pdf" -> e.is = "block" /\ PdfKind(e) \in {"code", "paragraph"}
        [] format = "html" -> e.is = "data" /\ e.tag # "body" /\ Around(n) \cap {"title", "ignored"} = {}
        [] OTHER -> e.is \in {"text", "heading", "cell"} \cup (Outputs \ {"nothing"})

\* The numbers of a set up to n, in their order.
InOrder(numbers, n) ==
  LET inOrder[k \in 0..n] ==
        IF k = 0 THEN <<>> ELSE IF k \in numbers THEN Append(inOrder[k - 1], k) ELSE inOrder[k - 1]
  IN  inOrder[n]

Spoken == InOrder({n \in DOMAIN source : Speaks(n)}, Len(source))

\* An element of HTML that has a text of its own and an element in it; a cell with any
\* element in it; and an item with a heading anywhere in it.
Holds(n, m) == Open[m - 1] # <<>> /\ Last(Open[m - 1]) = n
HoldsText(n) == \E k \in DOMAIN source : Holds(n, k) /\ source[k].is = "data"
Mixed(n) ==
  \E m \in DOMAIN source :
    /\ source[m].is = "start" /\ source[m].tag \notin Void
    /\ \/ Holds(n, m) /\ (source[n].tag = "cell" \/ HoldsText(n))
       \/ n \in Range(Open[m - 1]) /\ source[n].tag = "li" /\ source[m].tag \in Heading

Straight == format = "html" => \A n \in DOMAIN source : source[n].is = "start" => ~Mixed(n)

\* Between a code fence and the next, within a cell of a notebook.
Fenced(n) ==
  LET ends == {m \in 1..(n - 1) : source[m].is = "end"}
      from == IF ends = {} THEN 0 ELSE Max(ends)
  IN  Cardinality({m \in from..(n - 1) : m > 0 /\ source[m].is = "fence"}) % 2 = 1

Between(n, m) == {source[k] : k \in (n + 1)..(m - 1)}

\* The list or the table a word of HTML is a part of, or else its element.
Part(n) ==
  LET open == Open[n]
      parts == {i \in Range(open) : source[i].tag \in {"list", "table"}}
  IN  IF parts = {} THEN Last(open) ELSE Min(parts)

\* What an event of the source is.
Declared(n) ==
  LET e == source[n]
  IN  CASE format \in {"markdown", "notebook"} /\ e.is \in {"text", "heading"} ->
             IF Fenced(n) THEN "code" ELSE IF e.is = "text" THEN "paragraph" ELSE "container"
        [] format = "notebook" /\ e.is \notin {"text", "heading"} ->
             IF e.is = "image" THEN "figure" ELSE "code"
        [] format = "text" -> "paragraph"
        [] format = "docx" ->
             IF e.is = "table" THEN "table" ELSE IF e.num # 0 THEN "list"
             ELSE IF e.style = "heading" THEN "container" ELSE e.style
        [] format = "pdf" -> IF e.mono THEN "code" ELSE "paragraph"
        [] format = "html" ->
             LET tag == source[Part(n)].tag
             IN  CASE tag \in {"block", "quote"} -> "paragraph" [] tag = "pre" -> "code"
                   [] tag = "figcaption" -> "caption" [] tag \in Heading -> "container"
                   [] OTHER -> tag

\* Whether two events are parts of one paragraph, code, list or table.
Together(n, m) ==
  LET between == Between(n, m) \cup {source[n], source[m]}
      lines == Line("text") \in between /\ between \subseteq {Line("text")}
  IN  CASE format \in {"markdown", "notebook"} ->
             IF Fenced(n) THEN \A e \in between : e.is \notin {"fence", "end", "cell"} \cup Outputs
             ELSE lines
        [] format = "text" -> Line("blank") \notin between
        [] format = "docx" ->
             /\ \A e \in between : e.is = "paragraph" /\ e.text
             /\ source[n].num # 0 /\ \A e \in between : e.num = source[n].num
        [] format = "pdf" -> FALSE
        [] format = "html" -> Part(n) = Part(m)

-----------------------------------------------------------------------------
(* Correctness *)

\* No text of a source is said twice, and none that was not there; and all of them
\* are said, in their order (a page of HTML with mixed elements loses some).
WordsKept ==
  done => LET said == Said(Tree)
          IN  /\ Range(said) \subseteq Range(Spoken) /\ IsInjective(said)
              /\ Straight => said = Spoken

\* A container is "nested under the nearest shallower one" (adapters/_shared.py:53),
\* and a block stands in the container that came last: leaving one and coming back
\* to its level never reopens it.
NestingSound ==
  \A i \in DOMAIN Items :
    LET before == {j \in 1..(i - 1) : IsContainer(Items[j])}
        shallower == {j \in before : Items[j].level < Items[i].level}
    IN  IF IsContainer(Items[i])
        THEN Items[i].parent = IF shallower = {} THEN 0 ELSE Max(shallower)
        ELSE Items[i].parent = Max(before)

\* A square of a grid is under one cell, where merges go down from cells as wide.
Rectangular(rows) ==
  \A n \in DOMAIN rows : \A i \in DOMAIN rows[n] : Continues(rows[n][i]) =>
    /\ n > 1
    /\ \E j \in DOMAIN rows[n - 1] :
         /\ Columns(rows[n - 1])[j] = Columns(rows[n])[i]
         /\ rows[n - 1][j].span = rows[n][i].span /\ rows[n - 1][j].merge # "none"

CoveredOnce(rows, cells) ==
  \A n \in DOMAIN rows : \A i \in DOMAIN rows[n] :
    \A c \in Columns(rows[n])[i]..(Columns(rows[n])[i] + rows[n][i].span - 1) :
      Cardinality({cell \in cells : /\ n \in cell.row..(cell.row + cell.down - 1)
                                    /\ c \in cell.at..(cell.at + cell.span - 1)}) = 1

\* The document has the structure the source declares: a text is in a block of the kind
\* its line, style, element or font says, with the texts of the same paragraph, list or
\* table and no others; a cell of a table covers the squares it was merged over; the
\* output of a notebook is that of the cell it follows; and two blocks of a PDF have the
\* same identity only if rounding makes one of their boxes.
StructureAsDeclared ==
  done /\ Straight =>
    LET at == [n \in Range(Spoken) |-> CHOOSE i \in DOMAIN Items : n \in Range(Items[i].says)]
    IN  /\ \A n \in Range(Spoken) :
             /\ Items[at[n]].kind = Declared(n)
             /\ \A m \in Range(Spoken) : n < m => (at[n] = at[m] <=> Together(n, m))
             /\ source[n].is = "table" => LET rows == source[n].rows IN
                  Rectangular(rows) => CoveredOnce(rows, Items[at[n]].cells)
             /\ format = "notebook" /\ source[n].is \in Outputs =>
                  Items[at[n]].of = at[Max({m \in 1..n : source[m].is = "cell"})]
        /\ \A i, j \in DOMAIN Items : i < j /\ Items[i].id # <<>> /\ Items[i].id = Items[j].id =>
             \E n, m \in DOMAIN source :
               /\ source[n].is = "block" /\ source[m].is = "block"
               /\ source[n].box.at = source[m].box.at /\ source[n].box # source[m].box
=============================================================================
