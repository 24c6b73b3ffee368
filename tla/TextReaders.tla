------------------------------ MODULE TextReaders ------------------------------
(***************************************************************************)
(* The adapters that read text with marks in it: Markdown (render_markdown *)
(* in adapters/_shared.py, adapters/text_markdown.py), plain text, Jupyter *)
(* notebooks, whose Markdown cells are read by the same function           *)
(* (adapters/notebook_adapter.py), and HTML.  A line is [is, level];       *)
(* `level` counts where it is a heading.                                   *)
(***************************************************************************)
EXTENDS SourceTree

-----------------------------------------------------------------------------
(* render_markdown *)

\* The paragraph or the code being read; whether a first heading may be the title.
Reading == [tree |-> EmptyTree, para |-> <<>>, code |-> <<>>, fenced |-> FALSE,
            titled |-> FALSE, title |-> 0]

FlushParagraph(r) ==
  IF r.para = <<>> THEN r
  ELSE [r EXCEPT !.tree = Added(@, Item("paragraph", r.para)), !.para = <<>>]

FlushCode(r) == [r EXCEPT !.tree = Added(@, Item("code", r.code)), !.code = <<>>, !.fenced = FALSE]

MarkdownLine(r, line, word) ==
  CASE line.is = "fence" ->
         IF r.fenced THEN FlushCode(r) ELSE [FlushParagraph(r) EXCEPT !.fenced = TRUE]
    [] line.is # "fence" /\ r.fenced ->
         IF line.is \in {"text", "heading"} THEN [r EXCEPT !.code = Append(@, word)] ELSE r
    [] line.is = "heading" /\ ~r.fenced ->
         LET first == line.level = 1 /\ ~r.titled
             closed == FlushParagraph(r)
         IN  [closed EXCEPT !.tree = Opened(@, <<word>>, line.level),
                            !.titled = @ \/ first,
                            !.title = IF first THEN word ELSE @]
    [] line.is = "text" /\ ~r.fenced -> [r EXCEPT !.para = Append(@, word)]
    [] line.is \in {"blank", "spaces"} /\ ~r.fenced -> FlushParagraph(r)

\* Fault: a fence that is never closed takes its code along.
MarkdownEndOpen(r) == [FlushParagraph(r) EXCEPT !.fenced = FALSE, !.code = <<>>]

\* The text ends, in a fence or not.
MarkdownEnd(r) == IF r.fenced THEN FlushCode(r) ELSE FlushParagraph(r)

-----------------------------------------------------------------------------
(* TextSourceAdapter: paragraphs of one root; split("\n\n") takes a line of spaces *)
(* for a line of the paragraph, which then says nothing. *)

TextStart == [Reading EXCEPT !.tree = WithCurrent(EmptyTree)]

TextLine(r, line, word) ==
  CASE line.is = "blank" -> FlushParagraph(r)
    [] line.is = "spaces" -> r
    [] OTHER -> [r EXCEPT !.para = Append(@, word)]

-----------------------------------------------------------------------------
(* NotebookSourceAdapter: a Markdown cell is read when all of it is there; `cell` is *)
(* the item of the code cell whose outputs follow. *)

NotebookStart == [tree |-> EmptyTree, para |-> <<>>, code |-> <<>>, fenced |-> FALSE,
                  titled |-> FALSE, title |-> 0, cell |-> 0]

\* Only the first Markdown cell may name the document.
MarkdownCell(r) == [MarkdownEnd(r) EXCEPT !.titled = TRUE, !.cell = 0]

\* A code cell that is not blank.
CodeCell(r, word) ==
  LET closed == MarkdownEnd(r)
      tree == Added(closed.tree, Item("code", <<word>>))
  IN  [closed EXCEPT !.tree = tree, !.cell = Len(tree.items)]

\* _build_output: text of a stream or of an error, an image or else the plain text of
\* a result; an empty one, and one of another type, is nothing.
OutputBlock(output, word) ==
  CASE output \in {"stream", "error", "result"} -> <<Item("code", <<word>>)>>
    [] output = "image" -> <<Item("figure", <<word>>)>>
    [] OTHER -> <<>>

CellOutput(r, output, word) ==
  LET block == OutputBlock(output, word)
  IN  IF block = <<>> THEN r
      ELSE [r EXCEPT !.tree = Added(@, [block[1] EXCEPT !.of = r.cell])]

-----------------------------------------------------------------------------
(***************************************************************************)
(* _KrmHtmlParser (adapters/html_adapter.py): the calls of the standard    *)
(* library's parser, one start tag, end tag or piece of text at a time,    *)
(* and the registers they share.  Tags stand for their kind: "h1".."h6",   *)
(* "list" for ul and ol, "cell" for td and th, "block" for p, "quote" for  *)
(* blockquote, dd and dt, "ignored" for script and style.                  *)
(***************************************************************************)

Heading == {"h1", "h2", "h3", "h4", "h5", "h6"}
LevelOf(tag) == CHOOSE n \in 1..6 : tag = <<"h1", "h2", "h3", "h4", "h5", "h6">>[n]

HtmlStart ==
  [tree |-> EmptyTree, title |-> 0, titled |-> FALSE,
   skip |-> 0,           \* ignored elements that are open
   text |-> <<>>,        \* _text: the words read since it was last cleared
   capture |-> FALSE, inTitle |-> FALSE, level |-> 0,
   lists |-> <<>>,       \* of each open list, its items
   items |-> <<>>,       \* of each open item, its content: the words of its blocks
   rows |-> <<>>, row |-> <<>>, cell |-> FALSE]

Block(kind, says) == [kind |-> kind, says |-> says]

SaidBy(blocks) == FlattenSeq([i \in DOMAIN blocks |-> blocks[i].says])

\* _emit: into the open list item, or else into the container.
Emit(h, block) ==
  IF h.items # <<>>
  THEN [h EXCEPT !.items[Len(h.items)] = Append(@, block)]
  ELSE [h EXCEPT !.tree = Added(@, Item(block.kind, block.says))]

\* Text of a tag is emitted if there is any.
EmitText(h, kind) == IF h.text = <<>> THEN h ELSE Emit([h EXCEPT !.text = <<>>], Block(kind, h.text))

-----------------------------------------------------------------------------
(* handle_starttag *)

StartTag(h, tag) ==
  CASE tag = "ignored" -> [h EXCEPT !.skip = @ + 1]
    [] tag # "ignored" /\ h.skip > 0 -> h
    [] h.skip = 0 /\ tag = "title" -> [h EXCEPT !.inTitle = TRUE, !.text = <<>>]
    [] h.skip = 0 /\ tag = "meta" -> [h EXCEPT !.titled = TRUE]
    [] h.skip = 0 /\ tag = "img" -> Emit(h, Block("figure", <<>>))
    [] h.skip = 0 /\ tag \in Heading -> [h EXCEPT !.level = LevelOf(tag), !.text = <<>>]
    [] h.skip = 0 /\ tag \in {"pre", "block", "quote", "figcaption"} ->
         [h EXCEPT !.capture = TRUE, !.text = <<>>]
    [] h.skip = 0 /\ tag = "list" -> [h EXCEPT !.lists = Append(@, <<>>)]
    [] h.skip = 0 /\ tag = "li" ->
         IF h.lists = <<>> THEN h ELSE [h EXCEPT !.items = Append(@, <<>>), !.text = <<>>]
    [] h.skip = 0 /\ tag = "table" -> [h EXCEPT !.rows = <<>>]
    [] h.skip = 0 /\ tag = "tr" -> [h EXCEPT !.row = <<>>]
    [] h.skip = 0 /\ tag = "cell" -> [h EXCEPT !.cell = TRUE, !.text = <<>>]
    [] OTHER -> h

-----------------------------------------------------------------------------
(* handle_endtag *)

\* The first title or heading of level 1 names the document.
EndTitle(h) ==
  LET named == h.text # <<>> /\ ~h.titled
  IN  [h EXCEPT !.text = <<>>, !.inTitle = FALSE, !.titled = @ \/ named,
                !.title = IF named THEN h.text[1] ELSE @]

EndHeading(h) ==
  LET named == h.text # <<>> /\ h.level = 1 /\ ~h.titled
      opened == IF h.text = <<>> THEN h.tree ELSE Opened(h.tree, h.text, h.level)
  IN  [h EXCEPT !.tree = opened, !.text = <<>>, !.level = 0, !.titled = @ \/ named,
                !.title = IF named THEN h.text[1] ELSE @]

\* Fault: an item that holds no text of its own is dropped with the list in it.
EndItemOfText(h) ==
  LET item == <<Block("paragraph", h.text)>> \o Last(h.items)
      shut == [h EXCEPT !.text = <<>>, !.items = Front(@)]
  IN  IF h.text = <<>> \/ h.lists = <<>> THEN shut
      ELSE [shut EXCEPT !.lists[Len(h.lists)] = Append(@, item)]

\* The text of an item that is left at its end comes first.
EndItem(h) ==
  LET item == (IF h.text = <<>> THEN <<>> ELSE <<Block("paragraph", h.text)>>) \o Last(h.items)
      shut == [h EXCEPT !.text = <<>>, !.items = Front(@)]
  IN  IF item = <<>> \/ h.lists = <<>> THEN shut
      ELSE [shut EXCEPT !.lists[Len(h.lists)] = Append(@, item)]

EndList(h) ==
  LET says == SaidBy(FlattenSeq(Last(h.lists)))
      shut == [h EXCEPT !.lists = Front(@)]
  IN  IF Last(h.lists) = <<>> THEN shut ELSE Emit(shut, Block("list", says))

EndCell(h) == [h EXCEPT !.row = Append(@, h.text), !.text = <<>>, !.cell = FALSE]

EndRow(h) == [h EXCEPT !.rows = IF h.row = <<>> THEN @ ELSE Append(@, h.row), !.row = <<>>]

EndTable(h) ==
  [(IF h.rows = <<>> THEN h ELSE Emit(h, Block("table", FlattenSeq(FlattenSeq(h.rows)))))
     EXCEPT !.rows = <<>>]

EndTag(h, tag) ==
  CASE tag = "ignored" -> [h EXCEPT !.skip = IF @ = 0 THEN 0 ELSE @ - 1]
    [] tag # "ignored" /\ h.skip > 0 -> h
    [] h.skip = 0 /\ tag = "title" -> EndTitle(h)
    [] h.skip = 0 /\ tag \in Heading -> IF h.level = 0 THEN h ELSE EndHeading(h)
    [] h.skip = 0 /\ tag = "pre" -> EmitText([h EXCEPT !.capture = FALSE], "code")
    [] h.skip = 0 /\ tag = "li" -> IF h.items = <<>> THEN h ELSE EndItem(h)
    [] h.skip = 0 /\ tag = "list" -> IF h.lists = <<>> THEN h ELSE EndList(h)
    [] h.skip = 0 /\ tag = "cell" -> EndCell(h)
    [] h.skip = 0 /\ tag = "tr" -> EndRow(h)
    [] h.skip = 0 /\ tag = "table" -> EndTable(h)
    [] h.skip = 0 /\ tag = "figcaption" -> EmitText([h EXCEPT !.capture = FALSE], "caption")
    [] h.skip = 0 /\ tag \in {"block", "quote"} -> EmitText([h EXCEPT !.capture = FALSE], "paragraph")
    [] OTHER -> h

\* handle_data: text outside of what is read counts for nothing.
Captures(h) == h.capture \/ h.level > 0 \/ h.inTitle \/ h.cell \/ h.items # <<>>

TextData(h, word) ==
  IF h.skip = 0 /\ Captures(h) THEN [h EXCEPT !.text = Append(@, word)] ELSE h

HtmlEnd(h) == [h EXCEPT !.tree = Rooted(@)]
=============================================================================
