----------------------------- MODULE DocumentCodec -----------------------------
(***************************************************************************)
(* A document written to disk and read back (api/app.py                    *)
(* _serialize_document, _rebuild_document): what the next request after an *)
(* eviction or a restart works on. An entry of the file is a block here,   *)
(* without what the file has no key for.                                   *)
(***************************************************************************)
EXTENDS Blocks

LiveOf(blocks) == SelectSeq(blocks, LAMBDA b : ~b.tomb)

-----------------------------------------------------------------------------
(* _serialize_document *)

\* _serialize_lines: the lines that have a box and a text, if they are several.
SavedLines(b) ==
  LET own == SelectSeq(b.lines, LAMBDA l : l.boxed /\ l.words # <<>>)
  IN  IF Len(own) > 1 THEN own ELSE <<>>

\* The texts of a block as one, with the box of the block alone: what reads as
\* something by all of its lines does no longer when one does not.
OneText(lines) ==
  IF Words(lines) = <<>> THEN <<>>
  ELSE <<[Head(lines) EXCEPT
            !.words = Words(lines), !.stop = Last(lines).stop, !.ref = Last(lines).ref, !.boxed = FALSE,
            !.chars = FoldFunction(LAMBDA l, n : l.chars + n, 0, lines),
            !.box = LET boxes == {l.box : l \in Range(lines)} \ {<<>>}
                    IN  IF boxes = {} THEN <<>> ELSE Hull(boxes),
            !.reads = IF @ = "noise" /\ \E l \in Range(lines) : l.reads # "noise" THEN "prose" ELSE @]>>

Unsaved == {"tombstone_reason", "caption_id"}

\* serialize_node, but for what is in it.
Entry(b, parts) ==
  [b EXCEPT !.lines = IF SavedLines(b) # <<>> THEN SavedLines(b) ELSE OneText(b.lines),
            !.parts = parts,
            !.meta = [key \in DOMAIN @ \ Unsaved |-> @[key]]]

SavedContent(blocks) ==
  LET live == LiveOf(blocks) IN [i \in DOMAIN live |-> Entry(live[i], live[i].parts)]

\* A list item is its marker and its content.
SavedItems(b) ==
  LET items == LiveOf(b.parts)
  IN  [i \in DOMAIN items |->
         [Block(items[i].id, "ListItem", <<>>) EXCEPT
            !.page = NoPage, !.kept = items[i].kept, !.parts = SavedContent(items[i].parts)]]

\* A cell is the text of the paragraphs in it; its place and its span are lost.
SavedRows(b) ==
  [k \in DOMAIN b.parts |->
     OneText(FlattenSeq([i \in DOMAIN b.parts[k].parts |->
               IF b.parts[k].parts[i].type \in {"Paragraph", "TitlePage"}
               THEN b.parts[k].parts[i].lines ELSE <<>>]))]

\* _serialize_body.
Saved(b) ==
  CASE b.type = "List" -> Entry(b, SavedItems(b))
    [] b.type = "Table" -> Entry(b, SavedRows(b))
    [] b.type \in {"Callout", "Sidebar"} -> Entry(b, SavedContent(b.parts))
    [] b.type = "BlankPage" -> [Entry(b, <<>>) EXCEPT !.lines = <<>>]
    [] OTHER -> Entry(b, <<>>)

\* _first_page of the roots.
FirstPage(doc, root) ==
  LET pages[c \in DOMAIN doc.cont] ==
        UNION {IF b.page # NoPage THEN {b.page}
               ELSE IF b.type = "Container" THEN pages[b.id] ELSE {} :
                 b \in Range(LiveOf(doc.cont[c].kids))}
  IN  IF pages[root] = {} THEN NoPage ELSE Min(pages[root])

\* The page of its own, else the first of what is in it.
OwnPage(doc, b) ==
  IF b.type = "Container" /\ b.page = NoPage THEN FirstPage(doc, b.id) ELSE b.page

\* _fill_pages: a child without a page takes that of the entry before it; a list
\* or a callout is not entered.
Filled(doc) ==
  LET at == Places(doc)
      last[n \in 0..Len(at)] ==
        IF n = 0 THEN NoPage
        ELSE LET own == OwnPage(doc, ChildAt(doc, at[n]))
             IN  IF own # NoPage THEN own
                 ELSE IF at[n][2] = 1 /\ at[n][1] \in Range(doc.roots)
                 THEN IF FirstPage(doc, at[n][1]) # NoPage THEN FirstPage(doc, at[n][1]) ELSE last[n - 1]
                 ELSE last[n - 1]
  IN  [c \in DOMAIN doc.cont |->
         [i \in DOMAIN doc.cont[c].kids |-> last[CHOOSE n \in DOMAIN at : at[n] = <<c, i>>]]]

\* The file: live children only, each with its page.
Serialized(doc) ==
  LET live == [doc EXCEPT !.cont = [c \in DOMAIN @ |->
                 [@[c] EXCEPT !.kids = LiveOf(@)]]]
      page == Filled(live)
      entry(c, i) ==
        LET b == live.cont[c].kids[i]
        IN  [node |-> Saved(b), page |-> page[c][i], bbox |-> b.page # NoPage]
  IN  [cont |-> [c \in DOMAIN live.cont |->
                   [live.cont[c] EXCEPT !.kids = [i \in DOMAIN @ |-> entry(c, i)]]],
       roots |-> doc.roots, units |-> doc.units]

-----------------------------------------------------------------------------
(* _rebuild_document *)

\* _restore_lines are for the text classes; all others have one text.
RebuiltText(n) == IF TextBlock(n) /\ n.page # NoPage THEN n.lines ELSE OneText(n.lines)

RebuiltContent(parts) == [i \in DOMAIN parts |-> [parts[i] EXCEPT !.lines = RebuiltText(parts[i])]]

RebuiltCell(n, k) ==
  [Block(PieceId("cell", n.id, k), "TableCell", <<>>) EXCEPT
     !.page = NoPage, !.meta = [box |-> <<>>, row_span |-> 1],
     !.parts = <<[Block(PieceId("cell-text", n.id, k), "Paragraph", n.parts[k]) EXCEPT !.page = NoPage]>>]

\* rebuild_node.
RebuiltNode(n) ==
  CASE n.type = "List" ->
         [n EXCEPT !.parts = [i \in DOMAIN @ |-> [@[i] EXCEPT !.parts = RebuiltContent(@)]]]
    [] n.type \in {"Callout", "Sidebar"} -> [n EXCEPT !.parts = RebuiltContent(@)]
    [] n.type = "Table" -> [n EXCEPT !.parts = [k \in DOMAIN @ |-> RebuiltCell(n, k)]]
    [] OTHER -> [n EXCEPT !.lines = RebuiltText(n)]

\* _restore_layout, _layout_from: without a box of its own it has the whole page.
RestoredLayout(entry) ==
  LET node == RebuiltNode([entry.node EXCEPT !.page = entry.page])
  IN  IF entry.bbox \/ entry.page = NoPage THEN node ELSE [node EXCEPT !.rank = -1, !.at = "body"]

Rebuilt(data) ==
  [data EXCEPT !.cont = [c \in DOMAIN @ |->
     [@[c] EXCEPT !.kids = [i \in DOMAIN @ |-> RestoredLayout(@[i])]]]]
=============================================================================
