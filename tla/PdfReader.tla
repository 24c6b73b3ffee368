------------------------------- MODULE PdfReader -------------------------------
(***************************************************************************)
(* PdfSourceAdapter (adapters/pdf_adapter.py) and the identity of what it  *)
(* extracts (derive_source_id, krm/identity.py): the blocks of a page as   *)
(* the PDF library gives them, all under one root.  A block is [type, box, *)
(* text, mono]: image, text or another type, its box on the page, the text *)
(* by its content, 0 for none, and whether every span of it is monospace.  *)
(* A box is [at, noise]: where it is to six digits, and what is beyond.    *)
(***************************************************************************)
EXTENDS SourceTree

Flat == "flat"    \* a box without width or height

PdfStart == [tree |-> WithCurrent(EmptyTree), page |-> 0, seen |-> <<>>,
             written |-> TRUE, images |-> FALSE, unread |-> {}]

\* derive_source_id: the box is rounded.
SourceId(kind, page, box, text, ordinal) == <<kind, page, box.at, text, ordinal>>

\* Fault: blocks drawn twice are not told apart.
OrdinalAlways(pdf, key) == 0

\* _next_ordinal: how many of the page had the same key before it.
Ordinal(pdf, key) == Len(SelectSeq(pdf.seen, LAMBDA k : k = key))

\* What becomes of a block, if anything does.
PdfKind(block) ==
  CASE block.box.at = Flat -> "none"
    [] block.box.at # Flat /\ block.type = "image" -> "figure"
    [] block.box.at # Flat /\ block.type = "text" /\ block.text # 0 ->
         IF block.mono THEN "code" ELSE "paragraph"
    [] OTHER -> "none"

PdfBlock(pdf, block, word) ==
  LET kind == PdfKind(block)
      key == <<kind, block.box, block.text>>
      id == SourceId(kind, pdf.page, block.box, block.text, Ordinal(pdf, key))
      item == [Item(kind, IF kind = "figure" THEN <<>> ELSE <<word>>) EXCEPT !.id = id]
  IN  IF kind = "none" THEN pdf
      ELSE [pdf EXCEPT !.tree = Added(@, item), !.seen = Append(@, key),
                       !.written = @ \/ kind # "figure"]

\* A page on which no text was found gets a block to be read by OCR, if it has images.
PageEnd(pdf) ==
  IF pdf.written THEN pdf
  ELSE [pdf EXCEPT !.tree = Added(@, [Item("placeholder", <<>>) EXCEPT
                                        !.id = <<"ocr-placeholder", pdf.page>>]),
                   !.unread = IF pdf.images THEN @ \cup {pdf.page} ELSE @]

NextPage(pdf, images) ==
  [PageEnd(pdf) EXCEPT !.page = @ + 1, !.seen = <<>>, !.written = FALSE, !.images = images]

PdfEnd(pdf) == [PageEnd(pdf) EXCEPT !.written = TRUE]
=============================================================================
