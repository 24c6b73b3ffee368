-------------------------------- MODULE Blocks --------------------------------
(***************************************************************************)
(* The document the analyzers work on (krm/models.py, krm/traversal.py,    *)
(* krm/identity.py, analyzers/access.py). A document is a tree of          *)
(* containers whose children are blocks; a block has lines (its inlines),  *)
(* or parts (the items of a list, the content of a callout or of a cell).  *)
(*                                                                         *)
(* A line is its words, each a number that is that word's alone, with what *)
(* the analyzers tell of it: the marker or the label it opens with, what   *)
(* it reads as, how it is printed. Metadata is the dictionary it is in the *)
(* code; confidences and boxes are left out.                               *)
(***************************************************************************)
EXTENDS SequencesExt, FiniteSetsExt, Integers, TLC

NoMark == [style |-> "", number |-> 0]

NoPage == -1   \* no visual layout, or one of no page

NoRef == <<>>  \* no page reference

\* A line of prose of these words; other lines are EXCEPTs of it.
Plain(words) ==
  [words |-> words,
   mark |-> NoMark,     \* list or footnote marker in front of the text
   label |-> "",        \* "Note:", "Warning:", in front of the text
   reads |-> "prose",   \* what the patterns of the detectors take it for
   level |-> 0,         \* rank of a heading by its size, 0 for body text
   capital |-> FALSE,   \* opens with a capital letter
   stop |-> TRUE,       \* ends with "." or ":"
   ref |-> NoRef,       \* ends with a page number, <<kind, number>>
   number |-> "",       \* of a heading or an entry of the contents, and the
   name |-> "",         \* title without it
   chars |-> 130,       \* length of the text: longer than any cell's
   box |-> <<>>,        \* where tables are looked for: <<x0, x1, y0, y1>> in
                        \* thousandths of the page
   beside |-> FALSE,    \* on the row of the line before it, close to it
   boxed |-> TRUE,      \* has a box of its own
   full |-> FALSE,      \* reaches the right margin
   indent |-> FALSE,    \* set in from the left margin
   misread |-> FALSE]   \* every word of it was read off ink OCR got wrong

X0(box) == box[1]
X1(box) == box[2]
Y0(box) == box[3]
Y1(box) == box[4]

Hull(boxes) ==
  <<Min({X0(b) : b \in boxes}), Max({X1(b) : b \in boxes}),
    Min({Y0(b) : b \in boxes}), Max({Y1(b) : b \in boxes})>>

-----------------------------------------------------------------------------
(* Blocks *)

\* A block of a class with its lines, as an adapter makes it.
Block(id, type, lines) ==
  [id |-> id, type |-> type, tomb |-> FALSE, lines |-> lines, parts |-> <<>>,
   page |-> 0,
   rank |-> 0,          \* where its box comes in the reading order of the page
   at |-> "body",       \* "top" and "bottom" margin, "low" (the last third), "body"
   font |-> "body",     \* size and family against the rest of the document
   kept |-> {},         \* markers and labels it holds in fields of its own
   meta |-> <<>>]       \* metadata: a function of the keys that are set

TextBlock(b) == b.type \in {"Paragraph", "Unknown", "TitlePage"}   \* isinstance
ExactText(b) == b.type \in {"Paragraph", "Unknown"}                \* type(...) in

LiveText(b) == TextBlock(b) /\ ~b.tomb
LiveExactText(b) == ExactText(b) /\ ~b.tomb

Has(b, key) == key \in DOMAIN b.meta

Put(b, key, value) == [b EXCEPT !.meta = (key :> value) @@ @]

Bury(b, reason) == [Put(b, "tombstone_reason", reason) EXCEPT !.tomb = TRUE]

\* The detectors' new object under the old id: confidences and metadata are new.
Become(b, type) == [b EXCEPT !.type = type, !.meta = <<>>]

\* first_span_text: the line of the first text, or none.
Opening(b) == IF b.lines = <<>> THEN {} ELSE {Head(b.lines)}

\* Where the blocks stand together: the page they share, the place of the first.
Across(b, blocks) ==
  [b EXCEPT !.page = IF \A i \in DOMAIN blocks : blocks[i].page = blocks[1].page
                     THEN blocks[1].page ELSE NoPage,
            !.rank = Min({blocks[i].rank : i \in DOMAIN blocks}),
            !.at = blocks[1].at]

\* What its text is matched as from the start; a mark in front hides it.
Reading(l) == IF l.mark = NoMark /\ l.label = "" THEN l.reads ELSE "prose"

OpensAs(b, readings) == \E l \in Opening(b) : Reading(l) \in readings

\* Where the lines with a box are is all that is compared of their places.
Boxed(lines) == SelectSeq(lines, LAMBDA l : l.boxed)

Words(lines) == FlattenSeq([i \in DOMAIN lines |-> lines[i].words])

\* Sorted, and what Before does not tell apart in the order it came.
Sorted(s, Before(_, _)) ==
  LET at == SortSeq([i \in DOMAIN s |-> i],
                    LAMBDA i, j : Before(s[i], s[j]) \/ (~Before(s[j], s[i]) /\ i < j))
  IN  [i \in DOMAIN s |-> s[at[i]]]

-----------------------------------------------------------------------------
(* The tree: the children of every container by its id. A container stands *)
(* among its parent's children as a block of type "Container".             *)

Container(title, level, children) ==
  [title |-> title, level |-> level, semantic |-> "", kids |-> children]

ContainerBlock(b) == [Become(b, "Container") EXCEPT !.lines = <<>>]

\* One pass over every container, nested ones included.
EachContainer(doc, Do(_)) ==
  [doc EXCEPT !.cont = [c \in DOMAIN @ |-> [@[c] EXCEPT !.kids = Do(@)]]]

EachChild(doc, Do(_)) ==
  EachContainer(doc, LAMBDA kids : [i \in DOMAIN kids |-> Do(kids[i])])

\* walk: where every child stands, <<container, index>>, in the order of the walk.
Places(doc) ==
  LET under[c \in DOMAIN doc.cont] ==
        LET kids == doc.cont[c].kids
        IN  FlattenSeq([i \in DOMAIN kids |->
              <<<<c, i>>>> \o IF kids[i].type = "Container" THEN under[kids[i].id] ELSE <<>>])
  IN  FlattenSeq([i \in DOMAIN doc.roots |-> under[doc.roots[i]]])

ChildAt(doc, place) == doc.cont[place[1]].kids[place[2]]

Children(doc) == LET at == Places(doc) IN [n \in DOMAIN at |-> ChildAt(doc, at[n])]

\* A block and, depth first, what is in it (items, content, grid).
WithParts(b) ==
  LET leaf(p) == <<p>> \o p.parts
  IN  <<b>> \o FlattenSeq([i \in DOMAIN b.parts |-> leaf(b.parts[i])])

AllBlocks(doc) ==
  LET top == Children(doc) IN FlattenSeq([i \in DOMAIN top |-> WithParts(top[i])])

\* Without what is in a tombstoned block.
Standing(doc) ==
  LET top == Children(doc)
  IN  FlattenSeq([i \in DOMAIN top |-> IF top[i].tomb THEN <<top[i]>> ELSE WithParts(top[i])])

-----------------------------------------------------------------------------
(* Identity *)

\* derive_composite_id sorts its parts, so that their order does not count.
Composite(kind, ids) == <<kind, {ids[i] : i \in DOMAIN ids}>>

PieceId(kind, id, k) == <<kind, <<id, k>>>>

-----------------------------------------------------------------------------
(* What the runner compares before and after an analyzer *)

\* _krm_signatures: a later block of the walk overwrites one with the same id.
Signatures(doc) ==
  LET all == AllBlocks(doc)
      last(id) == CHOOSE i \in DOMAIN all :
                    all[i].id = id /\ \A j \in (i + 1)..Len(all) : all[j].id # id
  IN  [id \in {all[i].id : i \in DOMAIN all} |->
         LET b == all[last(id)] IN [type |-> b.type, tomb |-> b.tomb]]

\* _verify_krm_permissions.
Permitted(was, is, permissions) ==
  LET stayed == DOMAIN was \cap DOMAIN is
  IN  /\ DOMAIN was \subseteq DOMAIN is \/ "TRANSFORM_NODE" \in permissions
      /\ DOMAIN is \subseteq DOMAIN was \/ "INSERT" \in permissions
      /\ \A b \in stayed :
           /\ is[b].type = was[b].type \/ "TRANSFORM_NODE" \in permissions
           /\ is[b].tomb => was[b].tomb \/ "TOMBSTONE" \in permissions
           /\ was[b].tomb => is[b].tomb
=============================================================================
