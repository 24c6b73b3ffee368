--------------------------- MODULE TranslationUnits ---------------------------
(***************************************************************************)
(* What of a document is translated together, and what the translation     *)
(* leaves in its blocks (assembler/translator.py). How the units are       *)
(* worked through by several agents is module TranslateJob; here each unit *)
(* has been answered for. The translation of the word w is the word -w.    *)
(***************************************************************************)
EXTENDS Blocks

InTarget(words) == [i \in DOMAIN words |-> -words[i]]

\* source_text: a container's is its title, every other block's its lines.
SourceText(doc, b) == IF b.type = "Container" THEN doc.cont[b.id].title ELSE b.lines

UnitKind(b) ==
  CASE b.type = "Container" -> "title"
    [] b.type \in {"Paragraph", "TitlePage"} -> "paragraph"
    [] OTHER -> b.type

\* _walk: what has a text to translate, in the order of the tree; of a list and a
\* callout what is in them.
Translatable(doc) ==
  LET single(b) == IF ~b.tomb /\ b.type \in {"Paragraph", "TitlePage", "Toc", "Caption", "Footnote", "BibEntry"}
                   THEN <<b>> ELSE <<>>
      content(blocks) == FlattenSeq([i \in DOMAIN blocks |-> single(blocks[i])])
      under[c \in DOMAIN doc.cont] ==
        LET kids == doc.cont[c].kids
            of(b) ==
              CASE b.tomb -> <<>>
                [] ~b.tomb /\ b.type = "Container" ->
                     (IF doc.cont[b.id].title # <<>> THEN <<b>> ELSE <<>>) \o under[b.id]
                [] ~b.tomb /\ b.type = "List" ->
                     FlattenSeq([i \in DOMAIN b.parts |-> IF b.parts[i].tomb THEN <<>> ELSE content(b.parts[i].parts)])
                [] ~b.tomb /\ b.type = "Callout" -> content(b.parts)
                [] OTHER -> single(b)
        IN  FlattenSeq([i \in DOMAIN kids |-> of(kids[i])])
  IN  FlattenSeq([i \in DOMAIN doc.roots |-> under[doc.roots[i]]])

\* _continues: the paragraph that says so, or the next page's in mid-sentence.
ContinuesUnit(unit, b, lines) ==
  LET a == Last(unit.blocks)
  IN  /\ UnitKind(a) = "paragraph" /\ UnitKind(b) = "paragraph"
      /\ "TitlePage" \notin {a.type, b.type}
      /\ \/ Has(b, "continues") /\ b.meta["continues"] = a.id
         \/ /\ a.page # NoPage /\ b.page = a.page + 1
            /\ ~Last(Last(unit.texts)).stop /\ ~Head(lines).capital

Wordlike(lines) == \E l \in Range(lines) : l.words # <<>> /\ l.reads \notin {"folio", "scrap"}

\* collect_units: blocks that are translated as one text.
Units(doc) ==
  LET add(units, b) ==
        LET lines == SourceText(doc, b)
        IN  CASE ~Wordlike(lines) -> units
              [] Wordlike(lines) /\ units # <<>> /\ ContinuesUnit(Last(units), b, lines) ->
                   [units EXCEPT ![Len(units)] = [blocks |-> Append(@.blocks, b), texts |-> Append(@.texts, lines)]]
              [] OTHER -> Append(units, [blocks |-> <<b>>, texts |-> <<lines>>])
  IN  FoldLeft(add, <<>>, Translatable(doc))

UnitWords(unit) == FlattenSeq([i \in DOMAIN unit.texts |-> Words(unit.texts[i])])

\* _record_unit, _record_translation, _record_merged: the head has the text of
\* the whole unit, the others say where theirs went.
Segments(unit) ==
  LET head == unit.blocks[1].id
  IN  [id \in {unit.blocks[i].id : i \in DOMAIN unit.blocks} |->
         [text |-> IF id = head THEN InTarget(UnitWords(unit)) ELSE <<>>,
          source |-> UnitWords(unit), into |-> IF id = head THEN <<>> ELSE head]]

\* The document when these of its units have been answered for.
TranslatedDoc(doc, units) ==
  LET segments == FoldSet(LAMBDA u, s : Segments(u) @@ s, <<>>, units)
      own(b) == IF b.id \in DOMAIN segments THEN Put(b, "translation", segments[b.id]) ELSE b
      all(blocks) == [i \in DOMAIN blocks |-> own(blocks[i])]
  IN  EachChild(doc, LAMBDA b :
        CASE b.type = "List" -> [b EXCEPT !.parts = [i \in DOMAIN @ |-> [@[i] EXCEPT !.parts = all(@)]]]
          [] b.type = "Callout" -> [b EXCEPT !.parts = all(@)]
          [] OTHER -> own(b))

\* is_translated: for this text, and what is merged says so.
IsTranslated(unit) ==
  LET segment(b) == IF Has(b, "translation") THEN b.meta["translation"]
                    ELSE [text |-> <<>>, source |-> <<>>, into |-> <<>>]
  IN  /\ segment(unit.blocks[1]).text # <<>>
      /\ segment(unit.blocks[1]).source = UnitWords(unit)
      /\ \A i \in 2..Len(unit.blocks) : segment(unit.blocks[i]).into = unit.blocks[1].id
=============================================================================
