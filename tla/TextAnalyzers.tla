---------------------------- MODULE TextAnalyzers ----------------------------
(***************************************************************************)
(* The analyzers that judge a block by its own text and make one of        *)
(* another class of it (src/analyzers/<name>/analyzer.py, with the         *)
(* patterns of rules.py as the attributes of a line). Each is an operator  *)
(* from the document before to the document after it.                      *)
(*                                                                         *)
(* A detector visits every container and looks at its children only: what  *)
(* another one has put into a list, a callout or a cell is out of reach.   *)
(***************************************************************************)
EXTENDS Blocks

-----------------------------------------------------------------------------
(* ScanNoiseAnalyzer *)

\* is_scan_noise: no real word in it, over all of its lines.
IsNoise(b) == b.lines # <<>> /\ \A i \in DOMAIN b.lines : b.lines[i].reads = "noise"

ScanNoise(doc) ==
  EachChild(doc, LAMBDA b : IF LiveExactText(b) /\ IsNoise(b) THEN Bury(b, "scan_noise") ELSE b)

-----------------------------------------------------------------------------
(* ListDetectorAnalyzer *)

\* _classify_marker: what opens a list item. "super" (a raised figure) does not.
ListMark(l) == l.mark.style \in {"bullet", "star", "ordered"}

\* _items_in_block: where the items of a block of several lines begin, if it
\* holds a list: the first line and one more are marked, and numbers count up.
ItemStarts(b) ==
  LET marked == SelectSeq([i \in DOMAIN b.lines |-> i], LAMBDA i : ListMark(b.lines[i]))
      numbers == SelectSeq([i \in DOMAIN marked |-> b.lines[marked[i]].mark],
                           LAMBDA m : m.style = "ordered")
  IN  IF /\ Len(marked) >= 2 /\ marked[1] = 1
         /\ \A i \in DOMAIN numbers : numbers[i].number = numbers[1].number + i - 1
      THEN marked ELSE <<>>

\* printed_lines of a part: the entries of the block with a text among its lines.
PrintedOf(b, lines) ==
  IF Has(b, "printed_lines")
  THEN SelectSeq(b.meta["printed_lines"], LAMBDA t : \E i \in DOMAIN lines : lines[i].words = t)
  ELSE <<>>

\* A block of the same class for some lines of b.
PieceOf(b, id, lines) ==
  LET piece == [Across(Block(id, b.type, lines), <<b>>) EXCEPT !.font = b.font]
      own == PrintedOf(b, lines)
  IN  IF own = <<>> THEN piece ELSE Put(piece, "printed_lines", own)

SplitList(b) ==
  LET starts == IF LiveText(b) THEN ItemStarts(b) ELSE <<>>
      end(k) == IF k = Len(starts) THEN Len(b.lines) ELSE starts[k + 1] - 1
  IN  IF starts = <<>> THEN <<b>>
      ELSE [k \in DOMAIN starts |->
              PieceOf(b, PieceId("list-item-text", b.id, k), SubSeq(b.lines, starts[k], end(k)))]
           \o <<Bury(b, "split_into_list_items")>>

\* _strip_marker.
Unmarked(b) == [b EXCEPT !.lines[1].mark = NoMark]

Marker(b) == <<b.lines[1].words, b.lines[1].mark>>

\* Fault: the marker is not kept.
MarkerlessItem(b) ==
  [Across(Block(Composite("list-item", <<b.id>>), "ListItem", <<>>), <<b>>) EXCEPT
     !.parts = <<Unmarked(b)>>]

ListItem(b) ==
  [Across(Block(Composite("list-item", <<b.id>>), "ListItem", <<>>), <<b>>) EXCEPT
     !.kept = {Marker(b)}, !.parts = <<Unmarked(b)>>]

ListOf(run) ==
  [Across(Block(Composite("list", [i \in DOMAIN run |-> run[i].id]), "List", <<>>), run) EXCEPT
     !.parts = [i \in DOMAIN run |-> ListItem(run[i])]]

\* flush: the marker is gone from the text of a lone item too.
Flushed(s) ==
  [out |-> s.out \o IF Len(s.run) >= 2 THEN <<ListOf(s.run)>>
                     ELSE [i \in DOMAIN s.run |-> Unmarked(s.run[i])],
   run |-> <<>>]

ListedKids(kids) ==
  LET pieces == FlattenSeq([i \in DOMAIN kids |-> SplitList(kids[i])])
      take(s, b) ==
        IF LiveText(b) /\ \E l \in Opening(b) : ListMark(l)
        THEN [s EXCEPT !.run = Append(@, b)]
        ELSE LET f == Flushed(s) IN [f EXCEPT !.out = Append(@, b)]
  IN  Flushed(FoldLeft(take, [out |-> <<>>, run |-> <<>>], pieces)).out

ListDetector(doc) == EachContainer(doc, ListedKids)

-----------------------------------------------------------------------------
(* FormulaDetectorAnalyzer: any text block, of a subclass too *)

IsFormula(b) ==
  /\ LiveText(b) /\ b.lines # <<>>
  /\ \/ b.font = "math"
     \/ Has(b, "font_role") /\ b.meta["font_role"] = "math"
     \/ \A i \in DOMAIN b.lines : Reading(b.lines[i]) = "formula"

FormulaDetector(doc) ==
  EachChild(doc, LAMBDA b :
    IF IsFormula(b)
    THEN [Put(Put(b, "needs_vision_ocr", TRUE), "detector_signal",
              IF b.font = "math" THEN "font"
              ELSE IF Has(b, "font_role") /\ b.meta["font_role"] = "math" THEN "font_role"
              ELSE "density")
          EXCEPT !.type = "Formula"]
    ELSE b)

-----------------------------------------------------------------------------
(* TheoremDetectorAnalyzer, DefinitionDetectorAnalyzer *)

Unit(kind, b, proves) == [kind |-> kind, target |-> b.id, proves |-> proves]

Decorated(b, as) == Put(b, "semantic_decorator", as)

\* One child: s is the environment that is open, and what has been gathered.
TheoremStep(s, b) ==
  LET reading == IF b.lines = <<>> THEN "" ELSE Reading(b.lines[1])
      opens(env) ==
        [out |-> Append(s.out, Decorated(b, env)), env |-> env, id |-> b.id,
         theorem |-> IF env = "theorem" THEN b.id ELSE s.theorem,
         units |-> Append(s.units, Unit(env, b, IF env = "proof" THEN s.theorem ELSE <<>>))]
      body(mark) ==
        Append(s.out, Put(Decorated(mark, s.env \o "_body"), "belongs_to", s.id))
  IN  CASE ~LiveExactText(b) -> [s EXCEPT !.out = Append(@, b), !.env = ""]
        [] LiveExactText(b) /\ reading = "" -> [s EXCEPT !.out = Append(@, b)]
        [] LiveExactText(b) /\ reading = "qed" /\ s.env = "proof" ->
             [s EXCEPT !.out = body(Put(b, "proof_end", TRUE)), !.env = ""]
        [] LiveExactText(b) /\ reading \in {"theorem", "proof", "example", "remark"} ->
             opens(reading)
        [] OTHER -> [s EXCEPT !.out = IF s.env = "" THEN Append(@, b) ELSE body(b)]

\* The children and the semantic units a pass over each container leaves: a
\* container adds its units after those nested in it.
WithUnits(doc, Pass(_)) ==
  LET done == [c \in DOMAIN doc.cont |-> Pass(doc.cont[c].kids)]
      units[c \in DOMAIN doc.cont] ==
        LET nested == SelectSeq(doc.cont[c].kids, LAMBDA b : b.type = "Container")
        IN  FlattenSeq([i \in DOMAIN nested |-> units[nested[i].id]]) \o done[c].units
  IN  [doc EXCEPT
         !.cont = [c \in DOMAIN @ |-> [@[c] EXCEPT !.kids = done[c].out]],
         !.units = @ \o FlattenSeq([i \in DOMAIN doc.roots |-> units[doc.roots[i]]])]

TheoremDetector(doc) ==
  WithUnits(doc, LAMBDA kids :
    FoldLeft(TheoremStep,
      [out |-> <<>>, env |-> "", id |-> <<>>, theorem |-> <<>>, units |-> <<>>], kids))

DefinitionStep(s, b) ==
  IF LiveExactText(b) /\ ~Has(b, "semantic_decorator") /\ OpensAs(b, {"definition"})
  THEN [out |-> Append(s.out, Decorated(b, "definition")),
        units |-> Append(s.units, Unit("definition", b, <<>>))]
  ELSE [s EXCEPT !.out = Append(@, b)]

DefinitionDetector(doc) ==
  WithUnits(doc, LAMBDA kids :
    FoldLeft(DefinitionStep, [out |-> <<>>, units |-> <<>>], kids))

-----------------------------------------------------------------------------
(* CalloutDetectorAnalyzer: the block goes into a callout that has its id *)

IsCallout(b) ==
  LiveExactText(b) /\ \E l \in Opening(b) : l.mark = NoMark /\ l.label # ""

Callout(b) ==
  [Across(Block(b.id, "Callout", <<>>), <<b>>) EXCEPT
     !.kept = {<<b.lines[1].words, [style |-> b.lines[1].label, number |-> 0]>>},
     !.parts = <<[b EXCEPT !.lines[1].label = ""]>>]

CalloutDetector(doc) == EachChild(doc, LAMBDA b : IF IsCallout(b) THEN Callout(b) ELSE b)

-----------------------------------------------------------------------------
(* FootnoteDetectorAnalyzer *)

IsFootnote(b) ==
  /\ LiveExactText(b)
  /\ \E l \in Opening(b) : l.mark.style \in {"super", "ordered", "star"}
  /\ \/ Has(b, "font_role") /\ b.meta["font_role"] = "footnote"
     \/ b.font = "small" /\ b.at \in {"low", "bottom"}

FootnoteDetector(doc) ==
  EachChild(doc, LAMBDA b :
    IF IsFootnote(b)
    THEN [Become(Unmarked(b), "Footnote") EXCEPT !.kept = {Marker(b)}]
    ELSE b)

-----------------------------------------------------------------------------
(* BibliographyDetectorAnalyzer, AlgorithmDetectorAnalyzer, IndexDetectorAnalyzer *)

IsBibliography(k) == k.semantic = "bibliography" \/ \E l \in Range(k.title) : l.reads = "references"

\* _walk: from the roots down to the first bibliography of each branch.
BibliographyContainers(doc) ==
  LET found[c \in DOMAIN doc.cont] ==
        IF IsBibliography(doc.cont[c]) THEN {c}
        ELSE UNION {found[b.id] : b \in {k \in Range(doc.cont[c].kids) : k.type = "Container"}}
  IN  UNION {found[r] : r \in Range(doc.roots)}

BibliographyDetector(doc) ==
  LET entry(b) == IF LiveExactText(b) /\ b.lines # <<>> /\ ~OpensAs(b, {"scrap"})
                  THEN Become(b, "BibEntry") ELSE b
      bib == BibliographyContainers(doc)
  IN  [doc EXCEPT !.cont = [c \in DOMAIN @ |->
         IF c \notin bib THEN @[c]
         ELSE [@[c] EXCEPT !.semantic = "bibliography",
                           !.kids = [i \in DOMAIN @ |-> entry(@[i])]]]]

AlgorithmDetector(doc) ==
  EachChild(doc, LAMBDA b :
    IF LiveExactText(b) /\ OpensAs(b, {"algorithm"}) THEN Become(b, "Algorithm") ELSE b)

IndexDetector(doc) ==
  LET entry(b) == IF LiveExactText(b) /\ OpensAs(b, {"entry"}) THEN Become(b, "IndexEntry") ELSE b
      isIndex(k) == \E l \in Range(k.title) : l.reads = "index"
  IN  [doc EXCEPT !.cont = [c \in DOMAIN @ |->
         IF isIndex(@[c]) THEN [@[c] EXCEPT !.kids = [i \in DOMAIN @ |-> entry(@[i])]] ELSE @[c]]]
=============================================================================
