---------------------------- MODULE DefaultPipeline ----------------------------
(***************************************************************************)
(* The default pipeline (analyzers/__init__.py) over a document: the       *)
(* analyzers one after the other, each with what it does to the blocks, as *)
(* PipelineRunner runs them: one that raises is rolled back and the next   *)
(* has its turn, one that changes what its manifest does not declare ends  *)
(* the execution. Module Pipeline is the runner with any analyzer; this    *)
(* one asks what the analyzers make of a document together.                *)
(*                                                                         *)
(* Left out of Order: NormalizationAnalyzer, which joins the spaces inside *)
(* a text; those that change no block the others look at (notebook         *)
(* outputs, block confidences, entities, names, citations); and those that *)
(* read drawings (registers, diagrams).                                    *)
(***************************************************************************)
EXTENDS TextAnalyzers, Contents, TableDetector, DocumentCodec, TranslationUnits, LatexBuilder

CONSTANTS Documents,     \* what an adapter may give
          OcrReadings,   \* sequences of lines OCR may read on a page
          PageAnswers,   \* what the page agent may say of a page: [role, table, types]
          PageInks,      \* what there may be to see on its pages: [source, rules, ruled]
          MaxCalls,      \* calls of the vision agent in one execution
          MaxTrouble,    \* bound: analyzers that raise, executions after the first, translations
          MaxUnits       \* bound: of more units one, all but one or all are answered for

ASSUME PipelineAssumption == {MaxCalls, MaxTrouble, MaxUnits} \subseteq Nat

VARIABLES given,     \* the document as the adapter gave it
          doc,       \* the document
          step,      \* index of the analyzer whose turn it is
          state,     \* running, done, reloaded (read back from disk), aborted,
                     \* translated, stored (translated and read back)
          failures,  \* analyzers that were rolled back
          runs

vars == <<given, doc, step, state, failures, runs>>

-----------------------------------------------------------------------------
(* create_default_pipeline *)

Order == <<"ScanNoise", "OCR", "PrintedLines", "PageOrder", "FontStats", "Ephemera",
           "Toc", "Heading", "List", "Formula", "Theorem", "Definition", "Callout", "Footnote",
           "Bibliography", "Algorithm", "Index", "TitlePage", "Table", "PageAgent", "Caption",
           "TocLink", "LLMRefinement", "VisionFallback", "UnknownResolver", "Paragraph">>

\* krm_permissions of the manifests, without READ and MUTATE_ATTRIBUTES.
Permissions(name) ==
  CASE name \in {"PrintedLines", "PageOrder", "FontStats", "TocLink", "VisionFallback"} -> {}
    [] name = "ScanNoise" -> {"TOMBSTONE"}
    [] name \in {"OCR", "Toc", "PageAgent", "Paragraph"} -> {"INSERT", "TOMBSTONE"}
    [] name \in {"Theorem", "Definition"} -> {"INSERT"}
    [] name \in {"Heading", "List", "TitlePage", "Table"} -> {"TRANSFORM_NODE", "INSERT", "TOMBSTONE"}
    [] name \in {"Formula", "Callout", "Footnote", "Bibliography"} -> {"TRANSFORM_NODE", "INSERT"}
    [] OTHER -> {"TRANSFORM_NODE"}

\* The analyzers that only read the document.
Applied(name, d) ==
  CASE name = "ScanNoise" -> ScanNoise(d)
    [] name = "PrintedLines" -> PrintedLines(d)
    [] name = "PageOrder" -> PageOrdered(d)
    [] name = "FontStats" -> FontStats(d)
    [] name = "Ephemera" -> Ephemera(d)
    [] name = "Toc" -> TocDetector(d)
    [] name = "Heading" -> HeadingDetector(d)
    [] name = "List" -> ListDetector(d)
    [] name = "Formula" -> FormulaDetector(d)
    [] name = "Theorem" -> TheoremDetector(d)
    [] name = "Definition" -> DefinitionDetector(d)
    [] name = "Callout" -> CalloutDetector(d)
    [] name = "Footnote" -> FootnoteDetector(d)
    [] name = "Bibliography" -> BibliographyDetector(d)
    [] name = "Algorithm" -> AlgorithmDetector(d)
    [] name = "Index" -> IndexDetector(d)
    [] name = "TitlePage" -> TitlePageDetector(d)
    [] name = "Caption" -> CaptionDetector(d)
    [] name = "TocLink" -> TocLink(d)
    [] name = "UnknownResolver" -> UnknownResolver(d)
    [] name = "Paragraph" -> ParagraphsJoined(d)

\* What is told something from outside has an action of its own.
Informed == {"OCR", "Table", "PageAgent", "LLMRefinement", "VisionFallback"}

-----------------------------------------------------------------------------

Init ==
  /\ given \in Documents /\ doc = given
  /\ step = 1 /\ state = "running" /\ failures = {} /\ runs = 1

Analyzed == state \in {"done", "reloaded"}

Turn(name) == state = "running" /\ step <= Len(Order) /\ Order[step] = name

\* run() returned: the change stays, and is compared with what was declared.
Returned(name, d) ==
  /\ doc' = d
  /\ IF Permitted(Signatures(doc), Signatures(d), Permissions(name))
     THEN step' = step + 1 /\ state' = state
     ELSE step' = step /\ state' = "aborted"
  /\ UNCHANGED <<given, failures, runs>>

Analyze ==
  /\ state = "running" /\ step <= Len(Order) /\ Order[step] \notin Informed
  /\ Returned(Order[step], Applied(Order[step], doc))

AskOcr ==
  /\ Turn("OCR")
  /\ \E read \in [{b.id : b \in OcrTargets(doc)} -> OcrReadings] : Returned("OCR", OCR(doc, read))

\* The source is there, or it is not.
ReadTables ==
  /\ Turn("Table")
  /\ \E ink \in PageInks : Returned("Table", TableDetector(doc, ink))

\* No agent, or one that answers for some of the pages.
AskPages ==
  /\ Turn("PageAgent")
  /\ LET pages == {b.page : b \in {t \in Range(Children(doc)) : LiveText(t)}}
     IN  \E answered \in SUBSET pages : \E answer \in [answered -> PageAnswers] :
           Returned("PageAgent", PageAgent(doc, answer))

\* Blocks below the threshold: any, all of them are answered for or none in time.
AskModel ==
  /\ Turn("LLMRefinement")
  /\ LET ids == {b.id : b \in Range(Children(doc))}
     IN  \E answered \in {{}, ids} : Returned("LLMRefinement", LLMRefinement(doc, ids, answered))

AskVision ==
  /\ Turn("VisionFallback")
  /\ LET ids == {b.id : b \in Range(Children(doc))}
     IN  Returned("VisionFallback", VisionFallback(doc, ids, MaxCalls))

\* run() raised: the copies made before it are put back.
Raises ==
  /\ state = "running" /\ step <= Len(Order)
  /\ Cardinality(failures) + runs <= MaxTrouble
  /\ failures' = failures \cup {Order[step]}
  /\ step' = step + 1
  /\ UNCHANGED <<given, doc, state, runs>>

Finish ==
  /\ state = "running" /\ step > Len(Order)
  /\ state' = "done"
  /\ UNCHANGED <<given, doc, step, failures, runs>>

\* The document leaves the memory, or the server stops, and it is read back.
Reload ==
  /\ state \in {"done", "translated"}
  /\ doc' = Rebuilt(Serialized(doc))
  /\ state' = IF state = "done" THEN "reloaded" ELSE "stored"
  /\ UNCHANGED <<given, step, failures, runs>>

\* The graph endpoint runs the pipeline over a document it has analyzed.
Again ==
  /\ Analyzed /\ Cardinality(failures) + runs <= MaxTrouble
  /\ runs' = runs + 1 /\ step' = 1 /\ state' = "running"
  /\ UNCHANGED <<given, doc, failures>>

AnsweredFor(units) ==
  (IF Cardinality(units) <= MaxUnits THEN SUBSET units
   ELSE {units} \cup UNION {{{u}, units \ {u}} : u \in units}) \ {{}}

\* The translation job has answers for some of the units, at least for one.
Translate ==
  /\ Analyzed /\ Cardinality(failures) + runs <= MaxTrouble
  /\ \E units \in AnsweredFor(Range(Units(doc))) : doc' = TranslatedDoc(doc, units)
  /\ state' = "translated"
  /\ UNCHANGED <<given, step, failures, runs>>

Next ==
  \/ Analyze \/ AskOcr \/ ReadTables \/ AskPages \/ AskModel \/ AskVision \/ Raises
  \/ Finish \/ Reload \/ Translate \/ Again

Spec == Init /\ [][Next]_vars

-----------------------------------------------------------------------------
(* What is left of the words *)

Live(d) == SelectSeq(Standing(d), LAMBDA b : ~b.tomb)

\* Where a word stands, as often as it does.
LiveWords(d) ==
  LET live == Live(d) IN FlattenSeq([i \in DOMAIN live |-> Words(TextOf(d, live[i]))])

GivenLines == UNION {Range(b.lines) : b \in Range(Children(given))}

WordsOf(lines) == UNION {Range(l.words) : l \in lines}

GivenPage(w) == (CHOOSE b \in Range(Children(given)) : w \in WordsOf(Range(b.lines))).page

\* Pages of which an agent's table took the place.
Replaced(d) ==
  {b.page : b \in {t \in Range(Children(d)) : t.type = "Table" /\ Has(t, "source")}}

\* Scan noise, scraps and the header of a column of contents are what the
\* analyzers may drop.
Expendable == WordsOf({l \in GivenLines : l.reads \in {"noise", "scrap", "separator", "residue", "column"}})

\* Rows that describe an entry of the contents are in its metadata, which nothing
\* reads.
Described(d) ==
  UNION {Range(e.meta["toc_description"]) :
           e \in {t \in Range(Children(d)) : t.type = "Toc" /\ Has(t, "toc_description")}}

\* Words of entries of the contents the block of which stays, for it has other
\* lines; it is read as contents again in the next execution.
Unfolded(d) ==
  LET all == Children(d)
      live == {b.id : b \in {t \in Range(all) : LiveExactText(t)}}
      reread(e) == Len(SelectSeq(all, LAMBDA b : b.id = e.id)) > 1
  IN  UNION {WordsOf(Range(e.lines)) :
               e \in {t \in Range(all) : t.type = "Toc" /\ (t.id[2] \cap live # {} \/ reread(t))}}

TypeOK ==
  /\ state \in {"running", "done", "reloaded", "translated", "stored", "aborted"}
  /\ step \in 1..(Len(Order) + 1) /\ runs \in 1..(MaxTrouble + 1)
  /\ \A name \in failures : \E k \in DOMAIN Order : Order[k] = name
  /\ \A b \in Range(Children(doc)) :
       /\ b.type = "Container" <=> b.id \in DOMAIN doc.cont \ Range(doc.roots)
       /\ b.tomb => Has(b, "tombstone_reason")

\* Whatever else ran before it and whatever it found, no analyzer does what its
\* manifest does not declare (analyzers/pipeline.py _verify_krm_permissions): a
\* refusal would end the import with the document half analyzed.
NeverRefused == state # "aborted"

\* Taken all together the analyzers lose no word of the source but scan noise
\* and scraps of a page without text: whatever is split, merged, wrapped,
\* turned into a heading or put into a title page, its words are in a block that
\* is not tombstoned. A page an agent called a table is the exception: the table
\* that stands for its text is the agent's own (RFC 0001 2.4 and comments of
\* every analyzer that tombstones).
WordsLive ==
  \A w \in WordsOf(GivenLines) \ (Expendable \cup Range(LiveWords(doc)) \cup Described(doc)) :
    GivenPage(w) \in Replaced(doc)

\* And none of them says a word twice, which a translation would then print
\* twice: what is copied elsewhere is tombstoned where it was. Only a heading
\* that a title page takes over stays a heading as well, and a block that is not
\* contents alone stays beside the entries read from it.
NoTextTwice ==
  LET words == LiveWords(doc)
      titles == UNION {WordsOf(Range(doc.cont[c].title)) : c \in DOMAIN doc.cont}
      once == WordsOf(GivenLines) \ (titles \cup Unfolded(doc))
  IN  \A i, j \in DOMAIN words : i < j /\ words[i] = words[j] => words[i] \notin once

\* The analyzers neither lose nor double a word of the source.
WordsOnce == WordsLive /\ NoTextTwice

\* RFC 0002 4.1: no two blocks of a document have one id. Identities are derived
\* from where a block came from, so that pieces, lists, tables and title pages
\* of one source must not meet. A callout shares its id with what is in it; of a
\* block that stays the contents are read in every execution, under one id.
IdsUnique ==
  LET all == Standing(doc)
      reread(b) == runs > 1 /\ Unfolded(doc) # {} /\ b.id[1] \in {"toc-container", "toc-entry"}
  IN  \A i, j \in DOMAIN all :
        i < j /\ all[i].id = all[j].id =>
          \/ all[i].type = "Callout" /\ all[i].parts = <<all[j]>>
          \/ reread(all[i])

\* The lines a scanned paragraph records as printed are its own, in their order,
\* through every split and merge: the page is set by that record.
PrintedLinesAgree ==
  runs = 1 =>
    \A b \in Range(Live(doc)) :
      LiveExactText(b) /\ Has(b, "printed_lines") =>
        b.meta["printed_lines"] = [i \in DOMAIN b.lines |-> b.lines[i].words]

\* The marker of a list item and of a footnote, the label of a callout: cut from
\* the text they stand in a field of the block that has the text, and nowhere
\* else is a marker cut off but from a lone item.
MarksKept ==
  \A l \in GivenLines :
    l.mark # NoMark \/ l.label # "" =>
      \A b \in Range(Live(doc)) : b.type \in {"ListItem", "Footnote", "Callout"} =>
        \A t \in Range(b.lines) \cup UNION {Range(p.lines) : p \in Range(b.parts)} :
          t.words = l.words /\ t.words # <<>> =>
            \/ t.mark = l.mark /\ t.label = l.label
            \/ <<l.words, l.mark>> \in b.kept
            \/ <<l.words, [style |-> l.label, number |-> 0]>> \in b.kept

\* A line goes through splits and merges with its marker and its printed record.
LinesIntact == PrintedLinesAgree /\ MarksKept

\* An unknown block is left only where the last resolver does not look, inside a
\* list or a callout.
UnknownOnlyInside ==
  Analyzed /\ "UnknownResolver" \notin failures =>
    \A b \in Range(Children(doc)) : b.type = "Unknown" => b.tomb

\* Words are read in the order of the source: nothing but the order of a scanned
\* page's boxes, a title page and the rows of a table moves a word past another. A
\* list that runs over two pages has no box; read back from disk it has one of the
\* whole page, and goes to the top of it when the document is analyzed again.
SourceOrder ==
  LET source == Children(given)
      was == FlattenSeq([i \in DOMAIN source |->
               LET words == Words(source[i].lines)
               IN  [k \in DOMAIN words |-> [word |-> words[k], page |-> source[i].page]]])
      is == LiveWords(doc)
      live == Range(Live(doc))
      pages == {b.page : b \in {t \in live : t.type = "TitlePage"}}
      words(b) == UNION {Range(Words(p.lines)) : p \in Range(WithParts(b))}
      placed == UNION {words(b) : b \in {t \in live : t.type = "Table"}}
      unplaced == UNION {words(b) : b \in {t \in Range(Children(doc)) : t.rank = -1}}
      at == [w \in Range(is) \ unplaced |-> Min({i \in DOMAIN is : is[i] = w})]
  IN  \A i, j \in DOMAIN was :
        /\ i < j /\ was[i].page \notin pages
        /\ was[i].page # was[j].page \/ was[i].page \notin Scanned
        /\ {was[i].word, was[j].word} \subseteq DOMAIN at
        /\ ~({was[i].word, was[j].word} \subseteq placed)
        => at[was[i].word] < at[was[j].word]

\* The lines that come together in a cell, be it from rows above or below, stand
\* in it as they stand on the page.
CellsInOrder ==
  \A cell \in {b \in Range(Live(doc)) : b.type = "TableCell"} :
    LET lines == Boxed(CellText(cell))
    IN  \A i, j \in DOMAIN lines : i < j => Y0(lines[i].box) <= Y0(lines[j].box) + RowTolerance

OrderKept == SourceOrder /\ CellsInOrder

\* A paragraph that goes on from the column or page before names the one it goes on
\* from: the last live one in front of it, which no merge has emptied. When the
\* document was analyzed again, an agent's table may have replaced that one.
ContinuesIsBefore ==
  LET flow == SelectSeq(Children(doc), LAMBDA b : b.type = "Paragraph" /\ ~b.tomb)
      tables == {b \in Range(Children(doc)) : b.type = "Table" /\ Has(b, "source")}
      replaced(id) == runs > 1 /\ \E t \in tables : id \in t.id[2]
  IN  Analyzed =>
        \A i \in DOMAIN flow : Has(flow[i], "continues") =>
          \/ i > 1 /\ flow[i - 1].id = flow[i].meta["continues"]
          \/ replaced(flow[i].meta["continues"])

\* A caption and what it is the caption of name each other, and both are there.
CaptionsLinked ==
  LET live == {b \in Range(Children(doc)) : ~b.tomb}
  IN  \A b \in live :
        /\ b.type = "Caption" /\ b.meta["target_block_id"] # <<>> =>
             \E t \in live : t.id = b.meta["target_block_id"] /\ t.type # "Caption"
        /\ Has(b, "caption_id") =>
             \E c \in live : /\ c.id = b.meta["caption_id"] /\ c.type = "Caption"
                             /\ c.meta["target_block_id"] = b.id

\* An entry of the contents names a heading after the contents that has its
\* number or its title. Its page is the one its number is printed on; otherwise
\* one after the pages of all lower numbers, though not before those of higher
\* ones: the shift of the page before is taken for it.
ContentsLinked ==
  LET headings == Range(LinkHeadings(doc))
      tocs == {b \in Range(Children(doc)) : b.type = "Container" /\ doc.cont[b.id].semantic = "toc"}
      found(toc, e) ==
        \E h \in headings :
          /\ h.id = e.meta["anchor_id"] /\ ~h.tomb /\ h.page > toc.page
          /\ \/ HeadLine(doc, h).name = Head(e.lines).name
             \/ Head(e.lines).number # "" /\ HeadLine(doc, h).number = Head(e.lines).number
      map == [k \in FolioKinds |-> PageMap(doc, k)]
      onPage(e) ==
        \A p \in map[RefOf(e)[1]] :
          /\ p[2] = RefOf(e)[2] => e.meta["target_page"] = p[1]
          /\ p[2] < RefOf(e)[2] => e.meta["target_page"] > p[1]
  IN  \A toc \in tocs : \A e \in Range(doc.cont[toc.id].kids) :
        /\ Has(e, "anchor_id") => found(toc, e)
        /\ Has(e, "target_page") => onPage(e)

\* Under a heading stand only headings of a lower rank, and no block that is not
\* a heading holds others. The contents were given their rank before there were
\* headings.
HeadingsNest ==
  \A c \in DOMAIN doc.cont : \A b \in Range(doc.cont[c].kids) :
    b.type = "Container" /\ c \notin Range(doc.roots) =>
      doc.cont[b.id].level > doc.cont[c].level \/ doc.cont[b.id].semantic = "toc"

\* What has been translated is not translated again, not after a restart either:
\* the units are the same, and the blocks of one say so of each other.
SegmentsHold ==
  state \in {"translated", "stored"} =>
    \A u \in Range(Units(doc)) :
      (\E b \in Range(u.blocks) : Has(b, "translation")) => IsTranslated(u)

\* What a block says of another holds when all of them are done, and when the
\* document is translated.
ReferencesHold == ContinuesIsBefore /\ CaptionsLinked /\ ContentsLinked /\ SegmentsHold

\* The tree the analyzers build together: ids, ranks of headings, types.
TreeSound == TypeOK /\ IdsUnique /\ HeadingsNest /\ UnknownOnlyInside

-----------------------------------------------------------------------------
(* What is set of a document that has been analyzed *)

Complete == Analyzed \/ state \in {"translated", "stored"}

\* A table that cannot be set leaves no book at all.
CanBeBuilt == \A b \in Range(Children(doc)) : b.type = "Table" /\ ~b.tomb => ~CannotBeSet(b)

\* A frame gives a table rows under cells that have been told how far they go.
Framed(d) ==
  LET pages == {b.page : b \in {k \in Range(Children(d)) :
                  k.tomb /\ k.meta["tombstone_reason"] = "merged_into_table_frame"}}
  IN  UNION {UNION {Range(CellWords(c)) : c \in Range(t.parts)} :
               t \in {b \in Range(Children(d)) : b.type = "Table" /\ ~b.tomb /\ b.page \in pages}}

\* The linear builder sets every word that is left, but for those it has no way
\* to reach: NeverSet names them.
ToBeSet == Range(LiveWords(doc)) \ (NeverSet(doc) \cup Framed(doc))

EveryWordSet == Complete => ToBeSet \subseteq Range(Linear(doc))

\* And so do the pages, whatever their layout, but for headings of nothing.
EveryWordPlaced == Complete => ToBeSet \subseteq Range(Assembled(doc, FALSE)) \cup NeverPlaced(doc)

\* The book in the target language has every word or its translation, however
\* many units have been answered for and wherever a unit goes over to another
\* page; but not what is translated with a text that is left in the source.
SaysAll(words, book) == \A w \in words : w \in book \/ -w \in book

EveryWordTranslated ==
  state \in {"translated", "stored"} =>
    SaysAll(ToBeSet \ (NeverPlaced(doc) \cup Orphaned(doc)), Range(Assembled(doc, TRUE)))

\* Whatever the builder, each word that is left is set, if a book can be built.
EveryWordPrinted == CanBeBuilt => EveryWordSet /\ EveryWordPlaced /\ EveryWordTranslated

SaysOnce(words, pages) == \A w \in words : Len(SelectSeq(pages, LAMBDA v : v \in {w, -w})) <= 1

\* Of a document that was analyzed once the pages say no word twice, be it in a
\* paragraph or in a heading with blocks on several pages, in the source or in
\* its translation; what a title page says it may say of a heading too, and what
\* is left in the source may have been translated with what is not.
PagesSetOnce ==
  LET titles == {t \in Range(Children(doc)) : t.type = "TitlePage"}
      left == LET kept == LeftInSource(doc) IN {t \in Range(AllBlocks(doc)) : t.id \in kept}
      wordsOf(blocks) == UNION {WordsOf(Range(b.lines)) : b \in blocks}
      single == WordsOf(GivenLines) \ (wordsOf(titles) \cup Unfolded(doc))
  IN  /\ Complete /\ runs = 1 => SaysOnce(single, Assembled(doc, FALSE))
      /\ Complete /\ runs = 1 /\ ~Analyzed => SaysOnce(single \ wordsOf(left), Assembled(doc, TRUE))
=============================================================================
