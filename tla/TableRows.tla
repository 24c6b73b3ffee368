------------------------------- MODULE TableRows -------------------------------
(***************************************************************************)
(* How the lines of a block, or of blocks side by side, are put into the   *)
(* rows and cells of a table (analyzers/table/rules.py). Places are in     *)
(* thousandths of the page. What looks at the ink of the page is left out. *)
(*                                                                         *)
(* A piece is a line with the block it is from. A grid is a sequence of    *)
(* rows, a row one of cells; a cell is a block with a paragraph for each   *)
(* text it was given and its box in its metadata.                          *)
(***************************************************************************)
EXTENDS Blocks

SumOf(f) == FoldFunction(LAMBDA n, sum : n + sum, 0, f)

\* sorted(...)[len // 2].
Middle(numbers) == LET s == SortSeq(numbers, <) IN s[(Len(s) \div 2) + 1]

\* The first index at which a number is least.
Least(numbers) ==
  CHOOSE i \in DOMAIN numbers :
    \A j \in DOMAIN numbers : numbers[i] < numbers[j] \/ (numbers[i] = numbers[j] /\ i <= j)

Apart(a, b) == IF a < b THEN b - a ELSE a - b

-----------------------------------------------------------------------------
(* Thresholds: signals.py *)

MinTableRows == 3
MaxCellText == 120
MaxBlockHeight == 50
StepTolerance == 12
RowTolerance == 3        \* _ROW_Y_TOLERANCE and _ROW_GROUP_TOLERANCE
ProseLength == 60        \* _SINGLE_COL_PROSE_LEN
ValueLength == 40        \* _LABEL_VALUE_LEN
LabelAlign == 10

-----------------------------------------------------------------------------
(* Pieces of text *)

Separator(l) == l.reads = "separator"

\* Dots of a leader, or a letter far too small for one.
Residue(l) == l.reads = "residue"

\* _split_numeric_pair: numbers of one line are as many cells, their places a guess.
Pieces(l) ==
  LET n == Len(l.words)
      width == (X1(l.box) - X0(l.box)) \div n
  IN  IF l.reads # "numbers" \/ ~l.boxed \/ l.box = <<>> \/ n < 2 THEN <<l>>
      ELSE [i \in 1..n |->
             [l EXCEPT !.words = <<l.words[i]>>, !.chars = @ \div n,
                       !.box = <<X0(l.box) + (i - 1) * width, X0(l.box) + i * width, Y0(l.box), Y1(l.box)>>]]

\* _line_rows.
LineRows(b) ==
  LET lines == SelectSeq(b.lines, LAMBDA l : l.words # <<>> /\ ~Residue(l))
      all == FlattenSeq([i \in DOMAIN lines |-> Pieces(lines[i])])
  IN  [i \in DOMAIN all |-> [line |-> all[i], from |-> b.id]]

Fragments(b) == SelectSeq(LineRows(b), LAMBDA f : ~Separator(f.line))

Placed(f) == f.line.boxed /\ f.line.box # <<>>

Left(f) == IF Placed(f) THEN X0(f.line.box) ELSE 0

Top(f) == Y0(f.line.box)

LeftToRight(fragments) == Sorted(fragments, LAMBDA f, g : Left(f) < Left(g))

-----------------------------------------------------------------------------
(* Rows of pieces *)

RowTop(row) == Top(row[1])

Gaps(rows) == [k \in 1..(Len(rows) - 1) |-> RowTop(rows[k + 1]) - RowTop(rows[k])]

\* Ten times the limit: of more than two rows six tenths of the usual step.
StrayLimit(rows, gaps) ==
  LET pieces == FlattenSeq(rows)
  IN  IF Len(gaps) >= 2 THEN 6 * Middle(gaps)
      ELSE 10 * Middle([i \in DOMAIN pieces |-> Y1(pieces[i].line.box) - Top(pieces[i])])

MergeStrays(rows, gaps, limit) ==
  LET step(s, k) ==
        LET row == s.carry \o rows[k]
            label(other) == Len(row) = 1 /\ Len(other) > 1 /\ row[1].line.chars > 2
            above == RowTop(rows[k]) - Last(s.ys)
            toPrev == s.rows # <<>> /\ 10 * above < limit /\ ~label(Last(s.rows))
            toNext == /\ k < Len(rows) /\ 10 * gaps[k] < limit
                      /\ Len(rows[k]) < Len(rows[k + 1]) /\ ~label(rows[k + 1])
            back == toPrev /\ (toNext => above <= gaps[k])
        IN  CASE back -> [s EXCEPT !.rows[Len(s.rows)] = @ \o row, !.carry = <<>>]
              [] ~back /\ toNext -> [s EXCEPT !.carry = row]
              [] OTHER -> [rows |-> Append(s.rows, row), ys |-> Append(s.ys, RowTop(rows[k])), carry |-> <<>>]
  IN  IF Len(rows) < 2 \/ limit <= 0 THEN rows
      ELSE FoldLeft(step, [rows |-> <<>>, ys |-> <<>>, carry |-> <<>>], [k \in DOMAIN rows |-> k]).rows

\* _merge_stray_rows: a row much closer to its neighbour than rows are is part
\* of it; a piece alone is not, if it is a text and the neighbour a full row.
MergeStrayRows(rows) == MergeStrays(rows, Gaps(rows), StrayLimit(rows, Gaps(rows)))

\* What stands level with the first piece of a row is in it.
Level(pieces) ==
  FoldLeft(LAMBDA rows, f :
             IF rows # <<>> /\ Top(f) - RowTop(Last(rows)) < RowTolerance
             THEN [rows EXCEPT ![Len(rows)] = Append(@, f)] ELSE Append(rows, <<f>>),
           <<>>, Sorted(pieces, LAMBDA f, g : Top(f) < Top(g)))

\* _group_into_rows: what stands level, and then what has no place, each a row.
GroupIntoRows(fragments) ==
  LET inOrder(rows) == [i \in DOMAIN rows |-> LeftToRight(rows[i])]
      loose == SelectSeq(fragments, LAMBDA f : ~Placed(f))
  IN  inOrder(MergeStrayRows(Level(SelectSeq(fragments, Placed)))) \o [i \in DOMAIN loose |-> <<loose[i]>>]

-----------------------------------------------------------------------------
(* Cells *)

\* _make_cell.
MakeCell(line, from, span) ==
  LET text == [Block(<<"cell-text", line.words>>, "Paragraph", <<line>>) EXCEPT !.page = NoPage]
      cell == [Block(<<"cell", line.words>>, "TableCell", <<>>) EXCEPT !.page = NoPage, !.parts = <<text>>]
  IN  [cell EXCEPT !.meta = [box |-> IF line.boxed THEN line.box ELSE <<>>, row_span |-> span] @@
                            IF from = <<>> THEN <<>> ELSE [source_block_id |-> from]]

CellOf(f) == MakeCell(f.line, f.from, 1)

CellX0(cell) == IF cell.meta["box"] = <<>> THEN 0 ELSE X0(cell.meta["box"])
CellY0(cell) == IF cell.meta["box"] = <<>> THEN 0 ELSE Y0(cell.meta["box"])

ByColumn(row) == Sorted(row, LAMBDA c, d : CellX0(c) < CellX0(d))

CellText(cell) == FlattenSeq([i \in DOMAIN cell.parts |-> cell.parts[i].lines])

CellChars(cell) == SumOf([i \in DOMAIN CellText(cell) |-> CellText(cell)[i].chars])

BoxesOf(grid) ==
  {c.meta["box"] : c \in {d \in UNION {Range(row) : row \in Range(grid)} : d.meta["box"] # <<>>}}

\* The whole of a block as one line, of no place.
WholeText(b) ==
  [Plain(Words(b.lines)) EXCEPT !.boxed = FALSE, !.chars = SumOf([i \in DOMAIN b.lines |-> b.lines[i].chars])]

\* _join_fragments.
JoinFragments(f, g) ==
  LET in == LeftToRight(<<f, g>>)
      box == IF Placed(f) /\ Placed(g) THEN Hull({f.line.box, g.line.box})
             ELSE IF Placed(in[1]) THEN in[1].line.box ELSE in[2].line.box
  IN  [in[1] EXCEPT !.line.words = @ \o in[2].line.words, !.line.chars = @ + in[2].line.chars + 1,
                    !.line.box = box, !.line.boxed = Placed(f) \/ Placed(g)]

\* _local_column_bins: left edges, those close to one another once.
Bins(lefts, tolerance) ==
  FoldLeft(LAMBDA bins, x : IF bins # <<>> /\ x - Last(bins) < tolerance THEN bins ELSE Append(bins, x),
           <<>>, SortSeq(lefts, <))

NearestBin(x, bins) == Least([i \in DOMAIN bins |-> Apart(bins[i], x)])

CellsOf(rows) == [k \in DOMAIN rows |-> [i \in DOMAIN rows[k] |-> CellOf(rows[k][i])]]

\* The pieces of each row that are in a column, as one.
InColumn(row, column) ==
  LET at == SelectSeq([i \in DOMAIN row |-> i], LAMBDA i : column[i])
      in == [i \in DOMAIN at |-> row[at[i]]]
  IN  IF in = <<>> THEN <<>> ELSE <<FoldLeft(JoinFragments, Head(in), Tail(in))>>

\* A column with one piece, next to rows of several, is a cell over all of them.
RowsOfColumns(rows, columns) ==
  LET occupied(c) == {k \in DOMAIN rows : columns[k][c] # <<>>}
      spans(c) == /\ Cardinality(occupied(c)) = 1
                  /\ \A k \in 2..Len(rows) : Len(rows[k]) >= 2
                  /\ 1 \in occupied(c) \/ Len(rows) >= 3
      cell(k, c) ==
        CASE spans(c) /\ k = 1 ->
               LET f == columns[CHOOSE r \in occupied(c) : TRUE][c][1]
               IN  <<MakeCell(f.line, f.from, Len(rows))>>
          [] ~spans(c) /\ k \in occupied(c) -> <<CellOf(columns[k][c][1])>>
          [] OTHER -> <<>>
      row(k) == ByColumn(FlattenSeq([c \in DOMAIN columns[k] |-> cell(k, c)]))
  IN  SelectSeq([k \in DOMAIN rows |-> row(k)], LAMBDA r : r # <<>>)

\* The pieces of every row by columns: of their own when the rows are of one length, else by the bins.
Columns(rows, bins) ==
  LET parallel == \A k \in DOMAIN rows : Len(rows[k]) = Len(rows[1])
      column(k, i) == CASE parallel -> i
                        [] ~parallel /\ Placed(rows[k][i]) -> NearestBin(Left(rows[k][i]), bins)
                        [] OTHER -> 1
  IN  [k \in DOMAIN rows |->
        [c \in 1..Max({Len(bins)} \cup {Len(rows[m]) : m \in DOMAIN rows}) |->
          InColumn(rows[k], [i \in DOMAIN rows[k] |-> column(k, i) = c])]]

RowsInBins(rows, bins) ==
  IF Len(rows) = 1 THEN CellsOf(rows) ELSE RowsOfColumns(rows, Columns(rows, bins))

\* _rows_from_block: a block of no pieces is a cell by itself.
RowsFromBlock(b) ==
  LET fragments == Fragments(b)
      boxed == SelectSeq(fragments, Placed)
  IN  IF fragments = <<>> THEN <<<<MakeCell(WholeText(b), b.id, 1)>>>>
      ELSE RowsInBins(GroupIntoRows(fragments), Bins([i \in DOMAIN boxed |-> Left(boxed[i])], 20))

\* _rows_from_group: blocks at one height.
RowsFromGroup(blocks) ==
  LET fragments == FlattenSeq([i \in DOMAIN blocks |-> Fragments(blocks[i])])
      whole == [i \in DOMAIN blocks |-> MakeCell(WholeText(blocks[i]), blocks[i].id, 1)]
  IN  CASE Len(blocks) = 1 -> RowsFromBlock(blocks[1])
        [] Len(blocks) > 1 /\ fragments = <<>> -> <<whole>>
        [] OTHER -> CellsOf(GroupIntoRows(fragments))

HeaderOf(rows) ==
  LET over(f, g) == /\ Placed(f) /\ Placed(g)
                    /\ LET a == f.line.box
                           c == g.line.box
                           shared == Min({X1(a), X1(c)}) - Max({X0(a), X0(c)})
                       IN  2 * shared > Min({X1(a) - X0(a), X1(c) - X0(c)})
  IN  IF /\ Len(rows) = 1 /\ Len(rows[1]) >= 2
         /\ \A i, j \in DOMAIN rows[1] : i < j => ~over(rows[1][i], rows[1][j])
      THEN <<[i \in DOMAIN rows[1] |-> MakeCell(rows[1][i].line, <<>>, 1)]>> ELSE <<>>

\* _header_row_for_block: one row of several pieces that do not overlap, or none.
HeaderRow(b) == HeaderOf(GroupIntoRows(Fragments(b)))

\* _snap_row_to_columns: each cell to the column nearest to it.
SnapRow(row, grid) ==
  LET boxes == BoxesOf(grid)
      bins == Bins(SetToSeq({X0(b) : b \in boxes}), 30)
      snap(cell) ==
        LET box == cell.meta["box"]
            x == bins[NearestBin(X0(box), bins)]
        IN  IF boxes = {} \/ box = <<>> THEN cell
            ELSE Put(cell, "box", <<x, x + X1(box) - X0(box), Y0(box), Y1(box)>>)
  IN  [i \in DOMAIN row |-> snap(row[i])]

\* The grid of a table, its cells row by row.
Grid(t) ==
  LET length == IF Has(t, "rows") THEN t.meta["rows"] ELSE <<>>
      before(k) == SumOf(SubSeq(length, 1, k - 1))
  IN  [k \in DOMAIN length |-> SubSeq(t.parts, before(k) + 1, before(k) + length[k])]

WithGrid(t, grid) ==
  [Put(t, "rows", [k \in DOMAIN grid |-> Len(grid[k])]) EXCEPT !.parts = FlattenSeq(grid)]

\* _build_span_map: what the cells over several rows cover, by their index.
SpanMap(grid) ==
  UNION {UNION {{<<r, i>> : r \in (k + 1)..Min({k + grid[k][i].meta["row_span"] - 1, Len(grid)})} :
                  i \in DOMAIN grid[k]} : k \in DOMAIN grid}

-----------------------------------------------------------------------------
(* What reads as running text *)

\* _reads_as_prose: most rows are one run of words across the whole width. A
\* word is taken for six characters, a gap for what is wider than two and a half.
ReadsAsProse(grid) ==
  LET boxed(row) == ByColumn(SelectSeq(row, LAMBDA c : c.meta["box"] # <<>>))
      rows == SelectSeq([k \in DOMAIN grid |-> boxed(grid[k])], LAMBDA r : r # <<>>)
      hull == Hull(BoxesOf(grid))
      chars(row) == Max({1, SumOf([i \in DOMAIN row |-> CellChars(row[i])])})
      width(row) == SumOf([i \in DOMAIN row |-> X1(row[i].meta["box"]) - X0(row[i].meta["box"])])
      prose(row) ==
        /\ \A i \in 1..(Len(row) - 1) :
             2 * chars(row) * (X0(row[i + 1].meta["box"]) - X1(row[i].meta["box"])) <= 5 * width(row)
        /\ 10 * (X1(Last(row).meta["box"]) - X0(row[1].meta["box"])) >= 9 * (X1(hull) - X0(hull))
        /\ chars(row) >= 5 * 6
  IN  /\ rows # <<>> /\ X1(hull) > X0(hull)
      /\ 2 * Cardinality({k \in DOMAIN rows : prose(rows[k])}) > Len(rows)

\* _carried_on: more than half of the rows go on in small letters.
CarriedOn(rows) ==
  2 * Cardinality({k \in 2..Len(rows) : ~rows[k][1].line.capital}) > Len(rows) - 1

\* Not what is few or long, nor a column of few rows, of long or very short ones
\* or of sentences.
MakesGrid(fragments, rows) ==
  LET single == \A k \in DOMAIN rows : Len(rows[k]) <= 1
      chars == SumOf([k \in DOMAIN rows |->
                 SumOf([i \in DOMAIN rows[k] |-> rows[k][i].line.chars]) + Len(rows[k]) - 1])
  IN  /\ Len(fragments) >= MinTableRows /\ Len(rows) >= MinTableRows
      /\ \A i \in DOMAIN fragments : fragments[i].line.chars <= MaxCellText
      /\ ~ReadsAsProse(CellsOf(rows))
      /\ single => /\ Len(rows) >= 5 /\ chars <= ProseLength * Len(rows) /\ chars >= 15 * Len(rows)
                   /\ ~CarriedOn(rows)

GridOf(fragments, rows) == IF MakesGrid(fragments, rows) THEN <<CellsOf(rows)>> ELSE <<>>

\* _table_from_lines: the grid of a block that is a table by itself, or none.
TableFromLines(b) == GridOf(Fragments(b), GroupIntoRows(Fragments(b)))

-----------------------------------------------------------------------------
(* Labels and their values *)

\* Twice the height of its middle.
MiddleOf(f) == Top(f) + Y1(f.line.box)

\* Pieces are level when their middles are closer than a line is high.
LevelByMiddle(pieces) ==
  FoldLeft(LAMBDA rows, f :
             IF rows # <<>> /\ Apart(MiddleOf(f), MiddleOf(Last(rows)[1])) < Y1(f.line.box) - Top(f)
             THEN [rows EXCEPT ![Len(rows)] = Append(@, f)] ELSE Append(rows, <<f>>),
           <<>>, Sorted(pieces, LAMBDA f, g : MiddleOf(f) < MiddleOf(g)))

\* The label, and what is next to it as one.
LabelAndValue(row) == <<row[1], FoldLeft(JoinFragments, row[2], SubSeq(row, 3, Len(row)))>>

LabelsOf(rows) ==
  LET good(row) == /\ Len(row) >= 2 /\ row[1].line.reads = "label"
                   /\ LabelAndValue(row)[2].line.chars <= ValueLength
  IN  IF rows # <<>> /\ \A k \in DOMAIN rows : good(LeftToRight(rows[k]))
      THEN [k \in DOMAIN rows |-> LabelAndValue(LeftToRight(rows[k]))] ELSE <<>>

\* _label_rows: every row a label with a colon and what is next to it.
LabelRows(b) == LabelsOf(LevelByMiddle(SelectSeq(LineRows(b), Placed)))

TableOfLabels(rows) ==
  LET aligned(n) == LET lefts == {Left(rows[k][n]) : k \in DOMAIN rows} IN Max(lefts) - Min(lefts) <= LabelAlign
  IN  IF Len(rows) < MinTableRows \/ ~aligned(1) \/ ~aligned(2) THEN <<>> ELSE <<CellsOf(rows)>>

\* _label_table: the grid of blocks of labels in line, or none.
LabelTable(blocks) == TableOfLabels(FlattenSeq([i \in DOMAIN blocks |-> LabelRows(blocks[i])]))
=============================================================================
