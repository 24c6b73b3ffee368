----------------------------- MODULE TableDetector -----------------------------
(***************************************************************************)
(* TableDetectorAnalyzer (analyzers/table/analyzer.py): tables of blocks    *)
(* that stand in rows, of one block of many lines and of labels; the tables *)
(* it finds next to one another are one, and one in a frame takes what else *)
(* is in the frame.                                                         *)
(*                                                                          *)
(* Of the ink of a page there is the frame: the lines across it, <<y, x0,   *)
(* x1>>, and whether one goes down; `source` says that there is a page to   *)
(* look at. Tables told by their boxes alone are left out, and so is what   *)
(* the ink says of the print of a cell.                                     *)
(***************************************************************************)
EXTENDS TableRows, FinalAnalyzers

\* A block's box is that of its lines, a table's that of its cells.
BlockBox(b) ==
  LET boxes == IF b.type = "Table" THEN BoxesOf(Grid(b)) ELSE {l.box : l \in Range(b.lines)} \ {<<>>}
  IN  IF boxes = {} THEN <<>> ELSE Hull(boxes)

Chars(b) == SumOf([i \in DOMAIN b.lines |-> b.lines[i].chars]) + Len(b.lines) - 1

NewTable(blocks, grid) ==
  WithGrid(Across(Block(Composite("table", [i \in DOMAIN blocks |-> blocks[i].id]), "Table", <<>>), blocks), grid)

BuryAll(kids, at, reason) == [i \in DOMAIN kids |-> IF i \in at THEN Bury(kids[i], reason) ELSE kids[i]]

-----------------------------------------------------------------------------
(* Rows of one cell *)

\* The columns of the longest row.
ColumnBins(grid) ==
  LET longest == CHOOSE k \in DOMAIN grid :
                   \A m \in DOMAIN grid : Len(grid[m]) < Len(grid[k]) \/ (Len(grid[m]) = Len(grid[k]) /\ k <= m)
  IN  SortSeq([i \in DOMAIN grid[longest] |-> CellX0(grid[longest][i])], <)

ColumnOf(cell, bins) == NearestBin(CellX0(cell), bins)

FillsEmptyColumn(cell, row, bins) ==
  cell.meta["box"] # <<>> /\ \A c \in Range(row) : ColumnOf(c, bins) # ColumnOf(cell, bins)

FoldInto(target, orphan, above) ==
  [target EXCEPT
     !.parts = IF above THEN orphan.parts \o @ ELSE @ \o orphan.parts,
     !.meta["box"] = IF @ # <<>> /\ orphan.meta["box"] # <<>> THEN Hull({@, orphan.meta["box"]}) ELSE @]

NearestCell(row, cell) == Least([c \in DOMAIN row |-> Apart(CellX0(row[c]), CellX0(cell))])

\* What is to become of the row i of one cell: where it goes, [row, cell], and
\* whether it is a cell of its own there; it stays where it is of row 0.
OrphanGoes(grid, i) ==
  LET orphan == grid[i][1]
      bins == ColumnBins(grid)
      full == {j \in DOMAIN grid : Len(grid[j]) > 1}
      far(j) == Apart(CellY0(grid[j][NearestCell(grid[j], orphan)]), CellY0(orphan))
      own == {j \in full : /\ Has(orphan, "source_block_id")
                           /\ \E c \in Range(grid[j]) : /\ Has(c, "source_block_id")
                                                        /\ c.meta["source_block_id"] = orphan.meta["source_block_id"]}
      nearest == IF own # {}
                 THEN Min({j \in own : \A k \in own : far(j) <= far(k)})
                 ELSE Max({j \in full : \A k \in full : far(j) <= far(k) + 6})
      fills(j) == FillsEmptyColumn(orphan, grid[j], bins)
      above == {j \in full : j < i}
      below == {j \in full : j > i}
      both == above # {} /\ below # {} /\ fills(Max(above)) /\ fills(Min(below))
      at == NearestCell(grid[nearest], orphan)
      leftmost == at = Least([c \in DOMAIN grid[nearest] |-> CellX0(grid[nearest][c])])
  IN  CASE fills(nearest) ->
             [row |-> IF both THEN Max(above) ELSE nearest, cell |-> 0, below |-> IF both THEN Min(below) ELSE 0]
        [] ~fills(nearest) /\ ~(leftmost /\ CellChars(grid[nearest][at]) > 2 /\ CellChars(orphan) > 2) ->
             [row |-> nearest, cell |-> at, below |-> 0]
        [] OTHER -> [row |-> 0, cell |-> 0, below |-> 0]

\* Where a cell of its own goes in a row: to the cell of its column, if an earlier
\* one has got there first, else between the others.
Inserted(row, orphan, bins) ==
  LET held == {c \in DOMAIN row : ColumnOf(row[c], bins) = ColumnOf(orphan, bins)}
  IN  IF held = {} THEN ByColumn(Append(row, orphan))
      ELSE [row EXCEPT ![Min(held)] = FoldInto(@, orphan, CellY0(orphan) < CellY0(@))]

Orphans(grid) == {i \in DOMAIN grid : Len(grid[i]) = 1}

\* Nothing goes anywhere in a grid of few rows, or of none of several cells.
OrphansGo(grid) ==
  IF Len(grid) < 3 \/ \A j \in DOMAIN grid : Len(grid[j]) <= 1 THEN [i \in {} |-> 0]
  ELSE [i \in Orphans(grid) |-> OrphanGoes(grid, i)]

\* Fault: the rows above a row are put on it from the first one on.
OrphansFromTop(grid, goes) ==
  LET folded == {i \in DOMAIN goes : goes[i].row # 0}
      fold(g, i) == [g EXCEPT ![goes[i].row][IF goes[i].cell = 0 THEN 1 ELSE goes[i].cell] =
                       FoldInto(@, grid[i][1], goes[i].row > i)]
      rows == FoldLeft(fold, grid, SetToSortSeq(folded, <))
  IN  FlattenSeq([i \in DOMAIN rows |-> IF i \in folded THEN <<>> ELSE <<rows[i]>>])

\* Those for a row below are put on it from the last one up, so that they stay in
\* their order.
MoveOrphans(grid, goes) ==
  LET down == {i \in DOMAIN goes : goes[i].cell # 0 /\ goes[i].row > i}
      up == {i \in DOMAIN goes : goes[i].cell # 0 /\ goes[i].row <= i}
      new == {i \in DOMAIN goes : goes[i].row # 0 /\ goes[i].cell = 0}
      gone == {i \in DOMAIN goes : goes[i].row # 0}
      fold(g, i) == [g EXCEPT ![goes[i].row][goes[i].cell] = FoldInto(@, grid[i][1], goes[i].row > i)]
      insert(g, i) ==
        LET spans == /\ goes[i].below # 0
                     /\ \A k \in (goes[i].row + 1)..(goes[i].below - 1) : k \in gone
            cell == IF spans THEN Put(grid[i][1], "row_span", 2) ELSE grid[i][1]
        IN  [g EXCEPT ![goes[i].row] = Inserted(@, cell, ColumnBins(grid))]
      rows == FoldLeft(insert,
                FoldLeft(fold, grid, SetToSortSeq(down, >) \o SetToSortSeq(up, <)),
                SetToSortSeq(new, <))
  IN  FlattenSeq([i \in DOMAIN rows |-> IF i \in gone THEN <<>> ELSE <<rows[i]>>])

\* _merge_orphan_rows. Where each goes is told by the grid as it was.
MergeOrphanRows(grid) == MoveOrphans(grid, OrphansGo(grid))

-----------------------------------------------------------------------------
(* Cells over several rows *)

\* _on_its_own_line: level with its row, and above the next.
OnItsOwnLine(row, i, below) ==
  LET box == row[i].meta["box"]
      mates == SelectSeq([j \in DOMAIN row |-> IF j = i THEN <<>> ELSE row[j].meta["box"]], LAMBDA b : b # <<>>)
      under == {c.meta["box"] : c \in Range(below)} \ {<<>>}
      centre(b) == Y0(b) + Y1(b)
      height == Y1(box) - Y0(box)
  IN  /\ box # <<>> /\ mates # <<>> /\ under # {}
      /\ 2 * Apart(centre(box), Middle([j \in DOMAIN mates |-> centre(mates[j])])) < height
      /\ 4 * (Y1(box) - Min({Y0(b) : b \in under})) <= height

\* _infer_rowspans: the first cell of a column goes down to the next one.
InferRowspans(grid) ==
  LET bins == ColumnBins(grid)
      of(k, c) == {i \in DOMAIN grid[k] : ColumnOf(grid[k][i], bins) = c}
      first(c) == {k \in DOMAIN grid : of(k, c) # {} /\ \A m \in 1..(k - 1) : of(m, c) = {}}
      next(k, c) == Min({m \in (k + 1)..Len(grid) : of(m, c) # {}} \cup {Len(grid) + 1})
      opens(k, i) == {c \in DOMAIN bins : /\ first(c) = {k} /\ k < Len(grid) /\ i = Min(of(k, c))
                                          /\ of(k + 1, c) = {} /\ ~OnItsOwnLine(grid[k], i, grid[k + 1])}
      cell(k, i) == IF opens(k, i) = {} THEN grid[k][i]
                    ELSE Put(grid[k][i], "row_span", next(k, CHOOSE c \in opens(k, i) : TRUE) - k)
  IN  [k \in DOMAIN grid |-> [i \in DOMAIN grid[k] |-> cell(k, i)]]

-----------------------------------------------------------------------------
(* Tables of labels *)

\* _detect_label_tables: labelled blocks with no other live one between them.
LabelRuns(kids) ==
  LET labelled(b) == LiveText(b) /\ BlockBox(b) # <<>> /\ LabelRows(b) # <<>>
      add(runs, i) ==
        CASE ~labelled(kids[i]) /\ kids[i].tomb -> runs
          [] ~labelled(kids[i]) /\ ~kids[i].tomb -> Append(runs, <<>>)
          [] labelled(kids[i]) /\ runs # <<>> /\ Last(runs) # <<>>
             /\ kids[Last(Last(runs))].page = kids[i].page -> [runs EXCEPT ![Len(runs)] = Append(@, i)]
          [] OTHER -> Append(runs, <<i>>)
  IN  SelectSeq(FoldLeft(add, <<>>, [i \in DOMAIN kids |-> i]), LAMBDA run : run # <<>>)

\* Tables before the first of the blocks they are of, which go.
WithTables(kids, found) ==
  LET first(i) == SelectSeq(found, LAMBDA t : Min(t.of) = i)
      out == BuryAll(kids, UNION {found[n].gone : n \in DOMAIN found}, "merged_into_table")
  IN  FlattenSeq([i \in DOMAIN kids |-> (IF first(i) = <<>> THEN <<>> ELSE <<first(i)[1].table>>) \o <<out[i]>>])

LabelTables(kids) ==
  LET blocks(run) == [n \in DOMAIN run |-> kids[run[n]]]
      made(run, grids) ==
        [n \in DOMAIN grids |-> [of |-> Range(run), gone |-> Range(run),
                                 table |-> Put(NewTable(blocks(run), grids[n]), "label_table", TRUE)]]
      tables(runs) == FlattenSeq([n \in DOMAIN runs |-> made(runs[n], LabelTable(blocks(runs[n])))])
  IN  WithTables(kids, tables(LabelRuns(kids)))

-----------------------------------------------------------------------------
(* Tables of blocks in rows; a block is its index among the children here *)

XOverlaps(a, b) ==
  LET width == Min({X1(a) - X0(a), X1(b) - X0(b)})
  IN  width > 0 /\ 4 * (Min({X1(a), X1(b)}) - Max({X0(a), X0(b)})) >= width

\* _cluster_columns, _absorb_stray_columns.
ClusterColumns(kids, at) ==
  LET box(i) == BlockBox(kids[i])
      add(columns, i) ==
        LET fits == {c \in DOMAIN columns : XOverlaps(box(i), box(columns[c][1]))}
        IN  IF fits = {} THEN Append(columns, <<i>>) ELSE [columns EXCEPT ![Min(fits)] = Append(@, i)]
  IN  FoldLeft(add, <<>>, Sorted(at, LAMBDA i, j : X0(box(i)) < X0(box(j))))

AbsorbStrayColumns(kids, columns) ==
  LET tops(column) == {Y0(BlockBox(kids[i])) : i \in Range(column)}
      within(stray, host) == Min(tops(host)) - 10 <= Min(tops(stray)) /\ Max(tops(stray)) <= Max(tops(host)) + 10
      add(big, stray) ==
        LET hosts == {c \in DOMAIN big : within(stray, big[c])}
        IN  IF hosts = {} THEN Append(big, stray) ELSE [big EXCEPT ![Min(hosts)] = @ \o stray]
  IN  FoldLeft(add, SelectSeq(columns, LAMBDA c : Len(c) > 3), SelectSeq(columns, LAMBDA c : Len(c) <= 3))

\* _group_column_by_row.
GroupColumnByRow(kids, column) ==
  LET top(i) == Y0(BlockBox(kids[i]))
      add(groups, i) ==
        IF groups # <<>> /\ top(i) - top(Last(groups)[1]) < RowTolerance
        THEN [groups EXCEPT ![Len(groups)] = Append(@, i)] ELSE Append(groups, <<i>>)
  IN  FoldLeft(add, <<>>, Sorted(column, LAMBDA i, j : top(i) < top(j)))

RunsOf(groups, top) ==
  LET add(s, g) ==
        LET step == top[g] - top[g - 1]
        IN  CASE step < 5 -> [s EXCEPT !.run[Len(s.run)] = @ \o groups[g]]
              [] step >= 5 /\ s.step = 0 -> [s EXCEPT !.step = step, !.run = Append(@, groups[g])]
              [] step >= 5 /\ s.step # 0 /\ Apart(step, s.step) < StepTolerance ->
                   [s EXCEPT !.run = Append(@, groups[g])]
              [] step >= 5 /\ s.step # 0 /\ Apart(step, s.step) >= StepTolerance /\ Len(s.run) >= MinTableRows ->
                   [runs |-> Append(s.runs, s.run), run |-> <<groups[g]>>, step |-> 0]
              [] OTHER -> [s EXCEPT !.run = <<groups[g - 1], groups[g]>>, !.step = step]
      ended(s) == IF Len(s.run) >= MinTableRows THEN Append(s.runs, s.run) ELSE s.runs
  IN  IF Len(groups) < MinTableRows THEN <<>>
      ELSE ended(FoldLeft(add, [runs |-> <<>>, run |-> <<groups[1]>>, step |-> 0],
                          [g \in 1..(Len(groups) - 1) |-> g + 1]))

\* _find_table_runs: groups that go down by one step.
TableRuns(kids, column) ==
  LET groups == GroupColumnByRow(kids, column)
  IN  RunsOf(groups, [g \in DOMAIN groups |-> Y0(BlockBox(kids[groups[g][1]]))])

OneLineOf(b, Is(_)) == Len(b.lines) = 1 /\ Is(b.lines[1])

Boxful(b) == LiveText(b) /\ BlockBox(b) # <<>> /\ b.page # NoPage

Separators(kids) == {i \in DOMAIN kids : Boxful(kids[i]) /\ OneLineOf(kids[i], Separator)}

\* What may be in a table: short, low, and neither a line of dashes nor of dots.
Candidates(kids) ==
  SelectSeq([i \in DOMAIN kids |-> i], LAMBDA i :
    /\ Boxful(kids[i]) /\ i \notin Separators(kids) /\ ~OneLineOf(kids[i], Residue)
    /\ Y1(BlockBox(kids[i])) - Y0(BlockBox(kids[i])) <= MaxBlockHeight /\ Chars(kids[i]) <= MaxCellText)

\* A run from its first group of more than one cell on, if there is one.
RunFrom(run, rows) ==
  LET many == {g \in DOMAIN run : \E k \in DOMAIN rows[g] : Len(rows[g][k]) > 1}
      start == IF many # {} THEN Min(many) ELSE 1
  IN  [groups |-> SubSeq(run, start, Len(run)),
       grid |-> FlattenSeq(SubSeq(rows, start, Len(run))),
       many |-> many # {}]

RunRows(kids, run) == RunFrom(run, [g \in DOMAIN run |-> RowsFromGroup([n \in DOMAIN run[g] |-> kids[run[g][n]]])])

\* Blocks that stand in rows are a table unless there is but one column of few
\* rows, of very short ones or of sentences, and nothing is ruled off there.
MakesTable(kids, r) ==
  LET blocks == FlattenSeq(r.groups)
      ruled == Separators(kids) \cap UNION {{i - 1, i + 1} : i \in Range(blocks)} # {}
      single == \A i \in Range(blocks) : \A l \in Range(kids[i].lines) : l.reads # "tabbed"
      chars == SumOf([n \in DOMAIN blocks |-> Chars(kids[blocks[n]])])
      rows == Len(r.groups)
  IN  /\ rows >= MinTableRows
      /\ single /\ ~ruled => /\ rows >= 5 /\ chars >= 15 * rows
                             /\ ~r.many => chars <= ProseLength * rows
      /\ ~ReadsAsProse(r.grid)

\* The columns of a page; the runs of a column; those of a container, page by page.
PageColumns(kids, at) == AbsorbStrayColumns(kids, ClusterColumns(kids, at))

ColumnRuns(kids, columns) == FlattenSeq([c \in DOMAIN columns |-> TableRuns(kids, columns[c])])

ContainerRuns(kids, at) ==
  LET pages == SetToSortSeq({kids[i].page : i \in Range(at)}, <)
  IN  FlattenSeq([n \in DOMAIN pages |->
                    ColumnRuns(kids, PageColumns(kids, SelectSeq(at, LAMBDA i : kids[i].page = pages[n])))])

\* What a run becomes, if it makes a table: <<>> for none.
TableOfRun(kids, of, r) ==
  IF ~MakesTable(kids, r) THEN <<>>
  ELSE <<[of |-> Range(of), gone |-> Range(of),
          table |-> NewTable([n \in DOMAIN of |-> kids[of[n]]], InferRowspans(MergeOrphanRows(r.grid)))]>>

RunTable(kids, r) == TableOfRun(kids, FlattenSeq(r.groups), r)

FoundTables(kids, runs) == FlattenSeq([n \in DOMAIN runs |-> RunTable(kids, RunRows(kids, runs[n]))])

\* The rules of dashes beside what goes go with it.
WithSeparators(kids, found) ==
  LET members == UNION {found[n].of : n \in DOMAIN found}
      step(gone, i) == IF {i - 1, i + 1} \cap gone # {} THEN gone \cup {i} ELSE gone
      gone == FoldLeft(step, members, SetToSortSeq(Separators(kids), <))
  IN  [n \in DOMAIN found |-> [found[n] EXCEPT !.gone = gone]]

\* _process_container, up to where the blocks of a run give way to their table.
RunTables(kids) ==
  WithTables(kids, WithSeparators(kids, FoundTables(kids, ContainerRuns(kids, Candidates(kids)))))

-----------------------------------------------------------------------------
(* Tables of one block *)

BecomesTable(out, i, grid, head) ==
  LET table == [Become(out[i], "Table") EXCEPT !.lines = <<>>]
  IN  CASE grid = <<>> -> out
        [] grid # <<>> /\ head = <<>> -> [out EXCEPT ![i] = WithGrid(table, grid[1])]
        [] OTHER -> [out EXCEPT ![i] = WithGrid(table, <<SnapRow(head[1], grid[1])>> \o grid[1]),
                                ![i - 1] = Bury(@, "merged_into_table_header")]

\* _detect_single_block_tables: the table has the block's id and its place; the
\* block before it may be its header.
SingleBlockTables(kids) ==
  LET grid(b) == IF LiveText(b) THEN TableFromLines(b) ELSE <<>>
      head(out, i) == IF i = 1 THEN <<>> ELSE IF LiveText(out[i - 1]) THEN HeaderRow(out[i - 1]) ELSE <<>>
      step(out, i) == BecomesTable(out, i, grid(out[i]), head(out, i))
  IN  FoldLeft(step, kids, [i \in DOMAIN kids |-> i])

-----------------------------------------------------------------------------
(* Tables next to one another *)

\* Fault: short paragraphs behind the last table go with it.
ConsumeToTheEnd(kids, i) ==
  LET short(b) == LiveText(b) /\ Chars(b) <= MaxCellText \div 2 /\ ~OpensAs(b, CaptionReads)
      step(s, j) ==
        LET b == kids[j]
        IN  CASE s.end > 0 \/ b.tomb -> s
              [] s.end = 0 /\ ~b.tomb /\ b.page = kids[i].page /\ b.type = "Table" ->
                   [s EXCEPT !.grid = @ \o Grid(b), !.taken = @ \cup {j}]
              [] s.end = 0 /\ ~b.tomb /\ b.page = kids[i].page /\ short(b) -> [s EXCEPT !.taken = @ \cup {j}]
              [] OTHER -> [s EXCEPT !.end = j]
      start == [grid |-> Grid(kids[i]), taken |-> {}, rows |-> <<>>, pending |-> {}, end |-> 0]
  IN  FoldLeft(step, start, [n \in 1..(Len(kids) - i) |-> i + n])

\* What a table takes of what comes after it: the tables, and the short
\* paragraphs in front of one. What is tombstoned does not end it.
Consume(kids, i) ==
  LET short(b) == LiveText(b) /\ Chars(b) <= MaxCellText \div 2 /\ ~OpensAs(b, CaptionReads)
      step(s, j) ==
        LET b == kids[j]
        IN  CASE s.end > 0 \/ b.tomb -> s
              [] s.end = 0 /\ ~b.tomb /\ b.page = kids[i].page /\ b.type = "Table" ->
                   [s EXCEPT !.grid = @ \o s.rows \o Grid(b), !.taken = @ \cup s.pending \cup {j},
                             !.rows = <<>>, !.pending = {}]
              [] s.end = 0 /\ ~b.tomb /\ b.page = kids[i].page /\ short(b) ->
                   [s EXCEPT !.rows = @ \o RowsFromBlock(b), !.pending = @ \cup {j}]
              [] OTHER -> [s EXCEPT !.end = j]
      start == [grid |-> Grid(kids[i]), taken |-> {}, rows |-> <<>>, pending |-> {}, end |-> 0]
  IN  FoldLeft(step, start, [n \in 1..(Len(kids) - i) |-> i + n])

\* _merge_adjacent_tables: it does not ask whether the first is tombstoned.
MergeAdjacent(kids) ==
  LET reason(b) == IF b.type = "Table" THEN "merged_into_adjacent_table" ELSE "merged_into_table_row"
      merged(out, i, eaten) ==
        [j \in DOMAIN out |->
           IF j = i THEN WithGrid(out[i], eaten.grid)
           ELSE IF j \in eaten.taken THEN Bury(out[j], reason(out[j])) ELSE out[j]]
      eat(s, i, eaten) ==
        IF i < s.next \/ s.out[i].type # "Table" THEN s
        ELSE IF eaten.taken = {} THEN s
        ELSE [out |-> merged(s.out, i, eaten), next |-> IF eaten.end > 0 THEN eaten.end ELSE Len(kids) + 1]
      step(s, i) == eat(s, i, Consume(s.out, i))
  IN  FoldLeft(step, [out |-> kids, next |-> 1], [i \in DOMAIN kids |-> i]).out

-----------------------------------------------------------------------------
(* Tables in a frame *)

\* _absorb_into, region: whether what is between two heights is in the frame: no
\* sentence or caption and no gap, or all of it where a line goes down.
InFrame(blocks, lo, hi, rule, ruled, gap) ==
  LET inside == {b \in blocks : Y0(BlockBox(b)) >= lo - 5 /\ Y1(BlockBox(b)) <= hi + 5}
      ys == SortSeq(<<lo, hi>> \o SetToSeq(UNION {{Y0(BlockBox(b)), Y1(BlockBox(b))} : b \in inside}), <)
  IN  /\ \A b \in inside :
           /\ X0(BlockBox(b)) >= rule[2] - 5 /\ X1(BlockBox(b)) <= rule[3] + 5
           /\ ruled \/ b.type = "Table" \/ (Chars(b) <= MaxCellText /\ ~OpensAs(b, CaptionReads))
      /\ ruled \/ inside = {} \/ \A n \in 1..(Len(ys) - 1) : ys[n + 1] - ys[n] <= gap

\* How far the frame goes from a height over the rules in their order.
Reach(from, rules, Fits(_, _)) ==
  FoldLeft(LAMBDA s, r : IF s.ended \/ ~Fits(s.y, r) THEN [s EXCEPT !.ended = TRUE] ELSE [s EXCEPT !.y = r[1]],
           [y |-> from, ended |-> FALSE], rules).y

\* The live blocks and tables of the table's page.
BesideTable(kids, table) ==
  {b \in Range(kids) : /\ TextBlock(b) \/ b.type = "Table"
                       /\ ~b.tomb /\ b # table /\ BlockBox(b) # <<>> /\ b.page = table.page}

\* Three times the usual step of the table's rows.
UsualGap(steps) == IF steps = <<>> THEN 50 ELSE 3 * Middle(steps)

StepsOf(tops) == [n \in 1..(Len(tops) - 1) |-> tops[n + 1] - tops[n]]

WidestGap(table) == UsualGap(StepsOf(SetToSortSeq({Y0(b) : b \in BoxesOf(Grid(table))}, <)))

\* How far up, and how far down, the frame of a table's box goes.
FrameTop(blocks, box, gap, ink) ==
  Reach(Y0(box), SetToSortSeq({r \in ink.rules : r[1] < Y0(box)}, LAMBDA r, q : r[1] > q[1]),
        LAMBDA y, r : InFrame(blocks, r[1], y, r, ink.ruled, gap))

FrameEnd(blocks, box, gap, ink) ==
  Reach(Y1(box), SetToSortSeq({r \in ink.rules : r[1] > Y1(box)}, LAMBDA r, q : r[1] < q[1]),
        LAMBDA y, r : InFrame(blocks, y, r[1], r, ink.ruled, gap))

Within(b, top, end, rules) ==
  /\ Y0(b) >= top - 5 /\ Y1(b) <= end + 5
  /\ X0(b) >= Min({r[2] : r \in rules}) - 5 /\ X1(b) <= Max({r[3] : r \in rules}) + 5

Framing(kids, blocks, top, end, rules) ==
  {j \in DOMAIN kids : kids[j] \in blocks /\ Within(BlockBox(kids[j]), top, end, rules)}

\* What of the blocks is in the frame with the table.
InsideFrame(kids, blocks, box, gap, ink) ==
  Framing(kids, blocks, FrameTop(blocks, box, gap, ink), FrameEnd(blocks, box, gap, ink), ink.rules)

RowsTaken(b) == IF b.type = "Table" THEN Grid(b) ELSE RowsFromBlock(b)

RowHeight(row) ==
  LET boxed == {c \in Range(row) : c.meta["box"] # <<>>}
  IN  IF boxed = {} THEN 0 ELSE Min({CellY0(c) : c \in boxed})

\* The table with what it takes, its rows by their heights.
GridTaking(kids, i, order) ==
  Sorted(Grid(kids[i]) \o FlattenSeq([n \in DOMAIN order |-> RowsTaken(kids[order[n]])]),
         LAMBDA a, b : RowHeight(a) < RowHeight(b))

Absorbed(kids, i, taken) ==
  LET reason(b) == IF b.type = "Table" THEN "merged_into_adjacent_table" ELSE "merged_into_table_frame"
      out == [j \in DOMAIN kids |-> IF j \in taken THEN Bury(kids[j], reason(kids[j])) ELSE kids[j]]
  IN  IF taken = {} THEN kids
      ELSE [out EXCEPT ![i] = WithGrid(@, InferRowspans(MergeOrphanRows(GridTaking(kids, i, SetToSortSeq(taken, <)))))]

AbsorbInto(kids, i, ink) ==
  IF kids[i].type # "Table" \/ kids[i].tomb \/ BlockBox(kids[i]) = <<>> \/ ink.rules = {} THEN kids
  ELSE Absorbed(kids, i, InsideFrame(kids, BesideTable(kids, kids[i]), BlockBox(kids[i]), WidestGap(kids[i]), ink))

AbsorbFramedRows(kids, ink) == FoldLeft(LAMBDA out, i : AbsorbInto(out, i, ink), kids, [i \in DOMAIN kids |-> i])

\* _fold_label_rows: a label beside the rows above and below it, with no rule
\* between, goes into the row above.
FoldLabelRows(grid, rules) ==
  LET boxes(row) == SelectSeq([i \in DOMAIN row |-> row[i].meta["box"]], LAMBDA b : b # <<>>)
      \* twice the centre, times the number of boxes
      centre(row) == SumOf([n \in DOMAIN boxes(row) |-> Y0(boxes(row)[n]) + Y1(boxes(row)[n])])
      ruled(a, b) == \E r \in rules : /\ centre(a) < 2 * r[1] * Len(boxes(a))
                                      /\ 2 * r[1] * Len(boxes(b)) < centre(b)
      beside(box, row) == \A n \in DOMAIN boxes(row) : ~XOverlaps(box, boxes(row)[n])
      spanned == {p[1] : p \in SpanMap(grid)}
      step(kept, i) ==
        LET label == boxes(grid[i])
        IN  IF /\ Len(grid[i]) = 1 /\ label # <<>> /\ kept # <<>> /\ i < Len(grid) /\ i \notin spanned
               /\ boxes(Last(kept)) # <<>> /\ CellChars(grid[i][1]) > 2
               /\ ~ruled(Last(kept), grid[i]) /\ beside(label[1], Last(kept)) /\ beside(label[1], grid[i + 1])
            THEN [kept EXCEPT ![Len(kept)] = ByColumn(@ \o grid[i])]
            ELSE Append(kept, grid[i])
  IN  FoldLeft(step, <<>>, [i \in DOMAIN grid |-> i])

\* _mark_borders, of which only the rows are left.
MarkBorders(kids, ink) ==
  [i \in DOMAIN kids |->
     IF kids[i].type = "Table" /\ ~kids[i].tomb /\ ~Has(kids[i], "label_table") /\ BlockBox(kids[i]) # <<>>
     THEN WithGrid(kids[i], FoldLabelRows(Grid(kids[i]), ink.rules)) ELSE kids[i]]

\* A container of few short blocks has no rows, and its tables are not merged.
ContainerTables(kids) ==
  IF Len(Candidates(kids)) < MinTableRows THEN SingleBlockTables(kids)
  ELSE MergeAdjacent(SingleBlockTables(RunTables(kids)))

Inked(found, ink) ==
  IF ~ink.source THEN found
  ELSE EachContainer(found, LAMBDA kids : MarkBorders(AbsorbFramedRows(kids, ink), ink))

\* TableDetectorAnalyzer.run.
TableDetector(doc, ink) == Inked(EachContainer(EachContainer(doc, LabelTables), ContainerTables), ink)
=============================================================================
