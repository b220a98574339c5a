------------------------------ MODULE Scoring ------------------------------
(***************************************************************************)
(* The parsing metrics of dastavez/parsing.py, as score_page of            *)
(* bench/parsing_quality.py takes them of a converter's page: the gold     *)
(* page is split into blocks, a table or text is compared by edit          *)
(* distance, row by row of its matrix, and the converter's blocks are      *)
(* ranked by the gold blocks they match.  Texts are normalized, and        *)
(* sequences of characters; cells hold no pipe.                            *)
(***************************************************************************)
EXTENDS Naturals, Sequences, FiniteSets, SequencesExt

CONSTANTS
  Chars,  \* characters
  Space,  \* the one that normalize leaves between two words
  Match,  \* _CELL_MATCH_CHARS
  Inputs  \* what is scored: a gold page and output blocks, and two sequences of nodes

Texts == Seq(Chars)
Lines == [class : {"row", "prose", "blank"}, text : Texts]
Nodes == [label : {"table", "tr", "td"} \cup Chars, text : Texts]

ASSUME ScoringAssumption ==
  /\ Match \in Nat \ {0} /\ Space \in Chars
  /\ \A input \in Inputs :
       /\ input.page \in Seq(Lines) /\ input.out \in Seq(Texts)
       /\ input.a \in Seq(Nodes) /\ input.b \in Seq(Nodes)

VARIABLES
  page,      \* the lines of the gold page
  out,       \* the texts of the converter's blocks
  a,         \* the nodes of an output table, or the characters of an output text
  b,         \* those of the gold table or text
  line,      \* lines of the page that are split
  current,   \* places of the lines gathered for the block to come
  in_table,  \* the block to come is a table
  golds,     \* the gold blocks, as places of lines
  row,       \* nodes of a that were compared
  previous,  \* the row of distances they led to
  block,     \* output blocks that were ranked
  ranks      \* the gold blocks that they matched

pageVars == <<line, current, in_table, golds>>
vars == <<page, out, a, b, pageVars, row, previous, block, ranks>>

Least(numbers) == CHOOSE n \in numbers : \A m \in numbers : n <= m

(***************************************************************************)
(* Tables.                                                                 *)
(***************************************************************************)
\* html_table_to_markdown: rows without a character go, short ones are filled.
\* A markdown table is the sequence of its rows, the header first.
Widest(rows) == CHOOSE w \in {Len(r) : r \in Range(rows)} : \A r \in Range(rows) : Len(r) <= w
Markdown(html) ==
  LET rows == SelectSeq(html, LAMBDA r : \E c \in Range(r) : c # <<>>)
  IN  [k \in 1..Len(rows) |->
         [c \in 1..Widest(rows) |-> IF c <= Len(rows[k]) THEN rows[k][c] ELSE <<>>]]

Node(label, text) == [label |-> label, text |-> text]

\* The tree in document order.
TableNodes(table) ==
  LET tr(cells) == <<Node("tr", <<>>)>> \o [c \in 1..Len(cells) |-> Node("td", cells[c])]
  IN  FoldLeft(LAMBDA nodes, cells : nodes \o tr(cells), <<Node("table", <<>>)>>, table)

\* A text for levenshtein.
TextNodes(text) == [k \in 1..Len(text) |-> Node(text[k], <<>>)]

\* Mutation of Begin: one character less.
BeginShort(text) ==
  SubSeq(text, 1, IF Len(text) < Match - 1 THEN Len(text) ELSE Match - 1)

Begin(text) == SubSeq(text, 1, IF Len(text) < Match THEN Len(text) ELSE Match)
Starts(text, other) == IsPrefix(Begin(other), text)

CellClose(x, y) ==
  x = y \/ (x # <<>> /\ y # <<>> /\ (Starts(x, y) \/ Starts(y, x)))
Cost(x, y) == IF x.label = y.label /\ CellClose(x.text, y.text) THEN 0 ELSE 1

(***************************************************************************)
(* The gold page is split into blocks.                                     *)
(***************************************************************************)
Init ==
  /\ \E input \in Inputs :
       page = input.page /\ out = input.out /\ a = input.a /\ b = input.b
  /\ line = 0 /\ current = <<>> /\ in_table = FALSE /\ golds = <<>>
  /\ row = 0 /\ previous = [j \in 0..Len(b) |-> j]
  /\ block = 0 /\ ranks = <<>>

Flushed == IF current = <<>> THEN golds ELSE Append(golds, current)

\* Mutation of SplitLine: a table and the paragraph above it are one block.
SplitLineOnBlank ==
  /\ line < Len(page)
  /\ line' = line + 1
  /\ LET class == page[line + 1].class
     IN  /\ in_table' = (class = "row")
         /\ IF class = "blank"
            THEN golds' = Flushed /\ current' = <<>>
            ELSE golds' = golds /\ current' = Append(current, line + 1)
  /\ UNCHANGED <<page, out, a, b, row, previous, block, ranks>>

\* A blank line and the edge of a table end a block.
SplitLine ==
  /\ line < Len(page)
  /\ line' = line + 1
  /\ LET class == page[line + 1].class
         ends == class = "blank" \/ (class = "row") # in_table
         begun == IF ends THEN <<>> ELSE current
     IN  /\ in_table' = (class = "row")
         /\ golds' = IF ends THEN Flushed ELSE golds
         /\ current' = IF class = "blank" THEN <<>> ELSE Append(begun, line + 1)
  /\ UNCHANGED <<page, out, a, b, row, previous, block, ranks>>

SplitEnd ==
  /\ line = Len(page)
  /\ line' = line + 1
  /\ golds' = Flushed /\ current' = <<>>
  /\ UNCHANGED <<page, out, a, b, in_table, row, previous, block, ranks>>

Split == line = Len(page) + 1

(***************************************************************************)
(* Edit distance.                                                          *)
(***************************************************************************)
\* Mutation of NextRow: a changed node is counted with what stands above it.
NextRowShifted(r, before) ==
  LET now[j \in 0..Len(b)] ==
        IF j = 0 THEN r
        ELSE Least({now[j - 1] + 1, before[j] + 1, before[j] + Cost(a[r], b[j])})
  IN  now

NextRow(r, before) ==
  LET now[j \in 0..Len(b)] ==
        IF j = 0 THEN r
        ELSE Least({now[j - 1] + 1, before[j] + 1, before[j - 1] + Cost(a[r], b[j])})
  IN  now

CompareRow ==
  /\ Split /\ row < Len(a)
  /\ row' = row + 1
  /\ previous' = NextRow(row + 1, previous)
  /\ UNCHANGED <<page, out, a, b, pageVars, block, ranks>>

Compared == Split /\ row = Len(a)

(***************************************************************************)
(* Reading order.                                                          *)
(***************************************************************************)
Joined(above, text) == (IF above = <<>> THEN <<>> ELSE above \o <<Space>>) \o text
TextOf(places) ==
  LET text[k \in 0..Len(places)] ==
        IF k = 0 THEN <<>> ELSE Joined(text[k - 1], page[places[k]].text)
  IN  text[Len(places)]
Matching(text) ==
  {g \in 1..Len(golds) :
     LET gold == TextOf(golds[g]) IN gold # <<>> /\ (Starts(text, gold) \/ Starts(gold, text))}

\* Mutation of Rank: a block without a match is ranked all the same.
RankAll ==
  /\ Compared /\ block < Len(out)
  /\ block' = block + 1
  /\ LET found == Matching(out[block + 1])
     IN  ranks' = Append(ranks, IF found = {} THEN 0 ELSE Least(found))
  /\ UNCHANGED <<page, out, a, b, pageVars, row, previous>>

\* A block ranks as the first gold block it matches, if any.
Rank ==
  /\ Compared /\ block < Len(out)
  /\ block' = block + 1
  /\ LET text == out[block + 1]
         found == Matching(text)
     IN  ranks' = IF text = <<>> \/ found = {} THEN ranks ELSE Append(ranks, Least(found))
  /\ UNCHANGED <<page, out, a, b, pageVars, row, previous>>

Pairs(numbers) == {p \in (1..Len(numbers)) \X (1..Len(numbers)) : p[1] < p[2]}

Concordant(rs) == {p \in Pairs(rs) : rs[p[1]] < rs[p[2]]}
Discordant(rs) == {p \in Pairs(rs) : rs[p[1]] > rs[p[2]]}

\* The score is measured over the pairs that are not tied, if there are any:
\* its numerator, and its denominator.
Order ==
  LET up == Cardinality(Concordant(ranks))
      down == Cardinality(Discordant(ranks))
  IN  <<up - down, up + down>>

Next == SplitLine \/ SplitEnd \/ CompareRow \/ Rank

Spec == Init /\ [][Next]_vars

(***************************************************************************)
(* Properties.                                                             *)
(***************************************************************************)
TypeOK ==
  /\ page \in Seq(Lines)
  /\ out \in Seq(Texts) /\ a \in Seq(Nodes) /\ b \in Seq(Nodes)
  /\ line \in 0..(Len(page) + 1)
  /\ current \in Seq(1..Len(page)) /\ golds \in Seq(Seq(1..Len(page)))
  /\ in_table \in BOOLEAN
  /\ row \in 0..Len(a)
  /\ previous \in [0..Len(b) -> Nat]
  /\ block \in 0..Len(out)
  /\ ranks \in Seq(1..Len(golds))

\* A gold block is a whole table or a whole paragraph: the lines of one class
\* with nothing of it on either side, and no line with text is left out.
Class(p) == IF p \in 1..Len(page) THEN page[p].class ELSE "blank"
IsRun(places) ==
  LET first == places[1]  last == places[Len(places)]
  IN  /\ places = [k \in 1..(last - first + 1) |-> first + k - 1]
      /\ Class(first) # "blank"
      /\ \A p \in Range(places) : Class(p) = Class(first)
      /\ Class(first) \notin {Class(first - 1), Class(last + 1)}
SplitIsRuns ==
  Split => /\ \A g \in 1..Len(golds) : IsRun(golds[g])
           /\ \A g \in 1..(Len(golds) - 1) : golds[g][Len(golds[g])] < golds[g + 1][1]
           /\ UNION {Range(golds[g]) : g \in 1..Len(golds)}
                = {p \in 1..Len(page) : Class(p) # "blank"}

\* Every row of the matrix is the cheapest way to edit the beginning of one
\* sequence into the beginnings of the other, over all the ways to keep nodes of
\* the one for as many of the other, in order.
Place(x, places) == Cardinality({y \in places : y <= x})
Ways(m, n) ==
  {way \in [from : SUBSET (1..m), to : SUBSET (1..n)] :
     Cardinality(way.from) = Cardinality(way.to)}
Kept(way) ==
  {p \in way.from \X way.to : Place(p[1], way.from) = Place(p[2], way.to)}
EditCost(m, n, way) ==
  (m - Cardinality(way.from)) + (n - Cardinality(way.to))
    + Cardinality({p \in Kept(way) : Cost(a[p[1]], b[p[2]]) = 1})
Cheapest(m, n, ways) == Least({EditCost(m, n, way) : way \in ways})
RowIsOptimal ==
  \A j \in 0..Len(b) : previous[j] = Cheapest(row, j, Ways(row, j))

\* Of blocks that repeat gold blocks, each of which can be told from the others
\* by how it begins, the score counts every pair, and on its side.
Told ==
  /\ \A g \in 1..Len(golds) : Len(TextOf(golds[g])) >= Match
  /\ \A g, h \in 1..Len(golds) :
       g # h => SubSeq(TextOf(golds[g]), 1, Match) # SubSeq(TextOf(golds[h]), 1, Match)
IsAt(text, g) == text = TextOf(golds[g])
Repeats == \A k \in 1..Len(out) : \E g \in 1..Len(golds) : IsAt(out[k], g)
Repeated(k) == CHOOSE g \in 1..Len(golds) : IsAt(out[k], g)
OrderIsMeasured ==
  LET places == [k \in 1..Len(out) |-> Repeated(k)]
  IN  (Compared /\ block = Len(out) /\ Told /\ Repeats) =>
        Order = <<Cardinality({p \in Pairs(places) : places[p[1]] < places[p[2]]})
                    - Cardinality({p \in Pairs(places) : places[p[1]] > places[p[2]]}),
                  Cardinality({p \in Pairs(places) : places[p[1]] # places[p[2]]})>>

\* "For table-shaped trees this equals the tree edit distance" (parsing.py:138):
\* the edits of a tree must also keep which node stands above which.
Above(nodes, x, y) ==
  \/ x = 1 /\ y > 1
  \/ nodes[x].label = "tr" /\ x < y /\ \A z \in (x + 1)..y : nodes[z].label = "td"
KeepsTree(way) ==
  \A p, q \in Kept(way) : Above(a, p[1], q[1]) <=> Above(b, p[2], q[2])
TreeDistance ==
  Cheapest(Len(a), Len(b), {way \in Ways(Len(a), Len(b)) : KeepsTree(way)})
SequenceIsTree ==
  (Compared /\ a # <<>> /\ b # <<>> /\ a[1].label = "table" /\ b[1].label = "table") =>
    previous[Len(b)] = TreeDistance
=============================================================================
