------------------------------- MODULE Blocks -------------------------------
(***************************************************************************)
(* From the pages of a document to its clean blocks: the adapters of       *)
(* dastavez/ingest/converters.py turn what a library returns into blocks,  *)
(* and dastavez/ingest/cleaning.py takes the running headers and footers   *)
(* out of them.  A text is a sequence of lines.                            *)
(***************************************************************************)
EXTENDS Integers, Sequences, FiniteSets, Functions

CONSTANTS
  Lines,      \* lines of text, stripped
  Blank,      \* the empty one
  Short,      \* lines of FURNITURE_MAX_CHARS or less
  Broken,     \* lines that end within a word, in a hyphen
  Continued,  \* lines that begin with a lowercase letter
  Mapped,     \* every line, without the glyphs that had no character
  Documents   \* the documents: sequences of pages, each a sequence of things

\* A thing on a page: what it is, its lines, and whether a library finds out
\* where it is and, if it is a table, can export it.
Things == [what : {"heading", "text", "table", "picture"}, text : Seq(Lines),
           placed : BOOLEAN, exports : BOOLEAN]

ASSUME BlocksAssumption ==
  /\ Blank \in Short \ (Broken \cup Continued)
  /\ Short \subseteq Lines /\ Broken \subseteq Lines /\ Continued \subseteq Lines
  /\ Mapped \in [Lines -> Lines] /\ Mapped[Blank] = Blank
  /\ Documents \subseteq Seq(Seq(Things))

Converters == {"pypdf", "docling", "marker", "mineru"}
Arms == {"none", "strip"}

VARIABLES
  doc,        \* the document
  converter,  \* who converts it
  arm,        \* the cleaning arm
  taken,      \* how many of the library's items were looked at
  blocks,     \* the blocks made of them
  failed,     \* the conversion raised
  counted,    \* the pages whose lines are counted
  seen,       \* on how many of them each line stands
  cleaned,    \* the blocks made clean
  done        \* cleaning is over

vars == <<doc, converter, arm, taken, blocks, failed, counted, seen, cleaned, done>>

(***************************************************************************)
(* Sequences, by functions that a proof can unfold.                        *)
(***************************************************************************)
\* Several sequences in a row.
Concat(seqs) ==
  LET upTo[k \in 0..Len(seqs)] == IF k = 0 THEN <<>> ELSE upTo[k - 1] \o seqs[k]
  IN  upTo[Len(seqs)]

\* The numbers of S up to n, in order, and what stands at these places.
InOrder(S, n) ==
  LET upTo[k \in 0..n] ==
        IF k = 0 THEN <<>> ELSE IF k \in S THEN Append(upTo[k - 1], k) ELSE upTo[k - 1]
  IN  upTo[n]
At(seq, places) == [i \in 1..Len(places) |-> seq[places[i]]]
Select(seq, S) == At(seq, InOrder(S, Len(seq)))

First(S) == CHOOSE i \in S : \A j \in S : i <= j
Last(S) == CHOOSE i \in S : \A j \in S : j <= i

(***************************************************************************)
(* What stands on a page, and what the libraries make of it.               *)
(***************************************************************************)
\* pypdf: the text of every page, in one piece.
PypdfItems ==
  [n \in 1..Len(doc) |->
     [page |-> n, text |-> Concat([k \in 1..Len(doc[n]) |->
                             IF doc[n][k].what = "picture" THEN <<>> ELSE doc[n][k].text])]]

\* Docling: things by class, with the pages they come from; a table carries no
\* text, and is exported with its document.
DoclingTypes == [heading |-> "SectionHeaderItem", text |-> "TextItem",
                 table |-> "TableItem", picture |-> "PictureItem"]
DoclingItem(n, thing) ==
  [type |-> DoclingTypes[thing.what],
   prov |-> IF thing.placed THEN <<0, n>> ELSE <<0>>,
   text |-> IF thing.what \in {"heading", "text"} THEN thing.text ELSE <<>>,
   data |-> thing.what = "table",
   export |-> IF thing.exports THEN thing.text ELSE <<>>]
DoclingItems == Concat([n \in 1..Len(doc) |-> [k \in 1..Len(doc[n]) |-> DoclingItem(n, doc[n][k])]])

\* Marker: pages of children that are numbered from zero; the lines of a text
\* come once more as a child of their own.
MarkerTypes == [heading |-> "SectionHeader", text |-> "Text",
                table |-> "Table", picture |-> "Picture"]
MarkerItem(n, type, thing) == [type |-> type, page_id |-> n - 1, text |-> thing.text]
MarkerChildren(n, thing) ==
  <<MarkerItem(n, MarkerTypes[thing.what], thing)>>
    \o (IF thing.what = "text" THEN <<MarkerItem(n, "Line", thing)>> ELSE <<>>)
MarkerItems ==
  Concat([n \in 1..Len(doc) |->
            Concat([k \in 1..Len(doc[n]) |-> MarkerChildren(n, doc[n][k])])])

\* MinerU: the rows of its content list, whose pages are numbered from zero;
\* headings are texts with a level.
MineruTypes == [heading |-> "text", text |-> "text", table |-> "table", picture |-> "image"]
MineruRow(n, thing) ==
  [type |-> MineruTypes[thing.what],
   page_idx |-> IF thing.placed THEN n - 1 ELSE -1,
   leveled |-> thing.what = "heading",
   text |-> thing.text]
MineruRows == Concat([n \in 1..Len(doc) |-> [k \in 1..Len(doc[n]) |-> MineruRow(n, doc[n][k])]])

ItemsOf(name) == CASE name = "pypdf" -> PypdfItems
                   [] name = "docling" -> DoclingItems
                   [] name = "marker" -> MarkerItems
                   [] name = "mineru" -> MineruRows
Items == ItemsOf(converter)

(***************************************************************************)
(* The adapters.                                                           *)
(***************************************************************************)
Block(text, page, kind) == [text |-> text, page |-> page, kind |-> kind]

\* Blank lines at either end go.
Trim(text) ==
  LET solid == {i \in 1..Len(text) : text[i] # Blank}
  IN  IF solid = {} THEN <<>> ELSE SubSeq(text, First(solid), Last(solid))

StripUnmapped(text) == [i \in 1..Len(text) |-> Mapped[text[i]]]

\* What is left may be lines without a character, which is a text all the same.
IsEmpty(text) == text \in {<<>>, <<Blank>>}

Init ==
  /\ doc \in Documents
  /\ converter \in Converters /\ arm \in Arms
  /\ taken = 0 /\ blocks = <<>> /\ failed = FALSE
  /\ counted = {} /\ seen = [l \in Lines |-> 0]
  /\ cleaned = <<>> /\ done = FALSE

Converted == failed \/ taken = Len(Items)
Left(name) == converter = name /\ ~failed /\ taken < Len(Items)
Item == Items[taken + 1]

Take(new) ==
  /\ taken' = taken + 1
  /\ blocks' = blocks \o new
  /\ UNCHANGED <<doc, converter, arm, failed, counted, seen, cleaned, done>>

\* A page is one block of no kind.
PypdfBlocks(page) ==
  LET text == StripUnmapped(Trim(page.text))
  IN  IF Trim(text) = <<>> THEN <<>> ELSE <<Block(text, page.page, "None")>>
TakePypdf == Left("pypdf") /\ Take(PypdfBlocks(Item))

\* The first page that a Docling item is from; 0 if there is none.
PageOf(item) ==
  LET entries == {i \in 1..Len(item.prov) : item.prov[i] >= 1}
  IN  IF entries = {} THEN 0 ELSE item.prov[First(entries)]

DoclingText(item) ==
  IF Trim(item.text) # <<>> THEN Trim(item.text)
  ELSE IF item.data THEN Trim(item.export) ELSE <<>>

\* Items that no citation could point at are dropped.
DoclingBlocks(item) ==
  LET text == StripUnmapped(DoclingText(item))
  IN  IF PageOf(item) = 0 \/ IsEmpty(text) THEN <<>>
      ELSE <<Block(text, PageOf(item), item.type)>>
TakeDocling == Left("docling") /\ Take(DoclingBlocks(Item))

MarkerKinds == [SectionHeader |-> "SectionHeaderItem", Text |-> "TextItem",
                ListItem |-> "ListItem", Table |-> "TableItem",
                Caption |-> "CaptionItem", Footnote |-> "FootnoteItem"]

\* Mutation of MarkerBlocks: pages are counted from zero.
MarkerBlocksZero(item) ==
  LET text == StripUnmapped(Trim(item.text))
  IN  IF item.type \notin DOMAIN MarkerKinds \/ IsEmpty(text) THEN <<>>
      ELSE <<Block(text, item.page_id, MarkerKinds[item.type])>>

\* Containers are left to what they contain.
MarkerBlocks(item) ==
  LET text == StripUnmapped(Trim(item.text))
  IN  IF item.type \notin DOMAIN MarkerKinds \/ IsEmpty(text) THEN <<>>
      ELSE <<Block(text, item.page_id + 1, MarkerKinds[item.type])>>
TakeMarker == Left("marker") /\ Take(MarkerBlocks(Item))

\* Mutation of MineruKind: a heading is a text like any other.
MineruKindFlat(row) == IF row.type = "table" THEN "TableItem" ELSE "TextItem"

MineruKind(row) ==
  IF row.type = "table" THEN "TableItem"
  ELSE IF row.leveled THEN "SectionHeaderItem" ELSE "TextItem"
MineruBlocks(row) ==
  LET text == StripUnmapped(Trim(row.text))
  IN  IF row.page_idx < 0 \/ row.type = "image" \/ IsEmpty(text) THEN <<>>
      ELSE <<Block(text, row.page_idx + 1, MineruKind(row))>>
TakeMineru == Left("mineru") /\ Take(MineruBlocks(Item))

\* The command is missing, fails, or leaves no content list that parses.
FailMineru ==
  /\ Left("mineru") /\ taken = 0
  /\ failed' = TRUE
  /\ UNCHANGED <<doc, converter, arm, taken, blocks, counted, seen, cleaned, done>>

(***************************************************************************)
(* Cleaning.                                                               *)
(***************************************************************************)
PagesOf(bs) == {bs[i].page : i \in 1..Len(bs)}
LinesOn(page) ==
  UNION {Range(blocks[i].text) : i \in {j \in 1..Len(blocks) : blocks[j].page = page}}

\* FURNITURE_SHARE of the pages with a block on them, and no less than three.
Threshold ==
  LET share == (Cardinality(PagesOf(blocks)) * 3) \div 5
  IN  IF share > 3 THEN share ELSE 3

Counting == Converted /\ ~failed /\ arm = "strip" /\ Cardinality(PagesOf(blocks)) >= 3

\* Mutation of CountPage: every occurrence counts.
CountOccurrences ==
  /\ Counting
  /\ \E p \in PagesOf(blocks) \ counted :
       /\ \A q \in PagesOf(blocks) \ counted : p <= q
       /\ counted' = counted \cup {p}
       /\ seen' = [l \in Lines |-> seen[l] +
            (IF l \in Short
             THEN Cardinality(UNION {{<<i, k>> : k \in {m \in DOMAIN blocks[i].text :
                                        blocks[i].page = p /\ blocks[i].text[m] = l}} :
                                     i \in 1..Len(blocks)})
             ELSE 0)]
  /\ UNCHANGED <<doc, converter, arm, taken, blocks, failed, cleaned, done>>

\* A line counts once on every page that has it.
CountPage ==
  /\ Counting
  /\ \E p \in PagesOf(blocks) \ counted :
       /\ \A q \in PagesOf(blocks) \ counted : p <= q
       /\ counted' = counted \cup {p}
       /\ seen' = [l \in Lines |->
            IF l \in Short \ {Blank} /\ l \in LinesOn(p) THEN seen[l] + 1 ELSE seen[l]]
  /\ UNCHANGED <<doc, converter, arm, taken, blocks, failed, cleaned, done>>

Furniture == IF Counting THEN {l \in Lines : seen[l] >= Threshold} ELSE {}

\* A broken word is joined to what continues it, over blank lines: the text as
\* pairs of a line and whether it follows the one before it within a word.
Meets(text, j) ==
  /\ text[j] \in Continued
  /\ \E i \in 1..(j - 1) :
       text[i] \in Broken /\ \A k \in (i + 1)..(j - 1) : text[k] = Blank
Swallowed(text, k) ==
  /\ text[k] = Blank
  /\ \E j \in (k + 1)..Len(text) :
       Meets(text, j) /\ \A m \in k..(j - 1) : text[m] = Blank
Rejoined(text) ==
  LET places == InOrder({k \in 1..Len(text) : ~Swallowed(text, k)}, Len(text))
  IN  [i \in 1..Len(places) |-> <<text[places[i]], Meets(text, places[i])>>]

Without(text) == Select(text, {i \in 1..Len(text) : text[i] \notin Furniture})

\* Mutation of Clean: words are rejoined before the furniture is out.
CleanLate(text) ==
  LET joined == Rejoined(Trim(text))
  IN  Select(joined, {i \in 1..Len(joined) : joined[i][1] \notin Furniture})

Clean(text) == Rejoined(Trim(Without(text)))

AsIs(text) == [i \in 1..Len(text) |-> <<text[i], FALSE>>]

\* strip_furniture drops the blocks that it empties; no_cleaning drops none.
Cleaned ==
  LET all == [i \in 1..Len(blocks) |->
                [blocks[i] EXCEPT !.text = IF arm = "strip" THEN Clean(@) ELSE AsIs(@)]]
  IN  Select(all, {i \in 1..Len(all) : arm = "none" \/ all[i].text # <<>>})

CleanAll ==
  /\ Converted /\ ~failed /\ ~done
  /\ Counting => counted = PagesOf(blocks)
  /\ cleaned' = Cleaned /\ done' = TRUE
  /\ UNCHANGED <<doc, converter, arm, taken, blocks, failed, counted, seen>>

Next ==
  \/ TakePypdf \/ TakeDocling \/ TakeMarker \/ TakeMineru \/ FailMineru
  \/ CountPage \/ CleanAll

Spec == Init /\ [][Next]_vars

(***************************************************************************)
(* Properties.                                                             *)
(***************************************************************************)

Texts == Seq(Lines)
Kinds == {"None"} \cup Range(MarkerKinds)

TypeOK ==
  /\ doc \in Seq(Seq(Things))
  /\ converter \in Converters /\ arm \in Arms
  /\ taken \in 0..Len(Items)
  /\ blocks \in Seq([text : Texts, page : 1..Len(doc), kind : Kinds])
  /\ failed \in BOOLEAN /\ done \in BOOLEAN
  /\ counted \subseteq PagesOf(blocks)
  /\ seen \in [Lines -> 0..Cardinality(counted)]
  /\ cleaned \in Seq([text : Seq(Lines \X BOOLEAN), page : 1..Len(doc), kind : Kinds])

\* Whatever a library calls things and wherever it starts to count pages, its
\* blocks are things of the page they cite, once each, in their order, and
\* headings and tables are what the splitters look for (chunking.py:23).
KindOf == [heading |-> "SectionHeaderItem", text |-> "TextItem",
           table |-> "TableItem", picture |-> "PictureItem"]
BlocksOn(n) == {i \in 1..Len(blocks) : blocks[i].page = n}
ThingsOn(n) ==
  \E place \in [BlocksOn(n) -> 1..Len(doc[n])] :
    \A i \in BlocksOn(n) :
      /\ blocks[i].kind = KindOf[doc[n][place[i]].what]
      /\ blocks[i].text = StripUnmapped(Trim(doc[n][place[i]].text))
      /\ \A j \in BlocksOn(n) : i < j => place[i] < place[j]
StructureIsKept ==
  converter # "pypdf" =>
    /\ \A n \in 1..Len(doc) : ThingsOn(n)
    /\ \A i \in 1..(Len(blocks) - 1) : blocks[i].page <= blocks[i + 1].page

\* Furniture is what runs through the pages: a short line is gone if it stands on
\* three pages or more that are FURNITURE_SHARE of them, or lack less than one page of
\* it; every other line, a long one (cleaning.py:28) and one on fewer pages, however
\* often it stands there (cleaning.py:64), is left where it was.
Places(l, texts) ==
  UNION {{<<i, k>> : k \in {m \in 1..Len(texts[i]) : texts[i][m] = l}} : i \in 1..Len(texts)}
Occurrences(l, texts) == Cardinality(Places(l, texts))
Before == [i \in 1..Len(blocks) |-> blocks[i].text]
After == [i \in 1..Len(cleaned) |-> [k \in 1..Len(cleaned[i].text) |-> cleaned[i].text[k][1]]]
Standing(l) == {blocks[i].page : i \in {j \in 1..Len(blocks) : l \in Range(blocks[j].text)}}
FurnitureIsWhatRuns ==
  (done /\ arm = "strip") =>
    \A l \in Lines \ {Blank} :
      LET pages == Cardinality(PagesOf(blocks))
          on == Cardinality(Standing(l))
      IN  /\ (l \notin Short \/ on < 3 \/ 5 * (on + 1) <= 3 * pages)
                => Occurrences(l, After) = Occurrences(l, Before)
          /\ (on >= 3 /\ 5 * (on + 1) > 3 * pages /\ l \in Short) => Occurrences(l, After) = 0

\* No word of a clean block is left broken, not even where a header or footer
\* stood between its halves.
BrokenWordsMeet ==
  (done /\ arm = "strip") =>
    \A b \in Range(cleaned) : \A i, j \in 1..Len(b.text) :
      (i < j /\ b.text[i][1] \in Broken /\ b.text[j][1] \in Continued
        /\ \A k \in (i + 1)..(j - 1) : b.text[k][1] = Blank) => b.text[j][2]
=============================================================================
