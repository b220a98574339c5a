------------------------------ MODULE Chunking ------------------------------
(***************************************************************************)
(* The splitters of dastavez/ingest/chunking.py, from a converter's blocks *)
(* to chunks: _pack first divides every block that is longer than the      *)
(* target (_divide: by paragraph, a long paragraph by sentence, a long     *)
(* sentence by force), and packs what came of it (Packer).                 *)
(*                                                                         *)
(* A text is its length and its paragraphs, a paragraph its length and     *)
(* those of its sentences.  A place in it is a block, a paragraph, a       *)
(* sentence and a character, zero where the larger one starts.  A piece is *)
(* its length and the stretches of text that were copied into it.          *)
(***************************************************************************)
EXTENDS Packer

CONSTANT Inputs  \* documents: what converters give

Paragraphs ==
  {p \in [len : Nat, sentences : Seq(Nat)] : \A s \in DOMAIN p.sentences : p.sentences[s] <= p.len}
SourceBlocks == [len : Nat, page : Nat \ {0}, kind : Kinds, text : Seq(Paragraphs)]

ASSUME ChunkingAssumption == Target # 0 /\ Inputs \subseteq Seq(SourceBlocks)

VARIABLES
  source,   \* the converter's blocks
  at,       \* the block at hand
  par,      \* its paragraph at hand
  sen,      \* the sentence at hand; 0 before the paragraph is looked at
  current,  \* the piece to come
  pieces,   \* the pieces cut off the block at hand
  origin    \* history: the stretches that each of blocks was made of

divider == <<at, par, sen, current, pieces, origin>>
chunkingVars == <<source, divider, vars>>

Piece(n, stretches) == [len |-> n, of |-> stretches]
NoPiece == Piece(0, <<>>)

ChunkingInit ==
  /\ respect \in BOOLEAN
  /\ source \in Inputs
  /\ at = 1 /\ par = 1 /\ sen = 0
  /\ current = NoPiece
  /\ pieces = <<>> /\ origin = <<>>
  /\ blocks = <<>>
  /\ Start

Source == source[at]
Paragraph == Source.text[par]
Sentence == Paragraph.sentences[sen]

Stretch(x, y) == [from |-> x, to |-> y]
WholeBlock == Stretch(<<at, 1, 0, 0>>, <<at + 1, 1, 0, 0>>)
WholeParagraph == Stretch(<<at, par, 0, 0>>, <<at, par + 1, 0, 0>>)
WholeSentence == Stretch(<<at, par, sen, 0>>, <<at, par, sen + 1, 0>>)

\* Two texts one space apart, without the space if one is empty.
Joined(n, m) == n + m + IF n = 0 \/ m = 0 THEN 0 ELSE 1

Undivided == Source.len <= Target \/ (respect /\ Source.kind = "table")

\* divided grows by the pieces that have text, each of the page and the kind of
\* the block.
Divided(ps) ==
  LET kept == IF Source.kind = "blank" THEN <<>> ELSE ps
  IN  /\ blocks' = blocks \o [i \in 1..Len(kept) |->
                               [len |-> kept[i].len, page |-> Source.page, kind |-> Source.kind]]
      /\ origin' = origin \o [i \in 1..Len(kept) |-> kept[i].of]
      /\ at' = at + 1

\* A short block is kept as it is, blank or not, and so is a table in the
\* section arm.
KeepBlock ==
  /\ at <= Len(source) /\ Undivided
  /\ blocks' = Append(blocks, [len |-> Source.len, page |-> Source.page, kind |-> Source.kind])
  /\ origin' = Append(origin, <<WholeBlock>>)
  /\ at' = at + 1
  /\ UNCHANGED <<source, par, sen, current, pieces, respect, packer>>

Dividing == at <= Len(source) /\ ~Undivided
AtParagraph == Dividing /\ par <= Len(Source.text) /\ sen = 0
Reading == Dividing /\ par <= Len(Source.text) /\ sen \in 1..Len(Paragraph.sentences)

Cut(ps, piece) ==
  /\ pieces' = ps
  /\ current' = piece
  /\ UNCHANGED <<source, at, origin, respect, blocks, packer>>
NextSentence == sen' = sen + 1 /\ UNCHANGED par
NextParagraph == par' = par + 1 /\ sen' = 0

\* A paragraph that fits is a piece; an empty one is dropped in the end.
KeepParagraph ==
  /\ AtParagraph /\ Paragraph.len <= Target
  /\ Cut(IF Paragraph.len = 0 THEN pieces ELSE Append(pieces, Piece(Paragraph.len, <<WholeParagraph>>)),
         current)
  /\ NextParagraph

OpenParagraph ==
  /\ AtParagraph /\ Paragraph.len > Target
  /\ NextSentence
  /\ Cut(pieces, current)

\* What was gathered would be too long with this sentence: cut before it.
CutBefore ==
  /\ Reading
  /\ current.len > 0 /\ current.len + Sentence > Target
  /\ Cut(Append(pieces, current), Piece(Sentence, <<WholeSentence>>))
  /\ NextSentence

\* sentence[start : start + TARGET_CHARS], for every start.
Slice(start) ==
  LET end == IF start + Target < Sentence THEN start + Target ELSE Sentence
  IN  Piece(end - start, <<Stretch(<<at, par, sen, start>>, <<at, par, sen, end>>)>>)
Slices(n) == [i \in 1..n |-> Slice((i - 1) * Target)]

\* Mutation of HardCut: the last slice is lost.
HardCutShort ==
  /\ Reading
  /\ current.len = 0 /\ Sentence > Target
  /\ Cut(pieces \o Slices(Sentence \div Target), NoPiece)
  /\ NextSentence

\* The sentence alone is too long: cut it every Target characters.
HardCut ==
  /\ Reading
  /\ current.len = 0 /\ Sentence > Target
  /\ Cut(pieces \o Slices((Sentence + Target - 1) \div Target), NoPiece)
  /\ NextSentence

Gathered == Piece(Joined(current.len, Sentence), Append(current.of, WholeSentence))

\* Mutation of GatherSentence: the sentence at hand is not counted.
GatherSentenceUncounted ==
  /\ Reading
  /\ Sentence <= Target /\ current.len <= Target
  /\ Cut(pieces, Gathered)
  /\ NextSentence

GatherSentence ==
  /\ Reading
  /\ Sentence <= Target
  /\ current.len = 0 \/ current.len + Sentence <= Target
  /\ Cut(pieces, Gathered)
  /\ NextSentence

\* Mutation of EndParagraph: what is left of the paragraph is forgotten.
EndParagraphUnflushed ==
  /\ Dividing /\ par <= Len(Source.text) /\ sen = Len(Paragraph.sentences) + 1
  /\ Cut(pieces, NoPiece)
  /\ NextParagraph

\* After the last sentence.
EndParagraph ==
  /\ Dividing /\ par <= Len(Source.text) /\ sen = Len(Paragraph.sentences) + 1
  /\ Cut(IF current.len > 0 THEN Append(pieces, current) ELSE pieces, NoPiece)
  /\ NextParagraph

\* After the last paragraph.
EndBlock ==
  /\ Dividing /\ par = Len(Source.text) + 1
  /\ Divided(pieces)
  /\ par' = 1 /\ sen' = 0 /\ pieces' = <<>>
  /\ UNCHANGED <<source, current, respect, packer>>

Divide ==
  \/ KeepBlock \/ EndBlock
  \/ KeepParagraph \/ OpenParagraph \/ CutBefore \/ HardCut \/ GatherSentence \/ EndParagraph

\* All blocks are divided before the first is packed.
PackDivided == at = Len(source) + 1 /\ Next /\ UNCHANGED <<source, divider>>

ChunkingNext == Divide \/ PackDivided

ChunkingSpec == ChunkingInit /\ [][ChunkingNext]_chunkingVars

(***************************************************************************)
(* Properties.                                                             *)
(***************************************************************************)

Positions == Nat \X Nat \X Nat \X Nat
Stretches == [from : Positions, to : Positions]
Pieces == [len : Nat, of : Seq(Stretches)]

TypeOK ==
  /\ PackerTypeOK
  /\ source \in Seq(SourceBlocks)
  /\ at \in 1..(Len(source) + 1)
  /\ par \in Nat \ {0} /\ sen \in Nat
  /\ current \in Pieces /\ pieces \in Seq(Pieces)
  /\ origin \in Seq(Seq(Stretches)) /\ Len(origin) = Len(blocks)

Earlier(x, y) ==
  \/ x[1] < y[1]
  \/ x[1] = y[1] /\ x[2] < y[2]
  \/ x[1] = y[1] /\ x[2] = y[2] /\ x[3] < y[3]
  \/ x[1] = y[1] /\ x[2] = y[2] /\ x[3] = y[3] /\ x[4] < y[4]
Within(place, stretch) == ~Earlier(place, stretch.from) /\ Earlier(place, stretch.to)

\* What was divided, the pieces and what is gathered, side by side.
Laid == Append(origin \o [i \in 1..Len(pieces) |-> pieces[i].of], current.of)
Here == <<at, par, sen, 0>>

\* Every character read so far was copied, however its sentence was cut.
NoTextLost ==
  \A i \in 1..Len(source) : source[i].kind # "blank" =>
    \A p \in 1..Len(source[i].text) : \A s \in 1..Len(source[i].text[p].sentences) :
      \A c \in 0..(source[i].text[p].sentences[s] - 1) :
        Earlier(<<i, p, s, c>>, Here) =>
          \E g \in 1..Len(Laid) : \E k \in 1..Len(Laid[g]) : Within(<<i, p, s, c>>, Laid[g][k])

\* Nothing was copied twice or out of its order: a stretch ends where a later
\* one starts, or before, and none goes beyond what was read.
NoTextMoved ==
  \A g \in 1..Len(Laid) : \A j \in 1..Len(Laid[g]) :
    /\ ~Earlier(Here, Laid[g][j].to)
    /\ \A h \in 1..Len(Laid) : \A k \in 1..Len(Laid[h]) :
         (g < h \/ (g = h /\ j < k)) => ~Earlier(Laid[h][k].from, Laid[g][j].to)

\* "Split one oversized block, keeping its page" (chunking.py:63), and the kind
\* that the packer goes by.
PageKept ==
  \A b \in 1..Len(blocks) : \A k \in 1..Len(origin[b]) :
    LET of == source[origin[b][k].from[1]]
    IN  blocks[b].page = of.page /\ blocks[b].kind = of.kind

\* Dividing and packing keep the text: nothing is lost, repeated or moved,
\* pieces have the page and the kind of their block, and chunks are closed at
\* their true length.
TextIsKept == NoTextLost /\ NoTextMoved /\ PageKept /\ LengthsAreTrue

\* A block to pack that is longer than the target is a table the section arm
\* keeps whole, a sentence that was never cut, or one space too long.
IsOneSentence(stretches) ==
  /\ Len(stretches) = 1
  /\ LET x == stretches[1].from IN stretches[1].to = <<x[1], x[2], x[3] + 1, 0>>
BlocksLongForAReason ==
  \A b \in 1..Len(blocks) :
    \/ blocks[b].len <= Target + 1
    \/ IsOneSentence(origin[b])
    \/ respect /\ blocks[b].kind = "table"

\* "still better than a chunk three times the target, which is what happens
\* without it" (chunking.py:53): with the hard cut there is no such chunk, but
\* for the tables that the section arm emits whole.
HardCutBounds ==
  \A c \in 1..Len(chunks) :
    \/ chunks[c].size < 3 * Target
    \/ respect /\ blocks[chunks[c].of[1]].kind = "table"
=============================================================================
