----------------------------- MODULE MCChunking -----------------------------
(***************************************************************************)
(* Documents for TLC: three blocks of any kind on two pages, short enough  *)
(* to be carried over, taking most of a chunk or longer than the target;   *)
(* and one table, which the fixed arm divides, of two paragraphs with      *)
(* sentences of lengths below, around and beyond three times the target.   *)
(***************************************************************************)
EXTENDS SplitterArms, FiniteSets
CONSTANT Lengths

ParagraphOf(sentences) ==
  LET full == {s \in DOMAIN sentences : sentences[s] > 0}
      f[s \in 0..Len(sentences)] == IF s = 0 THEN 0 ELSE f[s - 1] + sentences[s]
  IN  [len |-> f[Len(sentences)] + (IF full = {} THEN 0 ELSE Cardinality(full) - 1),
       sentences |-> sentences]
BlockOf(kind, page, text) ==
  LET f[p \in 0..Len(text)] == IF p = 0 THEN 0 ELSE f[p - 1] + text[p].len
  IN  [len |-> f[Len(text)] + 2 * (Len(text) - 1), page |-> page, kind |-> kind, text |-> text]

\* One block beyond the target is divided in two, the second longer still.
Texts(kind) ==
  {<<ParagraphOf(<<1>>)>>, <<ParagraphOf(<<2>>)>>,
   <<ParagraphOf(IF kind = "blank" THEN <<4>> ELSE <<1, 4>>)>>}
Small == UNION {{BlockOf(kind, page, text) : page \in {1, 2}, text \in Texts(kind)} : kind \in Kinds}

\* Only the last sentence of a paragraph can be empty: what follows the space
\* after a full stop that ends it.
Long == {ParagraphOf(s) : s \in {<<0>>} \cup {<<a, b, c>> : a, b \in Lengths \ {0}, c \in Lengths}}

\* Every prefix of a document is packed on the way, so one number of blocks will do.
MCInputs ==
  [1..3 -> Small] \cup {<<BlockOf("table", 1, <<p, q>>)>> : p, q \in Long}
=============================================================================
