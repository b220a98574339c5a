----------------------------- MODULE Citations -----------------------------
(***************************************************************************)
(* scripts/check_citations.py: are the numbers that a gold answer asserts  *)
(* on the pages it cites?  A page states numbers; what a converter         *)
(* extracts of it is a text, a sequence of digits, gaps (white space and   *)
(* commas) and words, with gaps inside numbers where the extraction broke  *)
(* them.  The check reads the chunks of that text, by the page on which    *)
(* they start.                                                             *)
(***************************************************************************)
EXTENDS Naturals, Sequences, FiniteSets
LOCAL INSTANCE SequencesExt

CONSTANTS
  Digits,
  Gap, Word,    \* the other marks of a text
  Distinctive,  \* digits of the shortest number the check looks for
  Extractions,  \* what converters give: sequences of pieces, see Pieces
  Questions     \* sets of questions with their answers, see Asked

Numbers == Seq(Digits) \ {<<>>}
Texts == Seq(Digits \cup {Gap, Word})

\* A piece of text, the page it stands on and the numbers that page states in
\* it; first: a chunk starts here.
Pieces == [page : Nat \ {0}, states : SUBSET Numbers, text : Texts, first : BOOLEAN]

\* A row of eval/questions.jsonl: the numbers in the question and in the gold
\* answer, and the gold pages.
Asked == [answerable : BOOLEAN, question : SUBSET Numbers, answer : SUBSET Numbers,
          gold_pages : Seq(Nat \ {0})]

VARIABLES
  pieces,     \* the text of the document, in order
  questions,  \* those the loop of main has still to look at
  checkable, unchecked, failures

vars == <<pieces, questions, checkable, unchecked, failures>>

Init ==
  /\ pieces \in Extractions
  /\ questions \in Questions
  /\ checkable = {} /\ unchecked = {} /\ failures = {}

\* The page that the chunk of a piece starts on.
StartPage(i) ==
  pieces[CHOOSE j \in 1..i : pieces[j].first /\ \A k \in (j + 1)..i : ~pieces[k].first].page

\* A gap between two texts; blocks, chunks and pages are joined alike.
Spaced(texts) == FoldLeft(LAMBDA a, b : IF a = <<>> THEN b ELSE a \o <<Gap>> \o b, <<>>, texts)

PageText(page) ==
  LET started == {i \in 1..Len(pieces) : StartPage(i) = page}
  IN  Spaced([n \in 1..Cardinality(started) |-> pieces[SetToSortSeq(started, <)[n]].text])

\* Shorter numbers are on every page by accident.
ClaimTokens(numbers) == {n \in numbers : Len(n) >= Distinctive}

\* Squeezes the gaps that stand between digits.
Normalise(text) ==
  LET squeezed(i) == \E a \in 1..(i - 1), b \in (i + 1)..Len(text) :
        text[a] \in Digits /\ text[b] \in Digits /\ \A j \in (a + 1)..(b - 1) : text[j] = Gap
      kept == {i \in 1..Len(text) : ~squeezed(i)}
  IN  [n \in 1..Cardinality(kept) |-> text[SetToSortSeq(kept, <)[n]]]

\* supported: the numbers missing from the text.
Missing(answer, text, question) ==
  {t \in ClaimTokens(answer) \ ClaimTokens(question) : t \notin SubSeqs(Normalise(text))}

CitedText(q) == Spaced([n \in 1..Len(q.gold_pages) |-> PageText(q.gold_pages[n])])

\* main looks at a question.
Check(q) ==
  /\ q \in questions
  /\ questions' = questions \ {q}
  /\ LET checked == q.answerable /\ ClaimTokens(q.answer) # {}
         missing == Missing(q.answer, CitedText(q), q.question)
     IN  /\ checkable' = checkable \cup {r \in {q} : checked}
         /\ failures' = failures \cup {r \in {q} : checked /\ missing # {}}
         /\ unchecked' = unchecked \cup {r \in {q} : q.answerable /\ ~checked}
  /\ UNCHANGED pieces

Next == \E q \in questions : Check(q)

Spec == Init /\ [][Next]_vars

(***************************************************************************)
(* Properties.                                                             *)
(***************************************************************************)

\* "It must not glue together numbers that are genuinely separate, or a page
\* listing 55 and 200 would appear to contain 55200"
\* (tests/test_citation_support.py:50): an answer that passes asserts no
\* number but those of its question and those that the document states.
NothingIsGlued ==
  \A q \in checkable \ failures : \A t \in ClaimTokens(q.answer) \ ClaimTokens(q.question) :
    \E i \in 1..Len(pieces) : \E n \in pieces[i].states : t \in SubSeqs(n)
=============================================================================
