---------------------------- MODULE MCCitations ----------------------------
(***************************************************************************)
(* Pages for TLC: each piece states two numbers, next to each other or     *)
(* with a word between, the second broken by the extraction or not; and    *)
(* answers that assert one number, of three digits or two.                 *)
(***************************************************************************)
EXTENDS Citations

\* The second number with or without a gap after its first digit.
Extracted(m, n, between) ==
  {m \o between \o n, m \o between \o <<n[1], Gap>> \o Tail(n)}
MCPieces ==
  UNION {{[page |-> page, states |-> {m, n}, text |-> text, first |-> first] :
            page \in {1, 2}, first \in BOOLEAN, text \in Extracted(m, n, between)} :
         m \in {<<d>> : d \in Digits}, n \in {<<d, e>> : d, e \in Digits},
         between \in {<<Gap>>, <<Gap, Word, Gap>>}}
\* Two pieces in page order; the first of a document starts a chunk.
MCExtractions ==
  {<<p, q>> : p \in {r \in MCPieces : r.first /\ r.page = 1},
              q \in {r \in MCPieces : r.states = {<<1>>, <<1, 2>>}}}

MCAnswers == {<<d, e, f>> : d, e, f \in Digits} \cup {<<d, e>> : d, e \in Digits}
MCQuestions ==
  {{[answerable |-> answerable, question |-> asked, answer |-> {n}, gold_pages |-> gold]} :
     answerable \in BOOLEAN, asked \in {{}, {<<1, 1, 1>>}}, n \in MCAnswers,
     gold \in {<<1>>, <<2>>, <<1, 2>>}}
=============================================================================
