------------------------------ MODULE MCLabels ------------------------------
(***************************************************************************)
(* Questions for TLC: a fact, a fact that cites no page of the corpus, and *)
(* a question that the corpus does not answer.                             *)
(***************************************************************************)
EXTENDS Labels, TLC
CONSTANTS fact, stray, gap

MCKind == (fact :> "factual") @@ (stray :> "factual") @@ (gap :> "unanswerable")
MCFloor == [k \in {"factual", "unanswerable"} |-> 1]

\* The sample is of the first questions of each stratum.
First(set, n) == {q \in set : Cardinality({p \in set : p < q}) < n}
MCChosen ==
  [s \in Strata |->
     LET n == Picked(Cardinality(s[1]), Cardinality(s[2]))
     IN First(s[1], n) \cup First(s[2], Size - n)]
=============================================================================
