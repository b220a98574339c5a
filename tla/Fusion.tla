------------------------------- MODULE Fusion -------------------------------
(***************************************************************************)
(* reciprocal_rank_fusion of dastavez/lexical.py over the two halves of a  *)
(* hybrid search.                                                          *)
(*                                                                         *)
(* A half is a sequence of hits, the best first, and a chunk is told by    *)
(* its place: its document and its ordinal.  A score is a fraction, its    *)
(* numerator and its denominator.                                          *)
(***************************************************************************)
EXTENDS Naturals, Sequences, FiniteSets

CONSTANT Damping  \* k: 60, "the value the method was published with"

ASSUME FusionAssumption == Damping \in Nat /\ Damping >= 2

Plus(x, y) == <<x[1] * y[2] + y[1] * x[2], x[2] * y[2]>>
Above(x, y) == x[1] * y[2] > y[1] * x[2]

Place(h) == <<h.doc, h.ord>>
Places(list) == {Place(list[i]) : i \in 1..Len(list)}
RankOf(list, p) == CHOOSE i \in 1..Len(list) : Place(list[i]) = p

\* What a half adds to the score of a chunk.
Share(list, p) == IF p \in Places(list) THEN <<1, Damping + RankOf(list, p)>> ELSE <<0, 1>>

\* Mutation of Score: scores[key] is assigned, not added to.
ScoreOfLast(dense, lexical, p) ==
  IF p \in Places(lexical) THEN Share(lexical, p) ELSE Share(dense, p)

Score(dense, lexical, p) == Plus(Share(dense, p), Share(lexical, p))

\* One list has p and has it before r.
Ahead(list, p, r) ==
  p \in Places(list) /\ (r \in Places(list) => RankOf(list, p) < RankOf(list, r))

\* The order in which the keys are first met, the dense half being met first.
MetFirst(dense, lexical, p, r) ==
  \/ Ahead(dense, p, r)
  \/ p \notin Places(dense) /\ r \notin Places(dense) /\ Ahead(lexical, p, r)

\* The sort is by score alone and stable.
Leads(dense, lexical, p, r) ==
  LET x == Score(dense, lexical, p)
      y == Score(dense, lexical, r)
  IN  Above(x, y) \/ (~Above(y, x) /\ MetFirst(dense, lexical, p, r))

\* Mutation of Shown: a chunk is kept as it was first seen.
ShownFirst(dense, lexical, p) ==
  IF p \in Places(dense) THEN dense[RankOf(dense, p)] ELSE lexical[RankOf(lexical, p)]

\* A chunk both halves have found is shown as the later half found it.
Shown(dense, lexical, p) ==
  IF p \in Places(lexical) THEN lexical[RankOf(lexical, p)] ELSE dense[RankOf(dense, p)]

Found(dense, lexical) == Places(dense) \cup Places(lexical)

Fewer(m, n) == IF m <= n THEN m ELSE n

\* The fused list: the limit best of what was found, each once.
Fusions(dense, lexical, limit) ==
  LET found == Found(dense, lexical)
  IN  {list \in [1..Fewer(limit, Cardinality(found)) -> {Shown(dense, lexical, p) : p \in found}] :
         /\ \A i, j \in DOMAIN list : i < j => Leads(dense, lexical, Place(list[i]), Place(list[j]))
         /\ \A p \in found \ Places(list) : \A i \in DOMAIN list :
              Leads(dense, lexical, Place(list[i]), p)}

(***************************************************************************)
(* What a fusion of ranks is for.                                          *)
(***************************************************************************)

\* p is before r in one half, and r is not before p in the other.
Preferred(dense, lexical, p, r) ==
  /\ Ahead(dense, p, r) \/ Ahead(lexical, p, r)
  /\ ~Ahead(dense, r, p) /\ ~Ahead(lexical, r, p)

InBoth(dense, lexical, p) == p \in Places(dense) /\ p \in Places(lexical)

\* The fused list does not turn round what the halves agree on, and puts what
\* both have found before what one has found, at whatever ranks.
Fair(dense, lexical, fused) ==
  \A p, r \in Found(dense, lexical) :
    \/ r \notin Places(fused)
    \/ Ahead(fused, p, r)
    \/ /\ ~Preferred(dense, lexical, p, r)
       /\ ~(InBoth(dense, lexical, p) /\ ~InBoth(dense, lexical, r))
=============================================================================
