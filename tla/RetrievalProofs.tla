--------------------------- MODULE RetrievalProofs ---------------------------
(***************************************************************************)
(* Proofs about reciprocal_rank_fusion, for every two rankings, and about  *)
(* Retrieval, for every set of runs, documents, versions, builders and     *)
(* retrievers and every number of hits.                                    *)
(***************************************************************************)
EXTENDS Retrieval, SequenceTheorems, FiniteSetTheorems, TLAPS

(***************************************************************************)
(* What two rankings make.                                                 *)
(***************************************************************************)

Fractions == Nat \X (Nat \ {0})

\* A list has each of its places at the rank it says.
LEMMA RankFacts ==
  ASSUME NEW list, NEW p \in Places(list)
  PROVE  RankOf(list, p) \in 1..Len(list) /\ Place(list[RankOf(list, p)]) = p
BY DEF Places, RankOf

LEMMA ShareFacts ==
  ASSUME NEW S, NEW list \in Seq(S), NEW p
  PROVE  Share(list, p) \in Fractions
<1>1. CASE p \in Places(list)
  <2>1. RankOf(list, p) \in Nat BY <1>1, RankFacts
  <2> QED BY <1>1, <2>1, FusionAssumption DEF Share, Fractions
<1>2. CASE p \notin Places(list)
      BY <1>2 DEF Share, Fractions
<1> QED BY <1>1, <1>2

\* A product of positive numbers is positive.
LEMMA PositiveProduct ==
  ASSUME NEW m \in Nat \ {0}, NEW n \in Nat \ {0}
  PROVE  m * n \in Nat \ {0}
BY SMT

LEMMA PlusFacts ==
  ASSUME NEW x \in Fractions, NEW y \in Fractions
  PROVE  Plus(x, y) \in Fractions
<1>1. x[1] \in Nat /\ y[1] \in Nat /\ x[2] \in Nat \ {0} /\ y[2] \in Nat \ {0}
      BY DEF Fractions
<1>2. x[2] * y[2] \in Nat \ {0} BY <1>1, PositiveProduct
<1>3. x[1] * y[2] + y[1] * x[2] \in Nat BY <1>1, SMT
<1> QED BY <1>2, <1>3 DEF Plus, Fractions

LEMMA AboveAsymmetric ==
  ASSUME NEW x \in Fractions, NEW y \in Fractions, Above(x, y)
  PROVE  ~Above(y, x)
<1>1. x[1] * y[2] \in Nat /\ y[1] * x[2] \in Nat
      BY SMT DEF Fractions
<1> QED BY <1>1 DEF Above

\* The larger times a positive number stays the larger.
LEMMA TimesMonotone ==
  ASSUME NEW a \in Nat, NEW b \in Nat, NEW c \in Nat \ {0}
  PROVE  (a > b => a * c > b * c) /\ (a >= b => a * c >= b * c)
BY SMT

LEMMA PlusMonotone ==
  ASSUME NEW x \in Fractions, NEW y \in Fractions, NEW u \in Fractions, NEW v \in Fractions,
         ~Above(u, x), ~Above(v, y), Above(x, u) \/ Above(y, v)
  PROVE  Above(Plus(x, y), Plus(u, v))
<1> DEFINE x1 == x[1]
           x2 == x[2]
           y1 == y[1]
           y2 == y[2]
           u1 == u[1]
           u2 == u[2]
           v1 == v[1]
           v2 == v[2]
<1>1. /\ x1 \in Nat /\ y1 \in Nat /\ u1 \in Nat /\ v1 \in Nat
      /\ x2 \in Nat \ {0} /\ y2 \in Nat \ {0} /\ u2 \in Nat \ {0} /\ v2 \in Nat \ {0}
      BY DEF Fractions
<1>2. /\ ~(u1 * x2 > x1 * u2) /\ ~(v1 * y2 > y1 * v2)
      /\ x1 * u2 > u1 * x2 \/ y1 * v2 > v1 * y2
      BY DEF Above
<1>3. Plus(x, y) = <<x1 * y2 + y1 * x2, x2 * y2>> /\ Plus(u, v) = <<u1 * v2 + v1 * u2, u2 * v2>>
      BY DEF Plus
<1> HIDE DEF x1, x2, y1, y2, u1, u2, v1, v2
<1>4. /\ x1 * u2 >= u1 * x2 /\ y1 * v2 >= v1 * y2
      /\ x1 * u2 > u1 * x2 \/ y1 * v2 > v1 * y2
  <2> DEFINE a == x1 * u2
             b == u1 * x2
             c == y1 * v2
             d == v1 * y2
  <2>1. a \in Nat /\ b \in Nat /\ c \in Nat /\ d \in Nat
        BY <1>1, SMT
  <2>2. ~(b > a) /\ ~(d > c) /\ (a > b \/ c > d)
        BY <1>2
  <2> HIDE DEF a, b, c, d
  <2>3. a >= b /\ c >= d /\ (a > b \/ c > d)
        BY <2>1, <2>2, SMT
  <2> QED BY <2>3 DEF a, b, c, d
<1>5. y2 * v2 \in Nat \ {0} /\ x2 * u2 \in Nat \ {0}
      BY <1>1, PositiveProduct
<1> DEFINE left == (x1 * u2) * (y2 * v2) + (y1 * v2) * (x2 * u2)
           right == (u1 * x2) * (y2 * v2) + (v1 * y2) * (x2 * u2)
<1>6. left > right
  <2> DEFINE a == x1 * u2
             b == u1 * x2
             c == y1 * v2
             d == v1 * y2
             m == y2 * v2
             n == x2 * u2
  <2>1. a \in Nat /\ b \in Nat /\ c \in Nat /\ d \in Nat /\ m \in Nat \ {0} /\ n \in Nat \ {0}
        BY <1>1, <1>5, SMT
  <2>2. a >= b /\ c >= d /\ (a > b \/ c > d) BY <1>4
  <2> HIDE DEF a, b, c, d, m, n
  <2>3. /\ a * m >= b * m /\ c * n >= d * n
        /\ a * m > b * m \/ c * n > d * n
        BY <2>1, <2>2, TimesMonotone
  <2>4. a * m \in Nat /\ b * m \in Nat /\ c * n \in Nat /\ d * n \in Nat
        BY <2>1, SMT
  <2>5. a * m + c * n > b * m + d * n BY <2>3, <2>4, SMT
  <2> QED BY <2>5 DEF a, b, c, d, m, n
<1>7. left = (x1 * y2 + y1 * x2) * (u2 * v2)
      BY <1>1, SMT
<1>8. right = (u1 * v2 + v1 * u2) * (x2 * y2)
      BY <1>1, SMT
<1> HIDE DEF left, right
<1> QED BY <1>3, <1>6, <1>7, <1>8 DEF Above

\* Being ahead in a list is scoring more from it.
LEMMA ShareOrder ==
  ASSUME NEW S, NEW list \in Seq(S), NEW p, NEW r
  PROVE  /\ Ahead(list, p, r) => Above(Share(list, p), Share(list, r))
         /\ ~Ahead(list, p, r) => ~Above(Share(list, p), Share(list, r))
<1>1. p \in Places(list) => RankOf(list, p) \in Nat /\ RankOf(list, p) >= 1
      BY RankFacts
<1>2. r \in Places(list) => RankOf(list, r) \in Nat /\ RankOf(list, r) >= 1
      BY RankFacts
<1> QED BY <1>1, <1>2, FusionAssumption DEF Ahead, Above, Share

LEMMA AheadAsymmetric ==
  ASSUME NEW S, NEW list \in Seq(S), NEW p, NEW r, Ahead(list, p, r)
  PROVE  ~Ahead(list, r, p)
<1>1. p \in Places(list) => RankOf(list, p) \in Nat BY RankFacts
<1>2. r \in Places(list) => RankOf(list, r) \in Nat BY RankFacts
<1> QED BY <1>1, <1>2 DEF Ahead

\* What the sort puts first it does not put last.
LEMMA LeadsAsymmetric ==
  ASSUME NEW S, NEW byVector \in Seq(S), NEW byWord \in Seq(S), NEW p, NEW r,
         Leads(byVector, byWord, p, r)
  PROVE  ~Leads(byVector, byWord, r, p)
<1>1. Score(byVector, byWord, p) \in Fractions /\ Score(byVector, byWord, r) \in Fractions
      BY ShareFacts, PlusFacts DEF Score
<1>2. ~(Above(Score(byVector, byWord, p), Score(byVector, byWord, r))
        /\ Above(Score(byVector, byWord, r), Score(byVector, byWord, p)))
      BY <1>1, AboveAsymmetric
<1>3. ~(MetFirst(byVector, byWord, p, r) /\ MetFirst(byVector, byWord, r, p))
      BY AheadAsymmetric DEF MetFirst, Ahead
<1> QED BY <1>2, <1>3 DEF Leads

LEMMA PreferredLeads ==
  ASSUME NEW S, NEW byVector \in Seq(S), NEW byWord \in Seq(S), NEW p, NEW r,
         Preferred(byVector, byWord, p, r)
  PROVE  Leads(byVector, byWord, p, r)
<1>1. /\ Share(byVector, p) \in Fractions /\ Share(byVector, r) \in Fractions
      /\ Share(byWord, p) \in Fractions /\ Share(byWord, r) \in Fractions
      BY ShareFacts
<1>2. /\ ~Above(Share(byVector, r), Share(byVector, p))
      /\ ~Above(Share(byWord, r), Share(byWord, p))
      BY ShareOrder DEF Preferred
<1>3. Above(Share(byVector, p), Share(byVector, r)) \/ Above(Share(byWord, p), Share(byWord, r))
      BY ShareOrder DEF Preferred
<1>4. Above(Score(byVector, byWord, p), Score(byVector, byWord, r))
      BY <1>1, <1>2, <1>3, PlusMonotone DEF Score
<1> QED BY <1>4 DEF Leads

\* Two shares are more than one, as long as no rank is beyond the damping.
LEMMA TwoBeatOne ==
  ASSUME NEW k \in Nat, NEW a \in Nat, NEW b \in Nat, NEW c \in Nat,
         a >= 1, b >= 1, a <= 2 * k + 1, b <= 2 * k + 1, c >= k + 1
  PROVE  (a + b) * c > a * b
<1>1. (a + b) * c >= (a + b) * (k + 1) BY SMT
<1>2. a * b <= a * (2 * k + 1) /\ a * b <= b * (2 * k + 1) BY SMT
<1>3. 2 * ((a + b) * (k + 1)) = a * (2 * k + 1) + b * (2 * k + 1) + a + b BY SMT
<1>4. a * b \in Nat /\ (a + b) * c \in Nat /\ (a + b) * (k + 1) \in Nat
      /\ a * (2 * k + 1) \in Nat /\ b * (2 * k + 1) \in Nat
      BY SMT
<1> QED BY <1>1, <1>2, <1>3, <1>4, SMT

LEMMA InBothLeads ==
  ASSUME NEW S, NEW byVector \in Seq(S), NEW byWord \in Seq(S), NEW p, NEW r,
         Len(byVector) <= Damping + 1, Len(byWord) <= Damping + 1,
         r \in Found(byVector, byWord),
         InBoth(byVector, byWord, p), ~InBoth(byVector, byWord, r)
  PROVE  Leads(byVector, byWord, p, r)
<1> DEFINE a == Damping + RankOf(byVector, p)
           b == Damping + RankOf(byWord, p)
<1>1. RankOf(byVector, p) \in 1..Len(byVector) /\ RankOf(byWord, p) \in 1..Len(byWord)
      BY RankFacts DEF InBoth
<1>2. Len(byVector) \in Nat /\ Len(byWord) \in Nat
      OBVIOUS
<1>3. a \in Nat /\ b \in Nat /\ a >= 1 /\ b >= 1 /\ a <= 2 * Damping + 1 /\ b <= 2 * Damping + 1
      BY <1>1, <1>2, FusionAssumption
<1>4. Score(byVector, byWord, p) = <<1 * b + 1 * a, a * b>>
      BY DEF Score, Plus, Share, InBoth
<1>5. PICK c \in Nat : c >= Damping + 1 /\ Score(byVector, byWord, r) = <<1, c>>
  <2>1. CASE r \in Places(byVector)
    <3>1. RankOf(byVector, r) \in Nat /\ RankOf(byVector, r) >= 1 BY <2>1, RankFacts
    <3>2. Score(byVector, byWord, r) = <<1 * 1 + 0 * (Damping + RankOf(byVector, r)), (Damping + RankOf(byVector, r)) * 1>>
          BY <2>1 DEF Score, Plus, Share, InBoth
    <3>3. Score(byVector, byWord, r) = <<1, Damping + RankOf(byVector, r)>>
          BY <3>1, <3>2, FusionAssumption
    <3> QED BY <3>1, <3>3, FusionAssumption
  <2>2. CASE r \notin Places(byVector)
    <3>1. r \in Places(byWord) BY <2>2 DEF Found
    <3>2. RankOf(byWord, r) \in Nat /\ RankOf(byWord, r) >= 1 BY <3>1, RankFacts
    <3>3. Score(byVector, byWord, r) = <<0 * (Damping + RankOf(byWord, r)) + 1 * 1, 1 * (Damping + RankOf(byWord, r))>>
          BY <2>2, <3>1 DEF Score, Plus, Share
    <3>4. Score(byVector, byWord, r) = <<1, Damping + RankOf(byWord, r)>>
          BY <3>2, <3>3, FusionAssumption
    <3> QED BY <3>2, <3>4, FusionAssumption
  <2> QED BY <2>1, <2>2
<1> HIDE DEF a, b
<1>6. (a + b) * c > a * b BY <1>3, <1>5, TwoBeatOne, FusionAssumption
<1>7. (1 * b + 1 * a) * c > 1 * (a * b) BY <1>3, <1>5, <1>6, SMT
<1>8. Above(Score(byVector, byWord, p), Score(byVector, byWord, r))
      BY <1>4, <1>5, <1>7 DEF Above
<1> QED BY <1>8 DEF Leads

LEMMA PlacesFinite ==
  ASSUME NEW S, NEW list \in Seq(S)
  PROVE  IsFiniteSet(Places(list))
<1> DEFINE place == [i \in 1..Len(list) |-> Place(list[i])]
<1>1. IsFiniteSet(1..Len(list)) BY FS_Interval
<1>2. place \in Surjection(1..Len(list), Places(list)) BY DEF Surjection, Places
<1> HIDE DEF place
<1> QED BY <1>1, <1>2, FS_Surjection

\* The length of a fused list, and what it is made of.
LEMMA FusedLists ==
  ASSUME NEW S, NEW byVector \in Seq(S), NEW byWord \in Seq(S), NEW limit \in Nat,
         NEW fused \in Fusions(byVector, byWord, limit)
  PROVE  /\ Len(fused) \in Nat /\ Len(fused) <= limit
         /\ DOMAIN fused = 1..Len(fused)
         /\ \A i \in 1..Len(fused) :
              \E p \in Found(byVector, byWord) : fused[i] = Shown(byVector, byWord, p)
<1> DEFINE n == Fewer(limit, Cardinality(Found(byVector, byWord)))
           hits == {Shown(byVector, byWord, p) : p \in Found(byVector, byWord)}
<1>1. n \in Nat /\ n <= limit
  <2>3. IsFiniteSet(Places(byVector)) /\ IsFiniteSet(Places(byWord)) BY PlacesFinite
  <2>4. IsFiniteSet(Found(byVector, byWord)) BY <2>3, FS_Union DEF Found
  <2>5. Cardinality(Found(byVector, byWord)) \in Nat BY <2>4, FS_CardinalityType
  <2> QED BY <2>5 DEF Fewer
<1>2. fused \in [1..n -> hits] BY DEF Fusions
<1> HIDE DEF n
<1>3. fused \in Seq(hits) BY <1>1, <1>2, SeqDef
<1>4. Len(fused) = n BY <1>1, <1>2, <1>3, LenProperties
<1> QED BY <1>1, <1>2, <1>4

\* A fused list is in the order of the scores.
LEMMA FusedOrder ==
  ASSUME NEW S, NEW byVector \in Seq(S), NEW byWord \in Seq(S), NEW limit \in Nat,
         NEW fused \in Fusions(byVector, byWord, limit),
         NEW p \in Found(byVector, byWord), NEW r \in Places(fused),
         Leads(byVector, byWord, p, r)
  PROVE  Ahead(fused, p, r)
<1> DEFINE j == RankOf(fused, r)
<1>1. DOMAIN fused = 1..Len(fused) /\ Len(fused) \in Nat BY FusedLists
<1>2. j \in 1..Len(fused) /\ Place(fused[j]) = r BY RankFacts
<1>3. ~Leads(byVector, byWord, r, p) BY LeadsAsymmetric
<1>4. p \in Places(fused)
  <2>1. SUFFICES ASSUME p \notin Places(fused) PROVE FALSE
        OBVIOUS
  <2>2. Leads(byVector, byWord, Place(fused[j]), p)
        BY <1>1, <1>2, <2>1 DEF Fusions
  <2> QED BY <1>2, <1>3, <2>2
<1> DEFINE i == RankOf(fused, p)
<1>5. i \in 1..Len(fused) /\ Place(fused[i]) = p BY <1>4, RankFacts
<1> HIDE DEF i, j
<1>6. i # j BY <1>2, <1>3, <1>5
<1>7. ~(j < i)
  <2>1. SUFFICES ASSUME j < i PROVE FALSE
        OBVIOUS
  <2>2. Leads(byVector, byWord, Place(fused[j]), Place(fused[i]))
        BY <1>1, <1>2, <1>5, <2>1 DEF Fusions
  <2> QED BY <1>2, <1>3, <1>5, <2>2
<1>8. i < j BY <1>1, <1>2, <1>5, <1>6, <1>7
<1> QED BY <1>4, <1>8 DEF Ahead, i, j

\* Fusion by rank is fair to any two rankings of a length within the damping.
THEOREM FusionsAreFair ==
  ASSUME NEW S, NEW byVector \in Seq(S), NEW byWord \in Seq(S), NEW limit \in Nat,
         Len(byVector) <= Damping + 1, Len(byWord) <= Damping + 1,
         NEW fused \in Fusions(byVector, byWord, limit)
  PROVE  Fair(byVector, byWord, fused)
<1> SUFFICES ASSUME NEW p \in Found(byVector, byWord), NEW r \in Found(byVector, byWord),
                    r \in Places(fused),
                    \/ Preferred(byVector, byWord, p, r)
                    \/ InBoth(byVector, byWord, p) /\ ~InBoth(byVector, byWord, r)
             PROVE  Ahead(fused, p, r)
    BY DEF Fair
<1>1. Leads(byVector, byWord, p, r) BY PreferredLeads, InBothLeads
<1> QED BY <1>1, FusedOrder

(***************************************************************************)
(* The index and its searches.                                             *)
(***************************************************************************)

Rows == Table!RowSets

\* Empty and filled rows are rows of the table, and so is what a builder makes
\* of the chunks it read and the vectors it found.
LEMMA RowTypes ==
  /\ Table!Empty \in Rows
  /\ \A v \in Versions : Table!ChunkSet(v) \in Rows
  /\ \A rows, vectors \in [Docs -> Rows] : Embed(rows, vectors) \in [Docs -> Rows]
BY DEF Rows, Table!RowSets, Table!Empty, Table!ChunkSet, Embed

\* No rows at all are rows of a run.
LEMMA NoChunksType == NoChunks \in [Docs -> Rows]
BY RowTypes DEF NoChunks

\* A hit made of a key that has a row is a hit, and shows that row.
LEMMA HitTypes ==
  ASSUME NEW rows \in [Docs -> Rows], NEW k \in Keys, HasRow(rows, k)
  PROVE  /\ HitOf(rows, k) \in Hits
         /\ rows[HitOf(rows, k).doc][HitOf(rows, k).ord] = HitOf(rows, k).text
<1>1. k[1] \in Docs /\ k[2] \in Table!Ordinals BY DEF Keys
<1>2. rows[k[1]] \in Rows BY <1>1
<1>3. rows[k[1]][k[2]] \in Versions BY <1>1, <1>2 DEF Rows, Table!RowSets, HasRow
<1> QED BY <1>1, <1>3 DEF HitOf, Hits

\* A ranking is a short list of some of the candidates.
LEMMA RankingsTypes ==
  ASSUME NEW candidates \in SUBSET Keys, NEW list \in Rankings(candidates)
  PROVE  list \in Seq(candidates) /\ Len(list) <= K
<1> DEFINE n == Fewer(K, Cardinality(candidates))
<1>1. IsFiniteSet(Keys)
  <2>1. Table!Ordinals = 0..(MaxChunks - 1) BY DEF Table!Ordinals
  <2>2. IsFiniteSet(Table!Ordinals) BY <2>1, FS_Interval, RetrievalAssumption DEF Table!TableConstants
  <2> QED BY <2>2, FS_Product, RetrievalAssumption DEF Keys
<1>2. Cardinality(candidates) \in Nat BY <1>1, FS_Subset, FS_CardinalityType
<1>3. n \in Nat /\ n <= K BY <1>2, RetrievalAssumption DEF Fewer
<1>4. list \in [1..n -> candidates] BY DEF Rankings
<1> HIDE DEF n
<1>5. list \in Seq(candidates) BY <1>3, <1>4, SeqDef
<1>6. Len(list) = n BY <1>3, <1>4, <1>5, LenProperties
<1> QED BY <1>3, <1>5, <1>6

\* The hits of a ranking of keys that have rows show those rows.
ShowsRows(rows, hits) == \A i \in 1..Len(hits) : rows[hits[i].doc][hits[i].ord] = hits[i].text
LEMMA HitsOfRanking ==
  ASSUME NEW rows \in [Docs -> Rows], NEW candidates \in SUBSET Keys,
         \A k \in candidates : HasRow(rows, k),
         NEW list \in Rankings(candidates)
  PROVE  HitsOf(rows, list) \in Lists /\ ShowsRows(rows, HitsOf(rows, list))
<1>1. list \in Seq(candidates) /\ Len(list) <= K BY RankingsTypes
<1>2. \A i \in 1..Len(list) : list[i] \in candidates BY <1>1
<1>3. \A i \in 1..Len(list) : /\ HitOf(rows, list[i]) \in Hits
                             /\ rows[HitOf(rows, list[i]).doc][HitOf(rows, list[i]).ord]
                                  = HitOf(rows, list[i]).text
      BY <1>2, HitTypes
<1>4. HitsOf(rows, list) \in Seq(Hits) /\ Len(HitsOf(rows, list)) = Len(list)
      BY <1>1, <1>3 DEF HitsOf
<1>5. HitsOf(rows, list) \in Lists BY <1>1, <1>4 DEF Lists
<1>6. \A i \in 1..Len(list) : HitsOf(rows, list)[i] = HitOf(rows, list[i]) BY <1>1 DEF HitsOf
<1>7. ShowsRows(rows, HitsOf(rows, list)) BY <1>3, <1>4, <1>6 DEF ShowsRows
<1> QED BY <1>5, <1>7

LEMMA NoHits == <<>> \in Lists /\ Len(<<>>) = 0
BY RetrievalAssumption DEF Lists

\* The initial states satisfy the invariant.
LEMMA InitInv == Init => IInv
<1> SUFFICES ASSUME Init PROVE IInv
    OBVIOUS
<1>1. TypeOK BY RowTypes, NoChunksType, NoHits DEF Init, TypeOK, Rows, Table!Init
<1>2. FreshIndexMatches BY DEF Init, FreshIndexMatches
<1>3. CacheIsCurrent BY DEF Init, CacheIsCurrent
<1>4. QuietAnswersAreCurrent BY DEF Init, QuietAnswersAreCurrent
<1> QED BY <1>1, <1>2, <1>3, <1>4 DEF IInv

\* A commit of an ingest process: what no longer holds is no longer claimed.
LEMMA IngestedInv ==
  ASSUME IInv, NEW r \in Runs, Ingested(r)
  PROVE  IInv'
<1> USE DEF IInv, Ingested, builders, retrievers
<1>1. PICK d \in Docs, rows \in Rows : chunks' = [chunks EXCEPT ![r][d] = rows]
      BY RowTypes DEF Table!Drop, Table!Fill, Table!Set
<1>2. chunks \in [Runs -> [Docs -> Rows]] BY DEF TypeOK, Rows
<1>3. chunks' \in [Runs -> [Docs -> Rows]]
  <2> HIDE DEF IInv, Ingested
  <2> QED BY <1>1, <1>2
<1>4. \A s \in Runs \ {r} : chunks'[s] = chunks[s] BY <1>1, <1>2
<1>5. TypeOK'
  <2>1. \A q \in Retrievers : HalvesOn(q, r) \subseteq {"dense", "lexical"} BY DEF HalvesOn
  <2> QED BY <1>3, <2>1 DEF TypeOK, Rows
<1>6. FreshIndexMatches' BY SMTT(40), <1>4 DEF FreshIndexMatches, HasRow, TypeOK
<1>7. CacheIsCurrent'
  <2> SUFFICES ASSUME NEW q \in Retrievers
               PROVE  CacheIsCurrent!(q)'
      BY DEF CacheIsCurrent
  <2>1. CacheIsCurrent!(q) BY DEF CacheIsCurrent
  <2>2. touched'[q] = touched[q] \cup HalvesOn(q, r) BY DEF TypeOK
  <2>3. asked[q] = r => "dense" \in touched'[q] BY <2>2 DEF HalvesOn
  <2>4. built[q] = r => "lexical" \in touched'[q] BY <2>2 DEF HalvesOn
  <2> QED BY <1>4, <2>1, <2>2, <2>3, <2>4 DEF TypeOK, Current
<1>8. QuietAnswersAreCurrent'
  <2> SUFFICES ASSUME NEW q \in Retrievers, asked[q] # None, touched'[q] = {}
               PROVE  Current(asked[q], answer[q])'
      BY DEF QuietAnswersAreCurrent
  <2>1. touched'[q] = touched[q] \cup HalvesOn(q, r) BY DEF TypeOK
  <2>2. asked[q] # r BY <2>1 DEF HalvesOn
  <2>3. asked[q] \in Runs /\ touched[q] = {} BY <2>1 DEF TypeOK
  <2>4. Current(asked[q], answer[q]) BY <2>3 DEF QuietAnswersAreCurrent
  <2>5. chunks'[asked[q]] = chunks[asked[q]] BY <1>4, <2>2, <2>3
  <2> QED BY <2>4, <2>5 DEF Current
<1> QED BY <1>5, <1>6, <1>7, <1>8

\* Reading the chunks to embed.
LEMMA ReadChunksInv ==
  ASSUME IInv, NEW b \in Builders, NEW r \in Runs, ReadChunks(b, r)
  PROVE  IInv'
<1> USE DEF IInv, ReadChunks, retrievers
<1>1. TypeOK' BY DEF TypeOK
<1>2. FreshIndexMatches' BY SMTT(40) DEF FreshIndexMatches, HasRow
<1>3. CacheIsCurrent' /\ QuietAnswersAreCurrent'
      BY DEF CacheIsCurrent, QuietAnswersAreCurrent, Current
<1> QED BY <1>1, <1>2, <1>3

\* Committing the vectors: the run is fresh if what was read still stands.
LEMMA WriteVectorsInv ==
  ASSUME IInv, NEW b \in Builders, WriteVectors(b)
  PROVE  IInv'
<1> DEFINE r == job[b]
<1>1. r \in Runs /\ snap[b] \in [Docs -> Rows] /\ vec[r] \in [Docs -> Rows]
      BY DEF IInv, TypeOK, WriteVectors, Rows
<1>2. vec' = [vec EXCEPT ![r] = Embed(snap[b], vec[r])]
      BY DEF WriteVectors
<1>3. Embed(snap[b], vec[r]) \in [Docs -> Rows]
      BY <1>1, RowTypes
<1>4. TypeOK'
  <2>1. vec' \in [Runs -> [Docs -> Rows]]
        BY <1>1, <1>2, <1>3 DEF IInv, TypeOK, Rows
  <2> QED BY <1>1, <2>1, NoChunksType DEF IInv, TypeOK, WriteVectors, Rows, retrievers
<1>5. FreshIndexMatches'
  <2> SUFFICES ASSUME NEW s \in fresh', NEW k \in Keys, HasRow(chunks[s], k)
               PROVE  vec'[s][k[1]][k[2]] = chunks[s][k[1]][k[2]]
      BY DEF FreshIndexMatches, WriteVectors, HasRow
  <2>1. CASE s = r
    <3>1. snap[b] = chunks[r] BY <2>1 DEF WriteVectors
    <3>2. k[1] \in Docs /\ k[2] \in Table!Ordinals BY DEF Keys
    <3>3. vec'[r] = Embed(chunks[r], vec[r]) BY <1>1, <1>2, <3>1 DEF IInv, TypeOK
    <3>4. Embed(chunks[r], vec[r])[k[1]][k[2]] = chunks[r][k[1]][k[2]]
          BY <2>1, <3>2 DEF Embed, HasRow
    <3> QED BY <2>1, <3>3, <3>4
  <2>2. CASE s # r
    <3>1. s \in fresh BY <2>2 DEF WriteVectors
    <3>2. vec'[s] = vec[s] BY SMTT(40), <1>1, <1>2, <2>2, <3>1 DEF IInv, TypeOK
    <3> QED BY <3>1, <3>2 DEF IInv, FreshIndexMatches
  <2> QED BY <2>1, <2>2
<1>6. CacheIsCurrent' /\ QuietAnswersAreCurrent'
      BY DEF IInv, CacheIsCurrent, QuietAnswersAreCurrent, Current, WriteVectors, retrievers
<1> QED BY <1>4, <1>5, <1>6 DEF IInv

\* A builder that is killed takes only its own memory with it.
LEMMA KillBuilderInv ==
  ASSUME IInv, NEW b \in Builders, KillBuilder(b)
  PROVE  IInv'
<1> USE DEF IInv, KillBuilder, retrievers
<1>1. TypeOK' BY NoChunksType DEF TypeOK, Rows
<1>2. FreshIndexMatches' BY SMTT(40) DEF FreshIndexMatches, HasRow
<1>3. CacheIsCurrent' /\ QuietAnswersAreCurrent'
      BY DEF CacheIsCurrent, QuietAnswersAreCurrent, Current
<1> QED BY <1>1, <1>2, <1>3

\* A new retriever starts with nothing cached.
LEMMA ReopenInv ==
  ASSUME IInv, NEW q \in Retrievers, Reopen(q)
  PROVE  IInv'
<1> USE DEF IInv, Reopen, builders
<1>1. TypeOK' BY NoChunksType, NoHits DEF TypeOK, Rows
<1>2. FreshIndexMatches' BY SMTT(40) DEF FreshIndexMatches, HasRow
<1>3. CacheIsCurrent'
  <2> SUFFICES ASSUME NEW p \in Retrievers
               PROVE  CacheIsCurrent!(p)'
      BY DEF CacheIsCurrent
  <2>1. CASE p = q
    <3>1. /\ built'[q] = None /\ asked'[q] = None /\ pc'[q] = "ready"
          /\ dense'[q] = <<>> /\ lexical'[q] = <<>> /\ answer'[q] = <<>>
          BY DEF TypeOK
    <3> QED BY ONLY <2>1, <3>1
  <2>2. CASE p # q
    <3>1. /\ built'[p] = built[p] /\ asked'[p] = asked[p] /\ pc'[p] = pc[p] /\ lex'[p] = lex[p]
          /\ dense'[p] = dense[p] /\ lexical'[p] = lexical[p] /\ answer'[p] = answer[p]
          /\ touched'[p] = touched[p] /\ chunks' = chunks
          BY <2>2 DEF TypeOK
    <3>2. CacheIsCurrent OBVIOUS
    <3> QED BY ONLY <3>1, <3>2 DEF CacheIsCurrent, Current
  <2> QED BY <2>1, <2>2
<1>4. QuietAnswersAreCurrent' BY NoHits DEF QuietAnswersAreCurrent, Current, TypeOK
<1> QED BY <1>1, <1>2, <1>3, <1>4

\* The dense half: what the join returns is in the table.
LEMMA SearchDenseInv ==
  ASSUME IInv, NEW q \in Retrievers, NEW r \in Runs, SearchDense(q, r)
  PROVE  IInv'
<1>1. chunks[r] \in [Docs -> Rows]
      BY DEF IInv, TypeOK, Rows
<1>2. PICK hits : /\ dense' = [dense EXCEPT ![q] = hits]
                  /\ hits \in Lists
                  /\ Current(r, hits)
  <2>1. PICK best \in Rankings(Joined(r)) : dense' = [dense EXCEPT ![q] = HitsOf(chunks[r], best)]
        BY DEF SearchDense
  <2>2. Joined(r) \in SUBSET Keys /\ \A k \in Joined(r) : HasRow(chunks[r], k)
        BY DEF Joined
  <2>3. /\ HitsOf(chunks[r], best) \in Lists
        /\ ShowsRows(chunks[r], HitsOf(chunks[r], best))
        BY <1>1, <2>2, HitsOfRanking
  <2> QED BY <2>1, <2>3 DEF Current, ShowsRows
<1>3. TypeOK' BY <1>2, NoHits DEF IInv, TypeOK, SearchDense, builders
<1>4. FreshIndexMatches' BY DEF IInv, FreshIndexMatches, HasRow, SearchDense
<1>5. None \notin Runs BY RetrievalAssumption DEF Table!TableConstants
<1>6. CacheIsCurrent'
  <2> SUFFICES ASSUME NEW p \in Retrievers
               PROVE  CacheIsCurrent!(p)'
      BY DEF CacheIsCurrent
  <2>1. CacheIsCurrent!(p) BY DEF IInv, CacheIsCurrent
  <2>2. CASE p = q
    <3>1. lexical[p] = <<>> BY <2>1, <2>2 DEF SearchDense
    <3>2. /\ dense'[p] = hits /\ asked'[p] = r /\ pc'[p] = "dense"
          /\ answer'[p] = <<>> /\ lexical' = lexical
          /\ ("lexical" \in touched'[p] <=> "lexical" \in touched[p])
          /\ UNCHANGED <<chunks, built, lex>>
          BY <1>2, <2>2 DEF IInv, TypeOK, SearchDense
    <3>3. Current(r, <<>>)' /\ Current(r, hits)'
          BY SMTT(40), <1>2, <3>2, NoHits DEF Current
    <3> QED BY <1>5, <2>1, <3>1, <3>2, <3>3
  <2>3. CASE p # q
    <3>1. /\ dense'[p] = dense[p] /\ asked'[p] = asked[p] /\ pc'[p] = pc[p]
          /\ answer'[p] = answer[p] /\ lexical' = lexical /\ touched'[p] = touched[p]
          /\ UNCHANGED <<chunks, built, lex>>
          BY <1>2, <2>3 DEF IInv, TypeOK, SearchDense
    <3> QED BY <2>1, <3>1 DEF Current
  <2> QED BY <2>2, <2>3
<1>7. QuietAnswersAreCurrent'
  <2> SUFFICES ASSUME NEW p \in Retrievers, asked'[p] # None, touched'[p] = {}
               PROVE  Current(asked[p], answer[p])'
      BY DEF QuietAnswersAreCurrent
  <2>1. CASE p = q
    <3>1. answer'[p] = <<>> BY <2>1 DEF IInv, TypeOK, SearchDense
    <3> QED BY <3>1, NoHits DEF Current
  <2>2. CASE p # q
    <3>1. /\ asked'[p] = asked[p] /\ answer'[p] = answer[p] /\ touched'[p] = touched[p]
          /\ chunks' = chunks
          BY <2>2 DEF IInv, TypeOK, SearchDense
    <3> QED BY <3>1 DEF IInv, QuietAnswersAreCurrent, Current
  <2> QED BY <2>1, <2>2
<1> QED BY <1>3, <1>4, <1>6, <1>7 DEF IInv

\* What building the lexical index leaves: the index of the run asked for, as
\* the table is now unless it was written since the index was built.
LEMMA BuildLexicalFacts ==
  ASSUME IInv, NEW q \in Retrievers, NEW r \in Runs, BuildLexical(q, r)
  PROVE  /\ lex' \in [Retrievers -> [Docs -> Rows]]
         /\ built' = [built EXCEPT ![q] = r]
         /\ \A p \in Retrievers \ {q} : lex'[p] = lex[p]
         /\ "lexical" \notin Reread(q, r) => lex'[q] = chunks[r]
         /\ Reread(q, r) \subseteq {"dense", "lexical"}
         /\ "dense" \in Reread(q, r) <=> "dense" \in touched[q]
<1>1. /\ lex \in [Retrievers -> [Docs -> Rows]] /\ chunks[r] \in [Docs -> Rows]
      /\ built \in [Retrievers -> Runs \cup {None}]
      BY DEF IInv, TypeOK, Rows
<1>4. /\ Reread(q, r) \subseteq {"dense", "lexical"}
      /\ "dense" \in Reread(q, r) <=> "dense" \in touched[q]
      BY DEF IInv, TypeOK, Reread
<1>2. CASE built[q] = r
  <2>1. r # None BY RetrievalAssumption DEF Table!TableConstants
  <2>2. "lexical" \notin touched[q] => lex[q] = chunks[r]
        BY <1>2, <2>1 DEF IInv, CacheIsCurrent
  <2>3. lex' = [lex EXCEPT ![q] = lex[q]] BY <1>2 DEF BuildLexical
  <2>4. Reread(q, r) = touched[q] BY <1>2 DEF Reread
  <2> QED BY <1>1, <1>4, <2>2, <2>3, <2>4 DEF BuildLexical
<1>3. CASE built[q] # r
  <2>1. lex' = [lex EXCEPT ![q] = chunks[r]] BY <1>3 DEF BuildLexical
  <2> QED BY <1>1, <1>4, <2>1 DEF BuildLexical
<1> QED BY <1>2, <1>3, <1>4

\* What the lexical half returns is in its index.
LEMMA LexicalHitsFacts ==
  ASSUME NEW q \in Retrievers, lex'[q] \in [Docs -> Rows], NEW hits \in LexicalHits(q)
  PROVE  hits \in Lists /\ ShowsRows(lex'[q], hits)
<1> DEFINE candidates == {k \in Keys : HasRow(lex'[q], k)}
<1>1. PICK best \in Rankings(candidates) : hits = HitsOf(lex'[q], best)
      BY DEF LexicalHits
<1>2. candidates \in SUBSET Keys /\ \A k \in candidates : HasRow(lex'[q], k)
      OBVIOUS
<1> HIDE DEF candidates
<1> QED BY <1>1, <1>2, HitsOfRanking

\* The lexical half of a hybrid search.
LEMMA SearchLexicalInv ==
  ASSUME IInv, NEW q \in Retrievers, SearchLexical(q)
  PROVE  IInv'
<1> DEFINE r == asked[q]
<1>1. r \in Runs
      BY DEF IInv, TypeOK, CacheIsCurrent, SearchLexical
<1>2. BuildLexical(q, r) BY DEF SearchLexical
<1>3. /\ lex' \in [Retrievers -> [Docs -> Rows]]
      /\ built' = [built EXCEPT ![q] = r]
      /\ \A p \in Retrievers \ {q} : lex'[p] = lex[p]
      /\ "lexical" \notin Reread(q, r) => lex'[q] = chunks[r]
      /\ Reread(q, r) \subseteq {"dense", "lexical"}
      /\ "dense" \in Reread(q, r) <=> "dense" \in touched[q]
      BY <1>1, <1>2, BuildLexicalFacts
<1>4. PICK hits : /\ lexical' = [lexical EXCEPT ![q] = hits]
                  /\ hits \in Lists
                  /\ "lexical" \notin Reread(q, r) => Current(r, hits)
  <2>1. PICK hits \in LexicalHits(q) : lexical' = [lexical EXCEPT ![q] = hits]
        BY DEF SearchLexical
  <2>2. hits \in Lists /\ ShowsRows(lex'[q], hits) BY <1>3, LexicalHitsFacts
  <2> QED BY ZenonT(60), <1>3, <2>1, <2>2 DEF Current, ShowsRows
<1>9. touched' = [touched EXCEPT ![q] = Reread(q, r)] BY DEF SearchLexical
<1>5. TypeOK' BY <1>1, <1>3, <1>4, <1>9 DEF IInv, TypeOK, SearchLexical, builders, Rows
<1>6. FreshIndexMatches' BY SMTT(40) DEF IInv, FreshIndexMatches, HasRow, SearchLexical
<1>7. CacheIsCurrent'
  <2> SUFFICES ASSUME NEW p \in Retrievers
               PROVE  CacheIsCurrent!(p)'
      BY DEF CacheIsCurrent
  <2>1. CacheIsCurrent!(p) BY DEF IInv, CacheIsCurrent
  <2>2. CASE p = q
    <3>1. /\ built'[p] = r /\ asked'[p] = r /\ pc'[p] = "lexical" /\ lexical'[p] = hits
          /\ dense' = dense /\ answer' = answer /\ chunks' = chunks
          /\ touched'[p] = Reread(q, r)
          BY <1>1, <1>3, <1>4, <1>9, <2>2 DEF IInv, TypeOK, SearchLexical
    <3>2. pc[p] = "dense" BY <2>2 DEF SearchLexical
    <3>3. "dense" \notin Reread(q, r) => Current(r, dense[p])
          BY <1>1, <1>3, <2>1, <2>2, <3>2
    <3> QED BY <1>3, <1>4, <2>1, <2>2, <3>1, <3>2, <3>3 DEF Current
  <2>3. CASE p # q
    <3>1. /\ built'[p] = built[p] /\ asked' = asked /\ pc'[p] = pc[p] /\ lexical'[p] = lexical[p]
          /\ dense' = dense /\ answer' = answer /\ chunks' = chunks /\ lex'[p] = lex[p]
          /\ touched'[p] = touched[p]
          BY <1>3, <1>4, <1>9, <2>3 DEF IInv, TypeOK, SearchLexical
    <3> QED BY <2>1, <3>1 DEF Current
  <2> QED BY <2>2, <2>3
<1>8. QuietAnswersAreCurrent'
  <2> SUFFICES ASSUME NEW p \in Retrievers, asked'[p] # None, touched'[p] = {}
               PROVE  Current(asked[p], answer[p])'
      BY DEF QuietAnswersAreCurrent
  <2>1. asked' = asked /\ answer' = answer /\ chunks' = chunks BY DEF SearchLexical
  <2>2. CASE p = q
    <3>1. answer[p] = <<>> BY <2>2 DEF IInv, CacheIsCurrent, SearchLexical
    <3> QED BY <2>1, <3>1, NoHits DEF Current
  <2>3. CASE p # q
    <3>1. touched'[p] = touched[p] BY <1>9, <2>3 DEF IInv, TypeOK
    <3> QED BY <2>1, <3>1 DEF IInv, QuietAnswersAreCurrent, Current
  <2> QED BY <2>2, <2>3
<1> QED BY <1>5, <1>6, <1>7, <1>8 DEF IInv

\* Each hit of a fused list is one of a half's.
LEMMA FusedHits ==
  ASSUME NEW first \in Lists, NEW second \in Lists, NEW fused \in Fusions(first, second, K)
  PROVE  /\ fused \in Lists
         /\ \A i \in 1..Len(fused) :
              \/ \E j \in 1..Len(first) : fused[i] = first[j]
              \/ \E j \in 1..Len(second) : fused[i] = second[j]
<1>1. first \in Seq(Hits) /\ second \in Seq(Hits) /\ K \in Nat BY RetrievalAssumption DEF Lists
<1>2. /\ Len(fused) \in Nat /\ Len(fused) <= K
      /\ DOMAIN fused = 1..Len(fused)
      /\ \A i \in 1..Len(fused) : \E p \in Found(first, second) : fused[i] = Shown(first, second, p)
      BY <1>1, FusedLists
<1>3. \A i \in 1..Len(fused) :
        \/ \E j \in 1..Len(first) : fused[i] = first[j]
        \/ \E j \in 1..Len(second) : fused[i] = second[j]
  <2> SUFFICES ASSUME NEW i \in 1..Len(fused)
               PROVE  \/ \E j \in 1..Len(first) : fused[i] = first[j]
                      \/ \E j \in 1..Len(second) : fused[i] = second[j]
      OBVIOUS
  <2>1. PICK p \in Found(first, second) : fused[i] = Shown(first, second, p) BY <1>2
  <2>2. CASE p \in Places(second)
        BY <2>1, <2>2, RankFacts DEF Shown
  <2>3. CASE p \notin Places(second)
        BY <2>1, <2>3, RankFacts DEF Shown, Found
  <2> QED BY <2>2, <2>3
<1>4. \A i \in 1..Len(fused) : fused[i] \in Hits BY <1>1, <1>3
<1>5. fused \in [1..Len(fused) -> Hits]
  <2>1. fused = [i \in DOMAIN fused |-> fused[i]] BY DEF Fusions
  <2> QED BY <1>2, <1>4, <2>1
<1>6. fused \in Seq(Hits) BY <1>2, <1>5, SeqDef
<1> QED BY <1>2, <1>3, <1>6 DEF Lists

\* A hit of the fused list is the lexical half's of its place, or else the dense
\* half's.
LEMMA FusedAsShown ==
  ASSUME NEW first \in Lists, NEW second \in Lists, NEW fused \in Fusions(first, second, K),
         NEW i \in 1..Len(fused)
  PROVE  /\ Place(fused[i]) \in Found(first, second)
         /\ Place(fused[i]) \notin Places(second) => Place(fused[i]) \in Places(first)
         /\ fused[i] = Shown(first, second, Place(fused[i]))
         /\ fused[i] = IF Place(fused[i]) \in Places(second)
                       THEN second[RankOf(second, Place(fused[i]))]
                       ELSE first[RankOf(first, Place(fused[i]))]
<1>1. first \in Seq(Hits) /\ second \in Seq(Hits) /\ K \in Nat BY RetrievalAssumption DEF Lists
<1>2. PICK p \in Found(first, second) : fused[i] = Shown(first, second, p) BY <1>1, FusedLists
<1>3. Place(fused[i]) = p
  <2>1. CASE p \in Places(second) BY <1>2, <2>1, RankFacts DEF Shown
  <2>2. CASE p \notin Places(second) BY <1>2, <2>2, RankFacts DEF Shown, Found
  <2> QED BY <2>1, <2>2
<1> QED BY <1>2, <1>3 DEF Shown, Found

\* The fusion shows what the halves have shown.
LEMMA FuseInv ==
  ASSUME IInv, NEW q \in Retrievers, Fuse(q)
  PROVE  IInv'
<1> DEFINE r == asked[q]
<1>1. r \in Runs /\ r # None
      BY RetrievalAssumption DEF IInv, TypeOK, CacheIsCurrent, Fuse, Table!TableConstants
<1>2. PICK fused \in Fusions(dense[q], lexical[q], K) : answer' = [answer EXCEPT ![q] = fused]
      BY DEF Fuse
<1>3. dense[q] \in Lists /\ lexical[q] \in Lists BY DEF IInv, TypeOK
<1>4. /\ fused \in Lists
      /\ \A i \in 1..Len(fused) :
           \/ \E j \in 1..Len(dense[q]) : fused[i] = dense[q][j]
           \/ \E j \in 1..Len(lexical[q]) : fused[i] = lexical[q][j]
      BY <1>3, FusedHits
<1>5. touched[q] = {} => Current(r, dense[q]) /\ Current(r, lexical[q])
      BY <1>1 DEF IInv, CacheIsCurrent
<1>6. touched[q] = {} => Current(r, fused) BY ZenonT(60), <1>4, <1>5 DEF Current
<1>7. TypeOK' BY <1>2, <1>4, NoHits DEF IInv, TypeOK, Fuse, builders
<1>8. FreshIndexMatches' BY DEF IInv, FreshIndexMatches, HasRow, Fuse
<1>9. CacheIsCurrent'
  <2> SUFFICES ASSUME NEW p \in Retrievers
               PROVE  CacheIsCurrent!(p)'
      BY DEF CacheIsCurrent
  <2>1. CacheIsCurrent!(p) BY SMTT(40) DEF IInv, CacheIsCurrent
  <2> QED BY <2>1, NoHits DEF IInv, TypeOK, Fuse, Current
<1>10. QuietAnswersAreCurrent'
      BY ZenonT(60), <1>2, <1>6 DEF IInv, TypeOK, QuietAnswersAreCurrent, Current, Fuse
<1> QED BY <1>7, <1>8, <1>9, <1>10 DEF IInv

\* A search of the lexical index alone.
LEMMA SearchLexicalAloneInv ==
  ASSUME IInv, NEW q \in Retrievers, NEW r \in Runs, SearchLexicalAlone(q, r)
  PROVE  IInv'
<1>1. BuildLexical(q, r) BY DEF SearchLexicalAlone
<1>2. /\ lex' \in [Retrievers -> [Docs -> Rows]]
      /\ built' = [built EXCEPT ![q] = r]
      /\ \A p \in Retrievers \ {q} : lex'[p] = lex[p]
      /\ "lexical" \notin Reread(q, r) => lex'[q] = chunks[r]
      /\ Reread(q, r) \subseteq {"dense", "lexical"}
      BY <1>1, BuildLexicalFacts
<1>3. PICK hits : /\ answer' = [answer EXCEPT ![q] = hits]
                  /\ hits \in Lists
                  /\ "lexical" \notin Reread(q, r) => Current(r, hits)
  <2>1. PICK hits \in LexicalHits(q) : answer' = [answer EXCEPT ![q] = hits]
        BY DEF SearchLexicalAlone
  <2>2. hits \in Lists /\ ShowsRows(lex'[q], hits) BY <1>2, LexicalHitsFacts
  <2> QED BY ZenonT(60), <1>2, <2>1, <2>2 DEF Current, ShowsRows
<1>4. dense[q] = <<>> /\ lexical[q] = <<>> BY DEF IInv, CacheIsCurrent, SearchLexicalAlone
<1>9. touched' = [touched EXCEPT ![q] = Reread(q, r) \ {"dense"}] BY DEF SearchLexicalAlone
<1>5. TypeOK' BY <1>2, <1>3, <1>9 DEF IInv, TypeOK, SearchLexicalAlone, builders, Rows
<1>6. FreshIndexMatches' BY SMTT(40) DEF IInv, FreshIndexMatches, HasRow, SearchLexicalAlone
<1>7. CacheIsCurrent'
  <2> SUFFICES ASSUME NEW p \in Retrievers
               PROVE  CacheIsCurrent!(p)'
      BY DEF CacheIsCurrent
  <2>1. CacheIsCurrent!(p) BY DEF IInv, CacheIsCurrent
  <2>2. CASE p = q
    <3>1. /\ built'[p] = r /\ asked'[p] = r /\ pc'[p] = "ready"
          /\ dense'[p] = <<>> /\ lexical'[p] = <<>> /\ chunks' = chunks
          /\ touched'[p] = Reread(q, r) \ {"dense"}
          BY <1>2, <1>4, <1>9, <2>2 DEF IInv, TypeOK, SearchLexicalAlone
    <3> QED BY <1>2, <2>2, <3>1, NoHits DEF Current
  <2>3. CASE p # q
    <3>1. /\ built'[p] = built[p] /\ asked'[p] = asked[p] /\ pc'[p] = pc[p] /\ lexical' = lexical
          /\ dense' = dense /\ answer'[p] = answer[p] /\ chunks' = chunks /\ lex'[p] = lex[p]
          /\ touched'[p] = touched[p]
          BY <1>2, <1>3, <1>9, <2>3 DEF IInv, TypeOK, SearchLexicalAlone
    <3> QED BY <2>1, <3>1 DEF Current
  <2> QED BY <2>2, <2>3
<1>8. QuietAnswersAreCurrent'
  <2> SUFFICES ASSUME NEW p \in Retrievers, asked'[p] # None, touched'[p] = {}
               PROVE  Current(asked[p], answer[p])'
      BY DEF QuietAnswersAreCurrent
  <2>1. CASE p = q
    <3>1. asked'[p] = r /\ answer'[p] = hits /\ chunks' = chunks /\ "lexical" \notin Reread(q, r)
          BY <1>3, <1>9, <2>1 DEF IInv, TypeOK, SearchLexicalAlone
    <3> QED BY <1>3, <3>1 DEF Current
  <2>2. CASE p # q
    <3>1. asked'[p] = asked[p] /\ answer'[p] = answer[p] /\ chunks' = chunks /\ touched'[p] = touched[p]
          BY <1>3, <1>9, <2>2 DEF IInv, TypeOK, SearchLexicalAlone
    <3> QED BY <3>1 DEF IInv, QuietAnswersAreCurrent, Current
  <2> QED BY <2>1, <2>2
<1> QED BY <1>5, <1>6, <1>7, <1>8 DEF IInv

\* Every step preserves the invariant.
LEMMA NextInv == IInv /\ [Next]_vars => IInv'
<1> SUFFICES ASSUME IInv, [Next]_vars PROVE IInv'
    OBVIOUS
<1>1. CASE UNCHANGED vars
  <2> USE <1>1 DEF IInv, vars, builders, retrievers
  <2>1. TypeOK' BY DEF TypeOK
  <2>2. FreshIndexMatches' BY SMTT(40) DEF FreshIndexMatches, HasRow
  <2>3. CacheIsCurrent' /\ QuietAnswersAreCurrent'
        BY DEF CacheIsCurrent, QuietAnswersAreCurrent, Current
  <2> QED BY <2>1, <2>2, <2>3
<1>2. CASE \E r \in Runs : Ingested(r)
      BY <1>2, IngestedInv
<1>3. CASE \E b \in Builders : (\E r \in Runs : ReadChunks(b, r)) \/ WriteVectors(b) \/ KillBuilder(b)
      BY <1>3, ReadChunksInv, WriteVectorsInv, KillBuilderInv
<1>4. CASE \E q \in Retrievers :
             \/ Reopen(q) \/ SearchLexical(q) \/ Fuse(q)
             \/ \E r \in Runs : SearchDense(q, r) \/ SearchLexicalAlone(q, r)
      BY <1>4, ReopenInv, SearchLexicalInv, FuseInv, SearchDenseInv, SearchLexicalAloneInv
<1> QED BY <1>1, <1>2, <1>3, <1>4 DEF Next

\* The invariant holds in every behaviour.
THEOREM Invariance == Spec => []IInv
<1>1. Init => IInv BY InitInv
<1>2. IInv /\ [Next]_vars => IInv' BY NextInv
<1> QED BY <1>1, <1>2, PTL DEF Spec

\* The tables, builders and retrievers keep their types.
THEOREM TypeCorrect == Spec => []TypeOK
<1>1. IInv => TypeOK BY DEF IInv
<1> QED BY <1>1, Invariance, PTL

\* A build that nothing overtook gives every chunk of the run its own vector,
\* whatever was in the embeddings table (retrieval.py:143).
THEOREM FreshIndexIsRight == Spec => []FreshIndexMatches
<1>1. IInv => FreshIndexMatches BY DEF IInv
<1> QED BY <1>1, Invariance, PTL

\* A retriever cites only chunks its run has, while nobody writes that run.
THEOREM QuietAnswers == Spec => []QuietAnswersAreCurrent
<1>1. IInv => QuietAnswersAreCurrent BY DEF IInv
<1> QED BY <1>1, Invariance, PTL

\* A hybrid search is fused in the step Fuse.
LEMMA FusingIsFuse ==
  ASSUME IInv, [Next]_vars, NEW q \in Retrievers, Fusing(q)
  PROVE  answer'[q] \in Fusions(dense[q], lexical[q], K)
<1>1. answer[q] = <<>> BY DEF IInv, CacheIsCurrent, Fusing
<1>2. answer \in [Retrievers -> Lists] /\ pc[q] = "lexical" /\ answer'[q] # answer[q]
      BY <1>1 DEF IInv, TypeOK, Fusing
<1> QED BY <1>1, <1>2 DEF Next, vars, retrievers, builders, Ingested, ReadChunks, WriteVectors, KillBuilder,
      Reopen, SearchDense, SearchLexical, Fuse, SearchLexicalAlone, Fusing

\* Fusion by rank (lexical.py:115): a hybrid search never turns round what its
\* halves agree on, and puts what both have found before what one has found.
THEOREM SearchIsFair == Spec => FusionIsFair
<1>1. ASSUME IInv, [Next]_vars, NEW q \in Retrievers, Fusing(q)
      PROVE  Fair(dense[q], lexical[q], answer'[q])
  <2>1. answer'[q] \in Fusions(dense[q], lexical[q], K) BY <1>1, FusingIsFuse
  <2>2. /\ dense[q] \in Seq(Hits) /\ Len(dense[q]) <= Damping + 1
        /\ lexical[q] \in Seq(Hits) /\ Len(lexical[q]) <= Damping + 1
        BY <1>1, RetrievalAssumption, FusionAssumption DEF IInv, TypeOK, Lists
  <2> QED BY <2>1, <2>2, RetrievalAssumption, FusionsAreFair
<1>2. IInv /\ [Next]_vars => [\A q \in Retrievers : Fusing(q) => Fair(dense[q], lexical[q], answer'[q])]_vars
      BY <1>1
<1> QED BY <1>2, Invariance, PTL DEF Spec, FusionIsFair

\* The halves of a search read the table apart (hybrid.py:79, 83): a chunk that
\* was written in between is shown as the half that read it last has it.
THEOREM SearchShowsLastRead == Spec => ShownAsLastRead
<1>1. ASSUME IInv, [Next]_vars, NEW q \in Retrievers, Fusing(q), NEW i \in 1..Len(answer'[q]),
             NEW half, half = IF Place(answer'[q][i]) \in Places(lexical[q]) THEN "lexical" ELSE "dense",
             half \notin touched[q]
      PROVE  chunks[asked[q]][answer'[q][i].doc][answer'[q][i].ord] = answer'[q][i].text
  <2>1. answer'[q] \in Fusions(dense[q], lexical[q], K) BY <1>1, FusingIsFuse
  <2>2. dense[q] \in Lists /\ lexical[q] \in Lists BY <1>1 DEF IInv, TypeOK
  <2>3. answer'[q][i] = IF Place(answer'[q][i]) \in Places(lexical[q])
                        THEN lexical[q][RankOf(lexical[q], Place(answer'[q][i]))]
                        ELSE dense[q][RankOf(dense[q], Place(answer'[q][i]))]
        BY <1>1, <2>1, <2>2, FusedAsShown
  <2>4. asked[q] # None BY <1>1 DEF IInv, CacheIsCurrent, Fusing
  <2>5. CASE Place(answer'[q][i]) \in Places(lexical[q])
    <3>1. Current(asked[q], lexical[q]) BY <1>1, <2>4, <2>5 DEF IInv, CacheIsCurrent
    <3> QED BY <2>3, <2>5, <3>1, RankFacts DEF Current
  <2>6. CASE Place(answer'[q][i]) \notin Places(lexical[q])
    <3>1. Current(asked[q], dense[q]) BY <1>1, <2>4, <2>6 DEF IInv, CacheIsCurrent
    <3>2. Place(answer'[q][i]) \in Places(dense[q]) BY <1>1, <2>1, <2>2, <2>6, FusedAsShown
    <3> QED BY <2>3, <2>6, <3>1, <3>2, RankFacts DEF Current
  <2> QED BY <2>5, <2>6
<1>2. IInv /\ [Next]_vars => [\A q \in Retrievers : Fusing(q) =>
       \A i \in 1..Len(answer'[q]) :
         LET hit == answer'[q][i]
             half == IF Place(hit) \in Places(lexical[q]) THEN "lexical" ELSE "dense"
         IN  half \notin touched[q] => chunks[asked[q]][hit.doc][hit.ord] = hit.text]_vars
      BY <1>1
<1> QED BY <1>2, Invariance, PTL DEF Spec, ShownAsLastRead
=============================================================================
