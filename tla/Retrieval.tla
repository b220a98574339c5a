----------------------------- MODULE Retrieval -----------------------------
(***************************************************************************)
(* The two indexes over the table of chunks and the hybrid search that     *)
(* fuses them: the embeddings table that dastavez.index_build writes       *)
(* (retrieval.py), and the BM25 index each retriever builds in memory and  *)
(* keeps for as long as it is asked about the same run (lexical.py).       *)
(*                                                                         *)
(* Ingestion goes on meanwhile.  It is present here as ChunkTable, which   *)
(* Ingest implements: between two statements of a builder or a retriever   *)
(* any document may be dropped or filled.  A chunk's text, and a vector,   *)
(* are the version they were made from.  Scoring is abstracted, ranks are  *)
(* not: a half may rank its candidates in any order, and Fusion makes of   *)
(* two rankings what the code makes of them.  One embedding model: the     *)
(* embeddings of two models share no row.                                  *)
(***************************************************************************)
EXTENDS Fusion

CONSTANTS
  Runs, Docs, Versions, None, MaxChunks, Count,
  Builders,    \* processes that run python -m dastavez.index_build
  Retrievers,  \* processes that hold a HybridRetriever or a LexicalIndex
  K            \* hits asked for

VARIABLES
  chunks,   \* the chunks table
  vec,      \* the embeddings table: run, document and ordinal to version
  job,      \* the run a builder is embedding, or None
  snap,     \* the chunks it has read of that run
  built,    \* LexicalIndex._built_for
  lex,      \* LexicalIndex._chunks
  asked,    \* the run of a retriever's search
  pc,       \* how far that search is
  dense,    \* the hits of its dense half, the best first
  lexical,  \* those of its lexical half
  answer,   \* the hits that the last search returned
  fresh,    \* history: the runs unchanged since a build that read them so
  touched   \* history: the halves of which the run was written since they read it,
            \* the dense one for its search, the lexical one for its index

builders == <<job, snap>>
retrievers == <<built, lex, asked, pc, dense, lexical, answer>>
vars == <<chunks, vec, builders, retrievers, fresh, touched>>

Table == INSTANCE ChunkTable

\* k is 5, or 10 in the comparison.
ASSUME RetrievalAssumption ==
  /\ Table!TableConstants /\ IsFiniteSet(Docs)
  /\ K \in Nat /\ K <= Damping + 1

Keys == Docs \X Table!Ordinals

\* A hit: where the chunk stands, and its text.
Hits == [doc : Docs, ord : Table!Ordinals, text : Versions]

NoChunks == [d \in Docs |-> Table!Empty]
HasRow(rows, k) == rows[k[1]][k[2]] # None
HitOf(rows, k) == [doc |-> k[1], ord |-> k[2], text |-> rows[k[1]][k[2]]]

\* The k best of some candidates, whatever the scores.
Rankings(candidates) ==
  {list \in [1..Fewer(K, Cardinality(candidates)) -> candidates] :
     \A i, j \in DOMAIN list : list[i] = list[j] => i = j}

HitsOf(rows, list) == [i \in 1..Len(list) |-> HitOf(rows, list[i])]

Init ==
  /\ Table!Init
  /\ vec = [r \in Runs |-> NoChunks]
  /\ job = [b \in Builders |-> None]
  /\ snap = [b \in Builders |-> NoChunks]
  /\ built = [q \in Retrievers |-> None]
  /\ lex = [q \in Retrievers |-> NoChunks]
  /\ asked = [q \in Retrievers |-> None]
  /\ pc = [q \in Retrievers |-> "ready"]
  /\ dense = [q \in Retrievers |-> <<>>]
  /\ lexical = [q \in Retrievers |-> <<>>]
  /\ answer = [q \in Retrievers |-> <<>>]
  /\ fresh = {}
  /\ touched = [q \in Retrievers |-> {}]

\* The halves of a retriever that have read run r.
HalvesOn(q, r) ==
  {half \in {"dense", "lexical"} : (IF half = "dense" THEN asked[q] ELSE built[q]) = r}

\* A commit of some ingest process changes the rows of run r.
Ingested(r) ==
  /\ \E d \in Docs : Table!Drop(r, d) \/ \E v \in Versions : Table!Fill(r, d, v)
  /\ chunks'[r] # chunks[r]
  /\ fresh' = fresh \ {r}
  /\ touched' = [q \in Retrievers |-> touched[q] \cup HalvesOn(q, r)]
  /\ UNCHANGED <<vec, builders, retrievers>>

(***************************************************************************)
(* index_build.                                                            *)
(***************************************************************************)

\* main reads all chunks of the run; where there are none it stops.
ReadChunks(b, r) ==
  /\ job[b] = None
  /\ chunks[r] # NoChunks
  /\ job' = [job EXCEPT ![b] = r]
  /\ snap' = [snap EXCEPT ![b] = chunks[r]]
  /\ UNCHANGED <<chunks, vec, retrievers, fresh, touched>>

\* Mutation of Embed: INSERT OR IGNORE.
EmbedOnce(rows, vectors) ==
  [d \in Docs |-> [o \in Table!Ordinals |->
     IF vectors[d][o] # None THEN vectors[d][o] ELSE rows[d][o]]]

\* INSERT OR REPLACE of a vector per chunk read; the other rows stay.
Embed(rows, vectors) ==
  [d \in Docs |-> [o \in Table!Ordinals |->
     IF rows[d][o] # None THEN rows[d][o] ELSE vectors[d][o]]]

\* build: embed what was read and commit.
WriteVectors(b) ==
  LET r == job[b]
  IN  /\ r # None
      /\ vec' = [vec EXCEPT ![r] = Embed(snap[b], @)]
      /\ fresh' = IF snap[b] = chunks[r] THEN fresh \cup {r} ELSE fresh \ {r}
      /\ job' = [job EXCEPT ![b] = None]
      /\ snap' = [snap EXCEPT ![b] = NoChunks]
      /\ UNCHANGED <<chunks, retrievers, touched>>

\* The builder is killed while it embeds: nothing was written yet.
KillBuilder(b) ==
  /\ job[b] # None
  /\ job' = [job EXCEPT ![b] = None]
  /\ snap' = [snap EXCEPT ![b] = NoChunks]
  /\ UNCHANGED <<chunks, vec, retrievers, fresh, touched>>

(***************************************************************************)
(* A retriever.                                                            *)
(***************************************************************************)

\* A new process, with an empty LexicalIndex.
Reopen(q) ==
  /\ built' = [built EXCEPT ![q] = None]
  /\ lex' = [lex EXCEPT ![q] = NoChunks]
  /\ asked' = [asked EXCEPT ![q] = None]
  /\ pc' = [pc EXCEPT ![q] = "ready"]
  /\ dense' = [dense EXCEPT ![q] = <<>>]
  /\ lexical' = [lexical EXCEPT ![q] = <<>>]
  /\ answer' = [answer EXCEPT ![q] = <<>>]
  /\ touched' = [touched EXCEPT ![q] = {}]
  /\ UNCHANGED <<chunks, vec, builders, fresh>>

\* Mutation of Joined: every vector is a hit, with a chunk or without.
Unjoined(r) == {k \in Keys : HasRow(vec[r], k)}

\* The JOIN of _dense: the keys that have both a vector and a chunk.
Joined(r) == {k \in Keys : HasRow(vec[r], k) /\ HasRow(chunks[r], k)}

\* compare, first half.  Where the join is empty, LookupError ends the search
\* and leaves the retriever as it was.
SearchDense(q, r) ==
  /\ pc[q] = "ready"
  /\ Joined(r) # {}
  /\ \E best \in Rankings(Joined(r)) : dense' = [dense EXCEPT ![q] = HitsOf(chunks[r], best)]
  /\ asked' = [asked EXCEPT ![q] = r]
  /\ pc' = [pc EXCEPT ![q] = "dense"]
  /\ answer' = [answer EXCEPT ![q] = <<>>]
  /\ touched' = [touched EXCEPT ![q] = @ \ {"dense"}]
  /\ UNCHANGED <<chunks, vec, builders, built, lex, lexical, fresh>>

\* Mutation of BuildLexical: built once, for whichever run came first.
BuildLexicalOnce(q, r) ==
  /\ lex' = [lex EXCEPT ![q] = IF built[q] # None THEN @ ELSE chunks[r]]
  /\ built' = [built EXCEPT ![q] = r]

\* _build: the chunks of the run, unless the index was built for that run.
BuildLexical(q, r) ==
  /\ lex' = [lex EXCEPT ![q] = IF built[q] = r THEN @ ELSE chunks[r]]
  /\ built' = [built EXCEPT ![q] = r]

\* What the history says of a retriever whose index was asked about run r.
Reread(q, r) == IF built[q] = r THEN touched[q] ELSE touched[q] \ {"lexical"}

\* LexicalIndex.search.
LexicalHits(q) ==
  {HitsOf(lex'[q], best) : best \in Rankings({k \in Keys : HasRow(lex'[q], k)})}

\* compare, second half.
SearchLexical(q) ==
  /\ pc[q] = "dense"
  /\ BuildLexical(q, asked[q])
  /\ \E hits \in LexicalHits(q) : lexical' = [lexical EXCEPT ![q] = hits]
  /\ pc' = [pc EXCEPT ![q] = "lexical"]
  /\ touched' = [touched EXCEPT ![q] = Reread(q, asked[q])]
  /\ UNCHANGED <<chunks, vec, builders, asked, dense, answer, fresh>>

\* compare, the fusion of what the halves found.
Fuse(q) ==
  /\ pc[q] = "lexical"
  /\ \E fused \in Fusions(dense[q], lexical[q], K) : answer' = [answer EXCEPT ![q] = fused]
  /\ pc' = [pc EXCEPT ![q] = "ready"]
  /\ dense' = [dense EXCEPT ![q] = <<>>]
  /\ lexical' = [lexical EXCEPT ![q] = <<>>]
  /\ UNCHANGED <<chunks, vec, builders, built, lex, asked, fresh, touched>>

\* A caller that holds a LexicalIndex alone, as second_annotator does.
SearchLexicalAlone(q, r) ==
  /\ pc[q] = "ready"
  /\ BuildLexical(q, r)
  /\ \E hits \in LexicalHits(q) : answer' = [answer EXCEPT ![q] = hits]
  /\ asked' = [asked EXCEPT ![q] = r]
  /\ touched' = [touched EXCEPT ![q] = Reread(q, r) \ {"dense"}]
  /\ UNCHANGED <<chunks, vec, builders, pc, dense, lexical, fresh>>

Next ==
  \/ \E r \in Runs : Ingested(r)
  \/ \E b \in Builders :
       \/ \E r \in Runs : ReadChunks(b, r)
       \/ WriteVectors(b) \/ KillBuilder(b)
  \/ \E q \in Retrievers :
       \/ Reopen(q) \/ SearchLexical(q) \/ Fuse(q)
       \/ \E r \in Runs : SearchDense(q, r) \/ SearchLexicalAlone(q, r)

Spec == Init /\ [][Next]_vars

(***************************************************************************)
(* Properties.                                                             *)
(***************************************************************************)

Lists == {list \in Seq(Hits) : Len(list) <= K}

TypeOK ==
  /\ chunks \in [Runs -> [Docs -> Table!RowSets]]
  /\ vec \in [Runs -> [Docs -> Table!RowSets]]
  /\ job \in [Builders -> Runs \cup {None}]
  /\ snap \in [Builders -> [Docs -> Table!RowSets]]
  /\ built \in [Retrievers -> Runs \cup {None}]
  /\ lex \in [Retrievers -> [Docs -> Table!RowSets]]
  /\ asked \in [Retrievers -> Runs \cup {None}]
  /\ pc \in [Retrievers -> {"ready", "dense", "lexical"}]
  /\ dense \in [Retrievers -> Lists]
  /\ lexical \in [Retrievers -> Lists]
  /\ answer \in [Retrievers -> Lists]
  /\ fresh \subseteq Runs
  /\ touched \in [Retrievers -> SUBSET {"dense", "lexical"}]

\* After a build that nothing overtook, every chunk of the run is scored by its
\* own vector, whatever stale vectors, killed builds and overlapping builders
\* the embeddings table had seen before.
FreshIndexMatches ==
  \A r \in fresh : \A k \in Keys :
    HasRow(chunks[r], k) => vec[r][k[1]][k[2]] = chunks[r][k[1]][k[2]]

Current(r, hits) ==
  \A i \in 1..Len(hits) : chunks[r][hits[i].doc][hits[i].ord] = hits[i].text

\* An answer cites chunks that the run really has, as long as nobody has written
\* it since the search began and, where the retriever came to it with an index of
\* that very run, since that index was built: whichever runs it was asked about
\* and were written in between, and however many orphaned vectors are about.
QuietAnswersAreCurrent ==
  \A q \in Retrievers :
    (asked[q] # None /\ touched[q] = {}) => Current(asked[q], answer[q])

\* "Combine ranked lists by rank" (lexical.py:118), whatever the two halves
\* found and whether or not they saw the same chunks: what they agree on is not
\* turned round, and a chunk both have found is before one that one has found.
Fusing(q) == pc[q] = "lexical" /\ answer'[q] # <<>>
FusionIsFair ==
  [][\A q \in Retrievers : Fusing(q) => Fair(dense[q], lexical[q], answer'[q])]_vars

\* The halves of a search read the table apart.  Where a chunk was written in
\* between, the one that is shown is the one of the half that read last: no hit
\* that a current lexical index has is shown as the dense half had it, and one of
\* the dense half alone is as stale as that half and no more.
ShownAsLastRead ==
  [][\A q \in Retrievers : Fusing(q) =>
       \A i \in 1..Len(answer'[q]) :
         LET hit == answer'[q][i]
             half == IF Place(hit) \in Places(lexical[q]) THEN "lexical" ELSE "dense"
         IN  half \notin touched[q] => chunks[asked[q]][hit.doc][hit.ord] = hit.text]_vars

(***************************************************************************)
(* The inductive invariant behind them.                                    *)
(***************************************************************************)

\* The lexical index, and the hits of a search under way, are of the table as it
\* is unless the run was written since they were read.
CacheIsCurrent ==
  \A q \in Retrievers :
    /\ (built[q] # None /\ "lexical" \notin touched[q]) => lex[q] = chunks[built[q]]
    /\ pc[q] # "ready" => asked[q] # None
    /\ pc[q] = "ready" => dense[q] = <<>>
    /\ pc[q] # "lexical" => lexical[q] = <<>>
    /\ pc[q] # "ready" => answer[q] = <<>>
    /\ pc[q] = "lexical" => built[q] = asked[q]
    /\ (asked[q] # None /\ "dense" \notin touched[q]) => Current(asked[q], dense[q])
    /\ (asked[q] # None /\ "lexical" \notin touched[q]) => Current(asked[q], lexical[q])

IInv == TypeOK /\ FreshIndexMatches /\ CacheIsCurrent /\ QuietAnswersAreCurrent
=============================================================================
