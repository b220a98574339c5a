----------------------------- MODULE ChunkTable -----------------------------
(***************************************************************************)
(* What the table of chunks promises to everything that reads it: at any   *)
(* committed state, the rows of a document in a run are all the chunks of  *)
(* one version of that document, or there are none.                        *)
(***************************************************************************)
EXTENDS Naturals

CONSTANTS
  Runs,      \* run ids: the configurations of the ablation
  Docs,      \* document ids, numbered in sorted order
  Versions,  \* contents a document may have on disk
  None,      \* no row, no file or no entry
  MaxChunks, \* bound on the chunks of a document
  Count      \* the number of chunks that the splitter makes of a version

\* What the modules that are built on the table assume of these.
TableConstants ==
  /\ Docs \subseteq Nat
  /\ None \notin Versions \cup Runs \cup Docs
  /\ MaxChunks \in Nat
  /\ Count \in [Versions -> 0..MaxChunks]

VARIABLE chunks   \* the chunks table: run, document and ordinal to version

Ordinals == 0..(MaxChunks - 1)
RowSets == [Ordinals -> Versions \cup {None}]

\* The rows of a document that has no chunk, and those of a version.
Empty == [o \in Ordinals |-> None]
ChunkSet(v) == [o \in Ordinals |-> IF o < Count[v] THEN v ELSE None]

Set(r, d, rows) == chunks' = [chunks EXCEPT ![r][d] = rows]

Init == chunks = [r \in Runs |-> [d \in Docs |-> Empty]]

Drop(r, d) == Set(r, d, Empty)

Fill(r, d, v) == chunks[r][d] = Empty /\ Set(r, d, ChunkSet(v))

Next ==
  \E r \in Runs, d \in Docs :
    \/ Drop(r, d)
    \/ \E v \in Versions : Fill(r, d, v)

Spec == Init /\ [][Next]_chunks

\* "A configuration whose chunk set silently mixes two versions of itself is
\* the precise failure an ablation cannot survive" (store.py:120-121): a
\* document's rows are never a mix, and no tail of an older version stays.
NeverMixed ==
  \A r \in Runs, d \in Docs :
    \/ chunks[r][d] = Empty
    \/ \E v \in Versions : chunks[r][d] = ChunkSet(v)
=============================================================================
