------------------------------- MODULE Ingest -------------------------------
(***************************************************************************)
(* dastavez.ingest.run: processes that convert documents through the block *)
(* cache (ingest/converters.py) and store their chunks (store.py), one     *)
(* SQLite commit at a time, while the files under them may change and any  *)
(* process may be killed.                                                  *)
(*                                                                         *)
(* A document's content is a version; its blocks and its chunks carry the  *)
(* version they were made from.  The runs of one model share a converter,  *)
(* and so the cache: they differ in cleaning, splitter or metadata.        *)
(* dastavez.offline_convert is a process that does the same for one        *)
(* document, under the run Offline, and stops at the cache.                *)
(***************************************************************************)
EXTENDS Naturals, FiniteSets

CONSTANTS
  Runs, Docs, Versions, None, MaxChunks, Count,
  Ingesters,   \* processes of dastavez.ingest.run or dastavez.offline_convert
  Offline,     \* what the latter have for a run
  Torn,        \* a cache file that does not parse
  Exclusive    \* the operator never runs two ingests of one run at once

VARIABLES
  chunks,   \* the chunks table of corpus/chunks.sqlite
  started,  \* the runs that have a row in the runs table
  source,   \* corpus/documents: the version on disk, or None
  cache,    \* corpus/.converted: document and digest to version of the blocks
  pc,       \* where an ingester is
  run,      \* the run it ingests
  todo,     \* the documents it has still to ingest
  doc,      \* the document at hand
  refresh,  \* its --refresh flag
  key,      \* the version whose digest it computed
  blocks,   \* the version of the blocks it holds
  crowd,    \* those writing an entry that another has opened beside them
  done,     \* history: the documents it has written so far
  edited,   \* history: those it has at hand or has written that changed since
            \* it hashed them
  stored,   \* history: run and document pairs whose chunks were committed
  slipped   \* history: document and digest pairs under which a process has
            \* converted bytes that were not the ones it had hashed

store == <<chunks, started>>
files == <<source, cache>>
local == <<run, todo, doc, refresh, key, blocks, done>>
vars == <<store, files, pc, local, crowd, edited, stored, slipped>>

Table == INSTANCE ChunkTable

ASSUME IngestAssumption ==
  /\ Table!TableConstants
  /\ Torn \notin Versions /\ Torn # None
  /\ Offline \notin Runs /\ Offline # None
  /\ Exclusive \in BOOLEAN

Entries == Versions \cup {None, Torn}
Places == {"idle", "scan", "keyed", "saving", "writing", "converted", "dropped"}
Active(i) == pc[i] # "idle"

\* The loop takes the wanted documents in sorted order.
IsNext(i, d) == d \in todo[i] /\ \A e \in todo[i] : d <= e

Init ==
  /\ chunks = [r \in Runs |-> [d \in Docs |-> Table!Empty]]
  /\ started = {}
  /\ source \in [Docs -> Versions]
  /\ cache = [d \in Docs |-> [v \in Versions |-> None]]
  /\ pc = [i \in Ingesters |-> "idle"]
  /\ run = [i \in Ingesters |-> None]
  /\ todo = [i \in Ingesters |-> {}]
  /\ doc = [i \in Ingesters |-> None]
  /\ refresh = [i \in Ingesters |-> FALSE]
  /\ key = [i \in Ingesters |-> None]
  /\ blocks = [i \in Ingesters |-> None]
  /\ done = [i \in Ingesters |-> {}]
  /\ edited = [i \in Ingesters |-> {}]
  /\ stored = {}
  /\ crowd = {} /\ slipped = {}

Goto(i, place) == pc' = [pc EXCEPT ![i] = place]

\* The loop is done with the document at hand: on to the next.
NextDocument(i) ==
  /\ Goto(i, "scan")
  /\ todo' = [todo EXCEPT ![i] = @ \ {doc[i]}]
  /\ done' = [done EXCEPT ![i] = @ \cup {doc[i]}]
  /\ doc' = [doc EXCEPT ![i] = None]
  /\ key' = [key EXCEPT ![i] = None]
  /\ blocks' = [blocks EXCEPT ![i] = None]

\* The process ends, and what it held in memory with it.
Exit(i) ==
  /\ Goto(i, "idle")
  /\ run' = [run EXCEPT ![i] = None]
  /\ todo' = [todo EXCEPT ![i] = {}]
  /\ doc' = [doc EXCEPT ![i] = None]
  /\ refresh' = [refresh EXCEPT ![i] = FALSE]
  /\ key' = [key EXCEPT ![i] = None]
  /\ blocks' = [blocks EXCEPT ![i] = None]
  /\ done' = [done EXCEPT ![i] = {}]
  /\ edited' = [edited EXCEPT ![i] = {}]
  /\ crowd' = crowd \ {i}

\* main: start_run commits the runs row before the first document.
StartRun(i, r, wanted, fresh) ==
  /\ pc[i] = "idle"
  /\ Exclusive => \A j \in Ingesters : Active(j) => run[j] # r
  /\ Goto(i, "scan")
  /\ started' = started \cup {r}
  /\ run' = [run EXCEPT ![i] = r]
  /\ todo' = [todo EXCEPT ![i] = wanted]
  /\ refresh' = [refresh EXCEPT ![i] = fresh]
  /\ UNCHANGED <<chunks, files, doc, key, blocks, done, crowd, edited, stored, slipped>>

\* offline_convert: one document, of the manifest or not, and no store.
StartOffline(i, d, fresh) ==
  /\ pc[i] = "idle"
  /\ Goto(i, "scan")
  /\ run' = [run EXCEPT ![i] = Offline]
  /\ todo' = [todo EXCEPT ![i] = {d}]
  /\ refresh' = [refresh EXCEPT ![i] = fresh]
  /\ UNCHANGED <<store, files, doc, key, blocks, done, crowd, edited, stored, slipped>>

\* Both give up on a document that is not on disk: its old chunks, if any, stay.
SkipMissing(i, d) ==
  /\ pc[i] = "scan" /\ IsNext(i, d)
  /\ source[d] = None
  /\ todo' = [todo EXCEPT ![i] = @ \ {d}]
  /\ UNCHANGED <<store, files, pc, run, doc, refresh, key, blocks, done, crowd, edited, stored, slipped>>

\* cache_key hashes the bytes of the file.
Hash(i, d) ==
  /\ pc[i] = "scan" /\ IsNext(i, d)
  /\ source[d] # None
  /\ doc' = [doc EXCEPT ![i] = d]
  /\ key' = [key EXCEPT ![i] = source[d]]
  /\ edited' = [edited EXCEPT ![i] = @ \ {d}]
  /\ Goto(i, "keyed")
  /\ UNCHANGED <<store, files, run, todo, refresh, blocks, done, crowd, stored, slipped>>

\* Mutations of UseCached: an entry that does not parse is used all the same;
\* entries are found by the document, without the digest.
UseTorn(i) ==
  /\ pc[i] = "keyed" /\ ~refresh[i]
  /\ cache[doc[i]][key[i]] # None
  /\ blocks' = [blocks EXCEPT ![i] = cache[doc[i]][key[i]]]
  /\ Goto(i, "converted")
  /\ UNCHANGED <<store, files, run, todo, doc, refresh, key, done, crowd, edited, stored, slipped>>
UseAnyEntry(i) ==
  /\ pc[i] = "keyed" /\ ~refresh[i]
  /\ \E v \in Versions :
       /\ cache[doc[i]][v] \in Versions
       /\ blocks' = [blocks EXCEPT ![i] = cache[doc[i]][v]]
  /\ Goto(i, "converted")
  /\ UNCHANGED <<store, files, run, todo, doc, refresh, key, done, crowd, edited, stored, slipped>>

\* convert_cached returns the entry under the key.
UseCached(i) ==
  /\ pc[i] = "keyed" /\ ~refresh[i]
  /\ cache[doc[i]][key[i]] \in Versions
  /\ blocks' = [blocks EXCEPT ![i] = cache[doc[i]][key[i]]]
  /\ Goto(i, "converted")
  /\ UNCHANGED <<store, files, run, todo, doc, refresh, key, done, crowd, edited, stored, slipped>>

\* convert_cached calls the converter, which opens the path again and reads what
\* is there by now.
Convert(i) ==
  /\ pc[i] = "keyed"
  /\ refresh[i] \/ cache[doc[i]][key[i]] = None
  /\ source[doc[i]] # None
  /\ blocks' = [blocks EXCEPT ![i] = source[doc[i]]]
  /\ slipped' = IF source[doc[i]] = key[i] THEN slipped ELSE slipped \cup {<<doc[i], key[i]>>}
  /\ Goto(i, "saving")
  /\ UNCHANGED <<store, files, run, todo, doc, refresh, key, done, crowd, edited, stored>>

\* write_text opens the entry under the key computed before converting, which
\* leaves it incomplete for anyone who reads it now, and for good if killed.
Beside(i) == {j \in Ingesters : pc[j] = "writing" /\ doc[j] = doc[i] /\ key[j] = key[i]}

OpenEntry(i) ==
  /\ pc[i] = "saving"
  /\ crowd' = IF Beside(i) = {} THEN crowd ELSE crowd \cup Beside(i) \cup {i}
  /\ cache' = [cache EXCEPT ![doc[i]][key[i]] = Torn]
  /\ Goto(i, "writing")
  /\ UNCHANGED <<store, source, run, todo, doc, refresh, key, blocks, done, edited, stored, slipped>>

\* Mutation of SaveEntry: the digest is computed again when the entry is saved.
SaveUnderNewDigest(i) ==
  /\ pc[i] = "writing"
  /\ source[doc[i]] # None
  /\ cache' = [cache EXCEPT ![doc[i]][source[doc[i]]] = blocks[i]]
  /\ crowd' = crowd \ {i}
  /\ Goto(i, "converted")
  /\ UNCHANGED <<store, source, run, todo, doc, refresh, key, blocks, done, edited, stored, slipped>>

\* The text is written.  Two that have the entry open write over each other, the
\* dead as well as the living: what remains of the longer text after the shorter
\* one makes an entry that does not parse.
SaveEntry(i) ==
  /\ pc[i] = "writing"
  /\ \E entry \in {blocks[i]} \cup (IF i \in crowd THEN {Torn} ELSE {}) :
       cache' = [cache EXCEPT ![doc[i]][key[i]] = entry]
  /\ crowd' = crowd \ {i}
  /\ Goto(i, "converted")
  /\ UNCHANGED <<store, source, run, todo, doc, refresh, key, blocks, done, edited, stored, slipped>>

\* offline_convert has the blocks in the cache, and ends.
EndOffline(i) ==
  /\ pc[i] = "converted" /\ run[i] = Offline
  /\ Exit(i)
  /\ UNCHANGED <<store, files, stored, slipped>>

\* Mutation of Replace: without the DELETE.
ReplaceNothing(i) ==
  /\ pc[i] = "converted" /\ run[i] # Offline /\ Count[blocks[i]] > 0
  /\ Goto(i, "dropped")
  /\ UNCHANGED <<store, files, run, todo, doc, refresh, key, blocks, done, crowd, edited, stored, slipped>>

\* replace_document: DELETE and commit.  Where the splitter makes no chunk of
\* the blocks, the document is finished.
Replace(i) ==
  /\ pc[i] = "converted" /\ run[i] # Offline
  /\ chunks' = [chunks EXCEPT ![run[i]][doc[i]] = Table!Empty]
  /\ \/ /\ Count[blocks[i]] = 0
        /\ NextDocument(i)
        /\ stored' = stored \ {<<run[i], doc[i]>>}
     \/ /\ Count[blocks[i]] > 0
        /\ Goto(i, "dropped")
        /\ UNCHANGED <<todo, doc, key, blocks, done, stored>>
  /\ UNCHANGED <<started, files, run, refresh, crowd, edited, slipped>>

\* write: INSERT OR REPLACE of the new rows over whatever rows there are.
Overlay(rows, v) == [o \in Table!Ordinals |-> IF o < Count[v] THEN v ELSE rows[o]]

Write(i) ==
  /\ pc[i] = "dropped"
  /\ chunks' = [chunks EXCEPT ![run[i]][doc[i]] = Overlay(@, blocks[i])]
  /\ NextDocument(i)
  /\ stored' = stored \cup {<<run[i], doc[i]>>}
  /\ UNCHANGED <<started, files, run, refresh, crowd, edited, slipped>>

\* The loop is over: main prints its summary and exits.
Finish(i) ==
  /\ pc[i] = "scan" /\ todo[i] = {}
  /\ Exit(i)
  /\ UNCHANGED <<store, files, stored, slipped>>

\* The process dies: killed, or by an exception of its own, such as the one an
\* unreadable cache entry raises.  What it committed and wrote stays as it is;
\* the rows of an open transaction are rolled back.
Die(i) ==
  /\ Active(i)
  /\ Exit(i)
  /\ UNCHANGED <<store, files, stored, slipped>>

\* The file is downloaded again, edited or removed, whoever is reading it.
Edit(d) ==
  /\ \E v \in (Versions \cup {None}) \ {source[d]} : source' = [source EXCEPT ![d] = v]
  /\ edited' = [i \in Ingesters |-> edited[i] \cup ({d} \cap (done[i] \cup {doc[i]}))]
  /\ UNCHANGED <<store, cache, pc, local, crowd, stored, slipped>>

\* --document names one document; without it the run covers those in the
\* manifest, whichever these are.
Wanted == (SUBSET Docs) \ {{}}

Step(i) ==
  \/ \E r \in Runs, wanted \in Wanted, fresh \in BOOLEAN : StartRun(i, r, wanted, fresh)
  \/ \E d \in Docs, fresh \in BOOLEAN : StartOffline(i, d, fresh)
  \/ \E d \in Docs : SkipMissing(i, d) \/ Hash(i, d)
  \/ UseCached(i) \/ Convert(i) \/ OpenEntry(i) \/ SaveEntry(i)
  \/ Replace(i) \/ Write(i) \/ EndOffline(i) \/ Finish(i) \/ Die(i)

Next == (\E i \in Ingesters : Step(i)) \/ (\E d \in Docs : Edit(d))

Spec == Init /\ [][Next]_vars

(***************************************************************************)
(* Properties.                                                             *)
(***************************************************************************)

TypeOK ==
  /\ chunks \in [Runs -> [Docs -> Table!RowSets]]
  /\ started \subseteq Runs
  /\ source \in [Docs -> Versions \cup {None}]
  /\ cache \in [Docs -> [Versions -> Entries]]
  /\ pc \in [Ingesters -> Places]
  /\ run \in [Ingesters -> Runs \cup {Offline, None}]
  /\ todo \in [Ingesters -> SUBSET Docs]
  /\ doc \in [Ingesters -> Docs \cup {None}]
  /\ refresh \in [Ingesters -> BOOLEAN]
  /\ key \in [Ingesters -> Versions \cup {None}]
  /\ blocks \in [Ingesters -> Versions \cup {None}]
  /\ done \in [Ingesters -> SUBSET Docs]
  /\ edited \in [Ingesters -> SUBSET Docs]
  /\ stored \subseteq Runs \X Docs
  /\ crowd \subseteq Ingesters
  /\ slipped \subseteq Docs \X Versions

\* See ChunkTable: with one ingest per run at a time, neither a kill between
\* two commits nor a smaller new version leaves a mixed set of rows.
NeverMixed == Table!NeverMixed

\* Ingestion, commit by commit, is a ChunkTable.
ImplementsChunkTable == Table!Spec

\* "two runs against a document that changed underneath them must not silently
\* share a cache entry" (converters.py:19-20).  They may: the digest is computed
\* before the converter opens the file (68, 75).  That is the only way, though: an
\* entry of another version than its digest's is one whose file changed between
\* these two lines, and no edit at another time, kill or second writer makes one.
MisfiledOnlyBySlip ==
  \A d \in Docs, v \in Versions :
    cache[d][v] \in {v, None, Torn} \/ <<d, v>> \in slipped

\* What a run has written is what the files say: each document it finished
\* that has not changed since it was hashed is stored whole and current,
\* whatever the cache held and whatever earlier runs or kills left behind.  An
\* entry that was misfiled deceives runs that use the cache, however much later
\* and whoever they are, and --refresh is proof against it.
WrittenIsCurrent ==
  \A i \in Ingesters : Active(i) =>
    \A d \in done[i] \ edited[i] :
      (<<d, source[d]>> \in slipped => refresh[i])
        => chunks[run[i]][d] = Table!ChunkSet(source[d])

\* "survives a killed run" (store.py:83): once no process runs, a document
\* whose chunks were committed still has them.
KilledRunLosesNothing ==
  (\A i \in Ingesters : ~Active(i)) =>
    \A r \in Runs, d \in Docs : <<r, d>> \in stored => chunks[r][d] # Table!Empty

(***************************************************************************)
(* The inductive invariant behind them.                                    *)
(***************************************************************************)

\* What a process holds at each place of the loop.
Registers ==
  \A i \in Ingesters :
    /\ pc[i] = "idle" <=> run[i] = None
    /\ pc[i] = "idle" \/ run[i] = Offline => done[i] = {}
    /\ pc[i] = "dropped" => run[i] # Offline
    /\ pc[i] \in {"keyed", "saving", "writing", "converted", "dropped"} =>
         doc[i] \in todo[i] /\ key[i] \in Versions
    /\ pc[i] \in {"saving", "writing", "converted", "dropped"} => blocks[i] \in Versions
    /\ todo[i] \cap done[i] = {}

\* Two ingests at work are on different runs.
Alone ==
  Exclusive => \A i, j \in Ingesters :
    (i # j /\ Active(i) /\ Active(j) /\ run[i] # Offline) => run[i] # run[j]

\* Between the two commits the document has no rows.
DroppedIsEmpty ==
  Exclusive => \A i \in Ingesters : pc[i] = "dropped" => chunks[run[i]][doc[i]] = Table!Empty

Whole == Exclusive => NeverMixed

\* Blocks are of the version that was hashed, but for a slip: one of the process
\* itself, or one that it found in the cache.
BlocksAreOfTheirKey ==
  \A i \in Ingesters :
    pc[i] \in {"saving", "writing", "converted", "dropped"} =>
      \/ blocks[i] = key[i]
      \/ <<doc[i], key[i]>> \in slipped /\ (refresh[i] => doc[i] \in edited[i])

\* The document at hand is unchanged since it was hashed, unless edited.
HashIsCurrent ==
  \A i \in Ingesters :
    (pc[i] \in {"keyed", "saving", "writing", "converted", "dropped"} /\ doc[i] \notin edited[i]) =>
      source[doc[i]] = key[i]

Current == Exclusive => WrittenIsCurrent

IInv ==
  /\ TypeOK /\ Registers /\ Alone /\ DroppedIsEmpty /\ Whole
  /\ MisfiledOnlyBySlip /\ BlocksAreOfTheirKey /\ HashIsCurrent /\ Current
=============================================================================
