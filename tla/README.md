# Dastavez: TLA+ models, model checking and proofs

Dastavez collects PDF documents of Indian government schemes, converts them to blocks,
packs the blocks into chunks, indexes the chunks by vector and by word, and answers
questions with citations of documents and pages. Its claims (that a citation is right, that
a row of an ablation is what its configuration says, that an eval set was not edited in
silence) hang on what several processes leave in shared files, in which order, and on loops
whose mistakes still give plausible output. These modules model that.

Paths are relative to the root of the repository. A comment above every definition says
which code it is; `PROJECT.json` maps each definition to its lines.

- [The system](#the-system)
- [Modules and code](#modules-and-code)
- [Runs](#runs)
- [Fairness](#fairness)
- [Proofs](#proofs)
- [What the models leave out](#what-the-models-leave-out)
- [Where the code and its documentation differ](#where-the-code-and-its-documentation-differ)
- [Plan](#plan)

## The system

### Components, their state and their operations

| component | code | state | operations |
|---|---|---|---|
| Corpus discovery | `corpus/discover.py` | none that outlives it | crawl, probe, report candidates |
| Corpus | `corpus/fetch.py` | `corpus/documents/`, `corpus/manifest.jsonl` | fetch each document or take the file that is there, write the manifest, verify |
| Pipeline configurations | `dastavez/pipeline.py` | immutable records | validation, digest (the run id) |
| Converters and cleaning | `dastavez/ingest/converters.py`, `cleaning.py` | none per document | four adapters (pypdf, Docling, Marker, MinerU) to blocks; routing by the manifest; removal of running headers |
| Splitters | `dastavez/ingest/chunking.py`, `chunks.py` | local to one document | `_divide` of long blocks, `_pack` into chunks with overlap |
| Ingestion | `dastavez/ingest/run.py`, `store.py`, `converters.py`, `offline_convert.py` | `corpus/.converted/` (block cache), tables `runs` and `chunks` | start a run; per document: hash, look up or convert and save, replace the chunks |
| Indexes and hybrid search | `index_build.py`, `retrieval.py`, `lexical.py`, `hybrid.py` | table `embeddings`; a BM25 index in each process | build the embeddings, dense search by join, lexical search, fusion |
| Answering (not modelled) | `dastavez/answer.py` | none | refuse where the best score is below a floor, or ask a model |
| LLM client | `llm/`, `app/routers/demo.py` | cooldown per provider, shared by all requests | gate, post, trip on 429, retry |
| Eval set and second annotation | `evalset.py`, `scripts/build_eval_set.py`, `scripts/second_annotator.py` | `eval/questions.jsonl`, `questions.sha256`, `second-annotation.jsonl` | build, verify, sample, annotate, report |
| Parsing metrics | `dastavez/parsing.py`, `bench/parsing_quality.py` | local to one page | split the gold page, edit distances, reading order |
| Citation check | `scripts/check_citations.py` | none | put the text of the cited pages together, look for the numbers of the answers in it |
| Reports | `bench/status.py`, `bench/retriever_comparison.py` | none | read what the others wrote |
| Spans | `app/spans.py` | none | wrap stages, refuse undeclared attributes |
| Application shell | `app/main.py`, `config.py`, `middleware.py`, `health.py` | settings | wiring, request ids, health |
| Convention checks | `scripts/check_conventions.py` | none | a linter of the repository's own files |

### How they interact

    sources.yaml -> fetch -> documents/ + manifest.jsonl
                                |             |  (which documents; which need OCR)
                                v             v
                           converters -> .converted/ (cache) -> cleaning -> splitters
                                                                               |
                                                                               v
    second_annotator <- lexical index <------------------------------ chunks (SQLite)
        answer <------- hybrid search <- join of embeddings and chunks <- index_build
                                                                    citation check <- chunks

Everything left of an arrow is a file or a table, and everything right of it reads it later,
in another process. No lock spans two of the processes; SQLite serialises single
transactions. The LLM client is apart: its concurrency is that of coroutines in one process.

### What is hard about each, and what makes it correct

- **LLM client.** Coroutines share a cooldown that each reads before a sleep and acts upon
  after it, and that the last 429 overwrites. Correct: a call waits out the delay its own
  429 asked for; a request leaves in a cooldown only if it could not have known of it; the
  budget of attempts is spent exactly; every call is answered.
- **Ingestion.** Delete and insert are two commits; cache entries are written in place under
  a digest computed before the conversion opens the file again; a process may die anywhere.
  Correct: a document's rows are all of one version; a cache entry is of the bytes in its
  name unless they changed before they were converted; what a run finished is whole and
  current, but for what such an entry deceived.
- **Indexes and search.** Builders write in the end what they read at the start; re-ingestion
  deletes chunks but not vectors; the lexical index is kept per process; the halves of one
  search read at different times, and are fused by rank. Correct: after an undisturbed build
  each chunk has its own vector; answers cite chunks the run has, unless it was rewritten
  meanwhile, and then show what was read last; the fused order does not contradict what the
  halves agree on.
- **Splitters.** A loop over paragraphs and sentences, then one with a buffer, an overlap,
  headings, tables and blank blocks. Correct: no text is lost, repeated or moved, headings and
  tables stand, citations advance, the two arms of the ablation differ only where they should.
- **Corpus.** A fetch caches files it finds and takes dates from a manifest it is about to
  replace through a buffer; kills leave half files and half lines; conversion trusts a text
  flag of the manifest; files change between two reads, and midnight falls. Correct: no
  document is omitted, the manifest is of the files, no row is dated later than its document
  came in, no scan misses OCR unless it is not what was inspected.
- **Eval set.** Two files that must agree, edits by hand, a verification that sees less than
  the build; a paid annotator that dies and resumes. Correct: what verifies was checked; a
  run that is not interrupted leaves its sample annotated; no attempt is repeated for ever.
- **Converters and cleaning.** Four conventions for pages, kinds and containers; a filter
  that must take headers and nothing else. Correct: blocks are the things of the page they
  cite, only what runs through the pages is stripped, broken words meet.
- **Parsing metrics.** Dynamic programming, a splitter with a flag, a rank by prefix: all
  give a plausible number when wrong. Correct: rows of the matrix are optimal over all
  matchings, gold blocks are whole runs of lines, the order score counts every pair.
- **Citation check.** It repairs numbers that an extraction broke. Correct: it does not make
  numbers that no page states. It does, see the counterexample.

The hazards behind this list, each at its line, are in `PROJECT.json`. Those without a
property say why: most are behaviour that the model has and about which the repository
promises nothing.

## Modules and code

Each component's module holds constants with their assumptions, variables, `Init`, one
action per step of the code, `Next`, `Spec`, and its properties. `MC...` modules give values
for TLC, `...Proofs` modules prove. A definition marked *Mutation* is a plausible bug of the
definition after it; it is not part of the specification, and shows which bug each
property would catch.

| module | component | extends or instantiates |
|---|---|---|
| `LlmClient` | LLM client | implements `BoundedRetry` |
| `Ingest` | ingestion | implements `ChunkTable` |
| `Fusion` | fusion by rank | operators only |
| `Retrieval` | indexes and search | extends `Fusion`; composes with ingestion through `ChunkTable` |
| `Packer` | `_pack` | |
| `Chunking` | `_divide`, and the splitters whole | extends `Packer` |
| `SplitterArms` | the two arms | extends `Chunking` and instantiates it a second time |
| `Corpus` | fetch, manifest, verify, routing | |
| `Labels` | eval set and second annotation | |
| `Blocks` | adapters and cleaning | |
| `Scoring` | parsing metrics | |
| `Citations` | citation check | |

**LlmClient.** A step is what a coroutine does between two suspensions, `asyncio.sleep` and
the HTTP post; the throttle's lock is never held across one, so a trip and the retry
decision after it are one step. `pc` is where a call is suspended (`queued` at the gate,
`flight`, `backoff`). Time is a countdown: `cool`, `timer` and `owed` hold what is left of a
delay, `Tick` takes one off each. Two histories serve the properties: `owed`, what is left
of the delay of the call's own last 429, and `stale`, whether a 429 came while the call slept
at the gate. `BoundedRetry` is what a caller may rely on without clock or gate: how a call
ends tells how many requests it sent (502 means all of them), and it does end.

**Ingest and ChunkTable.** A document's content is a version; blocks, cache entries and rows
carry the version they were made of. The loop of `run.py` is `Hash`, then `UseCached` or
`Convert`, `OpenEntry`, `SaveEntry` (a write is opening, which empties, and filling), then
`Replace` (delete, commit) and `Write` (insert or replace, commit). `Die` may come between
any two, and `Edit` changes a file at any time. `Exclusive` says that the operator runs no two
ingests of one run at once; each theorem says whether it needs it. Between the digest
(`Hash`, `converters.py:68`) and the converter, which opens the path again (`Convert`, 75), a file
may change: the entry is then of other bytes than its key. This is a *slip*, and the history
`slipped` keeps the document and the digest it happened under. `crowd` has the processes that
wrote an entry beside another one, alive or dead by now: what they write may not parse.
`ChunkTable` is what readers rely on: a document's rows appear at once, whole, and disappear
at once.
`offline_convert`, which converts one document where there is no database, is a process of the
same loop under the run `Offline` (`StartOffline`): with or without `--refresh`, it shares the
cache with the others and stops there (`EndOffline`), so `Replace` and `Write` are not its own.

**Fusion and Retrieval.** Ingestion is present as `ChunkTable`'s steps, which is sound because
`Ingest` implements it. `ReadChunks` and `WriteVectors` are the two ends of a build. A search
is `SearchDense`, `SearchLexical` and `Fuse`, between which the table may change. How a half
scores its candidates is left open, so it may rank them in any order; what follows is not:
`Fusions` adds the shares 1/(60 + rank) as exact fractions, sorts by score and, where scores
are equal, by which key was met first (the dense half comes first), cuts at `K`, and shows a
chunk both halves found as the lexical half found it. The history `touched` has the halves of a
search whose run was written since they read it.

**Packer, Chunking, SplitterArms.** One action per branch of each loop. For the packer a block
is its length, page and kind, and a chunk is the places of its blocks. `Chunking` puts
`_divide` before it: a text is the lengths of its paragraphs and of their sentences. A place in
it is a block, a paragraph, a sentence and a character, a stretch is what lies between two
places, and a piece lists the stretches that were copied into it. So `TextIsKept` can say of
the whole way from a converter's blocks to chunks that every character is in some stretch
(`NoTextLost`), that stretches do not overlap and stay in order (`NoTextMoved`), that blocks
have the page and kind of where their stretches begin (`PageKept`), and that chunks have the
length of what is in them. That a slice of a sentence is stripped where it is cut is left
out. `SplitterArms` instantiates
`Chunking` with `respect <- FALSE` over the same variables, so that the arms can be compared
step by step.

**Corpus.** `fetch_one` is a step per thing it asks of the world: a file that is there is read
and hashed (`ReadCached`), and one that is not is requested (`Request`), which fails (`Fail`) or
brings a document, whose file is opened (`OpenDownload`) and filled (`Fill`). `Inspect` opens the
file once more for its pages. `DateCached` and `DateDownload` date the row: the one by the
last manifest or by the file's own time, the other by the day it is by then. Files may change
and midnight may fall between any two. `entry` is the entry being filled in, and a row
remembers as history which content was inspected for it (`seen`). `collected` has the day each
document came in as it is: its file was written or removed, or its download was done with.
`write_manifest` is `OpenManifest`, `Flush`, `CloseManifest`, with rows in the file as far as
the buffer went out (`garbled`: the last is half a line). An ingest run with the routed
converter reads the manifest once for its list and again for each converter
(`BuildConverter`), and converts later. A content stands for its SHA-256. The parser repairs
what it can of a torn file, so inspecting one may find anything.

**Labels.** A draft is all that the hash covers of a question. `Build` to `CloseHash` write
the questions and then their hash, `Verifies` is `verify`, which accepts any set without
structural errors where there is no hash file (`LoseHash`, `evalset.py:245`), and
`StartAnnotating` and `Ask` are the annotator's run. `Share` is Python's `round`, half to even. What the seeded generator picks
is the constant `Chosen`, any function with samples of the right sizes.

**Blocks.** `doc` is what stands on the pages. `PypdfItems`, `DoclingItems`, `MarkerItems` and
`MineruRows` are what each library returns for it, taken from how the adapters read it
(external code); `PypdfBlocks` to `MineruBlocks` are what an adapter makes of one item, and
`TakePypdf` to `TakeMineru` its loop. A table of MinerU keeps its text here: what
`html_table_to_markdown` makes of its rows is `Markdown` in `Scoring`. `CountPage` and `CleanAll` are the cleaning arm. Rows of
sequences are put together by recursive functions (`Concat`, `InOrder`), which a proof can
unfold. A text is a sequence of lines, a line a member of a small set with what
cleaning tells apart: short, broken at its end, a continuation, made of unmapped glyphs.

**Scoring.** `SplitLine` and `SplitEnd` are `split_gold_blocks` with its flag, `CompareRow`
is a row of the edit distance (texts and tables share it: the loops are the same but for the
cost), with the cells of a row as a recursive function (`NextRow`), `Rank` and `Order` are
`reading_order_score`, `Order` as its numerator and denominator.

**Citations.** A document is pieces of text, each with the page it stands on, the numbers that
page states, and whether a chunk starts there; `PageText` is the text the check reads for a
page, `Normalise` takes out the gaps between digits, and `Check` is one turn of `main`.

## Runs

| run | question | distinct states |
|---|---|---|
| `LlmClient` | do the gate and the retry loop keep their promises under every interleaving, and does the client implement `BoundedRetry`? | 62,435 |
| `Ingest` | are rows never mixed, cache entries of their key but for slips, and finished documents current, under kills, edits and offline conversions? | 1,482,786 |
| `Retrieval` | are quiet answers current, undisturbed indexes right, fusions fair, and chunks shown as they were last read? | 709,533 |
| `Chunking` | from blocks to chunks: text, structure, order, pages and lengths; agreement of the arms | 486,404 |
| `Corpus` | completeness, truth and dates of the manifest; routing to OCR | 4,951,086 |
| `Labels` | does what verifies against a hash stand checked; is the sample annotated; does the annotator end? | 115,398 |
| `Blocks` | are blocks the things of their pages, and is only furniture stripped? | 148,944 |
| `Scoring` | optimal rows, whole gold blocks, counted pairs | 172,975 |
| `IngestKilled` | counterexample to `store.py:83` | |
| `DivideUncut` | counterexample to `chunking.py:53-54` | |
| `ScoringTrees` | counterexample to `parsing.py:138-140` | |
| `Citations` | counterexample to `tests/test_citation_support.py:44-45` | |

All of the passing runs are exhaustive within their bounds. Their properties:

- **LlmClient**: `HonoursOwnDelay`, `OnlyAStaleGateSends`, `EveryCallEnds`,
  `ImplementsBoundedRetry` (with its liveness). Two calls are enough for one to trip the
  gate while the other sleeps at it, backs off or is in flight; the four names are two keyed
  providers, one without key and one unknown. `MaxAttempts` 2 is the least with a retry.
  `RetryAfters {3}` against a `MaxBackoff` of 2 is the case the gate was moved into the loop
  for (a delay beyond the backoff), and `DefaultCooldown` 1 the short one that may cut it off.
- **Ingest**: `NeverMixed`, `MisfiledOnlyBySlip`, `WrittenIsCurrent`, `ImplementsChunkTable`.
  `MisfiledOnlyBySlip` is the exact extent to which the sentence of `converters.py:19-20` holds:
  an entry of other bytes than its digest's is one whose file changed between the digest and
  the conversion. `WrittenIsCurrent` says whom such an entry deceives: a run that uses the cache,
  however much later, and none with `--refresh`. Two processes, one run and the offline
  conversion, which share the cache; versions of no, one and two chunks (a re-ingest may shrink,
  grow or empty a document). At most `MaxSlips` digests have slipped and at most `MaxTorn`
  entries are torn at once: a state beyond either bound is checked but not continued. One is
  enough for a process to be deceived, or stopped, by what another left behind. One run is
  enough since rows of two runs never meet and a second ingest of the same run follows the
  first; one document since rows and entries of different documents never meet. The theorems
  below hold for any number of all of these. Ingesters are symmetric: no property tells them
  apart, and none is a liveness property. The view leaves out the histories that only
  `IngestKilled` reads and what a process will not read again.
- **Retrieval**: `FreshIndexMatches`, `QuietAnswersAreCurrent`, `FusionIsFair`,
  `ShownAsLastRead`. `QuietAnswersAreCurrent` speaks of answers neither half of which was
  overtaken by a writer, and `ShownAsLastRead` of those where one was: a chunk that both halves
  found, and that was written between the two reads, is shown as the later one has it. Two
  builders that overlap, one retriever that switches between two runs, versions of one and two
  chunks, and `K` 2, so that halves that saw different tables agree, differ, or have one chunk
  in common. `Damping` is the code's 60. The theorems hold for any `K` up to `Damping + 1`;
  beyond, two good ranks could weigh less than one.
- **Chunking**: `TextIsKept`, `NothingLost`, `StructureStands`, `LongForAReason`,
  `BlocksLongForAReason`, `InOrder`, `ArmsAgree`. All documents of three blocks of four kinds on
  two pages, whose texts are short enough to be carried over (`Overlap` 1), take most of a
  chunk, or exceed the target (`Target` 3) and are divided; and documents of one table, which
  only the fixed arm divides, of two paragraphs with three sentences each of the lengths
  `Lengths`: nothing, below, around and beyond three times the target. Three blocks suffice
  for a buffer, an overflow with its overlap and what comes after; every shorter document is
  packed on the way.
- **Corpus**: `NoSilentGap`, `FinishedVerifies`, `DatedNoLater`, `OcrIsSkippedOnlyByDrift`.
  Two documents give the manifest an inner boundary at which it can be torn; the second is
  served with text or as a scan, edited and ingested. Two days are an earlier and a later one,
  with one midnight, which may fall between any two steps. `DatedNoLater` compares a row with
  the day its document came in, which for a download that midnight overtakes is the day it is
  dated; it is the lost rows, the dates taken over and those of files that could break it.
- **Labels**: `VerifiedIsCovered`, `SampleIsAnnotated`, `AnnotatingEnds`. Three questions; a
  fact, a stray citation and a gap; floors of one per type; a sample of two. The hash file may
  be missing at any time; `VerifiedIsCovered` is then silent, as `verify` is. One question may
  be rewritten and edited by hand, which is enough for the file, the hash and the tables to
  be three different sets. `WellFormed` is all drafts: structural rules on single questions
  are the same in build and verify, and the floors already make sets that break them.
- **Blocks**: `StructureIsKept`, `FurnitureIsWhatRuns`, `BrokenWordsMeet`. A page with every
  pair of things of every sort, and two to five pages with running headers, a line repeated
  within a page, and a header between the halves of a word; there the least number of pages,
  three, is the threshold. On eight pages, with a header on any of them, the share is, and a
  clause that is too long to be furniture stands on all of them. Furniture is exact: a line
  goes if and only if it is short and on as many pages as the share, rounded down, and three.
- **Scoring**: `SplitIsRuns`, `RowIsOptimal` (against the minimum over all order-preserving
  matchings), `OrderIsMeasured` (of blocks that repeat gold blocks which can be told apart; of
  others the code promises the first match and no more). All pages of four lines over five
  sorts of line, all pairs of texts of up to four characters, tables of up to seven nodes,
  `Match` 2 for the forty characters of the code, so that texts around the limit occur.

The bounds in the configurations are `MaxChunks`, `MaxSlips`, `MaxTorn`, `LastDay`, `MaxAttempts`, `MaxBackoff`,
`Lengths`, `MaxPages`, `LongPages`, `NDocs`, `NQuestions`, `Size` and `K`, and the sets of inputs
that the `MC` modules of `Chunking`, `Blocks`, `Scoring` and `Citations` define. Nothing else is
cut off: countdowns are bounded by the delays they start from. Deadlock is checked except in
`Chunking`, `DivideUncut`, `Blocks`, `Scoring`, `ScoringTrees` and `Citations`, which model
functions that return.

Each of the four counterexamples contradicts a sentence of the repository:

- `IngestKilled` (`KilledRunLosesNothing`): a run is killed between the commit of the delete (`store.py:127`) and that of
  the insert (`store.py:149`), and a document that was stored has no chunks.
  "Survives a killed run" (`store.py:83`) holds only if the run is started again.
- `DivideUncut` (`HardCutBounds`): a sentence three times the target that follows a short one is never cut
  (`chunking.py:93-95`).
- `ScoringTrees` (`SequenceIsTree`): the edit distance of the sequence of nodes is not that of the tree: from a
  row with an empty cell and an `x` to two rows with an `x` each it is two edits of the
  sequence and three of the tree.
- `Citations` (`NothingIsGlued`): a page that lists 1 and 11 side by side passes for one that says 111
  (`check_citations.py:76`). The test that forbids it only tries numbers with words between.

## Fairness

Two specifications assume any; the others state safety alone, since nothing obliges an
operator to start a process or a process to survive.

- **LlmClient**: weak fairness of `Tick` (time passes), of `Wake` and `NextAttempt` per call
  (asyncio runs a timer that is due), and of `Respond` per call (a post returns or raises:
  `DEFAULT_TIMEOUT` in `llm/providers/base.py` bounds each of its phases). Which response it
  is, is not assumed. `Arrive` has no fairness.
- **Labels**: weak fairness of `Ask`, since each attempt is a request with a timeout
  (`second_annotator.py:186`). Success is not assumed: giving up is an end as well.

## Proofs

All results below are for every value of the constants that satisfies the named assumptions.

| theorem | states | needs |
|---|---|---|
| `LlmClientProofs!TypeCorrect`, `OwnDelayHonoured`, `OnlyStaleGatesSend` | `TypeOK`, `HonoursOwnDelay`, `OnlyAStaleGateSends` | |
| `LlmClientProofs!Refinement` | steps of the client are steps of `BoundedRetry` | |
| `IngestProofs!TypeCorrect` | `TypeOK` | |
| `IngestProofs!RowsNeverMix`, `Refinement` | `NeverMixed`, `ImplementsChunkTable` | `Exclusive` |
| `IngestProofs!OnlySlipsMisfile` | `MisfiledOnlyBySlip` | |
| `IngestProofs!FinishedIsCurrent` | `WrittenIsCurrent` | `Exclusive` |
| `RetrievalProofs!FusionsAreFair` | what `Fusions` makes of any two rankings | at most `Damping + 1` hits |
| `RetrievalProofs!TypeCorrect`, `FreshIndexIsRight`, `QuietAnswers` | `TypeOK`, `FreshIndexMatches`, `QuietAnswersAreCurrent` | |
| `RetrievalProofs!SearchIsFair`, `SearchShowsLastRead` | `FusionIsFair`, `ShownAsLastRead` | |
| `ChunkingProofs!BlocksAreKept`, `SectionsStand`, `LengthIsBounded`, `DividedIsBounded` | `NothingLost`, `StructureStands`, `LongForAReason`, `BlocksLongForAReason` | |
| `ChunkingProofs!ChunksAreInOrder`, `ArmsAgreeUnlabelled` | `InOrder`, `ArmsAgree` | |
| `ChunkingProofs!ChunkingTypes`, `TextKept` | `TypeOK`, `TextIsKept` | |
| `CorpusProofs!TypeCorrect`, `NothingIsOmitted`, `TheManifestIsOfTheFiles`, `NoRowIsDatedLater`, `ScansAreRead` | the properties of `Corpus` | |
| `LabelsProofs!TypeCorrect`, `VerifiedSetsAreCovered`, `SamplesAreAnnotated` | the safety properties of `Labels` | |
| `BlocksProofs!BlocksTypes`, `StructureKept`, `FurnitureRuns`, `WordsAreWhole` | `TypeOK`, `StructureIsKept`, `FurnitureIsWhatRuns`, `BrokenWordsMeet` | |
| `ScoringProofs!GoldBlocksAreWhole`, `DistanceIsCheapest`, `OrderIsFair`, `ScoringTypes` | `SplitIsRuns`, `RowIsOptimal`, `OrderIsMeasured`, `TypeOK` | |

Each but `FusionsAreFair` rests on an inductive invariant (`IInv`, and theorem
`Invariance`, in most modules), proved by one lemma or step per action:

- **LlmClient.** `HonoursOwnDelay` speaks of the moment of sending; what holds before it is
  that the call's debt is covered, up to the spread of delays, by what it is about to wait
  (`OwedIsCovered`): the cooldown while it backs off, its timer once it has read the gate. The
  spread is the part a shorter 429 of another call can cut off, and `FreshGateCovers` is the
  counterpart for `OnlyAStaleGateSends`. The refinement maps a call to open or closed; the
  lemmas say per action which step of `BoundedRetry` it is.
- **Ingest.** Between the commits the rows of the document at hand are empty
  (`DroppedIsEmpty`), so that the insert fills an empty set; this needs that no other process
  is at the same run (`Alone`, which leaves offline conversions out, since they write no rows),
  hence `Exclusive`. For the cache, a process holds blocks of the version it hashed, unless that
  digest has slipped, by its own conversion or by the one whose entry it took; with `--refresh`
  only by its own, and then the document has changed since it was hashed
  (`BlocksAreOfTheirKey`). `Registers` and
  `HashIsCurrent` tie what a process holds to its place in the loop.
- **Retrieval.** A process's lexical index and the dense hits of a search under way are of the
  table as it is, unless the run was written since (`CacheIsCurrent`). The two action
  properties follow from what is proved of `Fusions`: its order, and for `ShownAsLastRead` that
  a fused list shows what both halves found as the lexical one has it, which is of the table as
  it is if only the dense half was overtaken. Of the order, once `TypeOK` says that a half is a list of distinct
  keys of at most `K` hits: fusion there is arithmetic of fractions, the sum of two shares with
  ranks up to `Damping + 1` being above one share at the best rank.
- **Chunking.** The packer's part is `Shape` (types of the registers), and each property said of
  the buffer as well as of the chunks; the divider's is that the packer has not started while
  anything is undivided, and that each piece is as short as it may be (`Fits`). For the order of
  the chunks, a buffer is a run of places that ends before the block at hand (`Follows`): every
  place is said by the first, so that none of it needs induction, and the least and greatest
  page of a run in page order are those of its ends. For the two arms, where the converter
  labels nothing, nothing that was divided is labelled (`ArmsInv`), and then each action is the
  action of the second instance, one lemma for each.
  `TextIsKept` has two parts. `Closed` says of the chunks that each has the length of what is in
  it, a sum over a recursive function. `TextInv` says of the stretches laid side by side, those
  of the divided blocks, of the pieces and of what is gathered, that they are tidy (none ends
  beyond where a later one starts, or beyond what was read), that every character before the
  place at hand is covered, and that the divider is at rest between paragraphs; a step either
  adds one stretch, adds the slices of a cut sentence, or moves a group from one place of the
  row to the next.
- **Corpus.** Rows are dated no later than their documents came in wherever they are held, in
  the manifest, in the entries of the fetch or in the manifest it read (`Dates`); they describe
  the content that was inspected for them, and so does the entry at hand (`Descriptions`). The
  entries are complete up to the document at hand, and they, and the entry at hand once it is
  hashed, are of the files, unless somebody touched these since (`Progress`).
- **Labels.** What is hashed, or held by a build that is about to hash it, is whole and was
  checked (`HashIsChecked`).
- **Blocks.** What a library returns comes in the order of the document, each item from a
  spot of its own unless the adapter yields nothing for it (`Yields`, one lemma per library);
  the invariant says that each block is the yield of an item, later blocks of later items
  (`OneEach`), and `StructureIsKept` composes the two. Pages are counted to the count that the
  line has on them (`SeenCounts`), so that when all are counted a line is furniture exactly if
  it is short and on enough pages; and between the places where another line stands before and
  after cleaning there is a bijection, by which occurrences are compared (`OccurrencesStay`).
  That broken words meet is a fact of `Rejoined` alone: whatever stood between two lines of a
  clean text was swallowed, and so is blank.
- **Scoring.** The lines gathered are those of one class since the last edge, and the flag is
  the class of the line before (`SplitInv`). A row is optimal if no way of keeping nodes costs
  less and some way costs as much (`OptimalInv`); a next row is, cell by cell, since the last
  node of either sequence is removed, inserted, or kept for the other's, and a way that keeps
  it is a way for the beginnings and one node more. While gold blocks can be told apart and the
  output repeats them, ranks are the numbers of what is repeated (`RankInv`), and then the pairs
  on either side add up to those that differ.

What recursive functions compute is proved by way of the least number at which a claim would
fail (`LeastNumber`, from the minimum of a well-founded order), which takes the set of the
failures where the library's induction theorems take an operator.

The invariants were model-checked before they were proved. The constants' assumptions are
named `ASSUME`s of the modules and are evaluated in every run. They ask for types, and for
what makes histories readable (`None` is not a version, `Torn` not a content); the one with
content is that `LeastDelay` and `MostDelay` bound the cooldowns a 429 can set.

Only model-checked: liveness (`EveryCallEnds`, `AnnotatingEnds`, the liveness part of
`ImplementsBoundedRetry`), which is beyond the prover, and the four counterexamples, of which
no instance need be general. Every other property of the passing runs is a theorem.

## What the models leave out

- **Not modelled.** Corpus discovery (one sequential process whose report nothing reads),
  answering (a floor, one request without a retry, the wording of extracts; called nowhere),
  pipeline configurations (immutable; a run is a model value), the reports (they read only),
  spans, application shell and convention checks.
- **Parts.** Of ingestion, what a splitter makes of a version is the constant `Count`; runs of
  different converters share no cache entries and are not mixed. Of retrieval, what ranks
  the candidates within a half (vectors, BM25, tokenisation) and the embedding model (vectors of
  two models share no row). Of the citation check, dots within numbers and the wording of its report. Of the corpus,
  why a download failed, published dates, page counts and the JSON around the rows. Of the
  second annotation, the sleeps and the rotation of keys in `ask`, the model's verdict and the
  statistic of the report. Of the metrics, `normalize`, `parse_markdown_table`, pipes within
  cells, ratios and means, and the best of several tables.
- **Granularity.** An SQLite transaction is atomic and durable. A small append of one line
  (an annotation) is atomic. A file write is opening and filling; a larger file (manifest,
  questions) reaches the disk in pieces. Reading a file once is one step; where the code opens
  it a second time (the converter after the digest, `inspect` after the hash), that is a
  second step. Hashing what was read and looking at the clock belong to the step they follow.

## Where the code and its documentation differ

Beside the four counterexamples, these came up while modelling. They have no run of their
own, since no line promises the contrary as plainly, or since a property here already says
how far the promise holds:

- `throttle.py:9`, "wait instead of piling on": a call that sleeps at the gate does not read
  it again (`client.py:47-52`), so it sends in a cooldown set meanwhile.
  `OnlyAStaleGateSends` is the exact extent. A shorter 429 of another call replaces a longer
  cooldown (`throttle.py:42`), which is the spread in `HonoursOwnDelay`.
- A re-ingest leaves old vectors beside new chunks of the same ordinals (`store.py:124`), and
  the join pairs them (`retrieval.py:173-183`) until the next build; `FreshIndexMatches`
  therefore speaks of runs unchanged since their build. A lexical index is likewise as old as
  its process's first search of the run (`lexical.py:51-64`).
- Two ingests of one run at once can mix versions, which `store.py:120-121` calls the failure
  an ablation cannot survive; nothing prevents them, hence `Exclusive`.
- "Two runs against a document that changed underneath them must not silently share a cache
  entry" (`converters.py:19-20`): where a file is replaced between its digest and its conversion
  (68, 75) they do. `MisfiledOnlyBySlip` says that this is the only way, and
  `WrittenIsCurrent` whom it deceives.
- A fetch that is killed after a download leaves a file which the next fetch dates by the
  older manifest (`fetch.py:174-179`): dates are never too late, but may be too early.
  A download that midnight overtakes is dated a day later than its file (204, 209), while the
  same file, cached with its row lost, would be dated by the file.
- The cache key has no text flag in it (`converters.py:61-63`): a scan that a drifted manifest
  sent past OCR (`OcrIsSkippedOnlyByDrift`) stays converted so after the manifest is put right.
- Rows that a torn manifest lost are not missed by `fetch.py --verify`, which checks the rows
  that are there; and `README.md:53-54` has `--verify` re-download, which it does not.
- `verify` takes a set without a hash file for good (`evalset.py:245`), where the test at
  `tests/test_eval_set.py:72-79` wants a silent edit to be loud.
- Annotations are kept by question id, and carry the label of the day they were made
  (`second_annotator.py:255`), whatever became of the question.
- The keys of `ask` rotate from the first for every question, so a key that just hit its window
  is the first that the next question tries, 4 seconds after the answer
  (`second_annotator.py:177`, 252). The first waits of a single key, 20 and 35 seconds, and the 38
  between two uses of one of two keys, are shorter than the 49 that the comment above them asks
  for (193-200); a reply that is not JSON is followed by 5 seconds whichever key is next (205).
- `int(pages * 0.6)` makes three pages of six, a half, enough for furniture
  (`cleaning.py:22-26`, 85); delimiter rows of tables that repeat from page to page are
  stripped like headers.
- Docling's, Marker's and MinerU's adapters can yield blocks of nothing but line breaks where
  pypdf's drops them; the splitters skip these.
- `reading_order_score` compares how texts start, where its docstring says "starts or ends
  with" (`parsing.py:200`); it returns None only without any untied pair, not below two pairs.
  Labels that a page repeats rank as the first of them, so that a gold page can score less
  than 1 against itself.
- `page_text` of the citation check takes the chunks that start on a page
  (`check_citations.py:49`). Text of page N in a chunk that starts on page N - 1 is not looked at
  for page N, and what such a chunk holds of page N + 1 is counted for page N.
- A hybrid search opens the span `retrieve` around two searches of which the dense one opens
  `retrieve` again (`hybrid.py:81`, `retrieval.py:160`), where `bench/stages.md:29-32` has one.
- `offline_convert` takes the first and the last block for its summary, after it has cached
  them: for a document without blocks it ends in an IndexError (`offline_convert.py:51`).
- `answer`'s floor of 0.80 (`answer.py:68`) is above any score that reciprocal rank fusion
  gives (at most 2/61), so hits of the hybrid search would always be refused, where
  `README.md:42-45` has a hybrid answer quoted. It is arithmetic on two constants, and `answer`
  is called nowhere, so there is no model of it.

## Plan

Done, in this order: the LLM client with its abstract specification; ingestion as an
implementation of the chunk table; retrieval over that table; the splitters; the corpus; the
eval set; the adapters and cleaning; the metrics; the proofs of the first six; then offline
conversions, the splitters from blocks to chunks in one specification, fusion by rank, the
citation check, the order of the chunks and the agreement of the arms
as theorems, and the gold blocks; then the proofs that need induction over sequences: the text
through the splitters, the rows of the edit distance, the reading order, and the adapters with
the cleaning; then edits between the digest and the conversion of a file, searches whose halves
a writer overtakes, fetches step by step with edits and midnight between the steps, and a
missing hash file.

Next:

1. `Labels`: the sleeps and the rotation of keys in `ask`.
2. `LlmClient`: `parse_retry_after` with its three places of a delay.
3. Discovery's cap on probes and its set of seen links; the matrix of configurations and its
   digests; `parse_markdown_table`.
4. Proofs, as these parts are added.
