------------------------------- MODULE Corpus -------------------------------
(***************************************************************************)
(* The corpus: corpus/fetch.py, which downloads the documents one by one   *)
(* and then writes the manifest, and the ingestion that reads that         *)
(* manifest to decide which documents to ingest and which need OCR.        *)
(*                                                                         *)
(* Documents are numbered in the order of sources.yaml, which is that of   *)
(* the manifest's rows.  A content stands for its SHA-256.  Fetch looks    *)
(* for a file, asks the network, writes, hashes, inspects and dates in     *)
(* steps of their own: the file may change between any two, or the day.    *)
(***************************************************************************)
EXTENDS Integers

CONSTANTS
  NDocs,     \* documents in sources.yaml
  Contents,  \* what a document's file may hold, once whole
  Served,    \* those its publisher may serve, and fetch accept, for it
  TextLayer, \* the contents whose pages mostly carry text
  Scanned,   \* those whose pages mostly do not; the others cannot be read
  Torn,      \* a file that was opened for writing and not filled
  None,
  LastDay,   \* bound on the days that pass
  Wanted,    \* documents an ingest run is asked for: one, or all
  Editable   \* documents whose file others than fetch replace or remove

Docs == 1..NDocs
Days == 0..LastDay
Blobs == Contents \cup {Torn}

\* What inspect finds out about the pages of a file.  The parser repairs what
\* it can of a torn file, so any answer is possible.
Inspections(blob) ==
  IF blob = Torn THEN BOOLEAN \cup {None}
  ELSE IF blob \in TextLayer THEN {TRUE}
  ELSE IF blob \in Scanned THEN {FALSE}
  ELSE {None}

\* An entry: the hash, the date and the text flag, and for history what was
\* inspected to find that flag.
Row(blob, retrieved, text, seen) ==
  [sha |-> blob, retrieved |-> retrieved, text |-> text, seen |-> seen]

\* The row of a document that could not be fetched.
Failure == Row(None, None, None, None)

\* Only rows with a hash are of use: a document has then been collected, and
\* is dated.  Until then it is a draft.
WithDate(dates) ==
  [sha : Blobs, retrieved : dates, text : BOOLEAN \cup {None}, seen : Blobs \cup {None}]
Hashed == WithDate(Days)
Drafts == WithDate({None})
Rows == Hashed \cup {Failure}

\* The conversions of an ingest run.
Conversions ==
  [doc : Docs, seen : Blobs \cup {None}, text : BOOLEAN, content : Contents \cup {None}]

ASSUME CorpusAssumption ==
  /\ NDocs \in Nat /\ LastDay \in Nat
  /\ TextLayer \subseteq Contents /\ Scanned \subseteq Contents
  /\ TextLayer \cap Scanned = {}
  /\ Served \in [Docs -> SUBSET Contents]
  /\ Wanted \subseteq Docs /\ Editable \subseteq Docs
  /\ Torn \notin Contents
  /\ None \notin Blobs /\ None \notin Days /\ None \notin BOOLEAN
  /\ None \notin Rows \cup Drafts /\ None \notin Conversions

VARIABLES
  day,
  disk,      \* corpus/documents: the content of each file, or None
  mtime,     \* the day a file was last written
  manifest,  \* corpus/manifest.jsonl: the row of each document, or None
  garbled,   \* the manifest ends in half a line
  pc,        \* where fetch.py is
  next,      \* the document its loop is at
  entries,   \* the entries it has filled in
  previous,  \* prior_manifest, read at its start
  entry,     \* the entry it is filling in, or None
  came,      \* whether that document was downloaded, or cached
  asked,     \* the documents an ingest run has still to convert
  conversion,\* its last conversion, or None: the document, what the manifest's
             \* row said of it, and the content that was converted, or None yet
  finished,  \* history: the last fetch ran to its end, and none since
  touched,   \* history: documents edited since the last fetch hashed them
  collected  \* history: the day a document came in as it is, its file written or
             \* removed by anyone, or its download done with

outside == <<day, disk, mtime>>
list == <<manifest, garbled>>
fetcher == <<pc, next, entries, previous, entry, came>>
ingester == <<asked, conversion>>
history == <<finished, touched, collected>>
vars == <<outside, list, fetcher, ingester, history>>

NoRows == [d \in Docs |-> None]

HasHash(row) == row # None /\ row # Failure

\* A clone of the repository: a manifest of day 0 and no documents.
Init ==
  /\ day = 0
  /\ disk = [d \in Docs |-> None]
  /\ mtime = [d \in Docs |-> 0]
  /\ \E blob \in [Docs -> Contents] :
       /\ \A d \in Docs : blob[d] \in Served[d]
       /\ \E text \in [Docs -> BOOLEAN \cup {None}] :
            /\ \A d \in Docs : text[d] \in Inspections(blob[d])
            /\ manifest = [d \in Docs |-> Row(blob[d], 0, text[d], blob[d])]
  /\ garbled = FALSE
  /\ pc = "idle"
  /\ next = 1
  /\ entries = NoRows
  /\ previous = NoRows
  /\ entry = None /\ came = FALSE
  /\ asked = {}
  /\ conversion = None
  /\ finished = FALSE
  /\ touched = {}
  /\ collected = [d \in Docs |-> 0]

(***************************************************************************)
(* fetch.py.                                                               *)
(***************************************************************************)

\* main: prior_manifest skips half a line, load_sources starts the entries.
StartFetch ==
  /\ pc = "idle"
  /\ pc' = "fetch" /\ next' = 1
  /\ entries' = NoRows
  /\ previous' = manifest
  /\ finished' = FALSE
  /\ touched' = {}
  /\ UNCHANGED <<outside, list, entry, came, ingester, collected>>

AtHand(d, place) == pc = place /\ next = d

\* fetch_one returns, and the loop goes on.
Record(d, row) ==
  /\ entries' = [entries EXCEPT ![d] = row]
  /\ next' = d + 1
  /\ pc' = "fetch"
  /\ entry' = None /\ came' = FALSE

\* Mutation of ReadCached: the old hash is trusted.
ReadCachedUnhashed(d) ==
  /\ AtHand(d, "fetch") /\ disk[d] # None
  /\ entry' = Row(IF HasHash(previous[d]) THEN previous[d].sha ELSE disk[d], None, None, None)
  /\ pc' = "inspect"
  /\ touched' = touched \ {d}
  /\ UNCHANGED <<outside, list, next, entries, previous, came, ingester, finished, collected>>

\* fetch_one: the file is there already, and is hashed again.
ReadCached(d) ==
  /\ AtHand(d, "fetch") /\ disk[d] # None
  /\ entry' = Row(disk[d], None, None, None)
  /\ pc' = "inspect"
  /\ touched' = touched \ {d}
  /\ UNCHANGED <<outside, list, next, entries, previous, came, ingester, finished, collected>>

\* It is not there, and the publisher is asked for it.
Request(d) ==
  /\ AtHand(d, "fetch") /\ disk[d] = None
  /\ pc' = "request"
  /\ UNCHANGED <<outside, list, next, entries, previous, entry, came, ingester, history>>

\* Mutation of Fail: a document that cannot be fetched is left out.
FailUnrecorded(d) ==
  /\ AtHand(d, "request")
  /\ Record(d, None)
  /\ UNCHANGED <<outside, list, previous, ingester, history>>

\* No reply, a status other than 200, or a body that is no PDF.
Fail(d) ==
  /\ AtHand(d, "request")
  /\ Record(d, Failure)
  /\ UNCHANGED <<outside, list, previous, ingester, history>>

\* A document has come, and write_bytes opens its file, whatever is there by now.
OpenDownload(d) ==
  /\ AtHand(d, "request")
  /\ \E c \in Served[d] : entry' = Row(c, None, None, None)
  /\ disk' = [disk EXCEPT ![d] = Torn]
  /\ mtime' = [mtime EXCEPT ![d] = day]
  /\ collected' = [collected EXCEPT ![d] = day]
  /\ came' = TRUE
  /\ pc' = "writing"
  /\ UNCHANGED <<day, list, next, entries, previous, ingester, finished, touched>>

\* The file is filled, and the body hashed.
Fill(d) ==
  /\ AtHand(d, "writing")
  /\ disk' = [disk EXCEPT ![d] = entry.sha]
  /\ mtime' = [mtime EXCEPT ![d] = day]
  /\ collected' = [collected EXCEPT ![d] = day]
  /\ pc' = "inspect"
  /\ touched' = touched \ {d}
  /\ UNCHANGED <<day, list, next, entries, previous, entry, came, ingester, finished>>

\* Mutation of Inspect: of a file that had a row the old text flag is trusted.
InspectNew(d) ==
  /\ AtHand(d, "inspect")
  /\ \E text \in Inspections(disk[d]) :
       entry' = Row(entry.sha, None, IF HasHash(previous[d]) THEN previous[d].text ELSE text, disk[d])
  /\ pc' = "date"
  /\ UNCHANGED <<outside, list, next, entries, previous, came, ingester, history>>

\* inspect opens the file once more, and finds nothing where there is none now.
Inspect(d) ==
  /\ AtHand(d, "inspect")
  /\ \E text \in Inspections(disk[d]) : entry' = Row(entry.sha, None, text, disk[d])
  /\ pc' = "date"
  /\ UNCHANGED <<outside, list, next, entries, previous, came, ingester, history>>

\* retrieved of the last manifest's row, or else the day the file was written.
RetrievedOr(d, fallback) ==
  IF HasHash(previous[d]) THEN previous[d].retrieved ELSE fallback

\* Mutations of DateCached: the date is today's; it is only ever taken from the
\* last manifest.
DateCachedToday(d) ==
  /\ AtHand(d, "date") /\ ~came
  /\ HasHash(previous[d]) \/ disk[d] # None
  /\ Record(d, [entry EXCEPT !.retrieved = RetrievedOr(d, day)])
  /\ UNCHANGED <<outside, list, previous, ingester, history>>
DateCachedByRow(d) ==
  /\ AtHand(d, "date") /\ ~came
  /\ Record(d, [entry EXCEPT !.retrieved = RetrievedOr(d, None)])
  /\ UNCHANGED <<outside, list, previous, ingester, history>>

\* A cached file is dated.  Where the last manifest has no date for it and it is
\* gone by now, stat raises, and the fetch dies.
DateCached(d) ==
  /\ AtHand(d, "date") /\ ~came
  /\ HasHash(previous[d]) \/ disk[d] # None
  /\ Record(d, [entry EXCEPT !.retrieved = RetrievedOr(d, mtime[d])])
  /\ UNCHANGED <<outside, list, previous, ingester, history>>

\* A download is dated today, which may be the day after it was written.
DateDownload(d) ==
  /\ AtHand(d, "date") /\ came
  /\ Record(d, [entry EXCEPT !.retrieved = day])
  /\ collected' = [collected EXCEPT ![d] = day]
  /\ UNCHANGED <<outside, list, previous, ingester, finished, touched>>

\* write_manifest opens the manifest, which empties it; previous is of no
\* further use.
OpenManifest ==
  /\ pc = "fetch" /\ next > NDocs
  /\ pc' = "listing"
  /\ manifest' = NoRows /\ garbled' = FALSE
  /\ previous' = NoRows
  /\ UNCHANGED <<outside, next, entries, entry, came, ingester, history>>

\* The buffer goes out to the file, in the middle of a row as it happens.
Flush ==
  /\ pc = "listing"
  /\ \E n \in 0..(NDocs - 1) :
       /\ \A d \in Docs : manifest[d] # None => d <= n
       /\ manifest' = [d \in Docs |-> IF d <= n THEN entries[d] ELSE None]
  /\ garbled' \in BOOLEAN
  /\ UNCHANGED <<outside, fetcher, ingester, history>>

\* The process ends, and what it held in memory with it.
Exit ==
  /\ pc' = "idle" /\ next' = 1
  /\ entries' = NoRows /\ previous' = NoRows
  /\ entry' = None /\ came' = FALSE

\* write_manifest closes the manifest, and main prints its summary.
CloseManifest ==
  /\ pc = "listing"
  /\ manifest' = entries /\ garbled' = FALSE
  /\ Exit
  /\ finished' = TRUE
  /\ UNCHANGED <<outside, ingester, touched, collected>>

\* The fetch dies: what is on disk stays as it is, a half-written file too.
Die ==
  /\ pc # "idle"
  /\ Exit
  /\ touched' = {}
  /\ UNCHANGED <<outside, list, ingester, finished, collected>>

(***************************************************************************)
(* What verify reports: the documents with a hash that are missing or      *)
(* have changed.  It stops at half a line without reporting any.           *)
(***************************************************************************)
Reported == {d \in Docs : HasHash(manifest[d]) /\ disk[d] # manifest[d].sha}

(***************************************************************************)
(* An ingest run with the routed converter.                                *)
(***************************************************************************)

\* main: manifest_rows reads the manifest, where half a line raises, and the
\* documents that are wanted must be in it.
StartIngest ==
  /\ asked = {} /\ ~garbled
  /\ asked' = {d \in Wanted : HasHash(manifest[d])}
  /\ asked' # {}
  /\ conversion' = None
  /\ UNCHANGED <<outside, list, fetcher, history>>

Converting == conversion # None /\ conversion.content = None

\* A converter is built for each document that is there, and reads the manifest
\* again: a document that is not in it any more counts as one without text.
BuildConverter(d) ==
  /\ d \in asked /\ disk[d] # None /\ ~garbled /\ ~Converting
  /\ conversion' = IF HasHash(manifest[d])
                   THEN [doc |-> d, seen |-> manifest[d].seen, text |-> manifest[d].text = TRUE,
                         content |-> None]
                   ELSE [doc |-> d, seen |-> None, text |-> FALSE, content |-> None]
  /\ UNCHANGED <<outside, list, fetcher, asked, history>>

\* RoutedDocling.blocks: without OCR if the row says that there is text, and
\* with OCR if not.  On a torn file the converter raises.
Convert ==
  /\ Converting
  /\ disk[conversion.doc] \in Contents
  /\ conversion' = [conversion EXCEPT !.content = disk[conversion.doc]]
  /\ asked' = asked \ {conversion.doc}
  /\ UNCHANGED <<outside, list, fetcher, history>>

\* A file that is missing, or that the cache has an entry for, is not converted.
SkipConversion(d) ==
  /\ d \in asked
  /\ asked' = asked \ {d}
  /\ conversion' = None
  /\ UNCHANGED <<outside, list, fetcher, history>>

\* The run ends early: a kill, or an exception.
EndIngest ==
  /\ asked # {}
  /\ asked' = {}
  /\ conversion' = None
  /\ UNCHANGED <<outside, list, fetcher, history>>

(***************************************************************************)
(* The rest of the world.                                                  *)
(***************************************************************************)

\* The operator replaces or removes a file that fetch is not writing.
Edit(d) ==
  /\ ~(pc = "writing" /\ next = d)
  /\ \E c \in (Contents \cup {None}) \ {disk[d]} : disk' = [disk EXCEPT ![d] = c]
  /\ mtime' = [mtime EXCEPT ![d] = day]
  /\ collected' = [collected EXCEPT ![d] = day]
  /\ touched' = IF finished \/ pc # "idle" THEN touched \cup {d} ELSE {}
  /\ UNCHANGED <<day, list, fetcher, ingester, finished>>

NextDay ==
  /\ day < LastDay
  /\ day' = day + 1
  /\ UNCHANGED <<disk, mtime, list, fetcher, ingester, history>>

Fetch ==
  \/ StartFetch \/ OpenManifest \/ Flush \/ CloseManifest \/ Die
  \/ \E d \in Docs :
       \/ ReadCached(d) \/ Request(d) \/ Fail(d) \/ OpenDownload(d) \/ Fill(d)
       \/ Inspect(d) \/ DateCached(d) \/ DateDownload(d)

Ingest ==
  \/ StartIngest \/ Convert \/ EndIngest
  \/ \E d \in Docs : BuildConverter(d) \/ SkipConversion(d)

Next == Fetch \/ Ingest \/ NextDay \/ \E d \in Editable : Edit(d)

Spec == Init /\ [][Next]_vars

(***************************************************************************)
(* Properties.                                                             *)
(***************************************************************************)

TypeOK ==
  /\ day \in Days
  /\ disk \in [Docs -> Blobs \cup {None}]
  /\ mtime \in [Docs -> Days]
  /\ manifest \in [Docs -> Rows \cup {None}]
  /\ garbled \in BOOLEAN
  /\ pc \in {"idle", "fetch", "request", "writing", "inspect", "date", "listing"}
  /\ next \in 1..(NDocs + 1)
  /\ entries \in [Docs -> Rows \cup {None}]
  /\ previous \in [Docs -> Rows \cup {None}]
  /\ entry \in Drafts \cup {None}
  /\ came \in BOOLEAN
  /\ asked \subseteq Docs
  /\ conversion \in Conversions \cup {None}
  /\ finished \in BOOLEAN
  /\ touched \subseteq Docs
  /\ collected \in [Docs -> Days]

\* "recorded with its failure rather than omitted, because a silent gap in a
\* corpus is indistinguishable from a document that was never meant to be
\* there" (fetch.py:12-14): after a fetch that ran to its end every document
\* has a row, whatever earlier fetches left behind.
NoSilentGap == finished => \A d \in Docs : manifest[d] # None

\* The manifest a fetch leaves behind is of the files it leaves behind: verify
\* can read it, and reports none but documents that changed since.
FinishedVerifies == finished => ~garbled /\ Reported \subseteq touched

\* prior_manifest (fetch.py:90-106) and the fallback to the file's time: however
\* often rows are lost and documents cached, none is dated later than the day its
\* document came in: the day its file was written, or, where midnight falls
\* between the writing of a download and its dating (204, 209), that of the dating.
DatedNoLater ==
  \A d \in Docs : HasHash(manifest[d]) => manifest[d].retrieved <= collected[d]

\* "silently skipping OCR on a scanned page produces an empty document"
\* (converters.py:321): a scan is converted without OCR only when it is not the
\* file that the row's text flag was read from, because it changed since.
OcrIsSkippedOnlyByDrift ==
  (conversion # None /\ conversion.text /\ conversion.content \in Contents \ TextLayer)
    => conversion.seen # conversion.content

(***************************************************************************)
(* The inductive invariant behind them.                                    *)
(***************************************************************************)

\* No row is dated later than the day its document came in.
InTime(table) ==
  \A d \in Docs : HasHash(table[d]) => table[d].retrieved <= collected[d]

\* What a row says of its pages was found in what was inspected.
Describes(table) ==
  \A d \in Docs : HasHash(table[d]) => table[d].text \in Inspections(table[d].seen)

Dates ==
  /\ InTime(manifest) /\ InTime(entries) /\ InTime(previous)
  /\ \A d \in Docs : mtime[d] <= collected[d] /\ collected[d] <= day

Descriptions ==
  /\ Describes(manifest) /\ Describes(entries)
  /\ pc = "date" => entry.text \in Inspections(entry.seen)
  /\ (conversion # None /\ conversion.text) => TRUE \in Inspections(conversion.seen)

\* The documents before the one at hand have an entry, which is of their file,
\* and so is the one at hand once it is hashed.
Progress ==
  pc # "idle" =>
    /\ \A d \in Docs :
         d < next => /\ entries[d] # None
                     /\ HasHash(entries[d]) => disk[d] = entries[d].sha \/ d \in touched
    /\ pc = "listing" => next > NDocs
    /\ pc \in {"writing", "inspect", "date"} => entry \in Drafts /\ next \in Docs
    /\ pc = "writing" => entry.sha \in Contents
    /\ pc \in {"inspect", "date"} => disk[next] = entry.sha \/ next \in touched
    /\ ~finished

IInv ==
  /\ TypeOK /\ Dates /\ Descriptions /\ Progress
  /\ NoSilentGap /\ FinishedVerifies
=============================================================================
