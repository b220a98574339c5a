---------------------------- MODULE CorpusProofs ----------------------------
(***************************************************************************)
(* Proofs about Corpus, for every number of documents and days, whatever   *)
(* publishers serve, operators edit and ingest runs ask for.               *)
(***************************************************************************)
EXTENDS Corpus, TLAPS

Tables == [Docs -> Rows \cup {None}]
Texts == BOOLEAN \cup {None}

\* What inspect finds is a flag or nothing.
LEMMA InspectionsAreTexts == \A blob : Inspections(blob) \subseteq Texts
BY Zenon DEF Inspections, Texts

\* A row with a hash has a date as well.
LEMMA HashedRows ==
  \A row \in Rows \cup {None} : HasHash(row) => row \in Hashed /\ row.retrieved \in Days
BY DEF HasHash, Rows, Hashed, WithDate

\* The draft of a file that was read, whatever was found in it.
LEMMA DraftsOfFiles ==
  ASSUME NEW blob \in Blobs, NEW text \in Texts, NEW seen \in Blobs \cup {None}
  PROVE  /\ Row(blob, None, text, seen) \in Drafts
         /\ Row(blob, None, text, seen).sha = blob
         /\ Row(blob, None, text, seen).text = text
         /\ Row(blob, None, text, seen).seen = seen
BY DEF Row, Drafts, WithDate, Texts

\* A draft that is dated is a row, and says of its file what the draft said.
LEMMA DatedDrafts ==
  ASSUME NEW draft \in Drafts, NEW date \in Days
  PROVE  /\ [draft EXCEPT !.retrieved = date] \in Rows
         /\ [draft EXCEPT !.retrieved = date].sha = draft.sha
         /\ [draft EXCEPT !.retrieved = date].text = draft.text
         /\ [draft EXCEPT !.retrieved = date].seen = draft.seen
         /\ [draft EXCEPT !.retrieved = date].retrieved = date
BY DEF Drafts, WithDate, Rows, Hashed

\* The row of a file in a clone.
LEMMA RowsOfFiles ==
  ASSUME NEW blob \in Blobs, NEW date \in Days, NEW text \in Inspections(blob)
  PROVE  /\ Row(blob, date, text, blob) \in Rows
         /\ Row(blob, date, text, blob).retrieved = date
         /\ Row(blob, date, text, blob).text \in Inspections(Row(blob, date, text, blob).seen)
<1>1. text \in Texts BY InspectionsAreTexts
<1> QED BY <1>1 DEF Row, Rows, Hashed, WithDate, Texts

\* A table without rows is a table that says nothing.
LEMMA NoRowsSayNothing ==
  NoRows \in Tables /\ \A d \in Docs : NoRows[d] = None /\ ~HasHash(NoRows[d])
BY DEF NoRows, Tables, HasHash

\* The date a cached file gets is the last manifest's or the file's.
LEMMA RetrievedOrIsADate ==
  ASSUME TypeOK, Dates, NEW d \in Docs
  PROVE  RetrievedOr(d, mtime[d]) \in Days /\ RetrievedOr(d, mtime[d]) <= collected[d]
BY HashedRows DEF RetrievedOr, TypeOK, Dates, InTime, Days

\* A converter knows of its document what the manifest's row says.
LEMMA BuiltConversion ==
  ASSUME TypeOK, NEW d \in Docs, BuildConverter(d)
  PROVE  /\ conversion' \in Conversions
         /\ conversion'.text => /\ HasHash(manifest[d])
                                /\ manifest[d].text = TRUE
                                /\ conversion'.seen = manifest[d].seen
<1>1. CASE HasHash(manifest[d])
  <2>1. manifest[d].seen \in Blobs \cup {None}
        BY <1>1, HashedRows DEF TypeOK, Hashed, WithDate
  <2> DEFINE flag == manifest[d].text = TRUE
  <2>2. flag \in BOOLEAN OBVIOUS
  <2>3. conversion' = [doc |-> d, seen |-> manifest[d].seen, text |-> flag, content |-> None]
        BY <1>1 DEF BuildConverter
  <2> HIDE DEF flag
  <2>4. conversion' \in Conversions /\ conversion'.seen = manifest[d].seen /\ conversion'.text = flag
        BY <2>1, <2>2, <2>3 DEF Conversions
  <2>5. flag => manifest[d].text = TRUE BY DEF flag
  <2> QED BY <1>1, <2>4, <2>5
<1>2. CASE ~HasHash(manifest[d])
      BY <1>2 DEF BuildConverter, Conversions
<1> QED BY <1>1, <1>2

(***************************************************************************)
(* Type correctness.                                                       *)
(***************************************************************************)

\* What Record leaves behind keeps its type.
LEMMA RecordTypes ==
  ASSUME TypeOK, NEW d \in Docs, NEW row \in Rows, Record(d, row)
  PROVE  /\ entries' \in Tables /\ pc' = "fetch" /\ next' \in 1..(NDocs + 1)
         /\ entry' = None /\ came' = FALSE
BY CorpusAssumption DEF TypeOK, Record, Tables, Docs

\* The initial states are typed.
LEMMA InitType == Init => TypeOK
<1> SUFFICES ASSUME Init PROVE TypeOK
    OBVIOUS
<1>1. manifest \in Tables
  <2>1. PICK blob \in [Docs -> Contents] :
          \E text \in [Docs -> BOOLEAN \cup {None}] :
            /\ \A d \in Docs : text[d] \in Inspections(blob[d])
            /\ manifest = [d \in Docs |-> Row(blob[d], 0, text[d], blob[d])]
        BY DEF Init
  <2>2. PICK text \in [Docs -> BOOLEAN \cup {None}] :
            /\ \A d \in Docs : text[d] \in Inspections(blob[d])
            /\ manifest = [d \in Docs |-> Row(blob[d], 0, text[d], blob[d])]
        BY <2>1
  <2>3. 0 \in Days BY CorpusAssumption DEF Days
  <2>4. \A d \in Docs : Row(blob[d], 0, text[d], blob[d]) \in Rows
        BY <2>2, <2>3, RowsOfFiles DEF Blobs
  <2> QED BY <2>2, <2>4 DEF Tables
<1>2. 0 \in Days /\ 1 \in 1..(NDocs + 1) BY CorpusAssumption DEF Days
<1>3. asked \subseteq Docs /\ conversion \in Conversions \cup {None} BY DEF Init
<1>4. disk \in [Docs -> Blobs \cup {None}] /\ mtime \in [Docs -> Days]
      BY <1>2 DEF Init
<1>5. entries \in Tables /\ previous \in Tables BY NoRowsSayNothing DEF Init
<1>6. collected \in [Docs -> Days] BY <1>2 DEF Init
<1> QED BY <1>1, <1>2, <1>3, <1>4, <1>5, <1>6 DEF Init, TypeOK, Tables

\* Every step keeps the types: a step that fills in a row or a file is typed
\* because what it holds is.
LEMMA TypeStep == IInv /\ [Next]_vars => TypeOK'
<1> SUFFICES ASSUME IInv, [Next]_vars PROVE TypeOK'
    OBVIOUS
<1>0. TypeOK /\ Dates /\ Progress BY DEF IInv
<1>t. manifest \in Tables /\ entries \in Tables /\ previous \in Tables
      BY <1>0 DEF TypeOK, Tables
<1>1. CASE StartFetch
  <2>1. next' \in 1..(NDocs + 1) /\ entries' \in Tables /\ previous' \in Tables
        BY <1>t, <1>1, NoRowsSayNothing, CorpusAssumption DEF StartFetch
  <2>2. finished' \in BOOLEAN /\ touched' \subseteq Docs BY <1>1 DEF StartFetch
  <2>3. pc' = "fetch" BY <1>1 DEF StartFetch
  <2>4. UNCHANGED <<outside, list, entry, came, ingester, collected>> BY <1>1 DEF StartFetch
  <2> QED BY <1>0, <2>1, <2>2, <2>3, <2>4 DEF TypeOK, outside, list, ingester, Tables
<1>2. CASE OpenManifest
      BY <1>0, <1>2, NoRowsSayNothing DEF TypeOK, OpenManifest, outside, ingester, history, Tables
<1>3. CASE Flush
  <2>1. manifest' \in Tables
        BY <1>t, <1>3 DEF Flush, Tables
  <2> QED BY <1>0, <1>3, <2>1 DEF TypeOK, Flush, outside, fetcher, ingester, history, Tables
<1>4. CASE CloseManifest
  <2>1. manifest' \in Tables /\ garbled' \in BOOLEAN BY <1>t, <1>4 DEF CloseManifest
  <2>2. /\ pc' = "idle" /\ next' \in 1..(NDocs + 1) /\ entry' = None /\ came' = FALSE
        /\ entries' \in Tables /\ previous' \in Tables
        BY <1>4, NoRowsSayNothing, CorpusAssumption DEF CloseManifest, Exit
  <2>3. UNCHANGED <<outside, ingester, touched, collected>> BY <1>4 DEF CloseManifest
  <2>4. finished' \in BOOLEAN BY <1>4 DEF CloseManifest
  <2> QED BY <1>0, <2>1, <2>2, <2>3, <2>4 DEF TypeOK, outside, ingester, Tables
<1>5. CASE Die
  <2>1. /\ pc' = "idle" /\ next' \in 1..(NDocs + 1) /\ entry' = None /\ came' = FALSE
        /\ entries' \in Tables /\ previous' \in Tables
        BY <1>5, NoRowsSayNothing, CorpusAssumption DEF Die, Exit
  <2>2. UNCHANGED <<outside, list, ingester, finished, collected>> /\ touched' \subseteq Docs
        BY <1>5 DEF Die
  <2> QED BY <1>0, <2>1, <2>2 DEF TypeOK, outside, list, ingester, Tables
<1>6. ASSUME NEW d \in Docs, ReadCached(d) PROVE TypeOK'
  <2>1. disk[d] \in Blobs /\ None \in Texts BY <1>0, <1>6 DEF TypeOK, ReadCached, Texts
  <2>2. entry' \in Drafts BY <1>6, <2>1, DraftsOfFiles DEF ReadCached
  <2> QED BY <1>0, <1>6, <2>2 DEF TypeOK, ReadCached, outside, list, ingester
<1>7. ASSUME NEW d \in Docs, Request(d) \/ Fail(d) PROVE TypeOK'
  <2>1. CASE Request(d)
        BY <1>0, <2>1 DEF TypeOK, Request, outside, list, ingester, history
  <2>2. CASE Fail(d)
    <3>1. Failure \in Rows BY DEF Rows
    <3> QED BY <1>0, <2>2, <3>1, RecordTypes
            DEF TypeOK, Fail, outside, list, ingester, history, Tables
  <2> QED BY <1>7, <2>1, <2>2
<1>8. ASSUME NEW d \in Docs, OpenDownload(d) \/ Fill(d) PROVE TypeOK'
  <2>1. entry' \in Drafts
    <3>1. CASE OpenDownload(d)
      <4>1. PICK c \in Served[d] : entry' = Row(c, None, None, None) BY <3>1 DEF OpenDownload
      <4>2. c \in Blobs /\ None \in Texts BY CorpusAssumption DEF Blobs, Texts
      <4> QED BY <4>1, <4>2, DraftsOfFiles
    <3>2. CASE Fill(d) BY <1>0, <3>2 DEF Fill, AtHand, Progress
    <3> QED BY <1>8, <3>1, <3>2
  <2>2. disk' \in [Docs -> Blobs \cup {None}]
        BY <1>0, <1>8 DEF TypeOK, OpenDownload, Fill, AtHand, Progress, Blobs
  <2>3. mtime' \in [Docs -> Days] /\ collected' \in [Docs -> Days]
        BY <1>0, <1>8 DEF TypeOK, OpenDownload, Fill
  <2>4. pc' \in {"writing", "inspect"} /\ came' \in BOOLEAN /\ touched' \subseteq Docs
        BY <1>0, <1>8 DEF TypeOK, OpenDownload, Fill
  <2>5. UNCHANGED <<day, list, next, entries, previous, ingester, finished>>
        BY <1>8 DEF OpenDownload, Fill
  <2> QED BY <1>0, <2>1, <2>2, <2>3, <2>4, <2>5 DEF TypeOK, list, ingester
<1>9. ASSUME NEW d \in Docs, Inspect(d) PROVE TypeOK'
  <2>1. PICK text \in Inspections(disk[d]) : entry' = Row(entry.sha, None, text, disk[d])
        BY <1>9 DEF Inspect
  <2>2. entry.sha \in Blobs BY <1>0, <1>9 DEF Inspect, AtHand, Progress, Drafts, WithDate
  <2>3. text \in Texts /\ disk[d] \in Blobs \cup {None} BY <1>0, InspectionsAreTexts DEF TypeOK
  <2>4. entry' \in Drafts BY <2>1, <2>2, <2>3, DraftsOfFiles
  <2> QED BY <1>0, <1>9, <2>4 DEF TypeOK, Inspect, outside, list, ingester, history
<1>d. ASSUME NEW d \in Docs, DateCached(d) PROVE TypeOK'
  <2>1. RetrievedOr(d, mtime[d]) \in Days BY <1>0, RetrievedOrIsADate
  <2>2. entry \in Drafts BY <1>0, <1>d DEF DateCached, AtHand, Progress
  <2>3. [entry EXCEPT !.retrieved = RetrievedOr(d, mtime[d])] \in Rows
        BY <2>1, <2>2, DatedDrafts
  <2> QED BY <1>0, <1>d, <2>3, RecordTypes
          DEF TypeOK, DateCached, outside, list, ingester, history, Tables
<1>e. ASSUME NEW d \in Docs, DateDownload(d) PROVE TypeOK'
  <2>1. day \in Days BY <1>0 DEF TypeOK
  <2>2. entry \in Drafts BY <1>0, <1>e DEF DateDownload, AtHand, Progress
  <2>3. [entry EXCEPT !.retrieved = day] \in Rows BY <2>1, <2>2, DatedDrafts
  <2>4. collected' \in [Docs -> Days] BY <1>0, <1>e DEF TypeOK, DateDownload
  <2> QED BY <1>0, <1>e, <2>3, <2>4, RecordTypes
          DEF TypeOK, DateDownload, outside, list, ingester, Tables
<1>10. CASE StartIngest \/ EndIngest
  <2>1. asked' \subseteq Docs /\ conversion' = None
        BY <1>10, CorpusAssumption DEF StartIngest, EndIngest
  <2> QED BY <1>0, <1>10, <2>1 DEF TypeOK, StartIngest, EndIngest, outside, list, fetcher, history
<1>11. ASSUME NEW d \in Docs, BuildConverter(d) \/ SkipConversion(d) PROVE TypeOK'
  <2>1. conversion' \in Conversions \cup {None} BY <1>0, <1>11, BuiltConversion DEF SkipConversion
  <2>2. asked' \subseteq Docs BY <1>0, <1>11 DEF TypeOK, BuildConverter, SkipConversion
  <2> QED BY <1>0, <1>11, <2>1, <2>2
          DEF TypeOK, BuildConverter, SkipConversion, outside, list, fetcher, history
<1>12. CASE Convert
  <2>1. conversion' \in Conversions BY <1>0, <1>12 DEF TypeOK, Convert, Converting, Conversions
  <2>2. asked' \subseteq Docs BY <1>0, <1>12 DEF TypeOK, Convert
  <2> QED BY <1>0, <1>12, <2>1, <2>2 DEF TypeOK, Convert, outside, list, fetcher, history
<1>13. ASSUME NEW d \in Docs, Edit(d) PROVE TypeOK'
  <2>1. disk' \in [Docs -> Blobs \cup {None}] BY <1>0, <1>13 DEF TypeOK, Edit, Blobs
  <2> QED BY <1>0, <1>13, <2>1 DEF TypeOK, Edit, list, fetcher, ingester
<1>14. CASE NextDay
      BY <1>0, <1>14, CorpusAssumption DEF TypeOK, NextDay, Days, list, fetcher, ingester, history
<1>15. CASE UNCHANGED vars
      BY <1>0, <1>15 DEF TypeOK, vars, outside, list, fetcher, ingester, history
<1> QED BY <1>1, <1>2, <1>3, <1>4, <1>5, <1>6, <1>7, <1>8, <1>9, <1>d, <1>e, <1>10, <1>11, <1>12,
           <1>13, <1>14, <1>15, CorpusAssumption DEF Next, Fetch, Ingest

(***************************************************************************)
(* Where files and rows come from.                                         *)
(***************************************************************************)

\* A file that is written is dated today and comes in today, and a document
\* never comes in earlier than it did.
LEMMA FilesStep ==
  ASSUME IInv, [Next]_vars
  PROVE  /\ day <= day'
         /\ \A e \in Docs : collected'[e] = collected[e] \/ collected'[e] = day'
         /\ \A e \in Docs : \/ mtime'[e] = mtime[e]
                            \/ mtime'[e] = day' /\ collected'[e] = day'
<1>0. TypeOK BY DEF IInv
<1>1. CASE UNCHANGED <<day, mtime, collected>>
      BY <1>0, <1>1 DEF TypeOK, Days
<1>2. ASSUME NEW d \in Docs, OpenDownload(d) \/ Fill(d) \/ Edit(d) \/ DateDownload(d)
      PROVE  /\ day' = day /\ collected'[d] = day /\ mtime'[d] \in {day, mtime[d]}
             /\ \A e \in Docs \ {d} : mtime'[e] = mtime[e] /\ collected'[e] = collected[e]
      BY <1>0, <1>2 DEF OpenDownload, Fill, Edit, DateDownload, TypeOK, outside
<1>3. CASE NextDay BY <1>0, <1>3 DEF NextDay, history, TypeOK, Days
<1>4. CASE \E d \in Docs : OpenDownload(d) \/ Fill(d) \/ Edit(d) \/ DateDownload(d)
      BY <1>0, <1>2, <1>4 DEF TypeOK, Days
<1>5. CASE \E d \in Docs : \/ ReadCached(d) \/ Request(d) \/ Fail(d) \/ Inspect(d) \/ DateCached(d)
                           \/ BuildConverter(d) \/ SkipConversion(d)
      BY <1>1, <1>5
      DEF ReadCached, Request, Fail, Inspect, DateCached, BuildConverter, SkipConversion,
          outside, history
<1>6. CASE \/ StartFetch \/ OpenManifest \/ Flush \/ CloseManifest \/ Die
           \/ StartIngest \/ Convert \/ EndIngest
      BY <1>1, <1>6
      DEF StartFetch, OpenManifest, Flush, CloseManifest, Die, StartIngest, Convert, EndIngest,
          outside, history
<1>7. CASE UNCHANGED vars BY <1>1, <1>7 DEF vars, outside, history
<1> QED BY <1>3, <1>4, <1>5, <1>6, <1>7, CorpusAssumption DEF Next, Fetch, Ingest

\* A row of a document as the step leaves it: it says of its pages what was
\* found there, and is not dated later than the document came in.
OfFile(row, d) ==
  /\ row.text \in Inspections(row.seen)
  /\ row.retrieved \in Days /\ row.retrieved <= collected'[d]

\* The manifest takes its rows from the entries, the last manifest's rows are
\* the manifest's, and entries are made for the document at hand only.
RowsMove ==
  /\ \A e \in Docs : manifest'[e] \in {manifest[e], entries[e], None}
  /\ \A e \in Docs : previous'[e] \in {previous[e], manifest[e], None}
  /\ \A e \in Docs : entries'[e] \in {entries[e], None, Failure} \/ OfFile(entries'[e], e)

LEMMA RowsStep == IInv /\ [Next]_vars => RowsMove
<1> SUFFICES ASSUME IInv, [Next]_vars PROVE RowsMove
    OBVIOUS
<1>0. TypeOK /\ Dates /\ Progress /\ Descriptions BY DEF IInv
<1>1. CASE manifest' = manifest /\ previous' = previous /\ entries' = entries
      BY <1>1 DEF RowsMove
<1>2. CASE StartFetch BY <1>2, NoRowsSayNothing DEF StartFetch, list, RowsMove
<1>3. CASE OpenManifest BY <1>3, NoRowsSayNothing DEF OpenManifest, RowsMove
<1>4. CASE Flush BY <1>4 DEF Flush, fetcher, RowsMove
<1>5. CASE CloseManifest BY <1>5, NoRowsSayNothing DEF CloseManifest, Exit, RowsMove
<1>6. CASE Die BY <1>6, NoRowsSayNothing DEF Die, Exit, list, RowsMove
<1>7. ASSUME NEW d \in Docs, NEW row, Record(d, row), UNCHANGED <<list, previous>>,
             row = Failure \/ OfFile(row, d)
      PROVE  RowsMove
  <2>1. \A e \in Docs : entries'[e] = IF e = d THEN row ELSE entries[e]
        BY <1>0, <1>7 DEF Record, TypeOK
  <2>2. \A e \in Docs : entries'[e] \in {entries[e], None, Failure} \/ OfFile(entries'[e], e)
        BY <1>7, <2>1
  <2> QED BY <1>7, <2>2 DEF RowsMove, list
<1>8. ASSUME NEW d \in Docs, DateCached(d) PROVE RowsMove
  <2>1. entry \in Drafts /\ entry.text \in Inspections(entry.seen)
        BY <1>0, <1>8 DEF DateCached, AtHand, Progress, Descriptions
  <2>2. RetrievedOr(d, mtime[d]) \in Days /\ RetrievedOr(d, mtime[d]) <= collected[d]
        BY <1>0, RetrievedOrIsADate
  <2>3. collected' = collected BY <1>8 DEF DateCached, history
  <2>4. OfFile([entry EXCEPT !.retrieved = RetrievedOr(d, mtime[d])], d)
        BY <2>1, <2>2, <2>3, DatedDrafts DEF OfFile
  <2> QED BY <1>7, <1>8, <2>4 DEF DateCached
<1>9. ASSUME NEW d \in Docs, Fail(d) PROVE RowsMove
      BY <1>7, <1>9 DEF Fail
<1>10. ASSUME NEW d \in Docs, DateDownload(d) PROVE RowsMove
  <2>1. entry \in Drafts /\ entry.text \in Inspections(entry.seen)
        BY <1>0, <1>10 DEF DateDownload, AtHand, Progress, Descriptions
  <2>2. day \in Days /\ collected'[d] = day BY <1>0, <1>10 DEF DateDownload, TypeOK
  <2>3. OfFile([entry EXCEPT !.retrieved = day], d)
        BY <2>1, <2>2, DatedDrafts DEF OfFile, Days
  <2> QED BY <1>7, <1>10, <2>3 DEF DateDownload
<1>11. CASE \E d \in Docs : \/ ReadCached(d) \/ Request(d) \/ OpenDownload(d) \/ Fill(d) \/ Inspect(d)
                            \/ BuildConverter(d) \/ SkipConversion(d) \/ Edit(d)
       BY <1>1, <1>11
       DEF ReadCached, Request, OpenDownload, Fill, Inspect, BuildConverter, SkipConversion, Edit,
           list, fetcher
<1>12. CASE StartIngest \/ Convert \/ EndIngest \/ NextDay
       BY <1>1, <1>12 DEF StartIngest, Convert, EndIngest, NextDay, list, fetcher
<1>13. CASE UNCHANGED vars BY <1>1, <1>13 DEF vars, list, fetcher
<1> QED BY <1>2, <1>3, <1>4, <1>5, <1>6, <1>8, <1>9, <1>10, <1>11, <1>12, <1>13,
           CorpusAssumption DEF Next, Fetch, Ingest

\* Dates stay in order: rows move between tables, a new one is dated by the last
\* manifest's, by the file or today, and what comes in comes in today.
LEMMA DatesStep == IInv /\ [Next]_vars => Dates'
<1> SUFFICES ASSUME IInv, [Next]_vars PROVE Dates'
    OBVIOUS
<1>0. TypeOK /\ TypeOK' /\ Dates /\ RowsMove BY TypeStep, RowsStep DEF IInv
<1>1. \A e \in Docs : /\ collected[e] <= collected'[e] /\ mtime'[e] <= collected'[e]
                      /\ collected'[e] <= day'
  <2>1. /\ mtime \in [Docs -> Days] /\ mtime' \in [Docs -> Days]
        /\ collected \in [Docs -> Days] /\ collected' \in [Docs -> Days]
        /\ day \in Days /\ day' \in Days
        BY <1>0 DEF TypeOK
  <2>2. \A e \in Docs : mtime[e] <= collected[e] /\ collected[e] <= day BY <1>0 DEF Dates
  <2>3. \A e \in Docs : collected'[e] = collected[e] \/ collected'[e] = day' BY FilesStep
  <2>4. \A e \in Docs : mtime'[e] = mtime[e] \/ (mtime'[e] = day' /\ collected'[e] = day')
        BY FilesStep
  <2>5. day <= day' BY FilesStep
  <2> QED BY <2>1, <2>2, <2>3, <2>4, <2>5, CorpusAssumption DEF Days
<1> DEFINE Fine(row, e) == HasHash(row) => row.retrieved <= collected'[e]
<1>2. ASSUME NEW table \in Tables, InTime(table) PROVE \A e \in Docs : Fine(table[e], e)
  <2>1. \A e \in Docs : HasHash(table[e]) => table[e].retrieved \in Days
        BY HashedRows DEF Tables
  <2> QED BY <1>0, <1>1, <1>2, <2>1 DEF InTime, TypeOK, Days
<1>3. \A e \in Docs : Fine(manifest[e], e) /\ Fine(entries[e], e) /\ Fine(previous[e], e)
      BY <1>0, <1>2 DEF Dates, TypeOK, Tables
<1>4. \A e \in Docs : Fine(None, e) /\ Fine(Failure, e) BY DEF HasHash
<1>5. \A e \in Docs : OfFile(entries'[e], e) => Fine(entries'[e], e)
      BY DEF OfFile
<1>6. \A e \in Docs : Fine(manifest'[e], e) /\ Fine(entries'[e], e) /\ Fine(previous'[e], e)
  <2> HIDE DEF Fine
  <2> QED BY <1>0, <1>3, <1>4, <1>5 DEF RowsMove
<1> QED BY <1>1, <1>6 DEF Dates, InTime

\* So do descriptions: what a row says of its pages was found in what was inspected.
LEMMA DescriptionsStep == IInv /\ [Next]_vars => Descriptions'
<1> SUFFICES ASSUME IInv, [Next]_vars PROVE Descriptions'
    OBVIOUS
<1>0. TypeOK /\ Descriptions /\ RowsMove BY RowsStep DEF IInv
<1> DEFINE Fine(row) == HasHash(row) => row.text \in Inspections(row.seen)
<1>1. \A e \in Docs : Fine(manifest[e]) /\ Fine(entries[e]) BY <1>0 DEF Descriptions, Describes
<1>2. Fine(None) /\ Fine(Failure) BY DEF HasHash
<1>3. \A e \in Docs : OfFile(entries'[e], e) => Fine(entries'[e]) BY DEF OfFile
<1>4. \A e \in Docs : Fine(manifest'[e]) /\ Fine(entries'[e])
  <2> HIDE DEF Fine
  <2> QED BY <1>0, <1>1, <1>2, <1>3 DEF RowsMove
<1>5. Describes(manifest)' /\ Describes(entries)' BY <1>4 DEF Describes
<1> DEFINE Told(known) == (known # None /\ known.text) => TRUE \in Inspections(known.seen)
<1>6. Told(conversion) BY <1>0 DEF Descriptions
<1>7. Told(conversion')
  <2>1. CASE conversion' = conversion BY <1>6, <2>1
  <2>2. CASE conversion' = None BY <2>2
  <2>3. CASE Convert
        BY <1>0, <1>6, <2>3 DEF Convert, Converting, TypeOK, Conversions
  <2>4. ASSUME NEW d \in Docs, BuildConverter(d) PROVE Told(conversion')
        BY <1>0, <1>1, <2>4, BuiltConversion
  <2> HIDE DEF Told
  <2>5. CASE StartFetch \/ OpenManifest \/ Flush \/ CloseManifest \/ Die \/ NextDay
        BY <2>1, <2>5
        DEF StartFetch, OpenManifest, Flush, CloseManifest, Die, NextDay, ingester
  <2>6. CASE \E d \in Docs : \/ ReadCached(d) \/ Request(d) \/ Fail(d) \/ OpenDownload(d) \/ Fill(d)
                             \/ Inspect(d) \/ DateCached(d) \/ DateDownload(d) \/ Edit(d)
        BY <2>1, <2>6
        DEF ReadCached, Request, Fail, OpenDownload, Fill, Inspect, DateCached, DateDownload, Edit,
            ingester
  <2>7. CASE StartIngest \/ EndIngest \/ \E d \in Docs : SkipConversion(d)
        BY <2>2, <2>7 DEF StartIngest, EndIngest, SkipConversion
  <2>8. CASE UNCHANGED vars BY <2>1, <2>8 DEF vars, ingester
  <2> QED BY <2>3, <2>4, <2>5, <2>6, <2>7, <2>8, CorpusAssumption DEF Next, Fetch, Ingest
<1>8. pc' = "date" => entry'.text \in Inspections(entry'.seen)
  <2> SUFFICES ASSUME pc' = "date" PROVE entry'.text \in Inspections(entry'.seen)
      OBVIOUS
  <2>1. CASE pc' = pc /\ entry' = entry BY <1>0, <2>1 DEF Descriptions
  <2>2. ASSUME NEW d \in Docs, Inspect(d) PROVE entry'.text \in Inspections(entry'.seen)
        BY <2>2 DEF Inspect, Row
  <2>3. CASE StartFetch \/ OpenManifest \/ CloseManifest \/ Die
        BY <2>3 DEF StartFetch, OpenManifest, CloseManifest, Die, Exit
  <2>4. CASE \E d \in Docs : \/ ReadCached(d) \/ Request(d) \/ Fail(d) \/ OpenDownload(d) \/ Fill(d)
                             \/ DateCached(d) \/ DateDownload(d)
        BY <2>4
        DEF ReadCached, Request, Fail, OpenDownload, Fill, DateCached, DateDownload, Record
  <2>5. CASE \/ Flush \/ StartIngest \/ Convert \/ EndIngest \/ NextDay
             \/ \E d \in Docs : BuildConverter(d) \/ SkipConversion(d) \/ Edit(d)
        BY <2>1, <2>5
        DEF Flush, StartIngest, Convert, EndIngest, NextDay, BuildConverter, SkipConversion, Edit,
            fetcher
  <2>6. CASE UNCHANGED vars BY <2>1, <2>6 DEF vars, fetcher
  <2> QED BY <2>2, <2>3, <2>4, <2>5, <2>6, CorpusAssumption DEF Next, Fetch, Ingest
<1> QED BY <1>5, <1>7, <1>8 DEF Descriptions

(***************************************************************************)
(* What a fetch has done, and what it leaves behind.                       *)
(***************************************************************************)

\* While a fetch is under way, the documents it has passed have their entry,
\* which is of their file unless somebody touched it, and so does the one at hand.
LEMMA ProgressStep == IInv /\ [Next]_vars => Progress'
<1>0. SUFFICES ASSUME IInv, [Next]_vars, pc' # "idle" PROVE Progress'
    BY DEF Progress
<1> DEFINE Past(d) == /\ entries[d] # None
                      /\ HasHash(entries[d]) => disk[d] = entries[d].sha \/ d \in touched
           PastNow(d) == /\ entries'[d] # None
                         /\ HasHash(entries'[d]) => disk'[d] = entries'[d].sha \/ d \in touched'
           AtWork == /\ pc \in {"writing", "inspect", "date"} => entry \in Drafts /\ next \in Docs
                     /\ pc = "writing" => entry.sha \in Contents
                     /\ pc \in {"inspect", "date"} => disk[next] = entry.sha \/ next \in touched
           AtWorkNow == /\ pc' \in {"writing", "inspect", "date"} => entry' \in Drafts /\ next' \in Docs
                        /\ pc' = "writing" => entry'.sha \in Contents
                        /\ pc' \in {"inspect", "date"} =>
                             disk'[next'] = entry'.sha \/ next' \in touched'
           Goal == /\ \A d \in Docs : d < next' => PastNow(d)
                   /\ pc' = "listing" => next' > NDocs
                   /\ AtWorkNow
                   /\ ~finished'
<1>1. SUFFICES Goal BY DEF Progress, HasHash
<1>2. TypeOK /\ Progress BY <1>0 DEF IInv
<1>3. pc # "idle" => /\ \A d \in Docs : d < next => Past(d)
                     /\ pc = "listing" => next > NDocs
                     /\ AtWork
                     /\ ~finished
      BY <1>2 DEF Progress
<1>4. CASE StartFetch BY <1>4, CorpusAssumption DEF StartFetch, Docs
\* fetch_one returns a row that is of its file.
<1>5. ASSUME NEW d \in Docs, NEW row, Record(d, row), next = d, pc # "idle",
             row # None, HasHash(row) => disk[d] = row.sha \/ d \in touched,
             disk' = disk, finished' = finished, touched' = touched
      PROVE  Goal
  <2>1. \A e \in Docs : entries'[e] = IF e = d THEN row ELSE entries[e]
        BY <1>2, <1>5 DEF Record, TypeOK
  <2>2. PastNow(d) BY <1>5, <2>1
  <2>3. ASSUME NEW e \in Docs, e < d PROVE PastNow(e)
    <3>1. Past(e) BY <1>3, <1>5, <2>3
    <3>2. e # d /\ disk'[e] = disk[e] /\ entries'[e] = entries[e]
          BY <1>5, <2>1, <2>3 DEF Docs
    <3> QED BY <1>5, <3>1, <3>2
  <2>4. next' = d + 1 /\ pc' = "fetch" BY <1>5 DEF Record
  <2>5. \A e \in Docs : e < d + 1 => e < d \/ e = d BY DEF Docs
  <2>6. AtWorkNow BY <2>4
  <2>7. ~finished' BY <1>3, <1>5
  <2> HIDE DEF PastNow, AtWorkNow
  <2> QED BY <2>2, <2>3, <2>4, <2>5, <2>6, <2>7
\* A step of fetch_one within the document at hand.
<1>6. ASSUME NEW d \in Docs, next = d, next' = next, pc # "idle", pc' # "listing", AtWorkNow,
             entries' = entries, finished' = finished, touched \ {d} \subseteq touched',
             \A e \in Docs \ {d} : disk'[e] = disk[e]
      PROVE  Goal
  <2>1. ASSUME NEW e \in Docs, e < d PROVE PastNow(e)
    <3>1. Past(e) BY <1>3, <1>6, <2>1
    <3>2. e # d BY <2>1 DEF Docs
    <3> QED BY <1>6, <3>1, <3>2
  <2>2. ~finished' BY <1>3, <1>6
  <2> HIDE DEF PastNow, AtWorkNow
  <2> QED BY <1>6, <2>1, <2>2
<1> HIDE DEF Goal
<1>7. ASSUME NEW d \in Docs, ReadCached(d) PROVE Goal
  <2>1. /\ pc' = "inspect" /\ pc = "fetch" /\ next' = next /\ next = d
        /\ entries' = entries /\ finished' = finished /\ touched' = touched \ {d}
        /\ disk' = disk /\ disk[d] # None /\ entry' = Row(disk[d], None, None, None)
        BY <1>7 DEF ReadCached, AtHand, outside
  <2>2. disk[d] \in Blobs /\ None \in Texts BY <1>2, <2>1 DEF TypeOK, Texts
  <2>3. entry' \in Drafts /\ entry'.sha = disk[d] BY <2>1, <2>2, DraftsOfFiles
  <2>4. AtWorkNow BY <2>1, <2>3
  <2> HIDE DEF AtWorkNow
  <2> QED BY <1>6, <2>1, <2>4
<1>8. ASSUME NEW d \in Docs, Request(d) PROVE Goal
  <2>1. /\ pc' = "request" /\ pc = "fetch" /\ next' = next /\ next = d
        /\ entries' = entries /\ finished' = finished /\ touched' = touched /\ disk' = disk
        BY <1>8 DEF Request, AtHand, outside, history
  <2>2. AtWorkNow BY <2>1
  <2> HIDE DEF AtWorkNow
  <2> QED BY <1>6, <2>1, <2>2
<1>9. ASSUME NEW d \in Docs, Fail(d) PROVE Goal
  <2>1. Failure # None BY CorpusAssumption DEF Rows
  <2>2. ~HasHash(Failure) BY DEF HasHash
  <2>3. /\ Record(d, Failure) /\ next = d /\ pc # "idle" /\ disk' = disk
        /\ finished' = finished /\ touched' = touched
        BY <1>9 DEF Fail, AtHand, outside, history
  <2> QED BY <1>5, <2>1, <2>2, <2>3
<1>10. ASSUME NEW d \in Docs, OpenDownload(d) PROVE Goal
  <2>1. /\ pc' = "writing" /\ pc = "request" /\ next' = next /\ next = d
        /\ entries' = entries /\ touched' = touched /\ finished' = finished
        BY <1>10 DEF OpenDownload, AtHand
  <2>2. PICK c \in Served[d] : entry' = Row(c, None, None, None) BY <1>10 DEF OpenDownload
  <2>3. c \in Contents /\ c \in Blobs /\ None \in Texts BY CorpusAssumption DEF Blobs, Texts
  <2>4. entry' \in Drafts /\ entry'.sha = c BY <2>2, <2>3, DraftsOfFiles
  <2>5. \A e \in Docs \ {d} : disk'[e] = disk[e]
        BY <1>2, <1>10 DEF OpenDownload, TypeOK
  <2>6. AtWorkNow BY <2>1, <2>3, <2>4
  <2> HIDE DEF AtWorkNow
  <2> QED BY <1>6, <2>1, <2>5, <2>6
<1>11. ASSUME NEW d \in Docs, Fill(d) PROVE Goal
  <2>1. /\ pc' = "inspect" /\ pc = "writing" /\ next' = next /\ next = d /\ entry' = entry
        /\ entries' = entries /\ touched' = touched \ {d} /\ finished' = finished
        BY <1>11 DEF Fill, AtHand
  <2>2. disk'[d] = entry.sha /\ \A e \in Docs \ {d} : disk'[e] = disk[e]
        BY <1>2, <1>11 DEF Fill, TypeOK
  <2>3. AtWorkNow BY <1>3, <2>1, <2>2
  <2> HIDE DEF AtWorkNow
  <2> QED BY <1>6, <2>1, <2>2, <2>3
<1>12. ASSUME NEW d \in Docs, Inspect(d) PROVE Goal
  <2>1. /\ pc' = "date" /\ pc = "inspect" /\ next' = next /\ next = d
        /\ entries' = entries /\ touched' = touched /\ finished' = finished /\ disk' = disk
        BY <1>12 DEF Inspect, AtHand, outside, history
  <2>2. PICK text \in Inspections(disk[d]) : entry' = Row(entry.sha, None, text, disk[d])
        BY <1>12 DEF Inspect
  <2>3. entry \in Drafts /\ entry.sha \in Blobs BY <1>3, <2>1 DEF Drafts, WithDate
  <2>4. text \in Texts /\ disk[d] \in Blobs \cup {None} BY <1>2, InspectionsAreTexts DEF TypeOK
  <2>5. entry' \in Drafts /\ entry'.sha = entry.sha BY <2>2, <2>3, <2>4, DraftsOfFiles
  <2>6. AtWorkNow BY <1>3, <2>1, <2>5
  <2> HIDE DEF AtWorkNow
  <2> QED BY <1>6, <2>1, <2>6
<1>13. ASSUME NEW d \in Docs, NEW date \in Days, AtHand(d, "date"),
              Record(d, [entry EXCEPT !.retrieved = date]),
              disk' = disk, finished' = finished, touched' = touched
       PROVE  Goal
  <2>1. pc = "date" /\ next = d BY <1>13 DEF AtHand
  <2>2. entry \in Drafts /\ (disk[d] = entry.sha \/ d \in touched) BY <1>3, <2>1
  <2>3. PICK row : row = [entry EXCEPT !.retrieved = date] OBVIOUS
  <2>4. row \in Rows /\ row.sha = entry.sha BY <2>2, <2>3, DatedDrafts
  <2>5. row # None BY <2>4, CorpusAssumption
  <2>6. Record(d, row) BY <1>13, <2>3
  <2> QED BY <1>5, <1>13, <2>1, <2>2, <2>4, <2>5, <2>6
<1>14. ASSUME NEW d \in Docs, DateCached(d) PROVE Goal
  <2>1. RetrievedOr(d, mtime[d]) \in Days BY <1>0, <1>2, RetrievedOrIsADate DEF IInv
  <2> QED BY <1>13, <1>14, <2>1 DEF DateCached, outside, history
<1>15. ASSUME NEW d \in Docs, DateDownload(d) PROVE Goal
  <2>1. day \in Days BY <1>2 DEF TypeOK
  <2> QED BY <1>13, <1>15, <2>1 DEF DateDownload, outside
<1>16. CASE OpenManifest
      BY <1>3, <1>16 DEF OpenManifest, outside, history, Goal
<1>17. CASE CloseManifest \/ Die BY <1>0, <1>17 DEF CloseManifest, Die, Exit
<1>18. ASSUME NEW d \in Docs, Edit(d) PROVE Goal
  <2>1. /\ pc' = pc /\ next' = next /\ entries' = entries /\ entry' = entry
        /\ finished' = finished
        BY <1>18 DEF Edit, fetcher
  <2>2. touched' = touched \cup {d} BY <1>0, <1>18, <2>1 DEF Edit
  <2>3. \A e \in Docs \ {d} : disk'[e] = disk[e]
        BY <1>2, <1>18 DEF Edit, TypeOK
  <2>4. \A e \in Docs : e < next' => PastNow(e) BY <1>0, <1>3, <2>1, <2>2, <2>3
  <2>5. AtWorkNow BY <1>0, <1>3, <2>1, <2>2, <2>3
  <2> HIDE DEF PastNow, AtWorkNow
  <2> QED BY <1>0, <1>3, <2>1, <2>4, <2>5 DEF Goal
<1>19. CASE UNCHANGED <<disk, fetcher, history>>
       BY <1>0, <1>3, <1>19 DEF fetcher, history, Goal
<1>20. CASE Flush BY <1>19, <1>20 DEF Flush, outside
<1>21. CASE StartIngest \/ Convert \/ EndIngest \/ NextDay
       BY <1>19, <1>21 DEF StartIngest, Convert, EndIngest, NextDay, outside
<1>22. CASE \E d \in Docs : BuildConverter(d) \/ SkipConversion(d)
       BY <1>19, <1>22 DEF BuildConverter, SkipConversion, outside
<1>23. CASE UNCHANGED vars BY <1>19, <1>23 DEF vars, outside
<1> QED BY <1>0, <1>4, <1>7, <1>8, <1>9, <1>10, <1>11, <1>12, <1>14, <1>15, <1>16, <1>17, <1>18,
           <1>20, <1>21, <1>22, <1>23, CorpusAssumption DEF Next, Fetch, Ingest

\* A fetch that ran to its end leaves a row for every document, of its file,
\* and what happens until the next fetch leaves the manifest alone.
LEMMA FinishedStep == IInv /\ [Next]_vars => NoSilentGap' /\ FinishedVerifies'
<1> SUFFICES ASSUME IInv, [Next]_vars, finished'
             PROVE  /\ \A d \in Docs : manifest'[d] # None
                    /\ ~garbled'
                    /\ \A d \in Docs : HasHash(manifest'[d]) =>
                         disk'[d] = manifest'[d].sha \/ d \in touched'
    BY DEF NoSilentGap, FinishedVerifies, Reported, HasHash
<1>0. TypeOK /\ Progress /\ NoSilentGap /\ FinishedVerifies BY DEF IInv
<1>1. CASE CloseManifest
  <2>1. /\ manifest' = entries /\ ~garbled' /\ disk' = disk /\ touched' = touched
        /\ pc = "listing" /\ next > NDocs
        BY <1>0, <1>1 DEF CloseManifest, outside, Progress
  <2>2. \A d \in Docs : d < next BY <1>0, <2>1, CorpusAssumption DEF Docs, TypeOK
  <2> QED BY <1>0, <2>1, <2>2 DEF Progress
<1>2. ASSUME finished, list' = list
      PROVE  /\ \A d \in Docs : manifest'[d] # None
             /\ ~garbled'
             /\ \A d \in Docs : HasHash(manifest'[d]) =>
                  disk[d] = manifest'[d].sha \/ d \in touched
      BY <1>0, <1>2 DEF list, NoSilentGap, FinishedVerifies, Reported
<1>3. CASE UNCHANGED <<list, disk, history>>
      BY <1>2, <1>3 DEF history
<1>4. ASSUME NEW d \in Docs, Edit(d)
      PROVE  finished /\ list' = list /\ touched' = touched \cup {d}
             /\ \A e \in Docs \ {d} : disk'[e] = disk[e]
      BY <1>0, <1>4 DEF Edit, TypeOK
<1>5. CASE \E d \in Docs : Edit(d)
      BY <1>2, <1>4, <1>5
<1>6. CASE StartFetch BY <1>6 DEF StartFetch
<1>7. CASE OpenManifest \/ Flush \/ Die
  <2>1. finished' = finished /\ pc # "idle"
        BY <1>7 DEF OpenManifest, Flush, Die, history
  <2> QED BY <1>0, <2>1 DEF Progress
<1>8. CASE \E d \in Docs : \/ ReadCached(d) \/ Request(d) \/ Fail(d) \/ OpenDownload(d) \/ Fill(d)
                           \/ Inspect(d) \/ DateCached(d) \/ DateDownload(d)
  <2>1. finished' = finished /\ pc # "idle"
        BY <1>8
        DEF ReadCached, Request, Fail, OpenDownload, Fill, Inspect, DateCached, DateDownload, AtHand,
            history
  <2> QED BY <1>0, <2>1 DEF Progress
<1>9. CASE StartIngest \/ Convert \/ EndIngest \/ NextDay
      BY <1>3, <1>9 DEF StartIngest, Convert, EndIngest, NextDay, outside
<1>10. CASE \E d \in Docs : BuildConverter(d) \/ SkipConversion(d)
       BY <1>3, <1>10 DEF BuildConverter, SkipConversion, outside
<1>11. CASE UNCHANGED vars BY <1>3, <1>11 DEF vars, outside
<1> QED BY <1>1, <1>5, <1>6, <1>7, <1>8, <1>9, <1>10, <1>11, CorpusAssumption
        DEF Next, Fetch, Ingest

(***************************************************************************)
(* The theorems.                                                           *)
(***************************************************************************)

\* A clone satisfies the invariant.
LEMMA InitInv == Init => IInv
<1> SUFFICES ASSUME Init PROVE IInv
    OBVIOUS
<1>1. TypeOK BY InitType
<1>2. PICK blob \in [Docs -> Contents] :
        \E text \in [Docs -> BOOLEAN \cup {None}] :
          /\ \A d \in Docs : text[d] \in Inspections(blob[d])
          /\ manifest = [d \in Docs |-> Row(blob[d], 0, text[d], blob[d])]
      BY DEF Init
<1>3. PICK text \in [Docs -> BOOLEAN \cup {None}] :
        /\ \A d \in Docs : text[d] \in Inspections(blob[d])
        /\ manifest = [d \in Docs |-> Row(blob[d], 0, text[d], blob[d])]
      BY <1>2
<1>4. 0 \in Days BY CorpusAssumption DEF Days
<1>5. \A d \in Docs : /\ manifest[d].retrieved = 0
                      /\ manifest[d].text \in Inspections(manifest[d].seen)
      BY <1>3, <1>4, RowsOfFiles DEF Blobs
<1>6. Dates
  <2>1. /\ day = 0 /\ \A d \in Docs : mtime[d] = 0 /\ collected[d] = 0
        /\ entries = NoRows /\ previous = NoRows
        BY DEF Init
  <2> QED BY <1>5, <2>1, NoRowsSayNothing DEF Dates, InTime
<1>7. Descriptions
  <2>1. entries = NoRows /\ conversion = None /\ pc = "idle" BY DEF Init
  <2> QED BY <1>5, <2>1, NoRowsSayNothing DEF Descriptions, Describes
<1>8. Progress /\ NoSilentGap /\ FinishedVerifies
      BY DEF Init, Progress, NoSilentGap, FinishedVerifies
<1> QED BY <1>1, <1>6, <1>7, <1>8 DEF IInv

\* The invariant holds throughout.
THEOREM Invariance == Spec => []IInv
<1>1. IInv /\ [Next]_vars => IInv'
      BY TypeStep, DatesStep, DescriptionsStep, ProgressStep, FinishedStep DEF IInv
<1> QED BY InitInv, <1>1, PTL DEF Spec

\* The variables keep their types: a row with a hash is dated, whichever of its
\* sources the date came from.
THEOREM TypeCorrect == Spec => []TypeOK
<1>1. IInv => TypeOK BY DEF IInv
<1> QED BY <1>1, Invariance, PTL

\* No document is left out of the manifest of a fetch that ran to its end, for
\* any number of documents.
THEOREM NothingIsOmitted == Spec => []NoSilentGap
<1>1. IInv => NoSilentGap BY DEF IInv
<1> QED BY <1>1, Invariance, PTL

\* That manifest is of the files on disk.
THEOREM TheManifestIsOfTheFiles == Spec => []FinishedVerifies
<1>1. IInv => FinishedVerifies BY DEF IInv
<1> QED BY <1>1, Invariance, PTL

\* No row is dated later than the day its document came in, though rows are
\* lost with half-written manifests and dates then guessed from the files'.
THEOREM NoRowIsDatedLater == Spec => []DatedNoLater
<1>1. IInv => DatedNoLater BY DEF IInv, Dates, InTime, DatedNoLater
<1> QED BY <1>1, Invariance, PTL

\* A scan is converted without OCR only if it is not the file that was inspected
\* for its row: what a row says of the pages was found in them.
THEOREM ScansAreRead == Spec => []OcrIsSkippedOnlyByDrift
<1>1. \A c \in Contents \ TextLayer : TRUE \notin Inspections(c)
      BY CorpusAssumption DEF Inspections
<1>2. IInv => OcrIsSkippedOnlyByDrift
      BY <1>1 DEF IInv, Descriptions, OcrIsSkippedOnlyByDrift
<1> QED BY <1>2, Invariance, PTL
=============================================================================
