---------------------------- MODULE IngestProofs ----------------------------
(***************************************************************************)
(* Proofs about Ingest for every set of runs, documents, versions and      *)
(* processes, whatever the splitter makes of a version.                    *)
(***************************************************************************)
EXTENDS Ingest, TLAPS

Rows == Table!RowSets

(***************************************************************************)
(* The rows of a document.                                                 *)
(***************************************************************************)

\* What the splitter makes of a version, and what is left after a delete, are
\* rows of the table, and so is either one written over other rows.
LEMMA RowTypes ==
  /\ Table!Empty \in Rows
  /\ \A v \in Versions : Table!ChunkSet(v) \in Rows
  /\ \A v \in Versions, rows \in Rows : Overlay(rows, v) \in Rows
BY IngestAssumption
DEF Rows, Table!RowSets, Table!Empty, Table!ChunkSet, Overlay, Table!Ordinals,
    Table!TableConstants

\* Written over no rows, the chunks of a version are all there is.
LEMMA OverlayOnEmpty ==
  ASSUME NEW v \in Versions
  PROVE  Overlay(Table!Empty, v) = Table!ChunkSet(v)
BY DEF Overlay, Table!Empty, Table!ChunkSet

\* A version without chunks leaves no rows.
LEMMA NoChunks ==
  ASSUME NEW v \in Versions, Count[v] = 0
  PROVE  Table!ChunkSet(v) = Table!Empty
BY IngestAssumption DEF Table!Empty, Table!ChunkSet, Table!Ordinals, Table!TableConstants

\* The initial states satisfy the invariant.
LEMMA InitInv == Init => IInv
BY RowTypes, IngestAssumption
DEF Init, IInv, TypeOK, Registers, Alone, DroppedIsEmpty, Whole, NeverMixed, Table!NeverMixed,
    MisfiledOnlyBySlip, BlocksAreOfTheirKey, HashIsCurrent, Current, WrittenIsCurrent, Active,
    Entries, Places, Rows, Table!TableConstants

\* StartRun preserves the invariant.
LEMMA StartRunInv ==
  ASSUME IInv, NEW i \in Ingesters, NEW r \in Runs, NEW wanted \in Wanted, NEW fresh \in BOOLEAN,
         StartRun(i, r, wanted, fresh)
  PROVE  IInv'
<1> USE IngestAssumption DEF IInv, TypeOK, StartRun, store, files, Goto, Exit, NextDocument, Active,
        Table!TableConstants
<1>1. TypeOK' BY RowTypes DEF Registers, Places, Entries, Wanted, IsNext, Rows
<1>2. Registers' BY DEF Registers, IsNext, Wanted
<1>3. Alone' BY DEF Alone, Registers
<1>4. DroppedIsEmpty' BY DEF DroppedIsEmpty, Registers, Alone
<1>5. Whole' BY OverlayOnEmpty DEF Whole, NeverMixed, Table!NeverMixed, DroppedIsEmpty, Registers
<1>6. MisfiledOnlyBySlip' BY DEF MisfiledOnlyBySlip
<1>7. BlocksAreOfTheirKey' BY DEF BlocksAreOfTheirKey, Registers
<1>8. HashIsCurrent' BY DEF HashIsCurrent, Registers
<1>9. Current' BY DEF Current, WrittenIsCurrent, Registers, IsNext
<1> QED BY <1>1, <1>2, <1>3, <1>4, <1>5, <1>6, <1>7, <1>8, <1>9

\* StartOffline preserves the invariant.
LEMMA StartOfflineInv ==
  ASSUME IInv, NEW i \in Ingesters, NEW d \in Docs, NEW fresh \in BOOLEAN, StartOffline(i, d, fresh)
  PROVE  IInv'
<1> USE IngestAssumption DEF IInv, TypeOK, StartOffline, store, files, Goto, Exit, NextDocument, Active,
        Table!TableConstants
<1>1. TypeOK' BY RowTypes DEF Registers, Places, Entries, Wanted, IsNext, Rows
<1>2. Registers' BY DEF Registers, IsNext, Wanted
<1>3. Alone' BY DEF Alone, Registers
<1>4. DroppedIsEmpty' BY DEF DroppedIsEmpty, Registers, Alone
<1>5. Whole' BY OverlayOnEmpty DEF Whole, NeverMixed, Table!NeverMixed, DroppedIsEmpty, Registers
<1>6. MisfiledOnlyBySlip' BY DEF MisfiledOnlyBySlip
<1>7. BlocksAreOfTheirKey' BY DEF BlocksAreOfTheirKey, Registers
<1>8. HashIsCurrent' BY DEF HashIsCurrent, Registers
<1>9. Current' BY DEF Current, WrittenIsCurrent, Registers, IsNext
<1> QED BY <1>1, <1>2, <1>3, <1>4, <1>5, <1>6, <1>7, <1>8, <1>9

\* SkipMissing preserves the invariant.
LEMMA SkipMissingInv ==
  ASSUME IInv, NEW i \in Ingesters, NEW d \in Docs, SkipMissing(i, d)
  PROVE  IInv'
<1> USE IngestAssumption DEF IInv, TypeOK, SkipMissing, store, files, Goto, Exit, NextDocument, Active,
        Table!TableConstants
<1>1. TypeOK' BY RowTypes DEF Registers, Places, Entries, Wanted, IsNext, Rows
<1>2. Registers' BY DEF Registers, IsNext, Wanted
<1>3. Alone' BY DEF Alone, Registers
<1>4. DroppedIsEmpty' BY DEF DroppedIsEmpty, Registers, Alone
<1>5. Whole' BY OverlayOnEmpty DEF Whole, NeverMixed, Table!NeverMixed, DroppedIsEmpty, Registers
<1>6. MisfiledOnlyBySlip' BY DEF MisfiledOnlyBySlip
<1>7. BlocksAreOfTheirKey' BY DEF BlocksAreOfTheirKey, Registers
<1>8. HashIsCurrent' BY DEF HashIsCurrent, Registers
<1>9. Current' BY DEF Current, WrittenIsCurrent, Registers, IsNext
<1> QED BY <1>1, <1>2, <1>3, <1>4, <1>5, <1>6, <1>7, <1>8, <1>9

\* Hash preserves the invariant.
LEMMA HashInv ==
  ASSUME IInv, NEW i \in Ingesters, NEW d \in Docs, Hash(i, d)
  PROVE  IInv'
<1> USE IngestAssumption DEF IInv, TypeOK, Hash, store, files, Goto, Exit, NextDocument, Active,
        Table!TableConstants
<1>1. TypeOK' BY RowTypes DEF Registers, Places, Entries, Wanted, IsNext, Rows
<1>2. Registers' BY DEF Registers, IsNext, Wanted
<1>3. Alone' BY DEF Alone, Registers
<1>4. DroppedIsEmpty' BY DEF DroppedIsEmpty, Registers, Alone
<1>5. Whole' BY OverlayOnEmpty DEF Whole, NeverMixed, Table!NeverMixed, DroppedIsEmpty, Registers
<1>6. MisfiledOnlyBySlip' BY DEF MisfiledOnlyBySlip
<1>7. BlocksAreOfTheirKey' BY DEF BlocksAreOfTheirKey, Registers
<1>8. HashIsCurrent' BY DEF HashIsCurrent, Registers
<1>9. Current' BY DEF Current, WrittenIsCurrent, Registers, IsNext
<1> QED BY <1>1, <1>2, <1>3, <1>4, <1>5, <1>6, <1>7, <1>8, <1>9

\* UseCached preserves the invariant.
LEMMA UseCachedInv ==
  ASSUME IInv, NEW i \in Ingesters, UseCached(i)
  PROVE  IInv'
<1> USE IngestAssumption DEF IInv, TypeOK, UseCached, store, files, Goto, Exit, NextDocument, Active,
        Table!TableConstants
<1>1. TypeOK' BY RowTypes DEF Registers, Places, Entries, Wanted, IsNext, Rows
<1>2. Registers' BY DEF Registers, IsNext, Wanted
<1>3. Alone' BY DEF Alone, Registers
<1>4. DroppedIsEmpty' BY DEF DroppedIsEmpty, Registers, Alone
<1>5. Whole' BY OverlayOnEmpty DEF Whole, NeverMixed, Table!NeverMixed, DroppedIsEmpty, Registers
<1>a. doc[i] \in Docs /\ key[i] \in Versions BY DEF Registers
<1>6. MisfiledOnlyBySlip' BY DEF MisfiledOnlyBySlip
<1>7. BlocksAreOfTheirKey'
  <2>1. blocks'[i] = key[i] \/ <<doc[i], key[i]>> \in slipped
        BY <1>a DEF MisfiledOnlyBySlip
  <2> QED BY <2>1 DEF BlocksAreOfTheirKey, Registers
<1>8. HashIsCurrent' BY DEF HashIsCurrent, Registers
<1>9. Current' BY DEF Current, WrittenIsCurrent, Registers, IsNext
<1> QED BY <1>1, <1>2, <1>3, <1>4, <1>5, <1>6, <1>7, <1>8, <1>9

\* Convert preserves the invariant.
LEMMA ConvertInv ==
  ASSUME IInv, NEW i \in Ingesters, Convert(i)
  PROVE  IInv'
<1> USE IngestAssumption DEF IInv, TypeOK, Convert, store, files, Goto, Exit, NextDocument, Active,
        Table!TableConstants
<1>a. doc[i] \in Docs /\ key[i] \in Versions BY DEF Registers
<1>b. source[doc[i]] \in Versions BY <1>a
<1>c. slipped' \subseteq Docs \X Versions
  <2>1. <<doc[i], key[i]>> \in Docs \X Versions BY <1>a
  <2>2. slipped' = slipped \/ slipped' = slipped \cup {<<doc[i], key[i]>>} OBVIOUS
  <2>3. slipped \subseteq Docs \X Versions OBVIOUS
  <2> HIDE DEF IInv, TypeOK, Convert
  <2> QED BY <2>1, <2>2, <2>3
<1>1. TypeOK' BY <1>a, <1>b, <1>c DEF Places
<1>2. Registers' BY <1>b DEF Registers
<1>3. Alone' BY DEF Alone, Registers
<1>4. DroppedIsEmpty' BY DEF DroppedIsEmpty, Registers, Alone
<1>5. Whole' BY OverlayOnEmpty DEF Whole, NeverMixed, Table!NeverMixed, DroppedIsEmpty, Registers
<1>6. MisfiledOnlyBySlip' BY DEF MisfiledOnlyBySlip
<1>7. BlocksAreOfTheirKey'
  <2>1. blocks'[i] = source[doc[i]] BY <1>a
  <2>2. source[doc[i]] = key[i] \/ <<doc[i], key[i]>> \in slipped' BY <1>a
  <2>3. source[doc[i]] = key[i] \/ doc[i] \in edited[i] BY <1>a DEF HashIsCurrent
  <2>4. slipped \subseteq slipped' BY <1>a
  <2> QED BY <2>1, <2>2, <2>3, <2>4 DEF BlocksAreOfTheirKey, Registers
<1>8. HashIsCurrent' BY DEF HashIsCurrent, Registers
<1>9. Current' BY DEF Current, WrittenIsCurrent, Registers, IsNext
<1> QED BY <1>1, <1>2, <1>3, <1>4, <1>5, <1>6, <1>7, <1>8, <1>9

\* OpenEntry preserves the invariant.
LEMMA OpenEntryInv ==
  ASSUME IInv, NEW i \in Ingesters, OpenEntry(i)
  PROVE  IInv'
<1> USE IngestAssumption DEF IInv, TypeOK, OpenEntry, store, files, Goto, Exit, NextDocument, Active,
        Table!TableConstants
<1>a. doc[i] \in Docs /\ key[i] \in Versions /\ blocks[i] \in Versions BY DEF Registers
<1>b. cache' = [cache EXCEPT ![doc[i]][key[i]] = Torn] OBVIOUS
<1>c. cache' \in [Docs -> [Versions -> Entries]]
  <2>1. Torn \in Entries BY DEF Entries
  <2>2. cache \in [Docs -> [Versions -> Entries]] OBVIOUS
  <2> HIDE DEF IInv, TypeOK, OpenEntry
  <2> QED BY <1>a, <1>b, <2>1, <2>2
<1>d. crowd' \subseteq Ingesters BY DEF Beside
<1>1. TypeOK' BY <1>c, <1>d DEF Places
<1>2. Registers' BY DEF Registers, IsNext, Wanted
<1>3. Alone' BY DEF Alone, Registers
<1>4. DroppedIsEmpty' BY DEF DroppedIsEmpty, Registers, Alone
<1>5. Whole' BY OverlayOnEmpty DEF Whole, NeverMixed, Table!NeverMixed, DroppedIsEmpty, Registers
<1>6. MisfiledOnlyBySlip'
  <2>1. \A d \in Docs, v \in Versions : cache'[d][v] \in {cache[d][v], Torn} BY <1>a, <1>b
  <2>2. slipped' = slipped OBVIOUS
  <2> QED BY <2>1, <2>2 DEF MisfiledOnlyBySlip
<1>7. BlocksAreOfTheirKey' BY DEF BlocksAreOfTheirKey, Registers
<1>8. HashIsCurrent' BY DEF HashIsCurrent, Registers
<1>9. Current' BY DEF Current, WrittenIsCurrent, Registers, IsNext
<1> QED BY <1>1, <1>2, <1>3, <1>4, <1>5, <1>6, <1>7, <1>8, <1>9

\* SaveEntry preserves the invariant.
LEMMA SaveEntryInv ==
  ASSUME IInv, NEW i \in Ingesters, SaveEntry(i)
  PROVE  IInv'
<1> USE IngestAssumption DEF IInv, TypeOK, SaveEntry, store, files, Goto, Exit, NextDocument, Active,
        Table!TableConstants
<1>a. doc[i] \in Docs /\ key[i] \in Versions /\ blocks[i] \in Versions BY DEF Registers
<1>b. PICK entry \in {blocks[i], Torn} : cache' = [cache EXCEPT ![doc[i]][key[i]] = entry] OBVIOUS
<1>c. cache' \in [Docs -> [Versions -> Entries]]
  <2>1. entry \in Entries BY <1>a DEF Entries
  <2>2. cache \in [Docs -> [Versions -> Entries]] OBVIOUS
  <2> HIDE DEF IInv, TypeOK, SaveEntry
  <2> QED BY <1>a, <1>b, <2>1, <2>2
<1>1. TypeOK' BY <1>c DEF Places
<1>2. Registers' BY DEF Registers, IsNext, Wanted
<1>3. Alone' BY DEF Alone, Registers
<1>4. DroppedIsEmpty' BY DEF DroppedIsEmpty, Registers, Alone
<1>5. Whole' BY OverlayOnEmpty DEF Whole, NeverMixed, Table!NeverMixed, DroppedIsEmpty, Registers
<1>6. MisfiledOnlyBySlip'
  <2>1. blocks[i] = key[i] \/ <<doc[i], key[i]>> \in slipped BY DEF BlocksAreOfTheirKey
  <2> QED BY <1>a, <1>b, <2>1 DEF MisfiledOnlyBySlip
<1>7. BlocksAreOfTheirKey' BY DEF BlocksAreOfTheirKey, Registers
<1>8. HashIsCurrent' BY DEF HashIsCurrent, Registers
<1>9. Current' BY DEF Current, WrittenIsCurrent, Registers, IsNext
<1> QED BY <1>1, <1>2, <1>3, <1>4, <1>5, <1>6, <1>7, <1>8, <1>9

\* Replace preserves the invariant.
LEMMA ReplaceInv ==
  ASSUME IInv, NEW i \in Ingesters, Replace(i)
  PROVE  IInv'
<1> USE IngestAssumption DEF IInv, TypeOK, Replace, store, files, Goto, Exit, NextDocument, Active,
        Table!TableConstants
<1>a. run[i] \in Runs /\ doc[i] \in Docs /\ blocks[i] \in Versions BY DEF Registers
<1>b. chunks' \in [Runs -> [Docs -> Rows]] BY <1>a, RowTypes DEF Rows
<1>c. stored' \subseteq Runs \X Docs
  <2>1. stored' = stored \/ stored' = stored \ {<<run[i], doc[i]>>} OBVIOUS
  <2>2. stored \subseteq Runs \X Docs OBVIOUS
  <2>3. \A x : stored \ {x} \subseteq stored OBVIOUS
  <2> HIDE DEF IInv, TypeOK, Replace
  <2> QED BY <2>1, <2>2, <2>3
<1>1. TypeOK'
  <2>1. CASE Count[blocks[i]] = 0 /\ NextDocument(i) BY <1>a, <1>b, <1>c, <2>1 DEF Places, Rows
  <2>2. CASE Goto(i, "dropped") /\ UNCHANGED <<todo, doc, key, blocks, done, stored>>
        BY <1>a, <1>b, <1>c, <2>2 DEF Places, Rows
  <2> QED BY <2>1, <2>2
<1>2. Registers' BY DEF Registers, IsNext, Wanted
<1>3. Alone' BY DEF Alone, Registers
<1>4. DroppedIsEmpty' BY DEF DroppedIsEmpty, Registers, Alone
<1>5. Whole' BY OverlayOnEmpty DEF Whole, NeverMixed, Table!NeverMixed, DroppedIsEmpty, Registers
<1>6. MisfiledOnlyBySlip' BY DEF MisfiledOnlyBySlip
<1>7. BlocksAreOfTheirKey' BY DEF BlocksAreOfTheirKey, Registers
<1>8. HashIsCurrent' BY DEF HashIsCurrent, Registers
<1>9. Current'
  <2> SUFFICES ASSUME Exclusive, NEW j \in Ingesters, Active(j)', NEW e \in done'[j] \ edited'[j],
                      (<<e, source[e]>> \in slipped => refresh[j])
               PROVE  chunks'[run'[j]][e] = Table!ChunkSet(source'[e])
      BY DEF Current, WrittenIsCurrent
  <2>1. Active(j) /\ run[j] \in Runs /\ e \in Docs /\ run'[j] = run[j]
    <3>1. run'[j] = run[j] OBVIOUS
    <3>2. Active(j) BY <1>a
    <3>3. run[j] \in Runs BY <3>2 DEF Registers
    <3>4. done'[j] \subseteq Docs BY <1>1
    <3> QED BY <3>1, <3>2, <3>3, <3>4
  <2>2. CASE e \in done[j]
    <3>1. <<run[j], e>> # <<run[i], doc[i]>>  BY <2>1, <2>2, <1>a DEF Alone, Registers
    <3>2. chunks'[run[j]][e] = chunks[run[j]][e]  BY <3>1, <2>1, <1>a
    <3> QED BY <3>2, <2>1, <2>2 DEF Current, WrittenIsCurrent
  <2>3. CASE e \notin done[j]
    <3>1. j = i /\ e = doc[i] /\ Count[blocks[i]] = 0 BY <2>3
    <3>4. source[e] = key[i] /\ e \notin edited[i] BY <3>1 DEF HashIsCurrent
    <3>2. source[e] = blocks[i] BY <3>1, <3>4 DEF BlocksAreOfTheirKey
    <3>3. chunks'[run[j]][e] = Table!Empty BY <3>1, <1>a, <2>1
    <3> QED BY <3>1, <3>2, <3>3, <2>1, <1>a, NoChunks
  <2> QED BY <2>2, <2>3
<1> QED BY <1>1, <1>2, <1>3, <1>4, <1>5, <1>6, <1>7, <1>8, <1>9

\* Write preserves the invariant.
LEMMA WriteInv ==
  ASSUME IInv, NEW i \in Ingesters, Write(i)
  PROVE  IInv'
<1> USE IngestAssumption DEF IInv, TypeOK, Write, store, files, Goto, Exit, NextDocument, Active,
        Table!TableConstants
<1>a. run[i] \in Runs /\ doc[i] \in Docs /\ blocks[i] \in Versions BY DEF Registers
<1>b. chunks' \in [Runs -> [Docs -> Rows]]
  <2>1. chunks[run[i]][doc[i]] \in Rows
    <3>1. chunks \in [Runs -> [Docs -> Rows]] BY DEF Rows
    <3> HIDE DEF IInv, TypeOK, Write, NextDocument, Table!TableConstants, IngestAssumption
    <3> QED BY <1>a, <3>1
  <2>2. Overlay(chunks[run[i]][doc[i]], blocks[i]) \in Rows BY <1>a, <2>1, RowTypes
  <2> QED BY <1>a, <2>2 DEF Rows
<1>c. stored' \subseteq Runs \X Docs
  <2>1. <<run[i], doc[i]>> \in Runs \X Docs BY <1>a
  <2>2. stored' = stored \cup {<<run[i], doc[i]>>} OBVIOUS
  <2>3. stored \subseteq Runs \X Docs OBVIOUS
  <2> HIDE DEF IInv, TypeOK, Write
  <2> QED BY <2>1, <2>2, <2>3
<1>1. TypeOK' BY <1>a, <1>b, <1>c DEF Places, Rows
<1>2. Registers' BY DEF Registers, IsNext, Wanted
<1>3. Alone' BY DEF Alone, Registers
<1>4. DroppedIsEmpty' BY DEF DroppedIsEmpty, Registers, Alone
<1>5. Whole' BY OverlayOnEmpty DEF Whole, NeverMixed, Table!NeverMixed, DroppedIsEmpty, Registers
<1>6. MisfiledOnlyBySlip' BY DEF MisfiledOnlyBySlip
<1>7. BlocksAreOfTheirKey' BY DEF BlocksAreOfTheirKey, Registers
<1>8. HashIsCurrent' BY DEF HashIsCurrent, Registers
<1>9. Current'
  <2> SUFFICES ASSUME Exclusive, NEW j \in Ingesters, Active(j)', NEW e \in done'[j] \ edited'[j],
                      (<<e, source[e]>> \in slipped => refresh[j])
               PROVE  chunks'[run'[j]][e] = Table!ChunkSet(source'[e])
      BY DEF Current, WrittenIsCurrent
  <2>1. Active(j) /\ run[j] \in Runs /\ e \in Docs /\ run'[j] = run[j] BY DEF Registers
  <2>2. CASE e \in done[j]
    <3>1. <<run[j], e>> # <<run[i], doc[i]>>  BY <2>1, <2>2, <1>a DEF Alone, Registers
    <3>2. chunks'[run[j]][e] = chunks[run[j]][e]  BY <3>1, <2>1, <1>a
    <3> QED BY <3>2, <2>1, <2>2 DEF Current, WrittenIsCurrent
  <2>3. CASE e \notin done[j]
    <3>1. j = i /\ e = doc[i] BY <2>3
    <3>5. source[e] = key[i] /\ e \notin edited[i] BY <3>1 DEF HashIsCurrent
    <3>2. source[e] = blocks[i] BY <3>1, <3>5 DEF BlocksAreOfTheirKey
    <3>3. chunks'[run[j]][e] = Overlay(chunks[run[i]][doc[i]], blocks[i]) BY <3>1, <1>a, <2>1
    <3>4. chunks[run[i]][doc[i]] = Table!Empty BY DEF DroppedIsEmpty
    <3> QED BY <3>1, <3>2, <3>3, <3>4, <2>1, <1>a, OverlayOnEmpty
  <2> QED BY <2>2, <2>3
<1> QED BY <1>1, <1>2, <1>3, <1>4, <1>5, <1>6, <1>7, <1>8, <1>9

\* EndOffline preserves the invariant.
LEMMA EndOfflineInv ==
  ASSUME IInv, NEW i \in Ingesters, EndOffline(i)
  PROVE  IInv'
<1> USE IngestAssumption DEF IInv, TypeOK, EndOffline, store, files, Goto, Exit, NextDocument, Active,
        Table!TableConstants
<1>1. TypeOK' BY RowTypes DEF Registers, Places, Entries, Wanted, IsNext, Rows
<1>2. Registers' BY DEF Registers, IsNext, Wanted
<1>3. Alone' BY DEF Alone, Registers
<1>4. DroppedIsEmpty' BY DEF DroppedIsEmpty, Registers, Alone
<1>5. Whole' BY OverlayOnEmpty DEF Whole, NeverMixed, Table!NeverMixed, DroppedIsEmpty, Registers
<1>6. MisfiledOnlyBySlip' BY DEF MisfiledOnlyBySlip
<1>7. BlocksAreOfTheirKey' BY DEF BlocksAreOfTheirKey, Registers
<1>8. HashIsCurrent' BY DEF HashIsCurrent, Registers
<1>9. Current' BY DEF Current, WrittenIsCurrent, Registers, IsNext
<1> QED BY <1>1, <1>2, <1>3, <1>4, <1>5, <1>6, <1>7, <1>8, <1>9

\* Finish preserves the invariant.
LEMMA FinishInv ==
  ASSUME IInv, NEW i \in Ingesters, Finish(i)
  PROVE  IInv'
<1> USE IngestAssumption DEF IInv, TypeOK, Finish, store, files, Goto, Exit, NextDocument, Active,
        Table!TableConstants
<1>1. TypeOK' BY RowTypes DEF Registers, Places, Entries, Wanted, IsNext, Rows
<1>2. Registers' BY DEF Registers, IsNext, Wanted
<1>3. Alone' BY DEF Alone, Registers
<1>4. DroppedIsEmpty' BY DEF DroppedIsEmpty, Registers, Alone
<1>5. Whole' BY OverlayOnEmpty DEF Whole, NeverMixed, Table!NeverMixed, DroppedIsEmpty, Registers
<1>6. MisfiledOnlyBySlip' BY DEF MisfiledOnlyBySlip
<1>7. BlocksAreOfTheirKey' BY DEF BlocksAreOfTheirKey, Registers
<1>8. HashIsCurrent' BY DEF HashIsCurrent, Registers
<1>9. Current' BY DEF Current, WrittenIsCurrent, Registers, IsNext
<1> QED BY <1>1, <1>2, <1>3, <1>4, <1>5, <1>6, <1>7, <1>8, <1>9

\* Die preserves the invariant.
LEMMA DieInv ==
  ASSUME IInv, NEW i \in Ingesters, Die(i)
  PROVE  IInv'
<1> USE IngestAssumption DEF IInv, TypeOK, Die, store, files, Goto, Exit, NextDocument, Active,
        Table!TableConstants
<1>1. TypeOK' BY DEF Places
<1>2. Registers' BY DEF Registers, IsNext, Wanted
<1>3. Alone' BY DEF Alone, Registers
<1>4. DroppedIsEmpty' BY DEF DroppedIsEmpty, Registers, Alone
<1>5. Whole' BY OverlayOnEmpty DEF Whole, NeverMixed, Table!NeverMixed, DroppedIsEmpty, Registers
<1>6. MisfiledOnlyBySlip' BY DEF MisfiledOnlyBySlip
<1>7. BlocksAreOfTheirKey' BY DEF BlocksAreOfTheirKey, Registers
<1>8. HashIsCurrent' BY DEF HashIsCurrent, Registers
<1>9. Current' BY DEF Current, WrittenIsCurrent, Registers, IsNext
<1> QED BY <1>1, <1>2, <1>3, <1>4, <1>5, <1>6, <1>7, <1>8, <1>9

\* Edit preserves the invariant.
LEMMA EditInv ==
  ASSUME IInv, NEW d \in Docs, Edit(d)
  PROVE  IInv'
<1> USE IngestAssumption DEF IInv, TypeOK, Edit, store, files, local, Goto, Exit, NextDocument, Active,
        Table!TableConstants
<1>1. TypeOK' BY DEF local
<1>2. Registers' BY DEF Registers, IsNext, Wanted
<1>3. Alone' BY DEF Alone, Registers
<1>4. DroppedIsEmpty' BY DEF DroppedIsEmpty, Registers, Alone
<1>5. Whole' BY OverlayOnEmpty DEF Whole, NeverMixed, Table!NeverMixed, DroppedIsEmpty, Registers
<1>6. MisfiledOnlyBySlip' BY DEF MisfiledOnlyBySlip
<1>7. BlocksAreOfTheirKey' BY DEF BlocksAreOfTheirKey, Registers
<1>8. HashIsCurrent' BY DEF HashIsCurrent, Registers
<1>9. Current' BY DEF Current, WrittenIsCurrent, Registers, IsNext
<1> QED BY <1>1, <1>2, <1>3, <1>4, <1>5, <1>6, <1>7, <1>8, <1>9
\* Every step preserves the invariant.
LEMMA NextInv == IInv /\ [Next]_vars => IInv'
<1> SUFFICES ASSUME IInv, [Next]_vars PROVE IInv'
    OBVIOUS
<1>1. CASE UNCHANGED vars
  <2> USE <1>1 DEF IInv, vars, store, files, local
  <2>1. TypeOK' BY DEF TypeOK
  <2>2. Registers' /\ Alone' BY DEF Registers, Alone, Active
  <2>3. DroppedIsEmpty' BY DEF DroppedIsEmpty
  <2>4. Whole' BY DEF Whole, NeverMixed, Table!NeverMixed
  <2>5. MisfiledOnlyBySlip' /\ BlocksAreOfTheirKey' BY DEF MisfiledOnlyBySlip, BlocksAreOfTheirKey
  <2>6. HashIsCurrent' BY DEF HashIsCurrent
  <2>7. Current' BY DEF Current, WrittenIsCurrent, Active
  <2> QED BY <2>1, <2>2, <2>3, <2>4, <2>5, <2>6, <2>7
<1>2. CASE \E d \in Docs : Edit(d)
      BY <1>2, EditInv
<1>3. ASSUME NEW i \in Ingesters, Step(i)
      PROVE  IInv'
  <2>1. CASE \E r \in Runs, wanted \in Wanted, fresh \in BOOLEAN : StartRun(i, r, wanted, fresh)
        BY <2>1, StartRunInv
  <2>2. CASE \E d \in Docs : SkipMissing(i, d) \/ Hash(i, d)
        BY <2>2, SkipMissingInv, HashInv
  <2>3. CASE UseCached(i) \/ Convert(i) \/ OpenEntry(i) \/ SaveEntry(i)
        BY <2>3, UseCachedInv, ConvertInv, OpenEntryInv, SaveEntryInv
  <2>4. CASE Replace(i) \/ Write(i) \/ EndOffline(i) \/ Finish(i) \/ Die(i)
        BY <2>4, ReplaceInv, WriteInv, EndOfflineInv, FinishInv, DieInv
  <2>5. CASE \E d \in Docs, fresh \in BOOLEAN : StartOffline(i, d, fresh)
        BY <2>5, StartOfflineInv
  <2> QED BY <1>3, <2>1, <2>2, <2>3, <2>4, <2>5 DEF Step
<1> QED BY <1>1, <1>2, <1>3 DEF Next

(***************************************************************************)
(* What every reachable state satisfies.                                   *)
(***************************************************************************)

\* The invariant holds in every behaviour of the ingest processes.
THEOREM Invariance == Spec => []IInv
<1>1. Init => IInv BY InitInv
<1>2. IInv /\ [Next]_vars => IInv' BY NextInv
<1> QED BY <1>1, <1>2, PTL DEF Spec

\* The tables, the files and the processes keep their types.
THEOREM TypeCorrect == Spec => []TypeOK
<1>1. IInv => TypeOK BY DEF IInv
<1> QED BY <1>1, Invariance, PTL

\* Where no two ingests of one run overlap, no document's rows in any run mix
\* two of its versions (store.py:120), whatever is killed and whenever.
THEOREM RowsNeverMix == ASSUME Exclusive PROVE Spec => []NeverMixed
<1>1. IInv => NeverMixed BY DEF IInv, Whole
<1> QED BY <1>1, Invariance, PTL

\* A cache entry is of the bytes its digest names (converters.py:19), unless the
\* file changed under a process between its digest and its conversion: whatever
\* else is edited, killed or run at once, with or without --refresh.
THEOREM OnlySlipsMisfile == Spec => []MisfiledOnlyBySlip
<1>1. IInv => MisfiledOnlyBySlip BY DEF IInv
<1> QED BY <1>1, Invariance, PTL

\* Where no two ingests of one run overlap, its finished documents are stored
\* whole and current, but for those that a misfiled entry deceived.
THEOREM FinishedIsCurrent == ASSUME Exclusive PROVE Spec => []WrittenIsCurrent
<1>1. IInv => WrittenIsCurrent BY DEF IInv, Current
<1> QED BY <1>1, Invariance, PTL

(***************************************************************************)
(* Ingestion implements the table of chunks.                               *)
(***************************************************************************)

\* Every step, of any process, drops a document's rows, fills an empty place
\* with one version, or leaves the table alone.
LEMMA StepsOfTheTable ==
  ASSUME Exclusive, IInv, [Next]_vars
  PROVE  [Table!Next]_chunks
<1>1. CASE UNCHANGED chunks
      BY <1>1
<1>2. ASSUME NEW i \in Ingesters, Replace(i)
      PROVE  Table!Next
  <2>1. run[i] \in Runs /\ doc[i] \in Docs
        BY <1>2 DEF IInv, TypeOK, Registers, Replace
  <2>2. Table!Drop(run[i], doc[i])
        BY <1>2 DEF Replace, Table!Drop, Table!Set
  <2> QED BY <2>1, <2>2 DEF Table!Next
<1>3. ASSUME NEW i \in Ingesters, Write(i)
      PROVE  Table!Next
  <2>1. run[i] \in Runs /\ doc[i] \in Docs /\ blocks[i] \in Versions
        BY <1>3 DEF IInv, TypeOK, Registers, Write
  <2>2. chunks[run[i]][doc[i]] = Table!Empty
        BY <1>3 DEF IInv, DroppedIsEmpty, Write
  <2>3. Overlay(chunks[run[i]][doc[i]], blocks[i]) = Table!ChunkSet(blocks[i])
        BY <2>1, <2>2, OverlayOnEmpty
  <2>4. chunks' = [chunks EXCEPT ![run[i]][doc[i]] = Overlay(chunks[run[i]][doc[i]], blocks[i])]
        BY <1>3 DEF Write
  <2>5. Table!Fill(run[i], doc[i], blocks[i])
        BY <2>2, <2>3, <2>4 DEF Table!Fill, Table!Set
  <2> QED BY <2>1, <2>5 DEF Table!Next
<1>4. ASSUME NEW i \in Ingesters, Step(i), ~Replace(i), ~Write(i)
      PROVE  UNCHANGED chunks
      BY <1>4 DEF Step, StartRun, StartOffline, SkipMissing, Hash, UseCached, Convert, OpenEntry, SaveEntry,
             EndOffline, Finish, Die, store
<1>5. (\E d \in Docs : Edit(d)) \/ UNCHANGED vars => UNCHANGED chunks
      BY DEF Edit, vars, store
<1> QED BY <1>1, <1>2, <1>3, <1>4, <1>5 DEF Next

\* Where no two ingests of one run overlap, ingestion is a ChunkTable.
THEOREM Refinement == ASSUME Exclusive PROVE Spec => ImplementsChunkTable
<1>1. Init => Table!Init BY DEF Init, Table!Init
<1>2. IInv /\ [Next]_vars => [Table!Next]_chunks BY StepsOfTheTable
<1> QED BY <1>1, <1>2, Invariance, PTL DEF Spec, ImplementsChunkTable, Table!Spec
=============================================================================
