---------------------------- MODULE LabelsProofs ----------------------------
(***************************************************************************)
(* Proofs about Labels, for any questions, drafts, floors and samples.     *)
(***************************************************************************)
EXTENDS Labels, TLAPS

\* A set of questions in whole is one that may be read in part.
LEMMA WholeSets ==
  ASSUME NEW set \in [Ids -> Drafts]
  PROVE  set \in Sets /\ Lines(set) = Ids
BY LabelsAssumption DEF Sets, Lines

\* A file without lines has none.
LEMMA NoLinesAreLines == NoLines \in Sets /\ Lines(NoLines) = {}
BY DEF NoLines, Sets, Lines

\* What is sampled of a file is in it.
LEMMA SampledLines ==
  ASSUME NEW set \in Sets, CanSample(set)
  PROVE  Sampled(set) \subseteq Lines(set)
<1> DEFINE s == <<Unanswerable(set), Answerable(set)>>
<1>1. s \in Strata BY DEF CanSample
<1>2. Chosen[s] \subseteq s[1] \cup s[2] BY <1>1, LabelsAssumption
<1>3. s[1] \subseteq Lines(set) /\ s[2] \subseteq Lines(set) BY DEF Unanswerable, Answerable
<1> QED BY <1>2, <1>3 DEF Sampled

\* A clone satisfies the invariant.
LEMMA InitInv == Init => IInv
<1> SUFFICES ASSUME Init PROVE IInv
    OBVIOUS
<1>1. tables \in Sets /\ Lines(tables) = Ids BY WholeSets DEF Init
<1>2. TypeOK
  <2>1. file \in Sets /\ half \in BOOLEAN /\ hash \in Sets BY <1>1 DEF Init
  <2>2. built \in Sets /\ loaded \in Sets BY NoLinesAreLines DEF Init
  <2>3. rows \in [Ids -> {"yes", "no", None}] BY DEF Init, NoLines
  <2>4. attempt \in 1..MaxAttempts BY LabelsAssumption DEF Init
  <2>5. tables \in [Ids -> Drafts] /\ pc = "idle" /\ todo = {} BY DEF Init
  <2> QED BY <2>1, <2>2, <2>3, <2>4, <2>5 DEF TypeOK
<1>3. HashIsChecked BY <1>1 DEF Init, HashIsChecked, Checked
<1>4. SampleIsAnnotated BY DEF Init, SampleIsAnnotated
<1> QED BY <1>2, <1>3, <1>4 DEF IInv

(***************************************************************************)
(* The steps of the build, of the annotator and of everybody else.         *)
(***************************************************************************)

\* The build writes what it has checked.
LEMMA BuildStep ==
  ASSUME IInv,
         Build \/ FlushLines \/ CloseQuestions \/ OpenHash \/ CloseHash \/ DieBuilding
  PROVE  IInv'
<1>0. TypeOK /\ HashIsChecked /\ SampleIsAnnotated BY DEF IInv
<1>1. /\ UNCHANGED <<tables, rows, annotator>>
      /\ file' \in Sets /\ half' \in BOOLEAN
      /\ hash' \in Sets \cup {Empty, Missing} /\ built' \in Sets
      /\ pc' \in {"idle", "dump", "questions written", "hash"}
      /\ HashIsChecked'
  <2>1. CASE Build
    <3>1. tables \in Sets /\ Lines(tables) = Ids BY <1>0, WholeSets DEF TypeOK
    <3>2. Checked(built)' BY <2>1, <3>1 DEF Build, Checked, CoveredBy, Lines
    <3>3. HashIsChecked' BY <1>0, <2>1, <3>2 DEF Build, HashIsChecked, Checked, CoveredBy, Lines
    <3> QED BY <1>0, <2>1, <3>1, <3>3, NoLinesAreLines DEF Build, TypeOK
  <2>2. CASE FlushLines
    <3>1. file' \in Sets BY <1>0, <2>2 DEF FlushLines, TypeOK, Sets
    <3>2. HashIsChecked'
          BY <1>0, <2>2 DEF FlushLines, builder, HashIsChecked, Checked, CoveredBy, Lines
    <3> QED BY <1>0, <2>2, <3>1, <3>2 DEF FlushLines, builder, TypeOK
  <2>3. CASE CloseQuestions
    <3>1. HashIsChecked'
          BY <1>0, <2>3 DEF CloseQuestions, HashIsChecked, Checked, CoveredBy, Lines
    <3> QED BY <1>0, <2>3, <3>1 DEF CloseQuestions, TypeOK
  <2>4. CASE OpenHash
    <3>1. hash' \notin Sets BY <2>4, LabelsAssumption DEF OpenHash
    <3>2. built' = built /\ pc # "idle" BY <2>4 DEF OpenHash
    <3>3. HashIsChecked'
          BY <1>0, <3>1, <3>2 DEF HashIsChecked, Checked, CoveredBy, Lines, Sets
    <3> QED BY <1>0, <2>4, <3>3 DEF OpenHash, TypeOK
  <2>5. CASE CloseHash
    <3>1. HashIsChecked'
          BY <1>0, <2>5 DEF CloseHash, HashIsChecked, Checked, CoveredBy, Lines
    <3> QED BY <1>0, <2>5, <3>1, NoLinesAreLines DEF CloseHash, TypeOK
  <2>6. CASE DieBuilding
    <3>1. HashIsChecked'
          BY <1>0, <2>6 DEF DieBuilding, HashIsChecked, Checked, CoveredBy, Lines
    <3> QED BY <1>0, <2>6, <3>1, NoLinesAreLines DEF DieBuilding, TypeOK
  <2> QED BY <2>1, <2>2, <2>3, <2>4, <2>5, <2>6
<1>2. TypeOK' BY <1>0, <1>1 DEF TypeOK, annotator, Lines
<1>3. SampleIsAnnotated'
      BY <1>0, <1>1 DEF SampleIsAnnotated, annotator, Sampled, Answerable, Unanswerable, Lines
<1> QED BY <1>1, <1>2, <1>3 DEF IInv

\* The annotator passes a question only when it has annotated it.
LEMMA AnnotatorStep ==
  ASSUME IInv, StartAnnotating \/ Ask
  PROVE  IInv'
<1>0. TypeOK /\ HashIsChecked /\ SampleIsAnnotated BY DEF IInv
<1>1. UNCHANGED <<tables, file, half, hash, builder>>
      BY DEF StartAnnotating, Ask, Retry, GiveUp, Annotate
<1>2. HashIsChecked'
      BY <1>0, <1>1 DEF HashIsChecked, builder, Checked, CoveredBy, Lines
<1>3. /\ rows' \in [Ids -> {"yes", "no", None}] /\ loaded' \in Sets
      /\ todo' \subseteq Lines(loaded') /\ attempt' \in 1..MaxAttempts
      /\ SampleIsAnnotated'
  <2>1. CASE StartAnnotating
    <3>1. Sampled(file) \subseteq Lines(file)
          BY <1>0, <2>1, SampledLines DEF StartAnnotating, TypeOK
    <3>2. SampleIsAnnotated'
          BY <2>1 DEF StartAnnotating, SampleIsAnnotated, Sampled, Answerable, Unanswerable, Lines
    <3> QED BY <1>0, <2>1, <3>1, <3>2 DEF StartAnnotating, TypeOK
  <2>2. ASSUME todo # {}, NEW q \in Ids, Annotate(q)
        PROVE  /\ rows' \in [Ids -> {"yes", "no", None}] /\ loaded' \in Sets
               /\ todo' \subseteq Lines(loaded') /\ attempt' \in 1..MaxAttempts
               /\ SampleIsAnnotated'
    <3>1. Mine(loaded[q]) \in {"yes", "no"} BY DEF Mine
    <3>2. rows' \in [Ids -> {"yes", "no", None}] BY <1>0, <2>2, <3>1 DEF Annotate, TypeOK
    <3>3. \A p \in Ids : rows'[p] = IF p = q THEN Mine(loaded[q]) ELSE rows[p]
          BY <1>0, <2>2 DEF Annotate, TypeOK
    <3>4. loaded' \in Sets /\ todo' \subseteq Lines(loaded')
          BY <1>0, <2>2, NoLinesAreLines DEF Annotate, Done, TypeOK
    <3>5. ASSUME todo' # {} PROVE SampleIsAnnotated'
      <4>1. loaded' = loaded /\ todo' = todo \ {q} BY <2>2, <3>5 DEF Annotate, Done
      <4>2. Sampled(loaded)' = Sampled(loaded)
            BY <4>1 DEF Sampled, Answerable, Unanswerable, Lines
      <4>3. \A p \in Ids \ todo : p \in Sampled(loaded) => rows[p] # None
            BY <1>0, <2>2 DEF SampleIsAnnotated
      <4>4. None \notin {"yes", "no"} BY LabelsAssumption
      <4>5. \A p \in Ids \ todo' : p \in Sampled(loaded) => rows'[p] # None
            BY <3>1, <3>3, <4>1, <4>3, <4>4
      <4> QED BY <4>2, <4>5 DEF SampleIsAnnotated
    <3>6. attempt' \in 1..MaxAttempts BY <2>2, LabelsAssumption DEF Annotate
    <3> QED BY <3>2, <3>4, <3>5, <3>6 DEF SampleIsAnnotated
  <2>3. CASE Ask /\ Retry
    <3>a. UNCHANGED <<rows, loaded, todo>> BY <2>3 DEF Retry
    <3>b. Sampled(loaded)' = Sampled(loaded)
          BY <3>a DEF Sampled, Answerable, Unanswerable, Lines
    <3>1. SampleIsAnnotated' BY <1>0, <3>a, <3>b DEF SampleIsAnnotated
    <3>c. attempt \in 1..MaxAttempts /\ attempt < MaxAttempts /\ attempt' = attempt + 1
          BY <1>0, <2>3 DEF Retry, TypeOK
    <3>2. attempt' \in 1..MaxAttempts
      <4>1. MaxAttempts \in Nat BY LabelsAssumption
      <4> QED BY <3>c, <4>1
    <3> QED BY <1>0, <2>3, <3>1, <3>2 DEF Retry, TypeOK
  <2>4. CASE Ask /\ GiveUp
    <3>1. SampleIsAnnotated' BY <2>4 DEF GiveUp, SampleIsAnnotated
    <3>2. attempt' \in 1..MaxAttempts BY <2>4, LabelsAssumption DEF GiveUp
    <3> QED BY <1>0, <2>4, <3>1, <3>2, NoLinesAreLines DEF GiveUp, Done, TypeOK
  <2> QED BY <2>1, <2>2, <2>3, <2>4 DEF Ask
<1>4. TypeOK' BY <1>0, <1>1, <1>3 DEF TypeOK, builder, Lines
<1> QED BY <1>2, <1>3, <1>4 DEF IInv

\* A hash file that is gone holds no set.
LEMMA LoseHashStep ==
  ASSUME IInv, LoseHash
  PROVE  IInv'
<1>0. TypeOK /\ HashIsChecked /\ SampleIsAnnotated BY DEF IInv
<1>1. hash' = Missing /\ UNCHANGED <<tables, file, half, builder, rows, annotator>>
      BY DEF LoseHash
<1>2. TypeOK' BY <1>0, <1>1 DEF TypeOK, builder, annotator, Lines
<1>3. hash' \notin Sets BY <1>1, LabelsAssumption
<1>4. HashIsChecked'
      BY <1>0, <1>1, <1>3 DEF HashIsChecked, builder, Checked, CoveredBy, Lines, Sets
<1>5. SampleIsAnnotated'
      BY <1>0, <1>1 DEF SampleIsAnnotated, annotator, Sampled, Answerable, Unanswerable, Lines
<1> QED BY <1>2, <1>4, <1>5 DEF IInv

\* Edits of the tables and of the file touch neither the hash nor the build.
LEMMA EditStep ==
  ASSUME IInv, NEW q \in Ids, Revise(q) \/ EditByHand(q)
  PROVE  IInv'
<1>0. TypeOK /\ HashIsChecked /\ SampleIsAnnotated BY DEF IInv
<1>1. UNCHANGED <<half, hash, builder, rows, annotator>> BY DEF Revise, EditByHand
<1>2. tables' \in [Ids -> Drafts] BY <1>0 DEF Revise, EditByHand, TypeOK
<1>3. file' \in Sets BY <1>0 DEF Revise, EditByHand, TypeOK, Sets
<1>4. TypeOK' BY <1>0, <1>1, <1>2, <1>3 DEF TypeOK, builder, annotator, Lines
<1>5. HashIsChecked' BY <1>0, <1>1 DEF HashIsChecked, builder, Checked, CoveredBy, Lines
<1>6. SampleIsAnnotated'
      BY <1>0, <1>1 DEF SampleIsAnnotated, annotator, Sampled, Answerable, Unanswerable, Lines
<1> QED BY <1>4, <1>5, <1>6 DEF IInv

(***************************************************************************)
(* The theorems.                                                           *)
(***************************************************************************)

\* The invariant holds throughout.
THEOREM Invariance == Spec => []IInv
<1>1. IInv /\ [Next]_vars => IInv'
  <2> SUFFICES ASSUME IInv, [Next]_vars PROVE IInv'
      OBVIOUS
  <2>1. CASE UNCHANGED vars
        BY <2>1 DEF vars, builder, annotator, IInv, TypeOK, HashIsChecked, Checked, CoveredBy,
           SampleIsAnnotated, Sampled, Answerable, Unanswerable, Lines
  <2> QED BY <2>1, BuildStep, AnnotatorStep, LoseHashStep, EditStep, LabelsAssumption DEF Next
<1> QED BY InitInv, <1>1, PTL DEF Spec

\* The variables keep their types: an annotator is at questions that it loaded,
\* and at no more attempts than it has.
THEOREM TypeCorrect == Spec => []TypeOK
<1>1. IInv => TypeOK BY DEF IInv
<1> QED BY <1>1, Invariance, PTL

\* verify accepts no set against its hash file that a build did not check against
\* the corpus, whatever is edited and killed.
THEOREM VerifiedSetsAreCovered == Spec => []VerifiedIsCovered
<1>1. IInv => VerifiedIsCovered
  <2> SUFFICES ASSUME IInv, Verifies, hash # Missing PROVE Checked(file)
      BY DEF VerifiedIsCovered, Checked
  <2>1. hash = file /\ file \in Sets BY DEF Verifies, IInv, TypeOK
  <2> QED BY <2>1 DEF IInv, HashIsChecked
<1> QED BY <1>1, Invariance, PTL

\* A run that is not interrupted leaves its whole sample annotated.
THEOREM SamplesAreAnnotated == Spec => []SampleIsAnnotated
<1>1. IInv => SampleIsAnnotated BY DEF IInv
<1> QED BY <1>1, Invariance, PTL
=============================================================================
