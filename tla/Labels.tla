------------------------------- MODULE Labels -------------------------------
(***************************************************************************)
(* The eval set and its second annotation: build_eval_set.py, which writes *)
(* the questions and then their hash; verify (dastavez/evalset.py), which  *)
(* holds the one against the other; and second_annotator.py, which asks a  *)
(* model about a sample of the questions and keeps the answers by id.      *)
(*                                                                         *)
(* A draft is all that the hash covers of a question; drafts differ when   *)
(* their hashes do.  Questions are numbered in the order of their ids,     *)
(* which is that of their lines.  What the model answers, the time between *)
(* attempts and the keys in rotation are left out.                         *)
(***************************************************************************)
EXTENDS Integers, FiniteSets, FiniteSetsExt

CONSTANTS
  NQuestions,
  Drafts,      \* what a question, its answer and its citations may be
  Kind,        \* the question_type of each draft
  Floor,       \* the fewest questions of each type
  WellFormed,  \* the drafts that break no structural rule on their own
  Covered,     \* the drafts that cite only pages of the corpus
  Revised,     \* questions that somebody rewrites in build_eval_set.py
  Edited,      \* questions that somebody edits in the file it writes
  Size,        \* --n: the questions to sample
  Chosen,      \* what the seeded generator samples from two strata
  MaxAttempts,
  None,
  Empty,       \* a hash file that was opened for writing and not filled
  Missing      \* no hash file

Ids == 1..NQuestions
Sets == [Ids -> Drafts \cup {None}]
NoLines == [q \in Ids |-> None]

Lines(set) == {q \in Ids : set[q] # None}
Unanswerable(set) == {q \in Lines(set) : Kind[set[q]] = "unanswerable"}
Answerable(set) == Lines(set) \ Unanswerable(set)

\* sample: the unanswerable questions in proportion, by Python's round, which
\* takes a half to the even neighbour.
Share(unanswerable, answerable) ==
  LET all == unanswerable + answerable
      whole == (Size * unanswerable) \div all
      twice == 2 * ((Size * unanswerable) % all)
  IN IF twice > all \/ (twice = all /\ whole % 2 = 1) THEN whole + 1 ELSE whole

Picked(unanswerable, answerable) ==
  Min({Share(unanswerable, answerable), unanswerable})

\* The strata that can be sampled; of others the generator raises.
Strata ==
  {s \in (SUBSET Ids) \X (SUBSET Ids) :
     /\ s[1] \cap s[2] = {} /\ s[1] \cup s[2] # {}
     /\ Size - Picked(Cardinality(s[1]), Cardinality(s[2])) <= Cardinality(s[2])}

ASSUME LabelsAssumption ==
  /\ NQuestions \in Nat /\ MaxAttempts \in Nat \ {0} /\ Size \in Nat
  /\ Kind \in [Drafts -> DOMAIN Floor] /\ \A k \in DOMAIN Floor : Floor[k] \in Nat
  /\ WellFormed \subseteq Drafts /\ Covered \subseteq Drafts
  /\ Revised \subseteq Ids /\ Edited \subseteq Ids
  /\ None \notin Drafts \cup {"yes", "no"} /\ {Empty, Missing} \cap Sets = {}
  /\ Chosen \in [Strata -> SUBSET Ids]
  /\ \A s \in Strata :
       /\ Chosen[s] \subseteq s[1] \cup s[2]
       /\ Cardinality(Chosen[s]) = Size
       /\ Cardinality(Chosen[s] \cap s[1]) = Picked(Cardinality(s[1]), Cardinality(s[2]))

VARIABLES
  tables,  \* the questions as they stand in build_eval_set.py
  file,    \* eval/questions.jsonl: the lines that are there
  half,    \* it ends in half a line
  hash,    \* eval/questions.sha256: the set whose hash it holds, Empty or Missing
  pc,      \* where the build is
  built,   \* the set that the build assembled
  rows,    \* eval/second-annotation.jsonl: the drafter's label of a question
           \* at the time it was annotated, or None
  loaded,  \* the set that an annotator's run has loaded
  todo,    \* the sampled questions it has still to annotate
  attempt  \* the attempts at the first of them, this one included

builder == <<pc, built>>
annotator == <<loaded, todo, attempt>>
vars == <<tables, file, half, hash, builder, rows, annotator>>

\* structural_errors and coverage_errors find nothing.
Structured(set) ==
  /\ \A q \in Lines(set) : set[q] \in WellFormed
  /\ \A k \in DOMAIN Floor : Cardinality({q \in Lines(set) : Kind[set[q]] = k}) >= Floor[k]
CoveredBy(set) == \A q \in Lines(set) : set[q] \in Covered

\* A clone: the set that is committed, which a build has passed.
Init ==
  /\ tables \in [Ids -> Drafts]
  /\ Structured(tables) /\ CoveredBy(tables)
  /\ file = tables /\ half = FALSE /\ hash = tables
  /\ pc = "idle" /\ built = NoLines
  /\ rows = NoLines
  /\ loaded = NoLines /\ todo = {} /\ attempt = 1

(***************************************************************************)
(* build_eval_set.py.                                                      *)
(***************************************************************************)

\* Mutation: citations are not checked.
BuildUncovered ==
  /\ pc = "idle"
  /\ Structured(tables)
  /\ built' = tables
  /\ file' = NoLines /\ half' = FALSE
  /\ pc' = "dump"
  /\ UNCHANGED <<tables, hash, rows, annotator>>

\* main: a set that breaks no rule is written, and opening the file empties it.
Build ==
  /\ pc = "idle"
  /\ Structured(tables) /\ CoveredBy(tables)
  /\ built' = tables
  /\ file' = NoLines /\ half' = FALSE
  /\ pc' = "dump"
  /\ UNCHANGED <<tables, hash, rows, annotator>>

\* dump: some of the text is in the file.
FlushLines ==
  /\ pc = "dump"
  /\ \E n \in 0..(NQuestions - 1) :
       /\ \A q \in Lines(file) : q <= n
       /\ file' = [q \in Ids |-> IF q <= n THEN built[q] ELSE None]
  /\ half' \in BOOLEAN
  /\ UNCHANGED <<tables, hash, builder, rows, annotator>>

CloseQuestions ==
  /\ pc = "dump"
  /\ file' = built /\ half' = FALSE
  /\ pc' = "questions written"
  /\ UNCHANGED <<tables, hash, built, rows, annotator>>

OpenHash ==
  /\ pc = "questions written"
  /\ hash' = Empty
  /\ pc' = "hash"
  /\ UNCHANGED <<tables, file, half, built, rows, annotator>>

\* Mutation: the hash is of the file, whoever wrote it.
CloseHashOfFile ==
  /\ pc = "hash"
  /\ hash' = file
  /\ pc' = "idle" /\ built' = NoLines
  /\ UNCHANGED <<tables, file, half, rows, annotator>>

\* The hash is of the set that was checked.
CloseHash ==
  /\ pc = "hash"
  /\ hash' = built
  /\ pc' = "idle" /\ built' = NoLines
  /\ UNCHANGED <<tables, file, half, rows, annotator>>

DieBuilding ==
  /\ pc # "idle"
  /\ pc' = "idle" /\ built' = NoLines
  /\ UNCHANGED <<tables, file, half, hash, rows, annotator>>

\* verify: the file loads, breaks no structural rule, and has the hash that was
\* recorded, if there is a hash file; on an empty one it raises.
Verifies == ~half /\ Structured(file) /\ hash \in {file, Missing}

(***************************************************************************)
(* second_annotator.py.                                                    *)
(***************************************************************************)

Sampled(set) == Chosen[<<Unanswerable(set), Answerable(set)>>]
CanSample(set) == <<Unanswerable(set), Answerable(set)>> \in Strata

\* main: the questions are loaded, not verified, and those that have an
\* annotation already are left out.
StartAnnotating ==
  /\ todo = {}
  /\ ~half /\ CanSample(file)
  /\ todo' = {q \in Sampled(file) : rows[q] = None}
  /\ todo' # {}
  /\ loaded' = file
  /\ UNCHANGED <<tables, file, half, hash, builder, rows, attempt>>

AtHand(q) == q = Min(todo)

Done == loaded' = IF todo' = {} THEN NoLines ELSE loaded

\* Mine: the label of the set, which the model does not see.
Mine(draft) == IF Kind[draft] = "unanswerable" THEN "no" ELSE "yes"

\* ask answers, and the annotation is appended at once.
Annotate(q) ==
  /\ AtHand(q)
  /\ rows' = [rows EXCEPT ![q] = Mine(loaded[q])]
  /\ todo' = todo \ {q} /\ Done
  /\ attempt' = 1
  /\ UNCHANGED <<tables, file, half, hash, builder>>

\* Mutations: the attempts go round; they have no bound.
RetryRound ==
  /\ attempt' = (attempt % MaxAttempts) + 1
  /\ UNCHANGED <<tables, file, half, hash, builder, rows, loaded, todo>>
RetryUnbounded ==
  /\ attempt' = attempt + 1
  /\ UNCHANGED <<tables, file, half, hash, builder, rows, loaded, todo>>

\* A full window, an overloaded model, a timeout or a reply that is not JSON.
Retry ==
  /\ attempt < MaxAttempts
  /\ attempt' = attempt + 1
  /\ UNCHANGED <<tables, file, half, hash, builder, rows, loaded, todo>>

\* Mutation: a question that fails is passed over.
PassOver ==
  /\ todo' = todo \ {Min(todo)} /\ Done
  /\ attempt' = 1
  /\ UNCHANGED <<tables, file, half, hash, builder, rows>>

\* The last attempt fails, or one in another way: ask raises and the run ends.
GiveUp ==
  /\ todo' = {} /\ Done
  /\ attempt' = 1
  /\ UNCHANGED <<tables, file, half, hash, builder, rows>>

Ask ==
  /\ todo # {}
  /\ Retry \/ GiveUp \/ \E q \in Ids : Annotate(q)

(***************************************************************************)
(* Whoever works on the questions.                                         *)
(***************************************************************************)

Revise(q) ==
  /\ \E draft \in Drafts \ {tables[q]} : tables' = [tables EXCEPT ![q] = draft]
  /\ UNCHANGED <<file, half, hash, builder, rows, annotator>>

\* The file is edited by hand, not the tables.
EditByHand(q) ==
  /\ pc # "dump" /\ file[q] # None
  /\ \E draft \in Drafts \ {file[q]} : file' = [file EXCEPT ![q] = draft]
  /\ UNCHANGED <<tables, half, hash, builder, rows, annotator>>

\* The hash file is removed, or not checked out, while no build writes it.
LoseHash ==
  /\ pc # "hash" /\ hash # Missing
  /\ hash' = Missing
  /\ UNCHANGED <<tables, file, half, builder, rows, annotator>>

Next ==
  \/ Build \/ FlushLines \/ CloseQuestions \/ OpenHash \/ CloseHash \/ DieBuilding
  \/ StartAnnotating \/ Ask \/ LoseHash
  \/ \E q \in Revised : Revise(q)
  \/ \E q \in Edited : EditByHand(q)

\* A request times out (second_annotator.py:186), so an attempt ends.
Spec == Init /\ [][Next]_vars /\ WF_vars(Ask)

(***************************************************************************)
(* Properties.                                                             *)
(***************************************************************************)

TypeOK ==
  /\ tables \in [Ids -> Drafts]
  /\ file \in Sets /\ half \in BOOLEAN
  /\ hash \in Sets \cup {Empty, Missing}
  /\ pc \in {"idle", "dump", "questions written", "hash"}
  /\ built \in Sets
  /\ rows \in [Ids -> {"yes", "no", None}]
  /\ loaded \in Sets
  /\ todo \subseteq Lines(loaded)
  /\ attempt \in 1..MaxAttempts

\* "a silent edit has to be loud somewhere" (tests/test_eval_set.py:75): verify
\* looks at no page of the corpus, and yet, whatever was edited by hand and
\* wherever a build was killed, a set that it accepts against a hash file is whole
\* and cites only pages of the corpus.  Without a hash file it accepts whatever
\* breaks no structural rule (245).
VerifiedIsCovered ==
  Verifies /\ hash # Missing => Lines(file) = Ids /\ CoveredBy(file)

\* second_annotator.py:218-238: a run that is under way has annotated what it has
\* passed of its sample, so one that is not interrupted leaves the whole sample
\* annotated, however many runs died before it.
SampleIsAnnotated ==
  todo # {} => \A q \in Ids \ todo : q \in Sampled(loaded) => rows[q] # None

\* ask, 169-208: a run comes to an end, annotated or not.
AnnotatingEnds == (todo # {}) ~> (todo = {})

(***************************************************************************)
(* The inductive invariant behind VerifiedIsCovered: what is hashed, or    *)
(* about to be, is whole and was checked against the corpus.               *)
(***************************************************************************)

Checked(set) == Lines(set) = Ids /\ CoveredBy(set)

HashIsChecked ==
  /\ hash \in Sets => Checked(hash)
  /\ pc # "idle" => Checked(built)

IInv == TypeOK /\ HashIsChecked /\ SampleIsAnnotated
=============================================================================
