--------------------------- MODULE ScoringProofs ---------------------------
(***************************************************************************)
(* Proofs about the parsing metrics, for pages, sequences and blocks of    *)
(* any length: split_gold_blocks cuts a page into whole tables and whole   *)
(* paragraphs; the edit distances are those of the cheapest edit; and the  *)
(* reading order counts every pair of blocks that can be told apart.       *)
(***************************************************************************)
EXTENDS Scoring, FiniteSetTheorems, WellFoundedInduction, TLAPS

\* Places that follow one another, said by the first.
Follow(places) ==
  /\ places \in Seq(1..Len(page)) /\ Len(places) > 0
  /\ \A k \in 1..Len(places) : places[k] = places[1] + (k - 1)
LastOf(places) == places[Len(places)]

\* The lines of one class, from the first of them on.
Begun(places) ==
  /\ Follow(places)
  /\ Class(places[1]) # "blank" /\ Class(places[1] - 1) # Class(places[1])
  /\ \A k \in 1..Len(places) : Class(places[k]) = Class(places[1])
Ended(places) == Class(LastOf(places) + 1) # Class(places[1])

\* The gold blocks are whole and in order, up to a line.
WholeUpTo(gs, last) ==
  /\ \A g \in 1..Len(gs) : Begun(gs[g]) /\ Ended(gs[g]) /\ LastOf(gs[g]) <= last
  /\ \A g \in 1..(Len(gs) - 1) : LastOf(gs[g]) < gs[g + 1][1]

In(places, p) == \E k \in 1..Len(places) : places[k] = p
InSome(gs, p) == \E g \in 1..Len(gs) : In(gs[g], p)

\* The loop: what is gathered are the lines since the last edge, and the flag is
\* the class of the line before.
Gathered ==
  IF current = <<>> THEN Class(line) = "blank" /\ WholeUpTo(golds, line)
  ELSE /\ Begun(current) /\ LastOf(current) = line
       /\ WholeUpTo(golds, current[1] - 1)
SplitInv ==
  /\ page \in Seq(Lines)
  /\ line \in 0..(Len(page) + 1)
  /\ golds \in Seq(Seq(1..Len(page)))
  /\ current \in Seq(1..Len(page))
  /\ in_table \in BOOLEAN
  /\ line <= Len(page) => Gathered /\ (in_table <=> Class(line) = "row")
  /\ line = Len(page) + 1 => current = <<>> /\ WholeUpTo(golds, Len(page))
  /\ \A p \in 1..Len(page) :
       (p <= line /\ Class(p) # "blank") => InSome(golds, p) \/ In(current, p)

\* Classes of lines, and of what lies outside the page.
LEMMA ClassTypes == ASSUME SplitInv, NEW p PROVE Class(p) \in {"row", "prose", "blank"}
<1>1. CASE p \in 1..Len(page)
  <2>1. page[p] \in Lines BY <1>1 DEF SplitInv
  <2> QED BY <1>1, <2>1 DEF Class, Lines
<1>2. CASE p \notin 1..Len(page) BY <1>2 DEF Class
<1> QED BY <1>1, <1>2

\* The ends of what follows.
LEMMA FollowFacts ==
  ASSUME NEW places, Follow(places)
  PROVE  /\ places \in Seq(Nat) /\ Len(places) \in Nat /\ 1 \in 1..Len(places) /\ Len(places) \in 1..Len(places)
         /\ places[1] \in 1..Len(page) /\ LastOf(places) \in 1..Len(page)
         /\ places[1] \in Nat /\ LastOf(places) \in Nat
         /\ LastOf(places) = places[1] + (Len(places) - 1)
<1>1. places \in Seq(1..Len(page)) /\ Len(places) \in Nat /\ Len(places) > 0 BY DEF Follow
<1>2. 1 \in 1..Len(places) /\ Len(places) \in 1..Len(places) BY <1>1
<1>3. places[1] \in 1..Len(page) /\ LastOf(places) \in 1..Len(page) BY <1>1, <1>2 DEF LastOf
<1>4. LastOf(places) = places[1] + (Len(places) - 1) BY <1>2 DEF Follow, LastOf
<1>5. places \in Seq(Nat) BY <1>1
<1> QED BY <1>1, <1>2, <1>3, <1>4, <1>5

\* A block that starts with a line of another class than the one before it.
LEMMA BeginOne ==
  ASSUME NEW p \in 1..Len(page), Class(p) # "blank", Class(p - 1) # Class(p)
  PROVE  Begun(<<p>>) /\ LastOf(<<p>>) = p /\ <<p>>[1] = p /\ In(<<p>>, p)
<1>1. <<p>> \in Seq(1..Len(page)) /\ Len(<<p>>) = 1 /\ <<p>>[1] = p OBVIOUS
<1>2. p + (1 - 1) = p OBVIOUS
<1>3. Follow(<<p>>) BY <1>1, <1>2 DEF Follow
<1> QED BY <1>1, <1>3 DEF Begun, LastOf, In

\* A block that goes on with a line of its class.
LEMMA GoOn ==
  ASSUME NEW places, Begun(places), NEW p \in 1..Len(page), p = LastOf(places) + 1,
         Class(p) = Class(places[1])
  PROVE  /\ Begun(Append(places, p)) /\ LastOf(Append(places, p)) = p
         /\ Append(places, p)[1] = places[1]
         /\ In(Append(places, p), p) /\ \A q : In(places, q) => In(Append(places, p), q)
<1> DEFINE more == Append(places, p)
<1>0. Follow(places) BY DEF Begun
<1>1. /\ places \in Seq(1..Len(page)) /\ Len(places) \in Nat /\ Len(places) > 0
      /\ 1 \in 1..Len(places) /\ LastOf(places) = places[1] + (Len(places) - 1) /\ places[1] \in Nat
      BY <1>0, FollowFacts DEF Follow
<1>2. /\ more \in Seq(1..Len(page)) /\ Len(more) = Len(places) + 1
      /\ \A k \in 1..Len(places) : more[k] = places[k]
      /\ more[Len(places) + 1] = p
      BY <1>1
<1> HIDE DEF more
<1>3. more[1] = places[1] BY <1>1, <1>2
<1>4. ASSUME NEW k \in 1..Len(more)
      PROVE  more[k] = more[1] + (k - 1) /\ Class(more[k]) = Class(more[1])
  <2>1. CASE k \in 1..Len(places) BY <1>0, <1>2, <1>3, <2>1 DEF Follow, Begun
  <2>2. CASE k = Len(places) + 1 BY <1>1, <1>2, <1>3, <2>2
  <2>3. k \in 1..Len(places) \/ k = Len(places) + 1 BY <1>1, <1>2
  <2> QED BY <2>1, <2>2, <2>3
<1>5. Follow(more) BY SMTT(40), <1>1, <1>2, <1>4 DEF Follow
<1>6. Begun(more) BY <1>3, <1>4, <1>5 DEF Begun
<1>7. LastOf(more) = p BY <1>1, <1>2 DEF LastOf
<1>8. In(more, p)
  <2>1. Len(places) + 1 \in 1..Len(more) BY <1>1, <1>2
  <2> QED BY <1>2, <2>1 DEF In
<1>9. \A q : In(places, q) => In(more, q) BY SMTT(40), <1>1, <1>2 DEF In
<1> QED BY <1>3, <1>6, <1>7, <1>8, <1>9 DEF more

\* What is whole up to a line is so up to any later one.
LEMMA WholeGrows ==
  ASSUME NEW gs, NEW m \in Int, NEW n \in Int, m <= n, WholeUpTo(gs, m)
  PROVE  WholeUpTo(gs, n)
<1>1. ASSUME NEW g \in 1..Len(gs) PROVE Begun(gs[g]) /\ Ended(gs[g]) /\ LastOf(gs[g]) <= n
  <2>1. Begun(gs[g]) /\ Ended(gs[g]) /\ LastOf(gs[g]) <= m BY DEF WholeUpTo
  <2>2. LastOf(gs[g]) \in Nat BY <2>1, FollowFacts DEF Begun
  <2> QED BY <2>1, <2>2
<1> QED BY <1>1 DEF WholeUpTo

\* The edge of a block: it is whole, and after the blocks before it.
LEMMA FlushWhole ==
  ASSUME SplitInv, line <= Len(page), Class(line + 1) = "blank" \/ Class(line + 1) # Class(line)
  PROVE  /\ WholeUpTo(Flushed, line) /\ Flushed \in Seq(Seq(1..Len(page)))
         /\ \A p : InSome(golds, p) \/ In(current, p) => InSome(Flushed, p)
<1>1. Gathered /\ line \in Nat /\ golds \in Seq(Seq(1..Len(page))) /\ current \in Seq(1..Len(page))
      BY DEF SplitInv
<1>2. CASE current = <<>>
  <2>1. Flushed = golds /\ WholeUpTo(golds, line) BY <1>1, <1>2 DEF Flushed, Gathered
  <2>2. \A p : ~In(current, p) BY <1>2 DEF In
  <2> QED BY <1>1, <2>1, <2>2
<1>3. CASE current # <<>>
  <2>1. Begun(current) /\ LastOf(current) = line /\ WholeUpTo(golds, current[1] - 1)
        BY <1>1, <1>3 DEF Gathered
  <2>2. /\ Flushed = Append(golds, current) /\ Flushed \in Seq(Seq(1..Len(page)))
        BY <1>1, <1>3 DEF Flushed
  <2>3. /\ Len(Flushed) = Len(golds) + 1 /\ Len(golds) \in Nat
        /\ \A g \in 1..Len(golds) : Flushed[g] = golds[g]
        /\ Flushed[Len(golds) + 1] = current
        BY <1>1, <2>2
  <2>4. /\ current[1] \in Nat /\ current[1] <= line /\ Len(current) \in 1..Len(current)
        BY <2>1, FollowFacts DEF Begun
  <2>5. Class(line) = Class(current[1]) /\ Class(current[1]) # "blank"
        BY <2>1, <2>4 DEF Begun, LastOf
  <2>6. Ended(current) BY <2>1, <2>5 DEF Ended
  <2>7. ASSUME NEW g \in 1..Len(Flushed)
        PROVE  Begun(Flushed[g]) /\ Ended(Flushed[g]) /\ LastOf(Flushed[g]) <= line
    <3>1. WholeUpTo(golds, line) BY <1>1, <2>1, <2>4, WholeGrows
    <3>2. CASE g \in 1..Len(golds) BY <2>3, <3>1, <3>2 DEF WholeUpTo
    <3>3. CASE g = Len(golds) + 1 BY <1>1, <2>1, <2>3, <2>6, <3>3
    <3>4. g \in 1..Len(golds) \/ g = Len(golds) + 1 BY <2>3
    <3> QED BY <3>2, <3>3, <3>4
  <2>8. ASSUME NEW g \in 1..(Len(Flushed) - 1) PROVE LastOf(Flushed[g]) < Flushed[g + 1][1]
    <3>1. g \in 1..Len(golds) /\ Flushed[g] = golds[g] BY <2>3
    <3>2. CASE g \in 1..(Len(golds) - 1)
      <4>1. Flushed[g + 1] = golds[g + 1] BY <2>3, <3>2
      <4> QED BY <2>1, <3>1, <3>2, <4>1 DEF WholeUpTo
    <3>3. CASE g = Len(golds)
      <4>1. Flushed[g + 1] = current BY <2>3, <3>3
      <4>2. LastOf(golds[g]) <= current[1] - 1 /\ LastOf(golds[g]) \in Nat
            BY <2>1, <3>1, FollowFacts DEF WholeUpTo, Begun
      <4> QED BY <2>4, <3>1, <4>1, <4>2
    <3> QED BY <2>3, <3>1, <3>2, <3>3
  <2>9. WholeUpTo(Flushed, line) BY <2>7, <2>8 DEF WholeUpTo
  <2>10. \A p : InSome(golds, p) \/ In(current, p) => InSome(Flushed, p) BY <2>3 DEF InSome
  <2> QED BY <2>2, <2>9, <2>10
<1> QED BY <1>2, <1>3

\* One line of the page.
LEMMA SplitLineInv == ASSUME SplitInv, SplitLine PROVE SplitInv'
<1> DEFINE here == line + 1
           class == page[here].class
           ends == class = "blank" \/ (class = "row") # in_table
<1>1. /\ line < Len(page) /\ line \in Nat /\ Len(page) \in Nat /\ here \in 1..Len(page)
      /\ line' = here /\ UNCHANGED page /\ page \in Seq(Lines)
      BY DEF SplitLine, SplitInv
<1>2. Class(here) = class /\ class \in {"row", "prose", "blank"} BY <1>1, ClassTypes DEF Class
<1>3. /\ in_table' = (class = "row")
      /\ golds' = IF ends THEN Flushed ELSE golds
      /\ current' = IF class = "blank" THEN <<>>
                    ELSE Append(IF ends THEN <<>> ELSE current, here)
      BY DEF SplitLine
<1>4. /\ Gathered /\ in_table \in BOOLEAN /\ (in_table <=> Class(line) = "row")
      /\ Class(line) \in {"row", "prose", "blank"}
      BY <1>1, ClassTypes DEF SplitInv
<1>5. golds \in Seq(Seq(1..Len(page))) /\ current \in Seq(1..Len(page)) BY DEF SplitInv
<1>6. \A p \in 1..Len(page) : (p <= line /\ Class(p) # "blank") => InSome(golds, p) \/ In(current, p)
      BY DEF SplitInv
<1> HIDE DEF here, class, ends
<1>7. ASSUME golds' \in Seq(Seq(1..Len(page))), current' \in Seq(1..Len(page)),
             IF current' = <<>> THEN Class(here) = "blank" /\ WholeUpTo(golds', here)
             ELSE /\ Begun(current') /\ LastOf(current') = here
                  /\ WholeUpTo(golds', current'[1] - 1),
             \A p \in 1..Len(page) : (p <= here /\ Class(p) # "blank") => InSome(golds', p) \/ In(current', p)
      PROVE  SplitInv'
  <2>1. \A p : Class(p)' = Class(p) BY <1>1 DEF Class
  <2>2. Gathered'
        BY ZenonT(60), <1>1, <1>7 DEF Gathered, Class, Begun, Follow, WholeUpTo, Ended, LastOf
  <2>3. in_table' \in BOOLEAN /\ (in_table' <=> Class(here) = "row") BY <1>2, <1>3
  <2>4. here \in 0..(Len(page) + 1) /\ here <= Len(page) /\ here # Len(page) + 1 BY <1>1
  <2> QED BY <1>1, <1>7, <2>1, <2>2, <2>3, <2>4 DEF SplitInv, InSome, In, Class
<1>8. \A p \in 1..Len(page) : p <= here => p <= line \/ p = here BY <1>1 DEF here
<1>9. CASE class = "blank"
  <2>1. golds' = Flushed /\ current' = <<>> BY <1>3, <1>9 DEF ends
  <2>2. WholeUpTo(Flushed, line) /\ Flushed \in Seq(Seq(1..Len(page)))
        /\ \A p : InSome(golds, p) \/ In(current, p) => InSome(Flushed, p)
        BY <1>1, <1>2, <1>9, FlushWhole DEF here
  <2>3. WholeUpTo(golds', here) BY <1>1, <2>1, <2>2, WholeGrows DEF here
  <2>4. \A p \in 1..Len(page) : (p <= here /\ Class(p) # "blank") => InSome(golds', p)
        BY <1>2, <1>6, <1>8, <1>9, <2>1, <2>2
  <2>5. current' \in Seq(1..Len(page)) BY <2>1
  <2> QED BY <1>2, <1>7, <1>9, <2>1, <2>2, <2>3, <2>4, <2>5
<1>10. CASE class # "blank" /\ ends
  <2>1. golds' = Flushed /\ current' = Append(<<>>, here) BY <1>3, <1>10
  <2>2. current' = <<here>> BY <2>1
  <2>3. Class(here) # Class(line)
    <3>1. (class = "row") # in_table BY <1>10 DEF ends
    <3>2. (class = "row") # (Class(line) = "row") BY <1>4, <3>1
    <3> QED BY <1>2, <3>2
  <2>4. WholeUpTo(Flushed, line) /\ Flushed \in Seq(Seq(1..Len(page)))
        /\ \A p : InSome(golds, p) \/ In(current, p) => InSome(Flushed, p)
        BY <1>1, <2>3, FlushWhole DEF here
  <2>5. here - 1 = line BY <1>1 DEF here
  <2>6. Begun(<<here>>) /\ LastOf(<<here>>) = here /\ <<here>>[1] = here /\ In(<<here>>, here)
        BY <1>1, <1>2, <1>10, <2>3, <2>5, BeginOne
  <2>7. <<here>> # <<>> /\ <<here>> \in Seq(1..Len(page)) BY <1>1
  <2>8. \A p \in 1..Len(page) : (p <= here /\ Class(p) # "blank") => InSome(golds', p) \/ In(<<here>>, p)
        BY <1>6, <1>8, <2>1, <2>4, <2>6
  <2> QED BY <1>7, <2>1, <2>2, <2>4, <2>5, <2>6, <2>7, <2>8
<1>11. CASE class # "blank" /\ ~ends
  <2>1. golds' = golds /\ current' = Append(current, here) BY <1>3, <1>11
  <2>2. CASE current = <<>>
    <3>1. current' = <<here>> BY <2>1, <2>2
    <3>2. Class(line) = "blank" /\ WholeUpTo(golds, line) BY <1>4, <2>2 DEF Gathered
    <3>3. here - 1 = line BY <1>1 DEF here
    <3>4. Begun(<<here>>) /\ LastOf(<<here>>) = here /\ <<here>>[1] = here /\ In(<<here>>, here)
          BY <1>1, <1>2, <1>11, <3>2, <3>3, BeginOne
    <3>5. <<here>> # <<>> /\ <<here>> \in Seq(1..Len(page)) BY <1>1
    <3>6. \A p : ~In(current, p) BY <2>2 DEF In
    <3>7. \A p \in 1..Len(page) : (p <= here /\ Class(p) # "blank") => InSome(golds', p) \/ In(<<here>>, p)
          BY <1>6, <1>8, <2>1, <3>4, <3>6
    <3> QED BY <1>5, <1>7, <2>1, <3>1, <3>2, <3>3, <3>4, <3>5, <3>7
  <2>3. CASE current # <<>>
    <3>1. Begun(current) /\ LastOf(current) = line /\ WholeUpTo(golds, current[1] - 1)
          BY <1>4, <2>3 DEF Gathered
    <3>2. Class(line) = Class(current[1]) /\ Class(line) # "blank"
          BY <3>1, FollowFacts DEF Begun, LastOf
    <3>3. Class(here) = Class(current[1]) BY <1>2, <1>4, <1>11, <3>2 DEF ends
    <3>4. here = LastOf(current) + 1 BY <3>1 DEF here
    <3>5. /\ Begun(current') /\ LastOf(current') = here /\ current'[1] = current[1]
          /\ In(current', here) /\ \A q : In(current, q) => In(current', q)
          BY <1>1, <2>1, <3>1, <3>3, <3>4, GoOn
    <3>6. current' # <<>> /\ current' \in Seq(1..Len(page)) BY <3>5 DEF Begun, Follow
    <3>7. \A p \in 1..Len(page) : (p <= here /\ Class(p) # "blank") => InSome(golds', p) \/ In(current', p)
          BY <1>6, <1>8, <2>1, <3>5
    <3> QED BY <1>5, <1>7, <2>1, <3>1, <3>5, <3>6, <3>7
  <2> QED BY <2>2, <2>3
<1> QED BY <1>9, <1>10, <1>11

\* After the last line.
LEMMA SplitEndInv == ASSUME SplitInv, SplitEnd PROVE SplitInv'
<1>1. /\ line = Len(page) /\ line' = Len(page) + 1 /\ UNCHANGED page /\ Len(page) \in Nat
      /\ golds' = Flushed /\ current' = <<>>
      BY DEF SplitEnd, SplitInv
<1>2. Class(line + 1) = "blank" BY <1>1 DEF Class
<1>3. WholeUpTo(Flushed, line) /\ Flushed \in Seq(Seq(1..Len(page)))
      /\ \A p : InSome(golds, p) \/ In(current, p) => InSome(Flushed, p)
      BY <1>1, <1>2, FlushWhole
<1>4. WholeUpTo(golds, Len(page))'
      BY <1>1, <1>3 DEF WholeUpTo, Begun, Ended, Follow, LastOf, Class
<1>5. \A p \in 1..Len(page) : Class(p) # "blank" => InSome(golds', p) BY <1>1, <1>3 DEF SplitInv
<1>6. ~(line' <= Len(page')) /\ line' \in 0..(Len(page') + 1) /\ in_table' \in BOOLEAN
      BY <1>1 DEF SplitInv, SplitEnd
<1>7. page \in Seq(Lines) /\ current' \in Seq(1..Len(page')) BY <1>1 DEF SplitInv
<1> QED BY <1>1, <1>3, <1>4, <1>5, <1>6, <1>7 DEF SplitInv, InSome, In, Class

\* The comparisons that follow leave the gold blocks alone.
LEMMA NextSplitInv == SplitInv /\ [Next]_vars => SplitInv'
<1> SUFFICES ASSUME SplitInv, [Next]_vars PROVE SplitInv'
    OBVIOUS
<1>1. CASE SplitLine BY <1>1, SplitLineInv
<1>2. CASE SplitEnd BY <1>2, SplitEndInv
<1>3. CASE CompareRow \/ Rank \/ UNCHANGED vars
  <2>1. UNCHANGED <<page, line, current, in_table, golds>>
        BY <1>3 DEF CompareRow, Rank, vars, pageVars
  <2> QED BY <2>1 DEF SplitInv, Gathered, WholeUpTo, Begun, Ended, Follow, LastOf, InSome, In, Class
<1> QED BY <1>1, <1>2, <1>3 DEF Next

\* Before the first line.
LEMMA InitSplitInv == Init => SplitInv
<1> SUFFICES ASSUME Init PROVE SplitInv
    OBVIOUS
<1>1. page \in Seq(Lines) /\ line = 0 /\ current = <<>> /\ in_table = FALSE /\ golds = <<>>
      BY ScoringAssumption DEF Init
<1>2. Len(page) \in Nat BY <1>1
<1>3. Class(line) = "blank" BY <1>1 DEF Class
<1>4. WholeUpTo(golds, line) BY <1>1 DEF WholeUpTo
<1>5. Gathered BY <1>1, <1>3, <1>4 DEF Gathered
<1>6. golds \in Seq(Seq(1..Len(page))) /\ current \in Seq(1..Len(page)) BY <1>1
<1>7. line \in 0..(Len(page) + 1) /\ line # Len(page) + 1 BY <1>1, <1>2
<1>8. \A p \in 1..Len(page) : ~(p <= line) BY <1>1
<1> QED BY <1>1, <1>3, <1>5, <1>6, <1>7, <1>8 DEF SplitInv

\* What the invariant says of a page that is split.
LEMMA WholeIsRun == ASSUME NEW places, Begun(places), Ended(places) PROVE IsRun(places)
<1> DEFINE first == places[1]
           last == places[Len(places)]
<1>1. Follow(places) BY DEF Begun
<1>2. /\ places \in Seq(Nat) /\ Len(places) \in Nat /\ first \in Nat /\ last \in Nat
      /\ last = first + (Len(places) - 1) /\ 1 \in 1..Len(places)
      BY <1>1, FollowFacts DEF LastOf
<1>3. last - first + 1 = Len(places) BY <1>2
<1>4. \A k \in 1..Len(places) : places[k] = first + k - 1
  <2>1. \A k \in 1..Len(places) : places[k] = first + (k - 1) BY <1>1 DEF Follow
  <2> QED BY <1>2, <2>1
<1>5. places = [k \in 1..(last - first + 1) |-> first + k - 1]
  <2>1. places = [k \in 1..Len(places) |-> places[k]] BY <1>2
  <2> HIDE DEF first, last
  <2> QED BY <1>3, <1>4, <2>1
<1>6. \A p \in Range(places) : Class(p) = Class(first) BY SMTT(40), <1>2 DEF Begun, Range
<1>7. Class(first) # "blank" /\ Class(first) # Class(first - 1) /\ Class(first) # Class(last + 1)
      BY DEF Begun, Ended, LastOf
<1> QED BY <1>5, <1>6, <1>7 DEF IsRun

LEMMA SplitInvIsRuns == SplitInv => SplitIsRuns
<1> SUFFICES ASSUME SplitInv, Split
             PROVE  /\ \A g \in 1..Len(golds) : IsRun(golds[g])
                    /\ \A g \in 1..(Len(golds) - 1) : golds[g][Len(golds[g])] < golds[g + 1][1]
                    /\ UNION {Range(golds[g]) : g \in 1..Len(golds)}
                         = {p \in 1..Len(page) : Class(p) # "blank"}
    BY DEF SplitIsRuns
<1>1. current = <<>> /\ WholeUpTo(golds, Len(page)) /\ line = Len(page) + 1 /\ Len(page) \in Nat
      BY DEF SplitInv, Split
<1>2. \A g \in 1..Len(golds) : IsRun(golds[g]) BY <1>1, WholeIsRun DEF WholeUpTo
<1>3. \A g \in 1..(Len(golds) - 1) : golds[g][Len(golds[g])] < golds[g + 1][1]
      BY <1>1 DEF WholeUpTo, LastOf
<1>4. ASSUME NEW p \in 1..Len(page), Class(p) # "blank"
      PROVE  \E g \in 1..Len(golds) : p \in Range(golds[g])
  <2>1. InSome(golds, p) \/ In(current, p) BY <1>1, <1>4 DEF SplitInv
  <2>2. PICK g \in 1..Len(golds) : In(golds[g], p) BY <1>1, <2>1 DEF InSome, In
  <2>3. golds[g] \in Seq(1..Len(page)) BY DEF SplitInv
  <2> QED BY <2>2, <2>3 DEF In, Range
<1>5. ASSUME NEW g \in 1..Len(golds), NEW p \in Range(golds[g])
      PROVE  p \in 1..Len(page) /\ Class(p) # "blank"
  <2>1. Begun(golds[g]) BY <1>1 DEF WholeUpTo
  <2>2. golds[g] \in Seq(1..Len(page)) BY DEF SplitInv
  <2>3. PICK k \in 1..Len(golds[g]) : p = golds[g][k] BY SMTT(40), <2>2 DEF Range
  <2> QED BY <2>1, <2>2, <2>3 DEF Begun
<1> QED BY <1>2, <1>3, <1>4, <1>5

\* A gold page is scored as the tables and paragraphs it has: each whole, in
\* order, and none left out, on a page of any length.
THEOREM GoldBlocksAreWhole == Spec => []SplitIsRuns
<1> QED BY InitSplitInv, NextSplitInv, SplitInvIsRuns, PTL DEF Spec
(***************************************************************************)
(* Edit distance.  Induction over numbers, as the least of a set.          *)
(***************************************************************************)
\* A set of numbers has a least one.
LEMMA LeastNumber ==
  ASSUME NEW T \in SUBSET Nat, T # {}
  PROVE  \E x \in T : \A y \in T : x <= y
<1> DEFINE R == {p \in Nat \X Nat : p[1] < p[2]}
<1>1. R = OpToRel(<, Nat) BY DEF OpToRel
<1>2. IsWellFoundedOn(R, Nat) BY <1>1, NatLessThanWellFounded
<1> HIDE DEF R
<1>3. PICK x \in T : \A y \in T : ~(<<y, x>> \in R) BY <1>2, WFMin
<1>4. ASSUME NEW y \in T PROVE x <= y
  <2>1. ~(<<y, x>> \in R) BY <1>3
  <2>2. <<y, x>> \in Nat \X Nat OBVIOUS
  <2>3. ~(y < x) BY <2>1, <2>2 DEF R
  <2> QED BY <2>3
<1> QED BY <1>4

\* What holds of 0 and is handed on to the next number holds up to n.
LEMMA UpToBy ==
  ASSUME NEW n \in Nat, NEW H \in SUBSET (0..n), 0 \in H,
         \A j \in 1..n : j - 1 \in H => j \in H
  PROVE  H = 0..n
<1> DEFINE T == {j \in 0..n : j \notin H}
<1>1. SUFFICES ASSUME T # {} PROVE FALSE OBVIOUS
<1>2. T \in SUBSET Nat OBVIOUS
<1>3. PICK x \in T : \A y \in T : x <= y BY <1>1, <1>2, LeastNumber
<1>4. x \in 1..n /\ x - 1 \in 0..n /\ x - 1 < x OBVIOUS
<1>5. x - 1 \notin T BY <1>3, <1>4
<1>6. x - 1 \in H BY <1>4, <1>5
<1> QED BY <1>4, <1>6

\* A function may be defined by what it is at 0 and how it goes on.
Unfolds(f, base, step, n) == f[0] = base /\ \A j \in 1..n : f[j] = step[j, f[j - 1]]
LEMMA Recursion ==
  ASSUME NEW n \in Nat, NEW S, NEW base \in S, NEW step \in [(1..n) \X S -> S]
  PROVE  \E f \in [0..n -> S] : Unfolds(f, base, step, n)
<1> DEFINE Fits(f, m) == Unfolds(f, base, step, m)
           H == {m \in 0..n : \E f \in [0..n -> S] : Fits(f, m)}
<1>1. 0 \in H
  <2> DEFINE g == [j \in 0..n |-> base]
  <2>1. g \in [0..n -> S] /\ Fits(g, 0) /\ 0 \in 0..n BY DEF Unfolds
  <2> HIDE DEF g, Fits
  <2> QED BY <2>1
<1>2. ASSUME NEW m \in 1..n, m - 1 \in H PROVE m \in H
  <2> HIDE DEF Fits
  <2>1. PICK f \in [0..n -> S] : Fits(f, m - 1) BY <1>2
  <2> DEFINE next == step[m, f[m - 1]]
             g == [f EXCEPT ![m] = next]
  <2>2. next \in S
    <3>1. <<m, f[m - 1]>> \in (1..n) \X S OBVIOUS
    <3> QED BY <3>1
  <2> HIDE DEF next
  <2>3. g \in [0..n -> S] /\ g[m] = next /\ \A j \in 0..n : j # m => g[j] = f[j]
        BY <2>2
  <2> HIDE DEF g
  <2>4. g[0] = base
    <3>1. 0 \in 0..n /\ 0 # m OBVIOUS
    <3> QED BY <2>1, <2>3, <3>1 DEF Fits, Unfolds
  <2>5. ASSUME NEW j \in 1..m PROVE g[j] = step[j, g[j - 1]]
    <3>1. j - 1 \in 0..n /\ j - 1 # m /\ j \in 0..n OBVIOUS
    <3>2. g[j - 1] = f[j - 1] BY <2>3, <3>1
    <3>3. CASE j = m BY <2>3, <3>2, <3>3 DEF next
    <3>4. CASE j # m
      <4>1. j \in 1..(m - 1) BY <3>4
      <4> QED BY <2>1, <2>3, <3>1, <3>2, <3>4, <4>1 DEF Fits, Unfolds
    <3> QED BY <3>3, <3>4
  <2>6. Fits(g, m) BY <2>4, <2>5 DEF Fits, Unfolds
  <2>7. m \in 0..n OBVIOUS
  <2> QED BY <2>3, <2>6, <2>7
<1>3. n \in H
  <2> HIDE DEF Fits
  <2>1. H \in SUBSET (0..n) /\ n \in 0..n OBVIOUS
  <2> HIDE DEF H
  <2> QED BY <1>1, <1>2, <2>1, UpToBy
<1>4. PICK f \in [0..n -> S] : Fits(f, n)
  <2> HIDE DEF Fits
  <2> QED BY <1>3
<1> QED BY <1>4

(***************************************************************************)
(* The least of numbers.                                                   *)
(***************************************************************************)
\* Least finds it.
LEMMA LeastIs ==
  ASSUME NEW S \in SUBSET Nat, NEW n \in S, \A m \in S : n <= m
  PROVE  Least(S) = n
<1>1. Least(S) \in S /\ \A m \in S : Least(S) <= m BY DEF Least
<1>2. Least(S) <= n /\ n <= Least(S) /\ n \in Nat /\ Least(S) \in Nat BY <1>1
<1> QED BY <1>2

\* min of the three neighbours of a cell.
LEMMA LeastOfThree ==
  ASSUME NEW x \in Nat, NEW y \in Nat, NEW z \in Nat
  PROVE  /\ Least({x, y, z}) \in {x, y, z} /\ Least({x, y, z}) \in Nat
         /\ Least({x, y, z}) <= x /\ Least({x, y, z}) <= y /\ Least({x, y, z}) <= z
<1>1. \E n \in {x, y, z} : \A m \in {x, y, z} : n <= m OBVIOUS
<1> QED BY <1>1 DEF Least

(***************************************************************************)
(* Ways to keep nodes.                                                     *)
(***************************************************************************)
Nothing == [from |-> {}, to |-> {}]
Without(way, x, y) == [from |-> way.from \ {x}, to |-> way.to \ {y}]
With(way, x, y) == [from |-> way.from \cup {x}, to |-> way.to \cup {y}]
Changed(way) == {p \in Kept(way) : Cost(a[p[1]], b[p[2]]) = 1}

\* What a way keeps is finite, and its cost a number.
LEMMA WayTypes ==
  ASSUME NEW m \in Nat, NEW n \in Nat, NEW way \in Ways(m, n)
  PROVE  /\ way = [from |-> way.from, to |-> way.to]
         /\ way.from \subseteq 1..m /\ way.to \subseteq 1..n
         /\ IsFiniteSet(way.from) /\ IsFiniteSet(way.to)
         /\ Cardinality(way.from) \in Nat /\ Cardinality(way.to) = Cardinality(way.from)
         /\ Cardinality(way.from) <= m /\ Cardinality(way.to) <= n
         /\ IsFiniteSet(Changed(way)) /\ Cardinality(Changed(way)) \in Nat
         /\ EditCost(m, n, way) \in Nat
         /\ EditCost(m, n, way) = (m - Cardinality(way.from)) + (n - Cardinality(way.from))
                                    + Cardinality(Changed(way))
<1>1. /\ way = [from |-> way.from, to |-> way.to]
      /\ way.from \subseteq 1..m /\ way.to \subseteq 1..n
      /\ Cardinality(way.to) = Cardinality(way.from)
      BY DEF Ways
<1>2. IsFiniteSet(1..m) /\ Cardinality(1..m) = m /\ IsFiniteSet(1..n) /\ Cardinality(1..n) = n
      BY FS_Interval
<1>3. IsFiniteSet(way.from) /\ Cardinality(way.from) <= m BY <1>1, <1>2, FS_Subset
<1>4. IsFiniteSet(way.to) /\ Cardinality(way.to) <= n BY <1>1, <1>2, FS_Subset
<1>5. Cardinality(way.from) \in Nat BY <1>3, FS_CardinalityType
<1>6. IsFiniteSet(way.from \X way.to) BY <1>3, <1>4, FS_Product
<1>7. Changed(way) \subseteq way.from \X way.to BY DEF Changed, Kept
<1>8. IsFiniteSet(Changed(way)) BY <1>6, <1>7, FS_Subset
<1>9. Cardinality(Changed(way)) \in Nat BY <1>8, FS_CardinalityType
<1>10. EditCost(m, n, way) = (m - Cardinality(way.from)) + (n - Cardinality(way.from))
                               + Cardinality(Changed(way))
       BY <1>1 DEF EditCost, Changed
<1>11. EditCost(m, n, way) \in Nat BY <1>1, <1>3, <1>4, <1>5, <1>9, <1>10
<1> QED BY <1>1, <1>3, <1>4, <1>5, <1>8, <1>9, <1>10, <1>11

\* A way that does not keep the last node of a is one for a without it, and the
\* other way round: it costs one edit more.
LEMMA LastIsRemoved ==
  ASSUME NEW m \in Nat \ {0}, NEW n \in Nat, NEW way
  PROVE  /\ way \in Ways(m - 1, n) => way \in Ways(m, n) /\ m \notin way.from
         /\ way \in Ways(m, n) /\ m \notin way.from => way \in Ways(m - 1, n)
         /\ way \in Ways(m - 1, n) => EditCost(m, n, way) = EditCost(m - 1, n, way) + 1
<1>1. \A x : x \in 1..(m - 1) <=> x \in 1..m /\ x # m OBVIOUS
<1>2. way \in Ways(m - 1, n) => way \in Ways(m, n) /\ m \notin way.from BY <1>1 DEF Ways
<1>3. way \in Ways(m, n) /\ m \notin way.from => way \in Ways(m - 1, n) BY <1>1 DEF Ways
<1>4. ASSUME way \in Ways(m - 1, n) PROVE EditCost(m, n, way) = EditCost(m - 1, n, way) + 1
  <2>1. m - 1 \in Nat OBVIOUS
  <2>2. /\ Cardinality(way.from) \in Nat /\ Cardinality(Changed(way)) \in Nat
        /\ EditCost(m - 1, n, way)
             = (m - 1 - Cardinality(way.from)) + (n - Cardinality(way.from)) + Cardinality(Changed(way))
        BY <1>4, <2>1, WayTypes
  <2>3. EditCost(m, n, way)
          = (m - Cardinality(way.from)) + (n - Cardinality(way.from)) + Cardinality(Changed(way))
        BY <1>2, <1>4, WayTypes
  <2> QED BY <2>2, <2>3
<1> QED BY <1>2, <1>3, <1>4

\* And one that keeps nothing for the last node of b.
LEMMA LastIsInserted ==
  ASSUME NEW m \in Nat, NEW n \in Nat \ {0}, NEW way
  PROVE  /\ way \in Ways(m, n - 1) => way \in Ways(m, n) /\ n \notin way.to
         /\ way \in Ways(m, n) /\ n \notin way.to => way \in Ways(m, n - 1)
         /\ way \in Ways(m, n - 1) => EditCost(m, n, way) = EditCost(m, n - 1, way) + 1
<1>1. \A x : x \in 1..(n - 1) <=> x \in 1..n /\ x # n OBVIOUS
<1>2. way \in Ways(m, n - 1) => way \in Ways(m, n) /\ n \notin way.to BY <1>1 DEF Ways
<1>3. way \in Ways(m, n) /\ n \notin way.to => way \in Ways(m, n - 1) BY <1>1 DEF Ways
<1>4. ASSUME way \in Ways(m, n - 1) PROVE EditCost(m, n, way) = EditCost(m, n - 1, way) + 1
  <2>1. n - 1 \in Nat OBVIOUS
  <2>2. /\ Cardinality(way.from) \in Nat /\ Cardinality(Changed(way)) \in Nat
        /\ EditCost(m, n - 1, way)
             = (m - Cardinality(way.from)) + (n - 1 - Cardinality(way.from)) + Cardinality(Changed(way))
        BY <1>4, <2>1, WayTypes
  <2>3. EditCost(m, n, way)
          = (m - Cardinality(way.from)) + (n - Cardinality(way.from)) + Cardinality(Changed(way))
        BY <1>2, <1>4, WayTypes
  <2> QED BY <2>2, <2>3
<1> QED BY <1>2, <1>3, <1>4

\* The place of a number among others does not count the greater ones.
LEMMA PlaceFacts ==
  ASSUME NEW last \in Nat \ {0}, NEW places, places \subseteq 1..last, last \in places
  PROVE  /\ Place(last, places) = Cardinality(places)
         /\ \A x \in places \ {last} : /\ Place(x, places) = Place(x, places \ {last})
                                       /\ Place(x, places) # Cardinality(places)
<1>1. IsFiniteSet(places)
  <2>1. IsFiniteSet(1..last) BY FS_Interval
  <2> QED BY <2>1, FS_Subset
<1>2. Place(last, places) = Cardinality(places)
  <2>1. ASSUME NEW y \in places PROVE y <= last
    <3>1. y \in 1..last OBVIOUS
    <3> QED BY <3>1
  <2>2. {y \in places : y <= last} = places BY <2>1
  <2> QED BY <2>2 DEF Place
<1>3. ASSUME NEW x \in places \ {last}
      PROVE  Place(x, places) = Place(x, places \ {last}) /\ Place(x, places) # Cardinality(places)
  <2> DEFINE lower == {y \in places : y <= x}
  <2>1. x \in 1..last /\ x < last OBVIOUS
  <2>2. lower = {y \in places \ {last} : y <= x} BY <2>1
  <2>3. lower \subseteq places /\ last \notin lower BY <2>1
  <2>4. Place(x, places) = Cardinality(lower) /\ Place(x, places \ {last}) = Cardinality(lower)
        BY <2>2 DEF Place
  <2>5. Cardinality(lower) # Cardinality(places) BY <1>1, <2>3, FS_Subset
  <2> QED BY <2>4, <2>5
<1> QED BY <1>2, <1>3

\* A way that keeps both last nodes keeps the one for the other.
LEMMA LastsAreKept ==
  ASSUME NEW m \in Nat \ {0}, NEW n \in Nat \ {0},
         NEW way \in Ways(m, n), m \in way.from, n \in way.to
  PROVE  /\ Without(way, m, n) \in Ways(m - 1, n - 1)
         /\ EditCost(m, n, way) = EditCost(m - 1, n - 1, Without(way, m, n)) + Cost(a[m], b[n])
<1> DEFINE less == Without(way, m, n)
           k == Cardinality(way.from)
<1>1. /\ way.from \subseteq 1..m /\ way.to \subseteq 1..n
      /\ IsFiniteSet(way.from) /\ IsFiniteSet(way.to) /\ Cardinality(way.to) = k /\ k \in Nat
      /\ IsFiniteSet(Changed(way)) /\ Cardinality(Changed(way)) \in Nat
      /\ EditCost(m, n, way) = (m - k) + (n - k) + Cardinality(Changed(way))
      BY WayTypes
<1>2. less.from = way.from \ {m} /\ less.to = way.to \ {n} BY DEF Without
<1>3. Cardinality(less.from) = k - 1 /\ Cardinality(less.to) = k - 1
  <2>1. Cardinality(way.from \ {m}) = Cardinality(way.from) - 1 BY <1>1, FS_RemoveElement
  <2>2. Cardinality(way.to \ {n}) = Cardinality(way.to) - 1 BY <1>1, FS_RemoveElement
  <2> QED BY <1>1, <1>2, <2>1, <2>2
<1>4. less \in Ways(m - 1, n - 1)
  <2>1. way.from \ {m} \subseteq 1..(m - 1) /\ way.to \ {n} \subseteq 1..(n - 1) BY <1>1
  <2> QED BY <1>2, <1>3, <2>1 DEF Ways, Without
<1>5. /\ Place(m, way.from) = k /\ Place(n, way.to) = k
      /\ \A x \in less.from : Place(x, way.from) = Place(x, less.from) /\ Place(x, way.from) # k
      /\ \A y \in less.to : Place(y, way.to) = Place(y, less.to) /\ Place(y, way.to) # k
      BY <1>1, <1>2, PlaceFacts
<1>6. way.from = less.from \cup {m} /\ way.to = less.to \cup {n} /\ m \notin less.from BY <1>2
<1> HIDE DEF less, k
<1>7. \A x \in way.from, y \in way.to :
        Place(x, way.from) = Place(y, way.to)
          <=> \/ x = m /\ y = n
              \/ x \in less.from /\ y \in less.to /\ Place(x, less.from) = Place(y, less.to)
      BY <1>5, <1>6
<1>8. \A p : p \in Kept(way) <=> p = <<m, n>> \/ p \in Kept(less)
      BY SMTT(40), <1>6, <1>7 DEF Kept
<1>9. <<m, n>> \notin Kept(less) BY <1>6 DEF Kept
<1>10. Cost(a[m], b[n]) \in {0, 1} BY DEF Cost
<1>11. m - 1 \in Nat /\ n - 1 \in Nat OBVIOUS
<1>12. /\ IsFiniteSet(Changed(less)) /\ Cardinality(Changed(less)) \in Nat
       /\ EditCost(m - 1, n - 1, less) = (m - 1 - (k - 1)) + (n - 1 - (k - 1)) + Cardinality(Changed(less))
       BY <1>3, <1>4, <1>11, WayTypes
<1>13. Cardinality(Changed(way)) = Cardinality(Changed(less)) + Cost(a[m], b[n])
  <2>1. \A p : p \in Changed(way) <=> p \in Kept(way) /\ Cost(a[p[1]], b[p[2]]) = 1 BY DEF Changed
  <2>2. \A p : p \in Changed(less) <=> p \in Kept(less) /\ Cost(a[p[1]], b[p[2]]) = 1 BY DEF Changed
  <2>3. CASE Cost(a[m], b[n]) = 1
    <3>1. Changed(way) = Changed(less) \cup {<<m, n>>} BY <1>8, <2>1, <2>2, <2>3
    <3>2. <<m, n>> \notin Changed(less) BY <1>9, <2>2
    <3> QED BY <1>12, <2>3, <3>1, <3>2, FS_AddElement
  <2>4. CASE Cost(a[m], b[n]) = 0
    <3>1. <<m, n>> \notin Changed(way) BY <2>1, <2>4
    <3>2. Changed(way) = Changed(less) BY <1>8, <2>1, <2>2, <3>1
    <3> QED BY <1>12, <2>4, <3>2
  <2> QED BY <1>10, <2>3, <2>4
<1>14. k \in Nat /\ EditCost(m, n, way) = (m - k) + (n - k) + Cardinality(Changed(way)) BY <1>1
<1>15. EditCost(m, n, way) = EditCost(m - 1, n - 1, less) + Cost(a[m], b[n])
       BY <1>10, <1>12, <1>13, <1>14
<1> QED BY <1>4, <1>15 DEF less

\* Any way for the sequences without their last nodes goes on to keep these.
LEMMA LastsMayBeKept ==
  ASSUME NEW m \in Nat \ {0}, NEW n \in Nat \ {0}, NEW way \in Ways(m - 1, n - 1)
  PROVE  /\ With(way, m, n) \in Ways(m, n) /\ m \in With(way, m, n).from /\ n \in With(way, m, n).to
         /\ Without(With(way, m, n), m, n) = way
<1>1. m - 1 \in Nat /\ n - 1 \in Nat OBVIOUS
<1>2. /\ way = [from |-> way.from, to |-> way.to]
      /\ way.from \subseteq 1..(m - 1) /\ way.to \subseteq 1..(n - 1)
      /\ IsFiniteSet(way.from) /\ IsFiniteSet(way.to)
      /\ Cardinality(way.to) = Cardinality(way.from)
      BY <1>1, WayTypes
<1>3. m \notin way.from /\ n \notin way.to BY <1>2
<1>4. Cardinality(way.from \cup {m}) = Cardinality(way.to \cup {n})
  <2>1. Cardinality(way.from \cup {m}) = Cardinality(way.from) + 1 BY <1>2, <1>3, FS_AddElement
  <2>2. Cardinality(way.to \cup {n}) = Cardinality(way.to) + 1 BY <1>2, <1>3, FS_AddElement
  <2> QED BY <1>2, <2>1, <2>2
<1>5. way.from \cup {m} \subseteq 1..m /\ way.to \cup {n} \subseteq 1..n BY <1>2
<1>6. With(way, m, n) \in Ways(m, n) BY <1>4, <1>5 DEF Ways, With
<1>7. (way.from \cup {m}) \ {m} = way.from /\ (way.to \cup {n}) \ {n} = way.to BY <1>3
<1>8. Without(With(way, m, n), m, n) = way BY <1>2, <1>7 DEF Without, With
<1> QED BY <1>6, <1>8 DEF With

(***************************************************************************)
(* The matrix.                                                             *)
(***************************************************************************)
Optimal(d, m, n) ==
  /\ d \in Nat
  /\ \E way \in Ways(m, n) : EditCost(m, n, way) = d
  /\ \A way \in Ways(m, n) : d <= EditCost(m, n, way)

\* The least cost of a way, in the words of the property.
LEMMA OptimalIsCheapest ==
  ASSUME NEW m \in Nat, NEW n \in Nat, NEW d, Optimal(d, m, n)
  PROVE  d = Cheapest(m, n, Ways(m, n))
<1> DEFINE costs == {EditCost(m, n, way) : way \in Ways(m, n)}
<1>1. d \in costs /\ \A c \in costs : d <= c BY DEF Optimal
<1>2. costs \in SUBSET Nat BY WayTypes
<1> HIDE DEF costs
<1>3. Least(costs) = d BY <1>1, <1>2, LeastIs
<1> QED BY <1>3 DEF Cheapest, costs

\* Nothing is kept of a sequence without nodes.
LEMMA EdgeIsOptimal ==
  ASSUME NEW m \in Nat, NEW n \in Nat, m = 0 \/ n = 0
  PROVE  Optimal(m + n, m, n)
<1>1. Nothing \in Ways(m, n) BY DEF Ways, Nothing
<1>2. ASSUME NEW way \in Ways(m, n) PROVE EditCost(m, n, way) = m + n
  <2>1. /\ way.from \subseteq 1..m /\ way.to \subseteq 1..n
        /\ IsFiniteSet(way.from) /\ IsFiniteSet(way.to)
        /\ Cardinality(way.to) = Cardinality(way.from)
        /\ EditCost(m, n, way) = (m - Cardinality(way.from)) + (n - Cardinality(way.from))
                                   + Cardinality(Changed(way))
        BY WayTypes
  <2>2. way.from = {} \/ way.to = {}
    <3>1. CASE m = 0 BY <2>1, <3>1
    <3>2. CASE n = 0 BY <2>1, <3>2
    <3> QED BY <3>1, <3>2
  <2>3. Cardinality(way.from) = 0 BY <2>1, <2>2, FS_EmptySet
  <2>4. Changed(way) = {} BY <2>2 DEF Changed, Kept
  <2>5. Cardinality(Changed(way)) = 0 BY <2>4, FS_EmptySet
  <2> QED BY <2>1, <2>3, <2>5
<1> QED BY <1>1, <1>2 DEF Optimal

\* The cheapest way is one for a shorter sequence and one edit, or one for both
\* shorter sequences and what it costs to keep the one last node for the other.
LEMMA OptimalStep ==
  ASSUME NEW m \in Nat \ {0}, NEW n \in Nat \ {0},
         NEW x, Optimal(x, m, n - 1), NEW y, Optimal(y, m - 1, n),
         NEW z, Optimal(z, m - 1, n - 1)
  PROVE  Optimal(Least({x + 1, y + 1, z + Cost(a[m], b[n])}), m, n)
<1> DEFINE cost == Cost(a[m], b[n])
           d == Least({x + 1, y + 1, z + cost})
<1>1. x \in Nat /\ y \in Nat /\ z \in Nat BY DEF Optimal
<1>2. cost \in {0, 1} BY DEF Cost
<1>3. /\ d \in {x + 1, y + 1, z + cost} /\ d \in Nat
      /\ d <= x + 1 /\ d <= y + 1 /\ d <= z + cost
      BY <1>1, <1>2, LeastOfThree
<1> HIDE DEF d, cost
<1>4. m - 1 \in Nat /\ n - 1 \in Nat OBVIOUS
<1>5. \E way \in Ways(m, n) : EditCost(m, n, way) = x + 1
  <2>1. PICK way \in Ways(m, n - 1) : EditCost(m, n - 1, way) = x BY DEF Optimal
  <2> QED BY <2>1, LastIsInserted
<1>6. \E way \in Ways(m, n) : EditCost(m, n, way) = y + 1
  <2>1. PICK way \in Ways(m - 1, n) : EditCost(m - 1, n, way) = y BY DEF Optimal
  <2> QED BY ZenonT(60), <2>1, LastIsRemoved
<1>7. \E way \in Ways(m, n) : EditCost(m, n, way) = z + cost
  <2>1. PICK way \in Ways(m - 1, n - 1) : EditCost(m - 1, n - 1, way) = z BY DEF Optimal
  <2> DEFINE more == With(way, m, n)
  <2>2. more \in Ways(m, n) /\ m \in more.from /\ n \in more.to /\ Without(more, m, n) = way
        BY LastsMayBeKept
  <2> HIDE DEF more
  <2>3. EditCost(m, n, more) = EditCost(m - 1, n - 1, Without(more, m, n)) + cost
        BY <2>2, LastsAreKept DEF cost
  <2> QED BY <2>1, <2>2, <2>3
<1>8. \E way \in Ways(m, n) : EditCost(m, n, way) = d BY <1>3, <1>5, <1>6, <1>7
<1>9. ASSUME NEW way \in Ways(m, n) PROVE d <= EditCost(m, n, way)
  <2>1. EditCost(m, n, way) \in Nat BY WayTypes
  <2>2. CASE n \notin way.to
    <3>1. way \in Ways(m, n - 1) /\ EditCost(m, n, way) = EditCost(m, n - 1, way) + 1
          BY <2>2, LastIsInserted
    <3>2. EditCost(m, n - 1, way) \in Nat BY <1>4, <3>1, WayTypes
    <3>3. x <= EditCost(m, n - 1, way) BY <3>1 DEF Optimal
    <3> QED BY <1>1, <1>3, <3>1, <3>2, <3>3
  <2>3. CASE m \notin way.from
    <3>1. way \in Ways(m - 1, n) /\ EditCost(m, n, way) = EditCost(m - 1, n, way) + 1
          BY <2>3, LastIsRemoved
    <3>2. EditCost(m - 1, n, way) \in Nat BY <1>4, <3>1, WayTypes
    <3>3. y <= EditCost(m - 1, n, way) BY <3>1 DEF Optimal
    <3> QED BY <1>1, <1>3, <3>1, <3>2, <3>3
  <2>4. CASE n \in way.to /\ m \in way.from
    <3> DEFINE less == Without(way, m, n)
    <3>1. less \in Ways(m - 1, n - 1) /\ EditCost(m, n, way) = EditCost(m - 1, n - 1, less) + cost
          BY <2>4, LastsAreKept DEF cost
    <3> HIDE DEF less
    <3>2. EditCost(m - 1, n - 1, less) \in Nat BY <1>4, <3>1, WayTypes
    <3>3. z <= EditCost(m - 1, n - 1, less) BY <3>1 DEF Optimal
    <3> QED BY <1>1, <1>2, <1>3, <3>1, <3>2, <3>3
  <2> QED BY <2>2, <2>3, <2>4
<1>10. Optimal(d, m, n) BY <1>3, <1>8, <1>9 DEF Optimal
<1> QED BY <1>10 DEF d, cost

\* What NextRow computes, from left to right.
LEMMA NextRowUnfolds ==
  ASSUME NEW r \in Nat, Len(b) \in Nat, NEW before \in [0..Len(b) -> Nat]
  PROVE  LET now == NextRow(r, before)
         IN  /\ now \in [0..Len(b) -> Nat] /\ now[0] = r
             /\ \A j \in 1..Len(b) :
                  now[j] = Least({now[j - 1] + 1, before[j] + 1, before[j - 1] + Cost(a[r], b[j])})
<1> DEFINE n == Len(b)
           Cell(j, left) == Least({left + 1, before[j] + 1, before[j - 1] + Cost(a[r], b[j])})
           Fits(f) == f = [j \in 0..n |-> IF j = 0 THEN r ELSE Cell(j, f[j - 1])]
           step == [p \in (1..n) \X Nat |-> Cell(p[1], p[2])]
<1>1. ASSUME NEW j \in 1..n, NEW left \in Nat PROVE Cell(j, left) \in Nat
  <2>1. before[j] \in Nat /\ before[j - 1] \in Nat /\ Cost(a[r], b[j]) \in Nat BY DEF Cost
  <2>2. left + 1 \in Nat /\ before[j] + 1 \in Nat /\ before[j - 1] + Cost(a[r], b[j]) \in Nat
        BY <2>1
  <2> QED BY <2>2, LeastOfThree
<1> HIDE DEF Cell
<1>2. step \in [(1..n) \X Nat -> Nat] BY <1>1
<1>3. \A j \in 1..n, left \in Nat : step[j, left] = Cell(j, left) OBVIOUS
<1> HIDE DEF step
<1>4. PICK f \in [0..n -> Nat] : Unfolds(f, r, step, n) BY <1>2, Recursion
<1>5. ASSUME NEW j \in 1..n PROVE f[j] = Cell(j, f[j - 1])
  <2>1. j - 1 \in 0..n OBVIOUS
  <2>2. f[j - 1] \in Nat BY <2>1
  <2> QED BY <1>3, <1>4, <2>2 DEF Unfolds
<1>6. Fits(f)
  <2>1. f = [j \in 0..n |-> f[j]] OBVIOUS
  <2>2. \A j \in 0..n : j = 0 \/ j \in 1..n OBVIOUS
  <2>3. \A j \in 0..n : f[j] = IF j = 0 THEN r ELSE Cell(j, f[j - 1]) BY <1>4, <1>5, <2>2 DEF Unfolds
  <2> QED BY <2>1, <2>3
<1> DEFINE now == NextRow(r, before)
<1>7. now = CHOOSE g : Fits(g) BY DEF NextRow, Cell
<1>8. Fits(now) BY <1>6, <1>7
<1> HIDE DEF now
<1>9. now[0] = r /\ \A j \in 1..n : now[j] = Cell(j, now[j - 1]) BY <1>8
<1>10. now = [j \in 0..n |-> now[j]] BY <1>8
<1>11. \A j \in 0..n : now[j] \in Nat
  <2> DEFINE H == {j \in 0..n : now[j] \in Nat}
  <2>1. 0 \in H BY <1>9
  <2>2. ASSUME NEW j \in 1..n, j - 1 \in H PROVE j \in H
    <3>1. now[j - 1] \in Nat /\ j \in 0..n BY <2>2
    <3> QED BY <1>1, <1>9, <3>1
  <2>3. H \in SUBSET (0..n) OBVIOUS
  <2> HIDE DEF H
  <2>4. H = 0..n BY <2>1, <2>2, <2>3, UpToBy
  <2> QED BY <2>4 DEF H
<1>12. now \in [0..n -> Nat] BY <1>10, <1>11
<1> QED BY <1>9, <1>12 DEF now, Cell

\* The row of the matrix that was computed last, with what the comparison reads.
OptimalInv ==
  /\ a \in Seq(Nodes) /\ b \in Seq(Nodes)
  /\ row \in 0..Len(a)
  /\ previous \in [0..Len(b) -> Nat]
  /\ \A j \in 0..Len(b) : Optimal(previous[j], row, j)

\* The sequences are all that a way is measured by.
LEMMA OptimalStays ==
  ASSUME UNCHANGED <<a, b>>
  PROVE  \A d, m, n : Optimal(d, m, n)' <=> Optimal(d, m, n)
<1> QED BY DEF Optimal, EditCost, Cost, CellClose, Starts, Begin

\* The first row.
LEMMA InitOptimalInv == Init => OptimalInv
<1> SUFFICES ASSUME Init PROVE OptimalInv
    OBVIOUS
<1>1. a \in Seq(Nodes) /\ b \in Seq(Nodes) BY ScoringAssumption DEF Init
<1>2. Len(a) \in Nat /\ Len(b) \in Nat BY <1>1
<1>3. row = 0 /\ previous = [j \in 0..Len(b) |-> j] BY DEF Init
<1>4. ASSUME NEW j \in 0..Len(b) PROVE Optimal(previous[j], row, j)
  <2>1. j \in Nat /\ 0 + j = j BY <1>2
  <2>2. Optimal(0 + j, 0, j) BY <2>1, EdgeIsOptimal
  <2> QED BY <1>3, <2>1, <2>2
<1> QED BY <1>1, <1>2, <1>3, <1>4 DEF OptimalInv

\* One more row, cell by cell.
LEMMA CompareRowOptimal == ASSUME OptimalInv, CompareRow PROVE OptimalInv'
<1> DEFINE r == row + 1
           now == NextRow(r, previous)
<1>1. /\ a \in Seq(Nodes) /\ b \in Seq(Nodes) /\ Len(a) \in Nat /\ Len(b) \in Nat
      /\ row \in Nat /\ row < Len(a) /\ row' = r /\ previous' = now
      /\ previous \in [0..Len(b) -> Nat] /\ UNCHANGED <<a, b>>
      /\ \A j \in 0..Len(b) : Optimal(previous[j], row, j)
      BY DEF OptimalInv, CompareRow
<1>2. r \in Nat \ {0} /\ r \in 0..Len(a) /\ r - 1 = row BY <1>1
<1>3. /\ now \in [0..Len(b) -> Nat] /\ now[0] = r
      /\ \A j \in 1..Len(b) :
           now[j] = Least({now[j - 1] + 1, previous[j] + 1, previous[j - 1] + Cost(a[r], b[j])})
      BY <1>1, <1>2, NextRowUnfolds
<1> HIDE DEF r, now
<1>4. \A j \in 0..Len(b) : Optimal(now[j], r, j)
  <2> DEFINE H == {j \in 0..Len(b) : Optimal(now[j], r, j)}
  <2>1. 0 \in H
    <3>1. Optimal(r + 0, r, 0) BY <1>2, EdgeIsOptimal
    <3>2. r + 0 = r /\ 0 \in 0..Len(b) BY <1>1, <1>2
    <3> QED BY <1>3, <3>1, <3>2
  <2>2. ASSUME NEW j \in 1..Len(b), j - 1 \in H PROVE j \in H
    <3>1. j \in Nat \ {0} /\ j \in 0..Len(b) /\ j - 1 \in 0..Len(b) OBVIOUS
    <3>2. Optimal(now[j - 1], r, j - 1) BY <2>2
    <3>3. Optimal(previous[j], r - 1, j) /\ Optimal(previous[j - 1], r - 1, j - 1)
          BY <1>1, <1>2, <3>1
    <3>4. Optimal(Least({now[j - 1] + 1, previous[j] + 1, previous[j - 1] + Cost(a[r], b[j])}), r, j)
          BY <1>2, <3>1, <3>2, <3>3, OptimalStep
    <3> QED BY <1>3, <3>1, <3>4
  <2>3. H \in SUBSET (0..Len(b)) OBVIOUS
  <2> HIDE DEF H
  <2>4. H = 0..Len(b) BY <1>1, <2>1, <2>2, <2>3, UpToBy
  <2> QED BY <2>4 DEF H
<1>5. \A d, m, n : Optimal(d, m, n)' <=> Optimal(d, m, n)
      BY <1>1, OptimalStays
<1> QED BY <1>1, <1>2, <1>3, <1>4, <1>5 DEF OptimalInv

\* No other step touches the matrix.
LEMMA NextOptimalInv == OptimalInv /\ [Next]_vars => OptimalInv'
<1> SUFFICES ASSUME OptimalInv, [Next]_vars PROVE OptimalInv'
    OBVIOUS
<1>1. CASE CompareRow BY <1>1, CompareRowOptimal
<1>2. CASE SplitLine \/ SplitEnd \/ Rank \/ UNCHANGED vars
  <2>1. UNCHANGED <<a, b, row, previous>>
        BY <1>2 DEF SplitLine, SplitEnd, Rank, vars
  <2>2. \A d, m, n : Optimal(d, m, n)' <=> Optimal(d, m, n) BY <2>1, OptimalStays
  <2> QED BY <2>1, <2>2 DEF OptimalInv
<1> QED BY <1>1, <1>2 DEF Next

\* What the invariant says of a row.
LEMMA OptimalInvHolds == OptimalInv => RowIsOptimal
<1> SUFFICES ASSUME OptimalInv, NEW j \in 0..Len(b)
             PROVE  previous[j] = Cheapest(row, j, Ways(row, j))
    BY DEF RowIsOptimal
<1>1. Len(a) \in Nat /\ Len(b) \in Nat /\ row \in Nat /\ j \in Nat BY DEF OptimalInv
<1> QED BY <1>1, OptimalIsCheapest DEF OptimalInv

\* levenshtein and _node_sequence_distance are edit distances: what they keep of
\* two rows is the cheapest of all the ways to edit one sequence into the other,
\* for sequences of any length.
THEOREM DistanceIsCheapest == Spec => []RowIsOptimal
<1> QED BY InitOptimalInv, NextOptimalInv, OptimalInvHolds, PTL DEF Spec

(***************************************************************************)
(* Types, and the ranks of output blocks.                                  *)
(***************************************************************************)
\* A gold block, joined, is a text.
LEMMA TextTypes ==
  ASSUME page \in Seq(Lines), NEW places \in Seq(1..Len(page))
  PROVE  TextOf(places) \in Texts
<1> DEFINE n == Len(places)
           Fits(f) == f = [k \in 0..n |-> IF k = 0 THEN <<>> ELSE Joined(f[k - 1], page[places[k]].text)]
           step == [p \in (1..n) \X Texts |-> Joined(p[2], page[places[p[1]]].text)]
<1>1. n \in Nat /\ <<>> \in Texts BY DEF Texts
<1>2. ASSUME NEW k \in 1..n, NEW above \in Texts PROVE Joined(above, page[places[k]].text) \in Texts
  <2>1. page[places[k]] \in Lines OBVIOUS
  <2>2. page[places[k]].text \in Texts BY <2>1 DEF Lines
  <2>3. <<Space>> \in Texts BY ScoringAssumption DEF Texts
  <2> QED BY <2>2, <2>3 DEF Joined, Texts
<1>3. step \in [(1..n) \X Texts -> Texts] BY <1>2
<1>4. \A k \in 1..n, above \in Texts : step[k, above] = Joined(above, page[places[k]].text) OBVIOUS
<1> HIDE DEF step
<1>5. PICK f \in [0..n -> Texts] : Unfolds(f, <<>>, step, n) BY <1>1, <1>3, Recursion
<1>6. ASSUME NEW k \in 1..n PROVE f[k] = Joined(f[k - 1], page[places[k]].text)
  <2>1. k - 1 \in 0..n BY <1>1
  <2>2. f[k - 1] \in Texts BY <2>1
  <2> QED BY <1>4, <1>5, <2>2 DEF Unfolds
<1>7. Fits(f)
  <2>1. f = [k \in 0..n |-> f[k]] OBVIOUS
  <2>2. \A k \in 0..n : k = 0 \/ k \in 1..n BY <1>1
  <2>3. \A k \in 0..n : f[k] = IF k = 0 THEN <<>> ELSE Joined(f[k - 1], page[places[k]].text)
        BY <1>5, <1>6, <2>2 DEF Unfolds
  <2> QED BY <2>1, <2>3
<1> DEFINE text == CHOOSE g : Fits(g)
<1>8. TextOf(places) = text[n] BY DEF TextOf
<1>9. Fits(text) BY <1>7
<1> HIDE DEF text
<1>10. text[0] = <<>> /\ \A k \in 1..n : text[k] = Joined(text[k - 1], page[places[k]].text)
  <2>1. \A k \in 0..n : text[k] = IF k = 0 THEN <<>> ELSE Joined(text[k - 1], page[places[k]].text)
        BY <1>9
  <2>2. 0 \in 0..n /\ \A k \in 1..n : k \in 0..n /\ k # 0 BY <1>1
  <2> QED BY <2>1, <2>2
<1> DEFINE H == {k \in 0..n : text[k] \in Texts}
<1>11. 0 \in H BY <1>1, <1>10
<1>12. ASSUME NEW k \in 1..n, k - 1 \in H PROVE k \in H
  <2>1. text[k - 1] \in Texts /\ k \in 0..n BY <1>1, <1>12
  <2> QED BY <1>2, <1>10, <2>1
<1>13. H \in SUBSET (0..n) /\ n \in 0..n BY <1>1
<1> HIDE DEF H
<1>14. H = 0..n BY <1>1, <1>11, <1>12, <1>13, UpToBy
<1> QED BY <1>8, <1>13, <1>14 DEF H

\* Of gold blocks that can be told apart, one is matched by its own text.
LEMMA OwnMatch ==
  ASSUME SplitInv, Told, NEW g \in 1..Len(golds), NEW text, IsAt(text, g)
  PROVE  Matching(text) = {g} /\ text # <<>>
<1>1. /\ page \in Seq(Lines) /\ golds \in Seq(Seq(1..Len(page))) /\ Match \in Nat \ {0}
      BY ScoringAssumption DEF SplitInv
<1>2. \A h \in 1..Len(golds) : TextOf(golds[h]) \in Seq(Chars) BY <1>1, TextTypes DEF Texts
<1>3. \A h \in 1..Len(golds) : Len(TextOf(golds[h])) >= Match BY DEF Told
<1>4. ASSUME NEW s \in Seq(Chars), Len(s) >= Match
      PROVE  Begin(s) = SubSeq(s, 1, Match) /\ Len(Begin(s)) = Match /\ s # <<>>
             /\ SubSeq(Begin(s), 1, Match) = SubSeq(s, 1, Match)
  <2>1. Len(s) \in Nat BY <1>4
  <2>2. Begin(s) = SubSeq(s, 1, Match) BY <1>1, <1>4, <2>1 DEF Begin
  <2>3. Len(Begin(s)) = Match BY <1>1, <1>4, <2>1, <2>2
  <2>4. SubSeq(SubSeq(s, 1, Match), 1, Match) = SubSeq(s, 1, Match) BY <1>1, <1>4, <2>1
  <2>5. s # <<>> BY <1>1, <1>4
  <2> QED BY <2>2, <2>3, <2>4, <2>5
<1>5. ASSUME NEW s \in Seq(Chars), Len(s) >= Match, NEW t \in Seq(Chars), Len(t) >= Match
      PROVE  Starts(s, t) <=> SubSeq(t, 1, Match) = SubSeq(s, 1, Match)
  <2>1. Len(Begin(t)) = Match /\ SubSeq(Begin(t), 1, Match) = SubSeq(t, 1, Match) BY <1>4, <1>5
  <2>2. Match <= Len(s) BY <1>1, <1>5
  <2> QED BY <2>1, <2>2 DEF Starts, IsPrefix
<1>6. text = TextOf(golds[g]) /\ text \in Seq(Chars) /\ Len(text) >= Match BY <1>2, <1>3 DEF IsAt
<1>7. ASSUME NEW h \in 1..Len(golds)
      PROVE  h \in Matching(text) <=> h = g
  <2> DEFINE gold == TextOf(golds[h])
  <2>1. gold \in Seq(Chars) /\ Len(gold) >= Match /\ gold # <<>> BY <1>2, <1>3, <1>4
  <2>2. h \in Matching(text) <=> Starts(text, gold) \/ Starts(gold, text) BY <2>1 DEF Matching
  <2>3. h \in Matching(text) <=> SubSeq(gold, 1, Match) = SubSeq(text, 1, Match)
        BY <1>5, <1>6, <2>1, <2>2
  <2>4. h # g => SubSeq(gold, 1, Match) # SubSeq(text, 1, Match) BY <1>6 DEF Told
  <2> QED BY <1>6, <2>3, <2>4
<1>8. Matching(text) \subseteq 1..Len(golds) BY DEF Matching
<1>9. text # <<>> BY <1>4, <1>6
<1> QED BY <1>7, <1>8, <1>9

\* Blocks are ranked once the page is split and the matrix is complete.
RankInv ==
  /\ SplitInv /\ OptimalInv
  /\ out \in Seq(Texts) /\ block \in 0..Len(out)
  /\ ranks \in Seq(1..Len(golds))
  /\ line <= Len(page) => block = 0 /\ ranks = <<>>
  /\ (Split /\ Told /\ Repeats) => ranks = [k \in 1..block |-> Repeated(k)]

\* Before the first line there is no rank.
LEMMA InitRankInv == Init => RankInv
<1> SUFFICES ASSUME Init PROVE RankInv
    OBVIOUS
<1>1. SplitInv /\ OptimalInv BY InitSplitInv, InitOptimalInv
<1>2. out \in Seq(Texts) BY ScoringAssumption DEF Init
<1>3. block = 0 /\ ranks = <<>> /\ line = 0 /\ block \in 0..Len(out) BY <1>2 DEF Init
<1>4. ~Split BY <1>1, <1>3 DEF SplitInv, Split
<1> QED BY <1>1, <1>2, <1>3, <1>4 DEF RankInv

\* What ranking reads stays as it is while the comparisons run.
LEMMA ScoredStays ==
  ASSUME UNCHANGED <<page, out, golds, line>>
  PROVE  /\ (Split' <=> Split) /\ (Told' <=> Told) /\ (Repeats' <=> Repeats)
         /\ \A k : Repeated(k)' = Repeated(k)
<1>1. \A places : TextOf(places)' = TextOf(places) BY DEF TextOf
<1>2. Split' <=> Split BY DEF Split
<1>3. Told' <=> Told BY <1>1 DEF Told
<1>4. Repeats' <=> Repeats BY <1>1 DEF Repeats, IsAt
<1>5. \A k : Repeated(k)' = Repeated(k) BY DEF Repeated, IsAt, TextOf
<1> QED BY <1>2, <1>3, <1>4, <1>5

\* One more output block.
LEMMA RankRankInv == ASSUME RankInv, Rank, SplitInv', OptimalInv' PROVE RankInv'
<1> DEFINE text == out[block + 1]
           found == Matching(text)
<1>1. /\ Split /\ block < Len(out) /\ block' = block + 1
      /\ ranks' = IF text = <<>> \/ found = {} THEN ranks ELSE Append(ranks, Least(found))
      /\ UNCHANGED <<page, out, golds, line>>
      BY DEF Rank, Compared, pageVars
<1>2. /\ out \in Seq(Texts) /\ Len(out) \in Nat /\ block \in Nat /\ ranks \in Seq(1..Len(golds))
      /\ SplitInv /\ golds \in Seq(Seq(1..Len(page))) /\ Len(golds) \in Nat
      BY SMTT(40) DEF RankInv, SplitInv
<1>3. found \subseteq 1..Len(golds) BY DEF Matching
<1> HIDE DEF text, found
<1>4. found # {} => Least(found) \in found
  <2>1. SUFFICES ASSUME found # {} PROVE Least(found) \in found OBVIOUS
  <2>2. found \in SUBSET Nat BY <1>2, <1>3
  <2>3. \E x \in found : \A y \in found : x <= y BY <2>1, <2>2, LeastNumber
  <2> QED BY <2>3 DEF Least
<1>5. ranks' \in Seq(1..Len(golds))
  <2>1. CASE text = <<>> \/ found = {} BY <1>1, <1>2, <2>1
  <2>2. CASE ~(text = <<>> \/ found = {})
    <3>1. ranks' = Append(ranks, Least(found)) /\ Least(found) \in 1..Len(golds)
          BY <1>1, <1>3, <1>4, <2>2
    <3> QED BY <1>2, <3>1
  <2> QED BY <2>1, <2>2
<1>6. ~(line' <= Len(page')) BY <1>1, <1>2 DEF SplitInv, Split
<1>7. /\ (Split' <=> Split) /\ (Told' <=> Told) /\ (Repeats' <=> Repeats)
      /\ \A k : Repeated(k)' = Repeated(k)
      BY <1>1, ScoredStays
<1>8. ASSUME Told, Repeats PROVE ranks' = [k \in 1..(block + 1) |-> Repeated(k)]
  <2>1. ranks = [k \in 1..block |-> Repeated(k)] BY <1>1, <1>8 DEF RankInv
  <2>2. block + 1 \in 1..Len(out) BY <1>1, <1>2
  <2>3. Repeated(block + 1) \in 1..Len(golds) /\ IsAt(text, Repeated(block + 1))
        BY <1>8, <2>2 DEF Repeats, Repeated, text
  <2>4. found = {Repeated(block + 1)} /\ text # <<>> BY <1>2, <1>8, <2>3, OwnMatch DEF found
  <2>5. Least(found) = Repeated(block + 1) BY <1>4, <2>4
  <2>6. ranks' = Append(ranks, Repeated(block + 1)) BY <1>1, <2>4, <2>5
  <2>7. Len(ranks) = block BY <1>2, <2>1
  <2>8. Len(ranks') = block + 1 /\ ranks' \in Seq(1..Len(golds))
        /\ \A k \in 1..(block + 1) : ranks'[k] = IF k = block + 1 THEN Repeated(k) ELSE ranks[k]
        BY <1>2, <2>3, <2>6, <2>7
  <2>9. \A k \in 1..(block + 1) : ranks'[k] = Repeated(k)
    <3>1. \A k \in 1..(block + 1) : k # block + 1 => k \in 1..block BY <1>2
    <3> QED BY <2>1, <2>8, <3>1
  <2>10. ranks' = [k \in 1..(block + 1) |-> ranks'[k]] BY <2>8
  <2> QED BY <2>9, <2>10
<1>9. out' \in Seq(Texts) /\ block' \in 0..Len(out') /\ ranks' \in Seq(1..Len(golds'))
      BY <1>1, <1>2, <1>5
<1>10. (Split' /\ Told' /\ Repeats') => ranks' = [k \in 1..block' |-> Repeated(k)']
  <2>1. SUFFICES ASSUME Told, Repeats PROVE ranks' = [k \in 1..block' |-> Repeated(k)']
        BY <1>7
  <2> QED BY <1>1, <1>7, <1>8, <2>1
<1> QED BY <1>6, <1>9, <1>10 DEF RankInv

\* Every step of the score.
LEMMA NextRankInv == RankInv /\ [Next]_vars => RankInv'
<1> SUFFICES ASSUME RankInv, [Next]_vars PROVE RankInv'
    OBVIOUS
<1>1. SplitInv' /\ OptimalInv' BY NextSplitInv, NextOptimalInv DEF RankInv
<1>2. CASE Rank BY <1>1, <1>2, RankRankInv
<1>3. CASE SplitLine \/ SplitEnd
  <2>1. line <= Len(page) /\ UNCHANGED <<page, out, block, ranks>> /\ block = 0 /\ ranks = <<>>
        BY <1>3 DEF SplitLine, SplitEnd, RankInv, SplitInv
  <2>2. out' \in Seq(Texts) /\ block' \in 0..Len(out') /\ ranks' \in Seq(1..Len(golds'))
        BY <2>1 DEF RankInv
  <2>3. ranks' = [k \in 1..block' |-> Repeated(k)'] BY <2>1
  <2> QED BY <1>1, <2>1, <2>2, <2>3 DEF RankInv
<1>4. CASE CompareRow \/ UNCHANGED vars
  <2>1. UNCHANGED <<page, out, golds, line, block, ranks>>
        BY <1>4 DEF CompareRow, vars, pageVars
  <2>2. /\ (Split' <=> Split) /\ (Told' <=> Told) /\ (Repeats' <=> Repeats)
        /\ \A k : Repeated(k)' = Repeated(k)
        BY <2>1, ScoredStays
  <2>3. (Split' /\ Told' /\ Repeats') => ranks' = [k \in 1..block' |-> Repeated(k)']
    <3>1. (Split /\ Told /\ Repeats) => ranks = [k \in 1..block |-> Repeated(k)] BY DEF RankInv
    <3>2. [k \in 1..block |-> Repeated(k)] = [k \in 1..block' |-> Repeated(k)'] BY <2>1, <2>2
    <3> QED BY <2>1, <2>2, <3>1, <3>2
  <2>4. /\ out' \in Seq(Texts) /\ block' \in 0..Len(out') /\ ranks' \in Seq(1..Len(golds'))
        /\ line' <= Len(page') => block' = 0 /\ ranks' = <<>>
        BY <2>1 DEF RankInv
  <2> QED BY <1>1, <2>3, <2>4 DEF RankInv
<1> QED BY <1>2, <1>3, <1>4 DEF Next

\* The invariant holds the types.
LEMMA RankInvTypes == RankInv => TypeOK
<1> QED BY DEF RankInv, SplitInv, OptimalInv, TypeOK

\* The variables keep their types for any page, sequences and blocks.
THEOREM ScoringTypes == Spec => []TypeOK
<1> QED BY InitRankInv, NextRankInv, RankInvTypes, PTL DEF Spec

\* Pairs of ranks are tied or on one side.
LEMMA PairsAdd ==
  ASSUME NEW rs, Len(rs) \in Nat, \A k \in 1..Len(rs) : rs[k] \in Nat
  PROVE  Cardinality(Concordant(rs)) + Cardinality(Discordant(rs))
           = Cardinality({p \in Pairs(rs) : rs[p[1]] # rs[p[2]]})
<1> DEFINE up == Concordant(rs)
           down == Discordant(rs)
<1>1. IsFiniteSet(Pairs(rs))
  <2>1. IsFiniteSet(1..Len(rs)) BY FS_Interval
  <2>2. IsFiniteSet((1..Len(rs)) \X (1..Len(rs))) BY <2>1, FS_Product
  <2>3. Pairs(rs) \subseteq (1..Len(rs)) \X (1..Len(rs)) BY DEF Pairs
  <2> QED BY <2>2, <2>3, FS_Subset
<1>2. up \subseteq Pairs(rs) /\ down \subseteq Pairs(rs) BY DEF Concordant, Discordant
<1>3. IsFiniteSet(up) /\ IsFiniteSet(down) BY <1>1, <1>2, FS_Subset
<1>4. \A p \in Pairs(rs) : rs[p[1]] \in Nat /\ rs[p[2]] \in Nat BY DEF Pairs
<1>5. up \cap down = {} BY <1>4 DEF Concordant, Discordant
<1>6. up \cup down = {p \in Pairs(rs) : rs[p[1]] # rs[p[2]]}
      BY <1>4 DEF Concordant, Discordant
<1> HIDE DEF up, down
<1>7. Cardinality(up \cup down) = Cardinality(up) + Cardinality(down) - Cardinality(up \cap down)
      BY <1>3, FS_Union
<1>8. Cardinality(up \cap down) = 0 BY <1>5, FS_EmptySet
<1>9. Cardinality(up) \in Nat /\ Cardinality(down) \in Nat BY <1>3, FS_CardinalityType
<1>10. Cardinality(up \cup down) = Cardinality(up) + Cardinality(down) BY <1>7, <1>8, <1>9
<1> QED BY <1>6, <1>10 DEF up, down

\* When all blocks are ranked the pairs are those of the places they repeat.
LEMMA RankInvMeasures == RankInv => OrderIsMeasured
<1> DEFINE places == [k \in 1..Len(out) |-> Repeated(k)]
<1> SUFFICES ASSUME RankInv, Compared, block = Len(out), Told, Repeats
             PROVE  Order = <<Cardinality({p \in Pairs(places) : places[p[1]] < places[p[2]]})
                                - Cardinality({p \in Pairs(places) : places[p[1]] > places[p[2]]}),
                              Cardinality({p \in Pairs(places) : places[p[1]] # places[p[2]]})>>
    BY DEF OrderIsMeasured
<1>1. ranks = places /\ ranks \in Seq(1..Len(golds)) BY DEF RankInv, Compared
<1> HIDE DEF places
<1>2. Len(ranks) \in Nat /\ \A k \in 1..Len(ranks) : ranks[k] \in Nat
  <2>1. Len(golds) \in Nat BY DEF RankInv, SplitInv
  <2> QED BY <1>1, <2>1
<1>3. Cardinality(Concordant(ranks)) + Cardinality(Discordant(ranks))
        = Cardinality({p \in Pairs(ranks) : ranks[p[1]] # ranks[p[2]]})
      BY <1>2, PairsAdd
<1> QED BY <1>1, <1>3 DEF Order, Concordant, Discordant

\* reading_order_score measures what it says: blocks that repeat gold blocks with
\* a beginning of their own are ranked as these, and every pair of them counts on
\* its side, for any page and any number of blocks.
THEOREM OrderIsFair == Spec => []OrderIsMeasured
<1> QED BY InitRankInv, NextRankInv, RankInvMeasures, PTL DEF Spec
=============================================================================
