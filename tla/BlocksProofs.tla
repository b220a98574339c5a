---------------------------- MODULE BlocksProofs ----------------------------
(***************************************************************************)
(* Proofs about the converters and the cleaning arms, for documents of any *)
(* number of pages, things and lines.                                      *)
(***************************************************************************)
EXTENDS Blocks, FiniteSetTheorems, WellFoundedInduction, TLAPS

(***************************************************************************)
(* Numbers.                                                                *)
(***************************************************************************)

\* Every set of numbers has a least one.
LEMMA LeastNumber ==
  ASSUME NEW T \in SUBSET Nat, T # {}
  PROVE  \E x \in T : \A y \in T : x <= y
<1> DEFINE R == {p \in Nat \X Nat : p[1] < p[2]}
<1>1. R = OpToRel(<, Nat) BY DEF OpToRel
<1>2. IsWellFoundedOn(R, Nat) BY <1>1, NatLessThanWellFounded
<1> HIDE DEF R
<1>3. PICK x \in T : \A y \in T : ~(<<y, x>> \in R) BY <1>2, WFMin
<1>4. ASSUME NEW y \in T PROVE x <= y
  <2>1. ~(<<y, x>> \in R) BY <1>3
  <2>2. <<y, x>> \in Nat \X Nat OBVIOUS
  <2>3. ~(y < x) BY <2>1, <2>2 DEF R
  <2> QED BY <2>3
<1> QED BY <1>4

\* What holds of 0 and is handed on to the next number holds up to n.
LEMMA UpToBy ==
  ASSUME NEW n \in Nat, NEW H \in SUBSET (0..n), 0 \in H,
         \A j \in 1..n : j - 1 \in H => j \in H
  PROVE  H = 0..n
<1> DEFINE T == {j \in 0..n : j \notin H}
<1>1. SUFFICES ASSUME T # {} PROVE FALSE OBVIOUS
<1>2. T \in SUBSET Nat OBVIOUS
<1>3. PICK x \in T : \A y \in T : x <= y BY <1>1, <1>2, LeastNumber
<1>4. x \in 1..n /\ x - 1 \in 0..n /\ x - 1 < x OBVIOUS
<1>5. x - 1 \notin T BY <1>3, <1>4
<1>6. x - 1 \in H BY <1>4, <1>5
<1> QED BY <1>4, <1>6

\* A set of places has a first one and a last one.
LEMMA FirstLast ==
  ASSUME NEW n \in Nat, NEW S \in SUBSET (1..n), S # {}
  PROVE  /\ First(S) \in S /\ \A j \in S : First(S) <= j
         /\ Last(S) \in S /\ \A j \in S : j <= Last(S)
<1>1. \E i \in S : \A j \in S : i <= j
  <2>1. S \in SUBSET Nat OBVIOUS
  <2> QED BY <2>1, LeastNumber
<1>2. \E i \in S : \A j \in S : j <= i
  <2> DEFINE T == {n - i : i \in S}
  <2>1. T \in SUBSET Nat /\ T # {}
    <3>1. \A i \in S : n - i \in Nat OBVIOUS
    <3>2. T \in SUBSET Nat BY <3>1
    <3>3. PICK i \in S : TRUE OBVIOUS
    <3>4. n - i \in T BY <3>3
    <3> QED BY <3>2, <3>4
  <2>2. PICK x \in T : \A y \in T : x <= y BY <2>1, LeastNumber
  <2>3. PICK i \in S : x = n - i OBVIOUS
  <2>4. ASSUME NEW j \in S PROVE j <= i
    <3>1. n - j \in T OBVIOUS
    <3>2. n - i <= n - j BY <2>2, <2>3, <3>1
    <3>3. i \in Nat /\ j \in Nat OBVIOUS
    <3> QED BY <3>2, <3>3
  <2> QED BY <2>4
<1> QED BY <1>1, <1>2 DEF First, Last

(***************************************************************************)
(* Sequences that a function of numbers builds, each from the one before.  *)
(***************************************************************************)

\* One more element, or several.
LEMMA AppendFacts ==
  ASSUME NEW S, NEW s \in Seq(S), NEW e \in S
  PROVE  /\ Append(s, e) \in Seq(S) /\ Len(s) \in Nat /\ Len(Append(s, e)) = Len(s) + 1
         /\ Append(s, e)[Len(s) + 1] = e
         /\ \A i \in 1..Len(s) : Append(s, e)[i] = s[i]
OBVIOUS

LEMMA ConcatFacts ==
  ASSUME NEW S, NEW s \in Seq(S), NEW t \in Seq(S)
  PROVE  /\ s \o t \in Seq(S) /\ Len(s) \in Nat /\ Len(t) \in Nat /\ Len(s \o t) = Len(s) + Len(t)
         /\ \A i \in 1..Len(s) : (s \o t)[i] = s[i]
         /\ \A i \in 1..Len(t) : (s \o t)[Len(s) + i] = t[i]
OBVIOUS

\* There is a function whose values a step makes, one of the other.
Stepwise(f, n, base, step) ==
  f[0] = base /\ \A k \in 1..n : f[k] = step[<<k, f[k - 1]>>]
LEMMA StepwiseExists ==
  ASSUME NEW n \in Nat, NEW X, NEW base \in X, NEW step \in [(1..n) \X X -> X]
  PROVE  \E f \in [0..n -> X] : Stepwise(f, n, base, step)
<1> DEFINE Upto(f, m) == /\ f \in [0..n -> X] /\ f[0] = base
                         /\ \A j \in 1..m : f[j] = step[<<j, f[j - 1]>>]
           H == {m \in 0..n : \E f : Upto(f, m)}
<1>1. 0 \in H
  <2>1. Upto([j \in 0..n |-> base], 0) /\ 0 \in 0..n OBVIOUS
  <2> HIDE DEF Upto
  <2> QED BY <2>1
<1>2. ASSUME NEW m \in 1..n, m - 1 \in H PROVE m \in H
  <2>1. PICK f : Upto(f, m - 1) BY <1>2
  <2>2. m \in 0..n /\ m - 1 \in 0..n /\ 0 \in 0..n /\ 0 # m OBVIOUS
  <2> DEFINE one == step[<<m, f[m - 1]>>]
             g == [f EXCEPT ![m] = one]
  <2>3. one \in X
    <3>1. f[m - 1] \in X BY <2>1, <2>2
    <3> QED BY <3>1
  <2> HIDE DEF one
  <2>4. g \in [0..n -> X] /\ g[m] = one /\ \A j \in 0..n : j # m => g[j] = f[j]
        BY <2>1, <2>2, <2>3
  <2> HIDE DEF g
  <2>5. g[0] = base BY <2>1, <2>2, <2>4
  <2>6. ASSUME NEW j \in 1..m PROVE g[j] = step[<<j, g[j - 1]>>]
    <3>1. j - 1 \in 0..n /\ j - 1 # m /\ j \in 0..n OBVIOUS
    <3>2. g[j - 1] = f[j - 1] BY <2>4, <3>1
    <3>3. CASE j = m BY <2>4, <3>2, <3>3 DEF one
    <3>4. CASE j # m
      <4>1. j \in 1..(m - 1) BY <3>4
      <4> QED BY <2>1, <2>4, <3>1, <3>2, <3>4, <4>1
    <3> QED BY <3>3, <3>4
  <2>7. Upto(g, m) BY <2>4, <2>5, <2>6
  <2> HIDE DEF Upto
  <2> QED BY <2>2, <2>7
<1>3. \E f : Upto(f, n)
  <2> HIDE DEF Upto
  <2>1. H \in SUBSET (0..n) /\ n \in 0..n OBVIOUS
  <2> HIDE DEF H
  <2>2. n \in H BY <1>1, <1>2, <2>1, UpToBy
  <2> QED BY <2>2 DEF H
<1> QED BY <1>3 DEF Stepwise

\* The places of a set, in order: each once, and none that is not in it.
Ordered(at, S, n) ==
  /\ at \in Seq(1..n)
  /\ \A i \in 1..Len(at) : at[i] \in S
  /\ \A i, j \in 1..Len(at) : i < j => at[i] < at[j]
  /\ \A k \in 1..n : k \in S => \E i \in 1..Len(at) : at[i] = k
OrderSteps(f, S, n) ==
  /\ InOrder(S, n) = f[n]
  /\ f[0] = <<>>
  /\ \A k \in 1..n : f[k] = IF k \in S THEN Append(f[k - 1], k) ELSE f[k - 1]
LEMMA OrderUnfolds ==
  ASSUME NEW n \in Nat, NEW S
  PROVE  \E f \in [0..n -> Seq(1..n)] : OrderSteps(f, S, n)
<1> DEFINE X == Seq(1..n)
           step == [p \in (1..n) \X X |-> IF p[1] \in S THEN Append(p[2], p[1]) ELSE p[2]]
           Is(f) == f = [k \in 0..n |->
                      IF k = 0 THEN <<>>
                      ELSE IF k \in S THEN Append(f[k - 1], k) ELSE f[k - 1]]
<1>1. \A k \in 1..n, s \in X : Append(s, k) \in X BY AppendFacts
<1>2. <<>> \in X OBVIOUS
<1> HIDE DEF X
<1>3. step \in [(1..n) \X X -> X] /\ \A k \in 1..n, s \in X :
        step[<<k, s>>] = IF k \in S THEN Append(s, k) ELSE s
      BY <1>1
<1> HIDE DEF step
<1>4. PICK f \in [0..n -> X] : Stepwise(f, n, <<>>, step) BY <1>2, <1>3, StepwiseExists
<1>5. Is(f)
  <2>1. \A k \in 1..n : k - 1 \in 0..n /\ k \in 0..n /\ k # 0 OBVIOUS
  <2>2. \A k \in 0..n : k = 0 \/ k \in 1..n OBVIOUS
  <2>3. \A k \in 1..n : f[k - 1] \in X BY <2>1
  <2>4. \A k \in 0..n : f[k] = IF k = 0 THEN <<>>
                               ELSE IF k \in S THEN Append(f[k - 1], k) ELSE f[k - 1]
        BY <1>3, <1>4, <2>2, <2>3 DEF Stepwise
  <2>5. f = [k \in 0..n |-> f[k]] OBVIOUS
  <2> QED BY <2>4, <2>5
<1> DEFINE g == CHOOSE h : Is(h)
<1>6. Is(g) BY <1>5
<1>7. InOrder(S, n) = g[n] BY DEF InOrder
<1> HIDE DEF g
<1>8. /\ g = [k \in 0..n |-> g[k]] /\ g[0] = <<>> /\ 0 \in 0..n
      /\ \A k \in 1..n : g[k] = IF k \in S THEN Append(g[k - 1], k) ELSE g[k - 1]
  <2>1. 0 \in 0..n OBVIOUS
  <2>2. g[0] = <<>> BY <1>6, <2>1
  <2>3. ASSUME NEW k \in 1..n PROVE g[k] = IF k \in S THEN Append(g[k - 1], k) ELSE g[k - 1]
    <3>1. k \in 0..n /\ k # 0 OBVIOUS
    <3> QED BY <1>6, <3>1
  <2>4. g = [k \in 0..n |-> g[k]] BY <1>6
  <2> QED BY <2>1, <2>2, <2>3, <2>4
<1>9. \A k \in 0..n : g[k] \in X
  <2> DEFINE N == {k \in 0..n : g[k] \in X}
  <2>1. 0 \in N BY <1>2, <1>8
  <2>2. ASSUME NEW k \in 1..n, k - 1 \in N PROVE k \in N
    <3>1. g[k - 1] \in X /\ k \in 0..n BY <2>2
    <3>2. g[k] \in X BY <1>1, <1>8, <3>1
    <3> QED BY <3>1, <3>2
  <2>3. N \in SUBSET (0..n) OBVIOUS
  <2> HIDE DEF N
  <2>4. N = 0..n BY <2>1, <2>2, <2>3, UpToBy
  <2> QED BY <2>4 DEF N
<1>10. g \in [0..n -> X] BY <1>8, <1>9
<1>11. OrderSteps(g, S, n) BY <1>7, <1>8 DEF OrderSteps
<1> QED BY <1>10, <1>11 DEF X

LEMMA OrderFacts ==
  ASSUME NEW n \in Nat, NEW S
  PROVE  Ordered(InOrder(S, n), S, n)
<1>0. PICK f \in [0..n -> Seq(1..n)] : OrderSteps(f, S, n) BY OrderUnfolds
<1>1. /\ InOrder(S, n) = f[n]
      /\ f[0] = <<>>
      /\ \A k \in 1..n : f[k] = IF k \in S THEN Append(f[k - 1], k) ELSE f[k - 1]
      BY <1>0 DEF OrderSteps
<1> DEFINE Up(at, m) ==
             /\ at \in Seq(1..n)
             /\ \A i \in 1..Len(at) : at[i] \in S /\ at[i] <= m
             /\ \A i, j \in 1..Len(at) : i < j => at[i] < at[j]
             /\ \A k \in 1..m : k \in S => \E i \in 1..Len(at) : at[i] = k
           H == {m \in 0..n : Up(f[m], m)}
<1>2. 0 \in H BY <1>1
<1>3. ASSUME NEW m \in 1..n, m - 1 \in H PROVE m \in H
  <2> DEFINE old == f[m - 1]
             new == f[m]
  <2>1. Up(old, m - 1) BY <1>3
  <2>2. new = IF m \in S THEN Append(old, m) ELSE old BY <1>1
  <2> HIDE DEF old, new
  <2>3. \A k \in 1..m : k = m \/ k \in 1..(m - 1) OBVIOUS
  <2>4. CASE m \notin S
    <3>1. new = old BY <2>2, <2>4
    <3>2. Len(old) \in Nat /\ \A i \in 1..Len(old) : old[i] \in 1..n BY SMTT(40), <2>1
    <3>3. \A i \in 1..Len(old) : old[i] <= m BY SMTT(40), <2>1, <3>2
    <3>4. \A k \in 1..m : k \in S => \E i \in 1..Len(old) : old[i] = k BY <2>1, <2>3, <2>4
    <3>5. Up(new, m) BY <2>1, <3>1, <3>3, <3>4
    <3> QED BY <3>5 DEF new
  <2>5. CASE m \in S
    <3>1. new = Append(old, m) BY <2>2, <2>5
    <3>2. /\ new \in Seq(1..n) /\ Len(old) \in Nat /\ Len(new) = Len(old) + 1
          /\ new[Len(old) + 1] = m /\ \A i \in 1..Len(old) : new[i] = old[i]
          BY <2>1, <3>1, AppendFacts
    <3>3. \A i \in 1..Len(old) : old[i] \in S /\ old[i] <= m - 1 /\ old[i] \in Nat
      <4>1. \A i \in 1..Len(old) : old[i] \in Nat BY SMTT(40), <2>1
      <4>2. \A i \in 1..Len(old) : old[i] \in S BY <2>1
      <4>3. \A i \in 1..Len(old) : old[i] <= m - 1 BY <2>1
      <4> QED BY <4>1, <4>2, <4>3
    <3>4. \A i \in 1..Len(new) : i = Len(new) \/ i \in 1..Len(old) BY <3>2
    <3>5. \A i \in 1..Len(new) : new[i] \in S /\ new[i] <= m
      <4>1. ASSUME NEW i \in 1..Len(new) PROVE new[i] \in S /\ new[i] <= m
        <5>1. CASE i = Len(new) BY <2>5, <3>2, <5>1
        <5>2. CASE i \in 1..Len(old)
          <6>1. new[i] = old[i] /\ old[i] \in S /\ old[i] <= m - 1 /\ old[i] \in Nat
                BY <3>2, <3>3, <5>2
          <6> QED BY <6>1
        <5> QED BY <3>4, <5>1, <5>2
      <4> QED BY <4>1
    <3>6. ASSUME NEW i \in 1..Len(new), NEW j \in 1..Len(new), i < j PROVE new[i] < new[j]
      <4>1. i \in 1..Len(old) BY <3>2, <3>6
      <4>2. new[i] = old[i] /\ old[i] <= m - 1 /\ old[i] \in Nat BY <3>2, <3>3, <4>1
      <4>3. CASE j = Len(new)
        <5>1. new[j] = m BY <3>2, <4>3
        <5> QED BY <4>2, <5>1
      <4>4. CASE j \in 1..Len(old)
        <5>1. new[j] = old[j] BY <3>2, <4>4
        <5>2. old[i] < old[j] BY <2>1, <3>6, <4>1, <4>4
        <5> QED BY <4>2, <5>1, <5>2
      <4> QED BY <3>4, <4>3, <4>4
    <3>7. ASSUME NEW k \in 1..m, k \in S PROVE \E i \in 1..Len(new) : new[i] = k
      <4>1. Len(new) \in 1..Len(new) /\ \A i \in 1..Len(old) : i \in 1..Len(new) BY <3>2
      <4>2. CASE k = m BY <3>2, <4>1, <4>2
      <4>3. CASE k \in 1..(m - 1)
        <5>1. PICK i \in 1..Len(old) : old[i] = k BY <2>1, <3>7, <4>3
        <5> QED BY <3>2, <4>1, <5>1
      <4> QED BY <2>3, <4>2, <4>3
    <3>8. Up(new, m) BY <3>2, <3>5, <3>6, <3>7
    <3> QED BY <3>8 DEF new
  <2> QED BY <2>4, <2>5
<1>4. Up(f[n], n)
  <2> HIDE DEF Up
  <2>1. H \in SUBSET (0..n) /\ n \in 0..n OBVIOUS
  <2> HIDE DEF H
  <2>2. n \in H BY <1>2, <1>3, <2>1, UpToBy
  <2> QED BY <2>2 DEF H
<1> QED BY <1>1, <1>4 DEF Ordered

(***************************************************************************)
(* Several sequences in a row: every element is of one of them, and they   *)
(* come in order.                                                          *)
(***************************************************************************)

Parts(seqs, T) == Len(seqs) \in Nat /\ \A k \in 1..Len(seqs) : seqs[k] \in Seq(T)
RowSteps(f, seqs) ==
  /\ Concat(seqs) = f[Len(seqs)]
  /\ f[0] = <<>>
  /\ \A k \in 1..Len(seqs) : f[k] = f[k - 1] \o seqs[k]
LEMMA RowUnfolds ==
  ASSUME NEW T, NEW seqs, Parts(seqs, T)
  PROVE  \E f \in [0..Len(seqs) -> Seq(T)] : RowSteps(f, seqs)
<1> DEFINE n == Len(seqs)
           X == Seq(T)
           step == [p \in (1..n) \X X |-> p[2] \o seqs[p[1]]]
           Is(f) == f = [k \in 0..n |-> IF k = 0 THEN <<>> ELSE f[k - 1] \o seqs[k]]
<1>0. n \in Nat BY DEF Parts
<1>1. \A k \in 1..n, s \in X : s \o seqs[k] \in X
  <2>1. \A k \in 1..n : seqs[k] \in Seq(T) BY DEF Parts
  <2> QED BY <2>1, ConcatFacts
<1>2. <<>> \in X OBVIOUS
<1> HIDE DEF X, n
<1>3. step \in [(1..n) \X X -> X] /\ \A k \in 1..n, s \in X : step[<<k, s>>] = s \o seqs[k]
      BY <1>1
<1> HIDE DEF step
<1>4. PICK f \in [0..n -> X] : Stepwise(f, n, <<>>, step) BY <1>0, <1>2, <1>3, StepwiseExists
<1>5. Is(f)
  <2>1. \A k \in 1..n : k - 1 \in 0..n /\ k \in 0..n /\ k # 0 BY <1>0
  <2>2. \A k \in 0..n : k = 0 \/ k \in 1..n BY <1>0
  <2>3. \A k \in 1..n : f[k - 1] \in X BY <2>1
  <2>4. \A k \in 0..n : f[k] = IF k = 0 THEN <<>> ELSE f[k - 1] \o seqs[k]
        BY <1>3, <1>4, <2>2, <2>3 DEF Stepwise
  <2>5. f = [k \in 0..n |-> f[k]] OBVIOUS
  <2> QED BY <2>4, <2>5
<1> DEFINE g == CHOOSE h : Is(h)
<1>6. Is(g) BY <1>5
<1>7. Concat(seqs) = g[n] BY DEF Concat, n
<1> HIDE DEF g
<1>8. /\ g = [k \in 0..n |-> g[k]] /\ g[0] = <<>> /\ 0 \in 0..n
      /\ \A k \in 1..n : g[k] = g[k - 1] \o seqs[k]
  <2>1. 0 \in 0..n BY <1>0
  <2>2. g[0] = <<>> BY <1>6, <2>1
  <2>3. ASSUME NEW k \in 1..n PROVE g[k] = g[k - 1] \o seqs[k]
    <3>1. k \in 0..n /\ k # 0 BY <1>0
    <3> QED BY <1>6, <3>1
  <2>4. g = [k \in 0..n |-> g[k]] BY <1>6
  <2> QED BY <2>1, <2>2, <2>3, <2>4
<1>9. \A k \in 0..n : g[k] \in X
  <2> DEFINE N == {k \in 0..n : g[k] \in X}
  <2>1. 0 \in N BY <1>2, <1>8
  <2>2. ASSUME NEW k \in 1..n, k - 1 \in N PROVE k \in N
    <3>1. g[k - 1] \in X /\ k \in 0..n BY <1>0, <2>2
    <3>2. g[k] \in X BY <1>1, <1>8, <3>1
    <3> QED BY <3>1, <3>2
  <2>3. N \in SUBSET (0..n) OBVIOUS
  <2> HIDE DEF N
  <2>4. N = 0..n BY <1>0, <2>1, <2>2, <2>3, UpToBy
  <2> QED BY <2>4 DEF N
<1>10. g \in [0..n -> X] BY <1>8, <1>9
<1>11. RowSteps(g, seqs) BY <1>7, <1>8 DEF RowSteps, n
<1> QED BY <1>10, <1>11 DEF X, n

Sooner(p, q) == p[1] < q[1] \/ (p[1] = q[1] /\ p[2] < q[2])

\* Where the elements of a row are from, up to the m-th of the sequences.
OfRow(at, row, seqs, m) ==
  /\ at \in [1..Len(row) -> (1..m) \X (Nat \ {0})]
  /\ \A i \in 1..Len(row) : /\ at[i][2] \in 1..Len(seqs[at[i][1]])
                            /\ row[i] = seqs[at[i][1]][at[i][2]]
  /\ \A i, j \in 1..Len(row) : i < j => Sooner(at[i], at[j])
LEMMA RowGrows ==
  ASSUME NEW T, NEW seqs, Parts(seqs, T), NEW m \in 1..Len(seqs),
         NEW old \in Seq(T), NEW at, OfRow(at, old, seqs, m - 1)
  PROVE  \E new : OfRow(new, old \o seqs[m], seqs, m)
<1> DEFINE one == seqs[m]
           row == old \o one
           n == Len(old)
           new == [i \in 1..Len(row) |-> IF i <= n THEN at[i] ELSE <<m, i - n>>]
<1>0. Len(seqs) \in Nat /\ m \in Nat \ {0} /\ one \in Seq(T) BY DEF Parts
<1>1. /\ row \in Seq(T) /\ n \in Nat /\ Len(one) \in Nat /\ Len(row) = n + Len(one)
      /\ \A i \in 1..n : row[i] = old[i]
      /\ \A i \in 1..Len(one) : row[n + i] = one[i]
      BY <1>0, ConcatFacts
<1> HIDE DEF row, n
<1>2. /\ \A i \in 1..Len(row) : i \in 1..n \/ (i - n \in 1..Len(one) /\ n + (i - n) = i /\ i > n)
      /\ \A i \in 1..n : i \in 1..Len(row)
      BY <1>1
<1>3. ASSUME NEW i \in 1..n
      PROVE  /\ new[i] = at[i] /\ at[i] \in (1..(m - 1)) \X (Nat \ {0})
             /\ at[i][2] \in 1..Len(seqs[at[i][1]]) /\ row[i] = seqs[at[i][1]][at[i][2]]
  <2>1. i \in 1..Len(row) /\ i <= n BY <1>1, <1>2
  <2>2. new[i] = at[i] BY <2>1
  <2>3. /\ at[i] \in (1..(m - 1)) \X (Nat \ {0})
        /\ at[i][2] \in 1..Len(seqs[at[i][1]]) /\ old[i] = seqs[at[i][1]][at[i][2]]
        BY DEF OfRow, n
  <2>4. row[i] = old[i] BY <1>1
  <2> QED BY <2>2, <2>3, <2>4
<1>4. ASSUME NEW i \in 1..Len(row), i > n
      PROVE  /\ new[i] = <<m, i - n>> /\ i - n \in 1..Len(one) /\ row[i] = one[i - n]
  <2>1. ~(i <= n) /\ i - n \in 1..Len(one) /\ n + (i - n) = i BY SMTT(40), <1>1, <1>4
  <2>2. row[n + (i - n)] = one[i - n] BY <1>1, <2>1
  <2> QED BY <2>1, <2>2
<1> HIDE DEF new, one
<1>5. new \in [1..Len(row) -> (1..m) \X (Nat \ {0})]
  <2>1. ASSUME NEW i \in 1..Len(row) PROVE new[i] \in (1..m) \X (Nat \ {0})
    <3>1. CASE i \in 1..n
      <4>1. new[i] \in (1..(m - 1)) \X (Nat \ {0}) BY <1>3, <3>1
      <4>2. 1..(m - 1) \subseteq 1..m BY <1>0
      <4> QED BY <4>1, <4>2
    <3>2. CASE i > n
      <4>1. new[i] = <<m, i - n>> /\ i - n \in 1..Len(one) BY <1>4, <3>2
      <4>2. m \in 1..m /\ i - n \in Nat \ {0} BY <1>0, <1>1, <4>1
      <4> QED BY <4>1, <4>2
    <3> QED BY <1>2, <3>1, <3>2
  <2>2. new = [i \in 1..Len(row) |-> new[i]] BY DEF new
  <2> QED BY <2>1, <2>2
<1>6. ASSUME NEW i \in 1..Len(row)
      PROVE  new[i][2] \in 1..Len(seqs[new[i][1]]) /\ row[i] = seqs[new[i][1]][new[i][2]]
  <2>1. CASE i \in 1..n BY <1>3, <2>1
  <2>2. CASE i > n
    <3>1. new[i][1] = m /\ new[i][2] = i - n BY <1>4, <2>2
    <3> QED BY <1>4, <2>2, <3>1 DEF one
  <2> QED BY <1>2, <2>1, <2>2
<1>7. ASSUME NEW i \in 1..Len(row), NEW j \in 1..Len(row), i < j
      PROVE  Sooner(new[i], new[j])
  <2>1. CASE j \in 1..n
    <3>1. i \in 1..n BY <1>1, <1>7, <2>1
    <3>2. Sooner(at[i], at[j]) BY <1>7, <2>1, <3>1 DEF OfRow, n
    <3> QED BY <1>3, <2>1, <3>1, <3>2
  <2>2. CASE j > n /\ i \in 1..n
    <3>1. new[i] \in (1..(m - 1)) \X (Nat \ {0}) BY <1>3, <2>2
    <3>2. new[j][1] = m BY <1>4, <2>2
    <3>3. new[i][1] < m BY SMTT(40), <1>0, <3>1
    <3> QED BY <3>2, <3>3 DEF Sooner
  <2>3. CASE j > n /\ i > n
    <3>1. new[i][1] = m /\ new[i][2] = i - n /\ new[j][1] = m /\ new[j][2] = j - n BY <1>4, <2>3
    <3>2. i - n < j - n BY <1>1, <1>7
    <3> QED BY <3>1, <3>2 DEF Sooner
  <2> QED BY <1>2, <2>1, <2>2, <2>3
<1>8. OfRow(new, row, seqs, m) BY <1>5, <1>6, <1>7 DEF OfRow
<1> QED BY <1>8 DEF row, one

LEMMA RowFacts ==
  ASSUME NEW T, NEW seqs, Parts(seqs, T)
  PROVE  /\ Concat(seqs) \in Seq(T)
         /\ \E at : OfRow(at, Concat(seqs), seqs, Len(seqs))
<1> DEFINE n == Len(seqs)
<1>0. n \in Nat BY DEF Parts
<1>1. PICK f \in [0..n -> Seq(T)] : RowSteps(f, seqs) BY RowUnfolds
<1> DEFINE H == {m \in 0..n : \E at : OfRow(at, f[m], seqs, m)}
<1>2. 0 \in H
  <2>1. f[0] = <<>> BY <1>1 DEF RowSteps
  <2>2. OfRow(<<>>, <<>>, seqs, 0) BY DEF OfRow
  <2> QED BY <1>0, <2>1, <2>2
<1>3. ASSUME NEW m \in 1..n, m - 1 \in H PROVE m \in H
  <2>1. m - 1 \in 0..n /\ m \in 0..n BY <1>0
  <2>2. f[m - 1] \in Seq(T) BY <2>1
  <2>3. PICK at : OfRow(at, f[m - 1], seqs, m - 1) BY <1>3
  <2>4. f[m] = f[m - 1] \o seqs[m] BY <1>1 DEF RowSteps
  <2>5. \E new : OfRow(new, f[m - 1] \o seqs[m], seqs, m) BY <2>2, <2>3, RowGrows
  <2> QED BY <2>1, <2>4, <2>5
<1>4. n \in H
  <2>1. H \in SUBSET (0..n) /\ n \in 0..n BY <1>0
  <2> HIDE DEF H, n
  <2> QED BY <1>0, <1>2, <1>3, <2>1, UpToBy
<1>5. Concat(seqs) = f[n] /\ n \in 0..n BY <1>0, <1>1 DEF RowSteps
<1>6. \E at : OfRow(at, f[n], seqs, n) BY <1>4
<1> HIDE DEF n
<1>7. f[n] \in Seq(T) BY <1>5
<1> QED BY <1>5, <1>6, <1>7 DEF n

(***************************************************************************)
(* Lines that are taken out of a text, and the rest in its order.          *)
(***************************************************************************)

\* A part of a sequence, with the place each element has in the whole: in the
\* same order, and none of those in S is missing.
Picks(o, part, whole, S) ==
  /\ Len(part) \in Nat /\ Len(whole) \in Nat
  /\ o \in [1..Len(part) -> 1..Len(whole)]
  /\ \A i, j \in 1..Len(part) : i < j => o[i] < o[j]
  /\ \A i \in 1..Len(part) : part[i] = whole[o[i]]
  /\ \A k \in 1..Len(whole) : k \in S => \E i \in 1..Len(part) : o[i] = k
LEMMA SelectFacts ==
  ASSUME NEW T, NEW seq \in Seq(T), NEW S
  PROVE  /\ Select(seq, S) \in Seq(T)
         /\ Picks(InOrder(S, Len(seq)), Select(seq, S), seq, S)
         /\ Len(Select(seq, S)) = Len(InOrder(S, Len(seq)))
         /\ \A i \in 1..Len(Select(seq, S)) : InOrder(S, Len(seq))[i] \in S
<1> DEFINE at == InOrder(S, Len(seq))
           n == Len(seq)
<1>1. n \in Nat /\ \A i \in 1..n : seq[i] \in T OBVIOUS
<1>2. Ordered(at, S, n) BY <1>1, OrderFacts
<1>3. Select(seq, S) = [i \in 1..Len(at) |-> seq[at[i]]] BY DEF Select, At
<1> DEFINE part == Select(seq, S)
<1> HIDE DEF at, n, part
<1>4. at \in Seq(1..n) /\ Len(at) \in Nat /\ \A i \in 1..Len(at) : at[i] \in 1..n
  <2>1. at \in Seq(1..n) BY <1>2 DEF Ordered
  <2>2. Len(at) \in Nat BY <2>1
  <2>3. \A i \in 1..Len(at) : at[i] \in 1..n BY <1>1, <2>1
  <2> QED BY <2>1, <2>2, <2>3
<1>5. /\ part \in Seq(T) /\ Len(part) = Len(at)
      /\ \A i \in 1..Len(at) : part[i] = seq[at[i]]
      BY <1>1, <1>3, <1>4 DEF part
<1>6. at \in [1..Len(part) -> 1..n]
  <2>1. at = [i \in 1..Len(at) |-> at[i]] BY <1>4
  <2> QED BY <1>4, <1>5, <2>1
<1>7. /\ \A i \in 1..Len(part) : at[i] \in S
      /\ \A i, j \in 1..Len(part) : i < j => at[i] < at[j]
      /\ \A k \in 1..n : k \in S => \E i \in 1..Len(part) : at[i] = k
      BY <1>2, <1>5 DEF Ordered
<1>8. Picks(at, part, seq, S) BY <1>1, <1>4, <1>5, <1>6, <1>7 DEF Picks, n
<1> QED BY <1>5, <1>7, <1>8 DEF at, part, n

\* A part of a part.
LEMMA PicksOfPicks ==
  ASSUME NEW whole, NEW half, NEW part, NEW o, NEW q, NEW R, NEW S, NEW W,
         Picks(o, half, whole, S), Picks(q, part, half, R),
         \A k \in 1..Len(whole) : k \in W => k \in S,
         \A i \in 1..Len(half) : o[i] \in W => i \in R
  PROVE  Picks([i \in 1..Len(part) |-> o[q[i]]], part, whole, W)
<1> DEFINE c == [i \in 1..Len(part) |-> o[q[i]]]
<1>1. /\ Len(part) \in Nat /\ Len(half) \in Nat /\ Len(whole) \in Nat
      /\ o \in [1..Len(half) -> 1..Len(whole)] /\ q \in [1..Len(part) -> 1..Len(half)]
      /\ \A i, j \in 1..Len(half) : i < j => o[i] < o[j]
      /\ \A i, j \in 1..Len(part) : i < j => q[i] < q[j]
      /\ \A i \in 1..Len(half) : half[i] = whole[o[i]]
      /\ \A i \in 1..Len(part) : part[i] = half[q[i]]
      /\ \A k \in 1..Len(whole) : k \in S => \E i \in 1..Len(half) : o[i] = k
      /\ \A k \in 1..Len(half) : k \in R => \E i \in 1..Len(part) : q[i] = k
      BY DEF Picks
<1>2. /\ c \in [1..Len(part) -> 1..Len(whole)]
      /\ \A i \in 1..Len(part) : c[i] = o[q[i]] /\ q[i] \in 1..Len(half)
      BY <1>1
<1> HIDE DEF c
<1>3. \A i, j \in 1..Len(part) : i < j => c[i] < c[j]
  <2>1. ASSUME NEW i \in 1..Len(part), NEW j \in 1..Len(part), i < j PROVE c[i] < c[j]
    <3>1. q[i] < q[j] BY <1>1, <2>1
    <3>2. o[q[i]] < o[q[j]] BY <1>1, <1>2, <3>1
    <3> QED BY <1>2, <3>2
  <2> QED BY <2>1
<1>4. \A i \in 1..Len(part) : part[i] = whole[c[i]] BY SMTT(40), <1>1, <1>2
<1>5. ASSUME NEW k \in 1..Len(whole), k \in W PROVE \E i \in 1..Len(part) : c[i] = k
  <2>1. PICK i \in 1..Len(half) : o[i] = k BY <1>1, <1>5
  <2>2. i \in R BY <1>5, <2>1
  <2>3. PICK h \in 1..Len(part) : q[h] = i BY <1>1, <2>2
  <2> QED BY <1>2, <2>1, <2>3
<1>6. Picks(c, part, whole, W) BY <1>1, <1>2, <1>3, <1>4, <1>5 DEF Picks
<1> QED BY <1>6 DEF c

\* Blank lines at the ends are no loss.
LEMMA TrimFacts ==
  ASSUME NEW text \in Seq(Lines)
  PROVE  /\ Trim(text) \in Seq(Lines)
         /\ \E o : Picks(o, Trim(text), text, {i \in 1..Len(text) : text[i] # Blank})
<1> DEFINE solid == {i \in 1..Len(text) : text[i] # Blank}
<1>0. Len(text) \in Nat OBVIOUS
<1>1. CASE solid = {}
  <2>1. Trim(text) = <<>> BY <1>1 DEF Trim
  <2>2. \A k \in 1..Len(text) : k \notin solid BY <1>1
  <2> HIDE DEF solid
  <2>3. Picks(<<>>, <<>>, text, solid) BY <1>0, <2>2 DEF Picks
  <2>4. <<>> \in Seq(Lines) OBVIOUS
  <2> QED BY <2>1, <2>3, <2>4 DEF solid
<1>2. CASE solid # {}
  <2> DEFINE a == First(solid)
             z == Last(solid)
             n == (z - a) + 1
             o == [i \in 1..n |-> (a + i) - 1]
  <2>0. solid \in SUBSET (1..Len(text)) OBVIOUS
  <2>1. Trim(text) = SubSeq(text, a, z) BY <1>2 DEF Trim
  <2> HIDE DEF solid
  <2>2. /\ a \in solid /\ z \in solid /\ \A j \in solid : a <= j /\ j <= z
        BY <1>0, <1>2, <2>0, FirstLast
  <2>3. a \in 1..Len(text) /\ z \in 1..Len(text) /\ a <= z BY <2>0, <2>2
  <2> HIDE DEF a, z
  <2>4. /\ SubSeq(text, a, z) \in Seq(Lines) /\ Len(SubSeq(text, a, z)) = n /\ n \in Nat
        /\ \A i \in 1..n : SubSeq(text, a, z)[i] = text[(a + i) - 1]
        BY <2>3
  <2>5. \A i \in 1..n : (a + i) - 1 \in 1..Len(text) BY <2>3
  <2>6. /\ o \in [1..n -> 1..Len(text)] /\ \A i \in 1..n : o[i] = (a + i) - 1
        BY <2>5
  <2> HIDE DEF o
  <2>7. \A i, j \in 1..n : i < j => o[i] < o[j] BY <2>3, <2>6
  <2>8. ASSUME NEW k \in 1..Len(text), k \in solid PROVE \E i \in 1..n : o[i] = k
    <3>1. a <= k /\ k <= z BY <2>2, <2>8
    <3>2. (k - a) + 1 \in 1..n /\ (a + ((k - a) + 1)) - 1 = k BY <2>3, <3>1
    <3> QED BY <2>6, <3>2
  <2> HIDE DEF n
  <2>9. Picks(o, SubSeq(text, a, z), text, solid)
        BY <1>0, <2>4, <2>6, <2>7, <2>8 DEF Picks
  <2> QED BY <2>1, <2>4, <2>9 DEF solid
<1> QED BY <1>1, <1>2

\* Joining broken words takes blank lines out, and nothing else.
FirstOf(joined) == [i \in 1..Len(joined) |-> joined[i][1]]
Unswallowed(text) == {k \in 1..Len(text) : ~Swallowed(text, k)}
LEMMA RejoinedFacts ==
  ASSUME NEW text \in Seq(Lines)
  PROVE  /\ Rejoined(text) \in Seq(Lines \X BOOLEAN)
         /\ Picks(InOrder(Unswallowed(text), Len(text)), FirstOf(Rejoined(text)), text, Unswallowed(text))
         /\ Len(FirstOf(Rejoined(text))) = Len(Rejoined(text))
         /\ \A i \in 1..Len(Rejoined(text)) :
              /\ FirstOf(Rejoined(text))[i] = Rejoined(text)[i][1]
              /\ Rejoined(text)[i][2] = Meets(text, InOrder(Unswallowed(text), Len(text))[i])
<1> DEFINE S == Unswallowed(text)
           at == InOrder(S, Len(text))
           all == Rejoined(text)
           part == Select(text, S)
<1>1. /\ part \in Seq(Lines) /\ Picks(at, part, text, S) /\ Len(part) = Len(at)
      BY SelectFacts
<1>2. all = [i \in 1..Len(at) |-> <<text[at[i]], Meets(text, at[i])>>]
      BY DEF Rejoined, Unswallowed
<1> HIDE DEF S, at, all, part
<1>3. /\ Len(part) \in Nat /\ \A i \in 1..Len(part) : part[i] = text[at[i]] /\ part[i] \in Lines
      BY <1>1 DEF Picks
<1>4. \A k : Meets(text, k) \in BOOLEAN BY DEF Meets
<1>5. /\ all \in Seq(Lines \X BOOLEAN) /\ Len(all) = Len(part)
      /\ \A i \in 1..Len(part) : all[i] = <<part[i], Meets(text, at[i])>>
  <2>1. all = [i \in 1..Len(part) |-> <<part[i], Meets(text, at[i])>>] BY <1>1, <1>2, <1>3
  <2>2. \A i \in 1..Len(part) : <<part[i], Meets(text, at[i])>> \in Lines \X BOOLEAN BY <1>3, <1>4
  <2> QED BY <1>3, <2>1, <2>2
<1>6. FirstOf(all) = part
  <2>1. FirstOf(all) = [i \in 1..Len(part) |-> all[i][1]] BY <1>5 DEF FirstOf
  <2>2. \A i \in 1..Len(part) : all[i][1] = part[i] BY <1>5
  <2>3. part = [i \in 1..Len(part) |-> part[i]] BY <1>1
  <2> QED BY <2>1, <2>2, <2>3
<1>7. \A i \in 1..Len(all) : FirstOf(all)[i] = all[i][1] /\ all[i][2] = Meets(text, at[i])
      BY <1>5, <1>6
<1> QED BY <1>1, <1>5, <1>6, <1>7 DEF all, at, S

\* What is not blank is not swallowed.
LEMMA SolidStays ==
  ASSUME NEW text \in Seq(Lines), NEW k \in 1..Len(text), text[k] # Blank
  PROVE  k \in Unswallowed(text)
BY DEF Unswallowed, Swallowed

\* Cleaning takes out furniture and blank lines, and nothing else.
Solid(text) == {k \in 1..Len(text) : text[k] # Blank /\ text[k] \notin Furniture}
LEMMA CleanFacts ==
  ASSUME NEW text \in Seq(Lines)
  PROVE  /\ Clean(text) \in Seq(Lines \X BOOLEAN)
         /\ \E o : Picks(o, FirstOf(Clean(text)), text, Solid(text))
         /\ Len(FirstOf(Clean(text))) = Len(Clean(text))
         /\ \A i \in 1..Len(Clean(text)) :
              /\ FirstOf(Clean(text))[i] = Clean(text)[i][1]
              /\ Clean(text)[i][1] \notin Furniture
<1> DEFINE S == {i \in 1..Len(text) : text[i] \notin Furniture}
           out == Without(text)
           trim == Trim(out)
           part == FirstOf(Rejoined(trim))
           p == InOrder(S, Len(text))
           r == InOrder(Unswallowed(trim), Len(trim))
           B == {i \in 1..Len(out) : out[i] # Blank}
<1>1. /\ out \in Seq(Lines) /\ Picks(p, out, text, S)
      /\ \A i \in 1..Len(out) : p[i] \in S
      BY SelectFacts DEF Without
<1>2. trim \in Seq(Lines) /\ \E o : Picks(o, trim, out, B) BY <1>1, TrimFacts
<1>3. PICK q : Picks(q, trim, out, B) BY <1>2
<1>4. /\ Rejoined(trim) \in Seq(Lines \X BOOLEAN) /\ Picks(r, part, trim, Unswallowed(trim))
      /\ Len(part) = Len(Rejoined(trim))
      /\ \A i \in 1..Len(Rejoined(trim)) : part[i] = Rejoined(trim)[i][1]
      BY <1>2, RejoinedFacts
<1>5. Clean(text) = Rejoined(trim) BY DEF Clean
<1> DEFINE c == [i \in 1..Len(trim) |-> p[q[i]]]
           d == [i \in 1..Len(part) |-> c[r[i]]]
<1> HIDE DEF p, r, part, out, trim, S, B
<1>6. Picks(c, trim, text, Solid(text))
  <2>1. \A k \in 1..Len(text) : k \in Solid(text) => k \in S BY DEF Solid, S
  <2>2. ASSUME NEW i \in 1..Len(out), p[i] \in Solid(text) PROVE i \in B
    <3>1. out[i] = text[p[i]] BY <1>1 DEF Picks
    <3> QED BY <2>2, <3>1 DEF Solid, B
  <2> QED BY <1>1, <1>3, <2>1, <2>2, PicksOfPicks
<1>7. \A i \in 1..Len(trim) : trim[i] = text[c[i]] /\ trim[i] \notin Furniture
  <2>1. ASSUME NEW i \in 1..Len(trim) PROVE trim[i] = text[c[i]] /\ trim[i] \notin Furniture
    <3>1. q[i] \in 1..Len(out) /\ trim[i] = out[q[i]] BY <1>3 DEF Picks
    <3>2. p[q[i]] \in S /\ out[q[i]] = text[p[q[i]]] BY <1>1, <3>1 DEF Picks
    <3>3. trim[i] = text[c[i]] BY <1>6 DEF Picks
    <3> QED BY <3>1, <3>2, <3>3 DEF S
  <2> QED BY <2>1
<1>8. Picks(d, part, text, Solid(text))
  <2>1. ASSUME NEW i \in 1..Len(trim), c[i] \in Solid(text) PROVE i \in Unswallowed(trim)
    <3>1. trim[i] # Blank BY <1>7, <2>1 DEF Solid
    <3> QED BY <1>2, <3>1, SolidStays
  <2>2. \A k \in 1..Len(text) : k \in Solid(text) => k \in Solid(text) OBVIOUS
  <2> HIDE DEF c
  <2> QED BY <1>4, <1>6, <2>1, <2>2, PicksOfPicks
<1>9. ASSUME NEW i \in 1..Len(part) PROVE part[i] \notin Furniture
  <2>1. r[i] \in 1..Len(trim) /\ part[i] = trim[r[i]] BY <1>4 DEF Picks
  <2> QED BY <1>7, <2>1
<1> HIDE DEF d
<1>10. \A i \in 1..Len(Rejoined(trim)) :
         part[i] = Rejoined(trim)[i][1] /\ Rejoined(trim)[i][1] \notin Furniture
       BY <1>4, <1>9
<1> QED BY <1>4, <1>5, <1>8, <1>10 DEF part

(***************************************************************************)
(* What the libraries make of a document, and the adapters of that.        *)
(***************************************************************************)

Documented == doc \in Seq(Seq(Things)) /\ converter \in Converters
Made == [text : Texts, page : 1..Len(doc), kind : Kinds]
Spots == {p \in Nat \X Nat : p[1] \in 1..Len(doc) /\ p[2] \in 1..Len(doc[p[1]])}
ThingAt(p) == doc[p[1]][p[2]]

\* What an adapter makes of an item.
Yield(name, item) ==
  IF name = "pypdf" THEN PypdfBlocks(item)
  ELSE IF name = "docling" THEN DoclingBlocks(item)
  ELSE IF name = "marker" THEN MarkerBlocks(item) ELSE MineruBlocks(item)

LEMMA PageFacts ==
  ASSUME Documented, NEW n \in 1..Len(doc)
  PROVE  /\ Len(doc) \in Nat /\ doc[n] \in Seq(Things) /\ Len(doc[n]) \in Nat
         /\ \A k \in 1..Len(doc[n]) : doc[n][k] \in Things
<1>1. Len(doc) \in Nat /\ doc[n] \in Seq(Things) BY DEF Documented
<1> QED BY <1>1

LEMMA ThingFacts ==
  ASSUME Documented, NEW p \in Spots
  PROVE  /\ ThingAt(p) \in Things /\ ThingAt(p).text \in Texts
         /\ ThingAt(p).what \in {"heading", "text", "table", "picture"}
         /\ ThingAt(p).placed \in BOOLEAN /\ ThingAt(p).exports \in BOOLEAN
         /\ p[1] \in 1..Len(doc)
<1>1. p[1] \in 1..Len(doc) /\ p[2] \in 1..Len(doc[p[1]]) BY DEF Spots
<1>2. ThingAt(p) \in Things BY <1>1, PageFacts DEF ThingAt
<1> QED BY <1>1, <1>2 DEF Things, Texts

LEMMA StripFacts ==
  ASSUME NEW text \in Texts
  PROVE  StripUnmapped(text) \in Texts
<1>1. \A i \in 1..Len(text) : Mapped[text[i]] \in Lines
  <2>1. \A i \in 1..Len(text) : text[i] \in Lines BY DEF Texts
  <2> QED BY <2>1, BlocksAssumption
<1>2. Len(text) \in Nat BY DEF Texts
<1> QED BY <1>1, <1>2 DEF StripUnmapped, Texts

LEMMA NothingStays == Trim(<<>>) = <<>> /\ StripUnmapped(<<>>) = <<>>
<1>1. {i \in 1..Len(<<>>) : <<>>[i] # Blank} = {} OBVIOUS
<1>2. Trim(<<>>) = <<>> BY <1>1 DEF Trim
<1>3. StripUnmapped(<<>>) = <<>> BY DEF StripUnmapped
<1> QED BY <1>2, <1>3

\* The block is the thing there, and cites its page.
BlockOf(p, b) ==
  /\ b.page = p[1]
  /\ b.kind = KindOf[ThingAt(p).what]
  /\ b.text = StripUnmapped(Trim(ThingAt(p).text))
Rightly(p, yield) == yield = <<>> \/ \E b \in Made : yield = <<b>> /\ BlockOf(p, b)

LEMMA RightlyFacts ==
  ASSUME Documented, NEW p \in Spots, ThingAt(p).what # "picture",
         NEW text, text = StripUnmapped(Trim(ThingAt(p).text)),
         NEW kind, kind = KindOf[ThingAt(p).what]
  PROVE  \E b \in Made : <<Block(text, p[1], kind)>> = <<b>> /\ BlockOf(p, b)
<1> DEFINE b == Block(text, p[1], kind)
<1>1. Trim(ThingAt(p).text) \in Texts BY ThingFacts, TrimFacts DEF Texts
<1>2. text \in Texts BY <1>1, StripFacts
<1>3. kind \in {"SectionHeaderItem", "TextItem", "TableItem"} BY ThingFacts DEF KindOf
<1>4. kind \in Kinds
  <2>1. /\ MarkerKinds.SectionHeader \in Range(MarkerKinds) /\ MarkerKinds.Text \in Range(MarkerKinds)
        /\ MarkerKinds.Table \in Range(MarkerKinds)
        BY DEF MarkerKinds, Range
  <2> QED BY <1>3, <2>1 DEF Kinds, MarkerKinds
<1>5. b \in Made BY <1>2, <1>4, ThingFacts DEF Block, Made
<1>6. BlockOf(p, b) BY DEF Block, BlockOf
<1> QED BY <1>5, <1>6

\* Docling: a table without an export, a picture and a thing without a place
\* make no block.
LEMMA DoclingYield ==
  ASSUME Documented, NEW p \in Spots
  PROVE  Rightly(p, DoclingBlocks(DoclingItem(p[1], ThingAt(p))))
<1> DEFINE thing == ThingAt(p)
           item == DoclingItem(p[1], thing)
           raw == DoclingText(item)
<1>1. /\ item.type = DoclingTypes[thing.what]
      /\ item.prov = IF thing.placed THEN <<0, p[1]>> ELSE <<0>>
      /\ item.text = IF thing.what \in {"heading", "text"} THEN thing.text ELSE <<>>
      /\ item.data = (thing.what = "table")
      /\ item.export = IF thing.exports THEN thing.text ELSE <<>>
      BY DEF DoclingItem
<1>2. /\ thing.what \in {"heading", "text", "table", "picture"} /\ p[1] \in Nat \ {0}
      /\ thing.placed \in BOOLEAN
      BY ThingFacts
<1> HIDE DEF item
<1>3. PageOf(item) = IF thing.placed THEN p[1] ELSE 0
  <2> DEFINE entries == {i \in 1..Len(item.prov) : item.prov[i] >= 1}
  <2>1. CASE thing.placed
    <3>1. item.prov = <<0, p[1]>> BY <1>1, <2>1
    <3>2. Len(item.prov) = 2 /\ item.prov[1] = 0 /\ item.prov[2] = p[1] BY <3>1
    <3>3. entries = {2} BY <1>2, <3>2
    <3>4. First(entries) = 2 BY <3>3 DEF First
    <3>5. PageOf(item) = item.prov[First(entries)] BY <3>3 DEF PageOf
    <3> QED BY <2>1, <3>2, <3>4, <3>5
  <2>2. CASE ~thing.placed
    <3>1. Len(item.prov) = 1 /\ item.prov[1] = 0 BY <1>1, <2>2
    <3>2. entries = {} BY <3>1
    <3>3. PageOf(item) = 0 BY <3>2 DEF PageOf
    <3> QED BY <2>2, <3>3
  <2> QED BY <2>1, <2>2
<1>4. raw = <<>> \/ (raw = Trim(thing.text) /\ thing.what # "picture")
  <2>1. CASE thing.what \in {"heading", "text"}
    <3>1. item.text = thing.text /\ item.data = FALSE BY <1>1, <2>1
    <3> QED BY <2>1, <3>1 DEF DoclingText
  <2>2. CASE thing.what = "table"
    <3>1. item.text = <<>> /\ item.data = TRUE BY <1>1, <2>2
    <3>2. raw = Trim(item.export) BY <3>1, NothingStays DEF DoclingText
    <3> QED BY <1>1, <2>2, <3>2, NothingStays
  <2>3. CASE thing.what = "picture"
    <3>1. item.text = <<>> /\ item.data = FALSE BY <1>1, <2>3
    <3> QED BY <3>1, NothingStays DEF DoclingText
  <2> QED BY <1>2, <2>1, <2>2, <2>3
<1> DEFINE text == StripUnmapped(raw)
<1>5. DoclingBlocks(item) = IF PageOf(item) = 0 \/ IsEmpty(text) THEN <<>>
                            ELSE <<Block(text, PageOf(item), item.type)>>
      BY DEF DoclingBlocks
<1> HIDE DEF raw, thing
<1>6. CASE raw = <<>>
  <2>1. IsEmpty(text) BY <1>6, NothingStays DEF IsEmpty
  <2>2. DoclingBlocks(item) = <<>> BY <1>5, <2>1
  <2> QED BY <2>2 DEF Rightly, item, thing
<1>7. CASE raw = Trim(thing.text) /\ thing.what # "picture"
  <2>1. CASE PageOf(item) = 0 \/ IsEmpty(text)
    <3>1. DoclingBlocks(item) = <<>> BY <1>5, <2>1
    <3> QED BY <3>1 DEF Rightly, item, thing
  <2>2. CASE ~(PageOf(item) = 0 \/ IsEmpty(text))
    <3>1. PageOf(item) = p[1] BY <1>3, <2>2
    <3>2. DoclingBlocks(item) = <<Block(text, p[1], item.type)>> BY <1>5, <2>2, <3>1
    <3>3. item.type = KindOf[thing.what] BY <1>1 DEF DoclingTypes, KindOf
    <3>4. text = StripUnmapped(Trim(thing.text)) BY <1>7
    <3> HIDE DEF text
    <3>5. \E b \in Made : <<Block(text, p[1], item.type)>> = <<b>> /\ BlockOf(p, b)
          BY <1>7, <3>3, <3>4, RightlyFacts DEF thing
    <3> QED BY <3>2, <3>5 DEF Rightly, item, thing
  <2> QED BY <2>1, <2>2
<1> QED BY <1>4, <1>6, <1>7

\* Marker: a picture is none of its kinds, and neither is a line.
LEMMA MarkerYield ==
  ASSUME Documented, NEW p \in Spots, NEW type,
         type = MarkerTypes[ThingAt(p).what] \/ type = "Line"
  PROVE  /\ Rightly(p, MarkerBlocks(MarkerItem(p[1], type, ThingAt(p))))
         /\ type = "Line" => MarkerBlocks(MarkerItem(p[1], type, ThingAt(p))) = <<>>
<1> DEFINE thing == ThingAt(p)
           item == MarkerItem(p[1], type, thing)
           text == StripUnmapped(Trim(item.text))
<1>1. item.type = type /\ item.page_id = p[1] - 1 /\ item.text = thing.text BY DEF MarkerItem
<1>2. thing.what \in {"heading", "text", "table", "picture"} /\ p[1] \in Nat \ {0} BY ThingFacts
<1>3. item.page_id + 1 = p[1]
  <2> HIDE DEF item
  <2> QED BY <1>1, <1>2
<1>4. DOMAIN MarkerKinds = {"SectionHeader", "Text", "ListItem", "Table", "Caption", "Footnote"}
      BY DEF MarkerKinds
<1>5. MarkerBlocks(item) = IF item.type \notin DOMAIN MarkerKinds \/ IsEmpty(text) THEN <<>>
                           ELSE <<Block(text, item.page_id + 1, MarkerKinds[item.type])>>
      BY DEF MarkerBlocks
<1> HIDE DEF item
<1>6. CASE item.type \notin DOMAIN MarkerKinds \/ IsEmpty(text)
      BY <1>5, <1>6 DEF Rightly, item, thing
<1>7. CASE ~(item.type \notin DOMAIN MarkerKinds \/ IsEmpty(text))
  <2>1. type \in DOMAIN MarkerKinds /\ type # "Line" BY <1>1, <1>4, <1>7
  <2>2. type = MarkerTypes[thing.what] BY <2>1 DEF thing
  <2>3. thing.what # "picture" BY <1>4, <2>1, <2>2 DEF MarkerTypes
  <2>4. MarkerKinds[type] = KindOf[thing.what] BY <1>2, <2>2, <2>3 DEF MarkerTypes, MarkerKinds, KindOf
  <2>5. MarkerBlocks(item) = <<Block(text, p[1], MarkerKinds[type])>> BY <1>1, <1>3, <1>5, <1>7
  <2>6. text = StripUnmapped(Trim(thing.text)) BY <1>1
  <2> HIDE DEF text
  <2>7. \E b \in Made : <<Block(text, p[1], MarkerKinds[type])>> = <<b>> /\ BlockOf(p, b)
        BY <2>3, <2>4, <2>6, RightlyFacts DEF thing
  <2> QED BY <2>1, <2>5, <2>7 DEF Rightly, item, thing
<1> QED BY <1>6, <1>7

\* MinerU: a heading is a text with a level.
LEMMA MineruYield ==
  ASSUME Documented, NEW p \in Spots
  PROVE  Rightly(p, MineruBlocks(MineruRow(p[1], ThingAt(p))))
<1> DEFINE thing == ThingAt(p)
           row == MineruRow(p[1], thing)
           text == StripUnmapped(Trim(row.text))
<1>1. /\ row.type = MineruTypes[thing.what] /\ row.text = thing.text
      /\ row.page_idx = (IF thing.placed THEN p[1] - 1 ELSE -1)
      /\ row.leveled = (thing.what = "heading")
      BY DEF MineruRow
<1>2. thing.what \in {"heading", "text", "table", "picture"} /\ p[1] \in Nat \ {0} BY ThingFacts
<1>3. MineruBlocks(row) = IF row.page_idx < 0 \/ row.type = "image" \/ IsEmpty(text) THEN <<>>
                          ELSE <<Block(text, row.page_idx + 1, MineruKind(row))>>
      BY DEF MineruBlocks
<1> HIDE DEF row
<1>4. CASE row.page_idx < 0 \/ row.type = "image" \/ IsEmpty(text)
      BY <1>3, <1>4 DEF Rightly, row, thing
<1>5. CASE ~(row.page_idx < 0 \/ row.type = "image" \/ IsEmpty(text))
  <2>1. row.page_idx = p[1] - 1 BY <1>1, <1>5
  <2>2. row.page_idx + 1 = p[1] BY <1>2, <2>1
  <2>3. thing.what # "picture" BY <1>1, <1>5 DEF MineruTypes
  <2>4. MineruKind(row) = KindOf[thing.what]
    <3>1. CASE thing.what = "heading"
      <4>1. row.type = "text" BY <1>1, <3>1 DEF MineruTypes
      <4>2. row.leveled BY <1>1, <3>1
      <4>3. MineruKind(row) = "SectionHeaderItem" BY <4>1, <4>2 DEF MineruKind
      <4> QED BY <3>1, <4>3 DEF KindOf
    <3>2. CASE thing.what = "text"
      <4>1. row.type = "text" BY <1>1, <3>2 DEF MineruTypes
      <4>2. ~row.leveled BY <1>1, <3>2
      <4>3. MineruKind(row) = "TextItem" BY <4>1, <4>2 DEF MineruKind
      <4> QED BY <3>2, <4>3 DEF KindOf
    <3>3. CASE thing.what = "table"
      <4>1. row.type = "table" BY <1>1, <3>3 DEF MineruTypes
      <4> QED BY <3>3, <4>1 DEF MineruKind, KindOf
    <3> QED BY <1>2, <2>3, <3>1, <3>2, <3>3
  <2>5. MineruBlocks(row) = <<Block(text, p[1], MineruKind(row))>> BY <1>3, <1>5, <2>2
  <2>6. text = StripUnmapped(Trim(thing.text)) BY <1>1
  <2> HIDE DEF text
  <2>7. \E b \in Made : <<Block(text, p[1], MineruKind(row))>> = <<b>> /\ BlockOf(p, b)
        BY <2>3, <2>4, <2>6, RightlyFacts DEF thing
  <2> QED BY <2>5, <2>7 DEF Rightly, row, thing
<1> QED BY <1>4, <1>5


(***************************************************************************)
(* The items in a row: where each is from, and that they come in order.    *)
(***************************************************************************)

\* What the items of a sequence yield: things of the document, in its order.
Yields(name, items, spot) ==
  /\ Len(items) \in Nat /\ spot \in [1..Len(items) -> Spots]
  /\ \A m \in 1..Len(items) : Rightly(spot[m], Yield(name, items[m]))
  /\ \A l, m \in 1..Len(items) :
       (l < m /\ Yield(name, items[l]) # <<>> /\ Yield(name, items[m]) # <<>>)
         => Sooner(spot[l], spot[m])

\* Pages of one item for every thing.
LEMMA PagesInARow ==
  ASSUME Documented, NEW seqs, Len(seqs) = Len(doc),
         NEW T, Parts(seqs, T), \A n \in 1..Len(doc) : Len(seqs[n]) = Len(doc[n]),
         NEW name,
         \A p \in Spots : Rightly(p, Yield(name, seqs[p[1]][p[2]]))
  PROVE  \E spot : Yields(name, Concat(seqs), spot)
<1> DEFINE items == Concat(seqs)
<1>1. items \in Seq(T) /\ \E at : OfRow(at, items, seqs, Len(doc)) BY RowFacts
<1>2. PICK at : OfRow(at, items, seqs, Len(doc)) BY <1>1
<1>3. Len(items) \in Nat BY <1>1
<1> HIDE DEF items
<1>4. ASSUME NEW m \in 1..Len(items)
      PROVE  at[m] \in Spots /\ items[m] = seqs[at[m][1]][at[m][2]]
  <2>1. at[m] \in (1..Len(doc)) \X (Nat \ {0}) BY <1>2 DEF OfRow
  <2>2. at[m][2] \in 1..Len(seqs[at[m][1]]) /\ items[m] = seqs[at[m][1]][at[m][2]]
        BY <1>2 DEF OfRow
  <2>3. at[m][1] \in 1..Len(doc) /\ Len(doc) \in Nat BY <2>1 DEF Documented
  <2>4. Len(seqs[at[m][1]]) = Len(doc[at[m][1]]) BY <2>3
  <2>5. at[m] \in Nat \X Nat BY <2>1, <2>3
  <2> QED BY <2>2, <2>3, <2>4, <2>5 DEF Spots
<1>5. at \in [1..Len(items) -> Spots]
  <2>1. at = [m \in 1..Len(items) |-> at[m]] BY <1>2 DEF OfRow
  <2> QED BY <1>4, <2>1
<1>6. \A m \in 1..Len(items) : Rightly(at[m], Yield(name, items[m])) BY <1>4
<1>7. \A l, m \in 1..Len(items) : l < m => Sooner(at[l], at[m]) BY <1>2 DEF OfRow
<1>8. Yields(name, items, at) BY <1>3, <1>5, <1>6, <1>7 DEF Yields
<1> QED BY <1>8 DEF items

LEMMA DoclingYields ==
  ASSUME Documented
  PROVE  \E spot : Yields("docling", DoclingItems, spot)
<1> DEFINE page(n) == [k \in 1..Len(doc[n]) |-> DoclingItem(n, doc[n][k])]
           seqs == [n \in 1..Len(doc) |-> page(n)]
           T == UNION {{DoclingItem(n, doc[n][k]) : k \in 1..Len(doc[n])} : n \in 1..Len(doc)}
<1>0. Len(doc) \in Nat BY DEF Documented
<1>1. \A n \in 1..Len(doc) : \A k \in 1..Len(doc[n]) : DoclingItem(n, doc[n][k]) \in T OBVIOUS
<1> HIDE DEF T
<1>2. ASSUME NEW n \in 1..Len(doc)
      PROVE  /\ page(n) \in Seq(T) /\ Len(page(n)) = Len(doc[n])
             /\ \A k \in 1..Len(doc[n]) : page(n)[k] = DoclingItem(n, doc[n][k])
  <2>1. Len(doc[n]) \in Nat BY PageFacts
  <2> QED BY <1>1, <2>1
<1>3. /\ Len(seqs) = Len(doc) /\ \A n \in 1..Len(doc) : seqs[n] = page(n)
      BY <1>0
<1>4. DoclingItems = Concat(seqs) BY DEF DoclingItems
<1> HIDE DEF page, seqs
<1>5. Parts(seqs, T) BY <1>0, <1>2, <1>3 DEF Parts
<1>6. ASSUME NEW p \in Spots PROVE Rightly(p, Yield("docling", seqs[p[1]][p[2]]))
  <2>1. p[1] \in 1..Len(doc) /\ p[2] \in 1..Len(doc[p[1]]) BY DEF Spots
  <2>2. seqs[p[1]][p[2]] = DoclingItem(p[1], ThingAt(p)) BY <1>2, <1>3, <2>1 DEF ThingAt
  <2>3. Yield("docling", seqs[p[1]][p[2]]) = DoclingBlocks(DoclingItem(p[1], ThingAt(p)))
        BY <2>2 DEF Yield
  <2> QED BY <2>3, DoclingYield
<1>7. \A n \in 1..Len(doc) : Len(seqs[n]) = Len(doc[n]) BY <1>2, <1>3
<1> QED BY <1>3, <1>4, <1>5, <1>6, <1>7, PagesInARow

LEMMA MineruYields ==
  ASSUME Documented
  PROVE  \E spot : Yields("mineru", MineruRows, spot)
<1> DEFINE page(n) == [k \in 1..Len(doc[n]) |-> MineruRow(n, doc[n][k])]
           seqs == [n \in 1..Len(doc) |-> page(n)]
           T == UNION {{MineruRow(n, doc[n][k]) : k \in 1..Len(doc[n])} : n \in 1..Len(doc)}
<1>0. Len(doc) \in Nat BY DEF Documented
<1>1. \A n \in 1..Len(doc) : \A k \in 1..Len(doc[n]) : MineruRow(n, doc[n][k]) \in T OBVIOUS
<1> HIDE DEF T
<1>2. ASSUME NEW n \in 1..Len(doc)
      PROVE  /\ page(n) \in Seq(T) /\ Len(page(n)) = Len(doc[n])
             /\ \A k \in 1..Len(doc[n]) : page(n)[k] = MineruRow(n, doc[n][k])
  <2>1. Len(doc[n]) \in Nat BY PageFacts
  <2> QED BY <1>1, <2>1
<1>3. /\ Len(seqs) = Len(doc) /\ \A n \in 1..Len(doc) : seqs[n] = page(n)
      BY <1>0
<1>4. MineruRows = Concat(seqs) BY DEF MineruRows
<1> HIDE DEF page, seqs
<1>5. Parts(seqs, T) BY <1>0, <1>2, <1>3 DEF Parts
<1>6. ASSUME NEW p \in Spots PROVE Rightly(p, Yield("mineru", seqs[p[1]][p[2]]))
  <2>1. p[1] \in 1..Len(doc) /\ p[2] \in 1..Len(doc[p[1]]) BY DEF Spots
  <2>2. seqs[p[1]][p[2]] = MineruRow(p[1], ThingAt(p)) BY <1>2, <1>3, <2>1 DEF ThingAt
  <2>3. Yield("mineru", seqs[p[1]][p[2]]) = MineruBlocks(MineruRow(p[1], ThingAt(p)))
        BY <2>2 DEF Yield
  <2> QED BY <2>3, MineruYield
<1>7. \A n \in 1..Len(doc) : Len(seqs[n]) = Len(doc[n]) BY <1>2, <1>3
<1> QED BY <1>3, <1>4, <1>5, <1>6, <1>7, PagesInARow

\* The children of a thing, the children of a page, and those of a document.
Child(n, k, c) ==
  MarkerItem(n, IF c = 1 THEN MarkerTypes[doc[n][k].what] ELSE "Line", doc[n][k])
LEMMA ChildrenFacts ==
  ASSUME Documented, NEW n \in 1..Len(doc), NEW k \in 1..Len(doc[n])
  PROVE  LET children == MarkerChildren(n, doc[n][k])
         IN  /\ children \in Seq({Child(n, k, c) : c \in {1, 2}})
             /\ \A c \in 1..Len(children) : children[c] = Child(n, k, c) /\ c \in Nat \ {0}
<1> DEFINE thing == doc[n][k]
           children == MarkerChildren(n, thing)
           one == MarkerItem(n, MarkerTypes[thing.what], thing)
           line == MarkerItem(n, "Line", thing)
<1>1. Child(n, k, 1) = one /\ Child(n, k, 2) = line BY DEF Child
<1> HIDE DEF one, line
<1>2. CASE thing.what = "text"
  <2>1. children = <<one>> \o <<line>> BY <1>2 DEF MarkerChildren, one, line
  <2> HIDE DEF children
  <2>2. <<one>> \in Seq({one, line}) /\ <<line>> \in Seq({one, line}) OBVIOUS
  <2>3. children \in Seq({one, line}) /\ Len(children) = 2 /\ children[1] = one /\ children[2] = line
    <3>1. /\ children \in Seq({one, line}) /\ Len(children) = Len(<<one>>) + Len(<<line>>)
          /\ \A i \in 1..Len(<<one>>) : children[i] = <<one>>[i]
          /\ \A i \in 1..Len(<<line>>) : children[Len(<<one>>) + i] = <<line>>[i]
          BY <2>1, <2>2, ConcatFacts
    <3>2. Len(<<one>>) = 1 /\ Len(<<line>>) = 1 /\ <<one>>[1] = one /\ <<line>>[1] = line OBVIOUS
    <3>3. Len(children) = 2 BY <3>1, <3>2
    <3>4. 1 \in 1..Len(<<one>>) /\ 1 \in 1..Len(<<line>>) BY <3>2
    <3>5. children[1] = <<one>>[1] BY <3>1, <3>4
    <3>6. children[Len(<<one>>) + 1] = <<line>>[1] BY <3>1, <3>4
    <3>7. children[2] = <<line>>[1] BY <3>2, <3>6
    <3>8. children \in Seq({one, line}) BY <3>1
    <3> QED BY <3>2, <3>3, <3>5, <3>7, <3>8
  <2>4. {Child(n, k, c) : c \in {1, 2}} = {one, line} BY <1>1
  <2>5. \A c \in 1..Len(children) : (c = 1 \/ c = 2) /\ c \in Nat \ {0} BY <2>3
  <2>6. \A c \in 1..Len(children) : children[c] = Child(n, k, c) BY <1>1, <2>3, <2>5
  <2> QED BY <2>3, <2>4, <2>5, <2>6 DEF children
<1>3. CASE thing.what # "text"
  <2>1. children = <<one>> \o <<>> BY <1>3 DEF MarkerChildren, one
  <2>2. children = <<one>> BY <2>1
  <2> HIDE DEF children
  <2>3. children \in Seq({one}) /\ Len(children) = 1 /\ children[1] = one BY <2>2
  <2>4. one \in {Child(n, k, c) : c \in {1, 2}} BY <1>1
  <2>5. \A c \in 1..Len(children) : c = 1 BY <2>3
  <2>6. \A c \in 1..Len(children) : children[c] = Child(n, k, c) BY <1>1, <2>3, <2>5
  <2>7. children \in Seq({Child(n, k, c) : c \in {1, 2}}) BY <2>3, <2>4
  <2> QED BY <2>5, <2>6, <2>7 DEF children
<1> QED BY <1>2, <1>3


\* The children of a page, each with its thing.
AllChildren ==
  UNION {UNION {{Child(n, k, c) : c \in {1, 2}} : k \in 1..Len(doc[n])} : n \in 1..Len(doc)}
OnPage(n) == Concat([k \in 1..Len(doc[n]) |-> MarkerChildren(n, doc[n][k])])
OfPage(at, n) ==
  /\ at \in [1..Len(OnPage(n)) -> (1..Len(doc[n])) \X (Nat \ {0})]
  /\ \A m \in 1..Len(OnPage(n)) : OnPage(n)[m] = Child(n, at[m][1], at[m][2])
  /\ \A l, m \in 1..Len(OnPage(n)) : l < m => Sooner(at[l], at[m])
LEMMA OnPageFacts ==
  ASSUME Documented, NEW n \in 1..Len(doc)
  PROVE  OnPage(n) \in Seq(AllChildren) /\ \E at : OfPage(at, n)
<1> DEFINE seqs == [k \in 1..Len(doc[n]) |-> MarkerChildren(n, doc[n][k])]
<1>0. Len(doc[n]) \in Nat BY PageFacts
<1>1. /\ Len(seqs) = Len(doc[n])
      /\ \A k \in 1..Len(doc[n]) : seqs[k] = MarkerChildren(n, doc[n][k])
      BY <1>0
<1>2. OnPage(n) = Concat(seqs) BY DEF OnPage
<1> HIDE DEF seqs
<1>3. ASSUME NEW k \in 1..Len(doc[n]) PROVE seqs[k] \in Seq(AllChildren)
  <2>1. seqs[k] \in Seq({Child(n, k, c) : c \in {1, 2}}) BY <1>1, ChildrenFacts
  <2>2. \A c \in {1, 2} : Child(n, k, c) \in AllChildren BY DEF AllChildren
  <2> QED BY <2>1, <2>2
<1>4. Parts(seqs, AllChildren) BY <1>0, <1>1, <1>3 DEF Parts
<1>5. Concat(seqs) \in Seq(AllChildren) /\ \E at : OfRow(at, Concat(seqs), seqs, Len(doc[n]))
      BY <1>1, <1>4, RowFacts
<1>6. PICK at : OfRow(at, Concat(seqs), seqs, Len(doc[n])) BY <1>5
<1>7. ASSUME NEW m \in 1..Len(OnPage(n))
      PROVE  OnPage(n)[m] = Child(n, at[m][1], at[m][2])
  <2>1. /\ at[m] \in (1..Len(doc[n])) \X (Nat \ {0})
        /\ at[m][2] \in 1..Len(seqs[at[m][1]])
        /\ OnPage(n)[m] = seqs[at[m][1]][at[m][2]]
        BY <1>2, <1>6 DEF OfRow
  <2>2. at[m][1] \in 1..Len(doc[n]) BY <2>1
  <2> DEFINE k == at[m][1]
             c == at[m][2]
  <2>3. seqs[k] = MarkerChildren(n, doc[n][k]) BY <1>1, <2>2
  <2>4. k \in 1..Len(doc[n]) /\ c \in 1..Len(seqs[k]) /\ OnPage(n)[m] = seqs[k][c] BY <2>1, <2>2
  <2> HIDE DEF k, c
  <2>5. MarkerChildren(n, doc[n][k])[c] = Child(n, k, c) BY <2>3, <2>4, ChildrenFacts
  <2> QED BY <2>3, <2>4, <2>5 DEF k, c
<1>8. OfPage(at, n) BY <1>2, <1>6, <1>7 DEF OfPage, OfRow
<1> QED BY <1>2, <1>5, <1>8

LEMMA MarkerYields ==
  ASSUME Documented
  PROVE  \E spot : Yields("marker", MarkerItems, spot)
<1> DEFINE seqs == [n \in 1..Len(doc) |-> OnPage(n)]
           within == [n \in 1..Len(doc) |-> CHOOSE at : OfPage(at, n)]
           items == Concat(seqs)
<1>0. Len(doc) \in Nat BY DEF Documented
<1>1. /\ Len(seqs) = Len(doc) /\ \A n \in 1..Len(doc) : seqs[n] = OnPage(n)
      /\ \A n \in 1..Len(doc) : OfPage(within[n], n)
      BY <1>0, OnPageFacts
<1>2. MarkerItems = items BY DEF MarkerItems, OnPage
<1> HIDE DEF seqs, within
<1>3. Parts(seqs, AllChildren) BY <1>0, <1>1, OnPageFacts DEF Parts
<1>4. items \in Seq(AllChildren) /\ \E at : OfRow(at, items, seqs, Len(doc))
      BY <1>1, <1>3, RowFacts
<1>5. PICK at : OfRow(at, items, seqs, Len(doc)) BY <1>4
<1>6. Len(items) \in Nat BY <1>4
<1> HIDE DEF items
<1> DEFINE thing(m) == within[at[m][1]][at[m][2]]
           spot == [m \in 1..Len(items) |-> <<at[m][1], thing(m)[1]>>]
<1>7. ASSUME NEW m \in 1..Len(items)
      PROVE  /\ spot[m] = <<at[m][1], thing(m)[1]>> /\ spot[m] \in Spots
             /\ at[m][1] \in 1..Len(doc) /\ at[m][2] \in 1..Len(OnPage(at[m][1]))
             /\ thing(m) \in Nat \X (Nat \ {0})
             /\ items[m] = Child(at[m][1], thing(m)[1], thing(m)[2])
  <2>1. /\ at[m] \in (1..Len(doc)) \X (Nat \ {0}) /\ at[m][2] \in 1..Len(seqs[at[m][1]])
        /\ items[m] = seqs[at[m][1]][at[m][2]]
        BY <1>5 DEF OfRow
  <2>2. at[m][1] \in 1..Len(doc) BY <2>1
  <2>3. seqs[at[m][1]] = OnPage(at[m][1]) /\ OfPage(within[at[m][1]], at[m][1]) BY <1>1, <2>2
  <2>4. thing(m) \in (1..Len(doc[at[m][1]])) \X (Nat \ {0}) BY <2>1, <2>3 DEF OfPage
  <2>5. items[m] = Child(at[m][1], thing(m)[1], thing(m)[2]) BY <2>1, <2>3 DEF OfPage
  <2>6. spot[m] = <<at[m][1], thing(m)[1]>> OBVIOUS
  <2>7. Len(doc[at[m][1]]) \in Nat /\ at[m][1] \in Nat BY <1>0, <2>2, PageFacts
  <2> HIDE DEF thing, spot
  <2>8. spot[m][1] = at[m][1] /\ spot[m][2] = thing(m)[1] BY <2>6
  <2>9. thing(m)[1] \in 1..Len(doc[at[m][1]]) /\ thing(m) \in Nat \X (Nat \ {0}) BY <2>4, <2>7
  <2>10. spot[m] \in Spots BY <2>2, <2>6, <2>7, <2>8, <2>9 DEF Spots
  <2> QED BY <2>1, <2>2, <2>3, <2>5, <2>6, <2>9, <2>10
<1>8. spot \in [1..Len(items) -> Spots] BY <1>7
<1> HIDE DEF spot
<1>9. ASSUME NEW m \in 1..Len(items)
      PROVE  /\ Rightly(spot[m], Yield("marker", items[m]))
             /\ Yield("marker", items[m]) # <<>> => thing(m)[2] = 1
  <2> DEFINE p == spot[m]
             type == IF thing(m)[2] = 1 THEN MarkerTypes[ThingAt(p).what] ELSE "Line"
  <2>1. p \in Spots /\ p[1] = at[m][1] /\ p[2] = thing(m)[1] BY SMTT(40), <1>7
  <2>2. items[m] = MarkerItem(p[1], type, ThingAt(p)) BY <1>7, <2>1 DEF Child, ThingAt
  <2>3. Yield("marker", items[m]) = MarkerBlocks(MarkerItem(p[1], type, ThingAt(p)))
        BY <2>2 DEF Yield
  <2>4. type = MarkerTypes[ThingAt(p).what] \/ type = "Line" OBVIOUS
  <2>5. thing(m)[2] # 1 => type = "Line" OBVIOUS
  <2> HIDE DEF p, type, thing
  <2>6. /\ Rightly(p, MarkerBlocks(MarkerItem(p[1], type, ThingAt(p))))
        /\ type = "Line" => MarkerBlocks(MarkerItem(p[1], type, ThingAt(p))) = <<>>
        BY <2>1, <2>4, MarkerYield
  <2> QED BY <2>3, <2>5, <2>6 DEF p
<1>10. ASSUME NEW l \in 1..Len(items), NEW m \in 1..Len(items), l < m,
              Yield("marker", items[l]) # <<>>, Yield("marker", items[m]) # <<>>
       PROVE  Sooner(spot[l], spot[m])
  <2>1. thing(l)[2] = 1 /\ thing(m)[2] = 1 BY <1>9, <1>10
  <2>2. Sooner(at[l], at[m]) BY <1>5, <1>10 DEF OfRow
  <2>3. /\ spot[l][1] = at[l][1] /\ spot[l][2] = thing(l)[1]
        /\ spot[m][1] = at[m][1] /\ spot[m][2] = thing(m)[1]
        BY <1>7
  <2>4. CASE at[l][1] < at[m][1] BY <2>3, <2>4 DEF Sooner
  <2>5. CASE at[l][1] = at[m][1] /\ at[l][2] < at[m][2]
    <3>1. OfPage(within[at[l][1]], at[l][1]) BY <1>1, <1>7
    <3>2. at[l][2] \in 1..Len(OnPage(at[l][1])) /\ at[m][2] \in 1..Len(OnPage(at[l][1]))
          BY <1>7, <2>5
    <3>3. Sooner(thing(l), thing(m)) BY <2>5, <3>1, <3>2 DEF OfPage
    <3> HIDE DEF thing
    <3>4. thing(l)[1] < thing(m)[1] BY <2>1, <3>3 DEF Sooner
    <3> QED BY <2>3, <2>5, <3>4 DEF Sooner
  <2> QED BY <2>2, <2>4, <2>5 DEF Sooner
<1>11. Yields("marker", items, spot) BY <1>6, <1>8, <1>9, <1>10 DEF Yields
<1> QED BY <1>2, <1>11

\* A page of pypdf is a block of no kind.
LEMMA PypdfYields ==
  ASSUME Documented
  PROVE  /\ Len(PypdfItems) \in Nat
         /\ \A m \in 1..Len(PypdfItems) :
              \/ Yield("pypdf", PypdfItems[m]) = <<>>
              \/ \E b \in Made : Yield("pypdf", PypdfItems[m]) = <<b>>
<1> DEFINE parts(n) == [k \in 1..Len(doc[n]) |->
                          IF doc[n][k].what = "picture" THEN <<>> ELSE doc[n][k].text]
<1>1. Len(doc) \in Nat BY DEF Documented
<1>2. Len(PypdfItems) = Len(doc) BY <1>1 DEF PypdfItems
<1>3. ASSUME NEW n \in 1..Len(doc) PROVE Concat(parts(n)) \in Texts
  <2>1. Len(doc[n]) \in Nat /\ Len(parts(n)) = Len(doc[n]) BY PageFacts
  <2>2. ASSUME NEW k \in 1..Len(doc[n]) PROVE parts(n)[k] \in Seq(Lines)
    <3>1. doc[n][k].text \in Seq(Lines) BY PageFacts DEF Things
    <3> QED BY <3>1
  <2> HIDE DEF parts
  <2>3. Parts(parts(n), Lines) BY <2>1, <2>2 DEF Parts
  <2> QED BY <2>3, RowFacts DEF Texts
<1>4. ASSUME NEW n \in 1..Len(doc)
      PROVE  PypdfItems[n].page = n /\ PypdfItems[n].text \in Texts
  <2>1. PypdfItems[n] = [page |-> n, text |-> Concat(parts(n))] BY DEF PypdfItems
  <2> HIDE DEF parts
  <2> QED BY <1>3, <2>1
<1>5. ASSUME NEW n \in 1..Len(doc)
      PROVE  \/ PypdfBlocks(PypdfItems[n]) = <<>>
             \/ \E b \in Made : PypdfBlocks(PypdfItems[n]) = <<b>>
  <2> DEFINE text == StripUnmapped(Trim(PypdfItems[n].text))
             b == Block(text, n, "None")
  <2>1. text \in Texts BY <1>4, TrimFacts, StripFacts DEF Texts
  <2>2. b \in Made BY <2>1 DEF Block, Made, Kinds
  <2>3. PypdfBlocks(PypdfItems[n]) = <<>> \/ PypdfBlocks(PypdfItems[n]) = <<b>>
        BY <1>4 DEF PypdfBlocks
  <2> QED BY <2>2, <2>3
<1> QED BY <1>2, <1>5 DEF Yield


LEMMA ItemsFacts ==
  /\ converter = "pypdf" => Items = PypdfItems
  /\ converter = "docling" => Items = DoclingItems
  /\ converter = "marker" => Items = MarkerItems
  /\ converter = "mineru" => Items = MineruRows
<1>1. "pypdf" # "docling" /\ "pypdf" # "marker" /\ "pypdf" # "mineru" OBVIOUS
<1>2. "docling" # "marker" /\ "docling" # "mineru" /\ "marker" # "mineru" OBVIOUS
<1>3. converter = "pypdf" => Items = PypdfItems BY <1>1, <1>2, Zenon DEF Items, ItemsOf
<1>4. converter = "docling" => Items = DoclingItems BY <1>1, <1>2, Zenon DEF Items, ItemsOf
<1>5. converter = "marker" => Items = MarkerItems BY <1>1, <1>2, Zenon DEF Items, ItemsOf
<1>6. converter = "mineru" => Items = MineruRows BY <1>1, <1>2, Zenon DEF Items, ItemsOf
<1> QED BY <1>3, <1>4, <1>5, <1>6


(***************************************************************************)
(* Where a line stands, before and after the cleaning.                     *)
(***************************************************************************)

TextsOf(c) == [i \in 1..Len(c) |-> FirstOf(c[i].text)]
MadeClean == [text : Seq(Lines \X BOOLEAN), page : 1..Len(doc), kind : Kinds]

LEMMA BlocksFacts ==
  ASSUME blocks \in Seq(Made)
  PROVE  /\ Len(blocks) \in Nat
         /\ \A i \in 1..Len(blocks) :
              /\ blocks[i] \in Made /\ blocks[i].text \in Seq(Lines) /\ Len(blocks[i].text) \in Nat
              /\ blocks[i].page \in 1..Len(doc) /\ blocks[i].kind \in Kinds
<1>1. Len(blocks) \in Nat /\ \A i \in 1..Len(blocks) : blocks[i] \in Made OBVIOUS
<1>2. ASSUME NEW i \in 1..Len(blocks)
      PROVE  /\ blocks[i].text \in Seq(Lines) /\ Len(blocks[i].text) \in Nat
             /\ blocks[i].page \in 1..Len(doc) /\ blocks[i].kind \in Kinds
  <2>1. blocks[i] \in Made BY <1>1
  <2>2. blocks[i].text \in Seq(Lines) /\ blocks[i].page \in 1..Len(doc) /\ blocks[i].kind \in Kinds
        BY <2>1 DEF Made, Texts
  <2> QED BY <2>2
<1> QED BY <1>1, <1>2

\* A place is a block and a line of it.
LEMMA PlacesFacts ==
  ASSUME NEW texts, Len(texts) \in Nat, \A i \in 1..Len(texts) : Len(texts[i]) \in Nat, NEW l
  PROVE  /\ \A i, k : <<i, k>> \in Places(l, texts) <=>
                        i \in 1..Len(texts) /\ k \in 1..Len(texts[i]) /\ texts[i][k] = l
         /\ \A p \in Places(l, texts) : p = <<p[1], p[2]>>
         /\ IsFiniteSet(Places(l, texts))
<1> DEFINE row(i) == {<<i, k>> : k \in {m \in 1..Len(texts[i]) : texts[i][m] = l}}
           rows == {row(i) : i \in 1..Len(texts)}
<1>1. Places(l, texts) = UNION rows BY DEF Places
<1>2. ASSUME NEW i, NEW k
      PROVE  <<i, k>> \in Places(l, texts) <=>
               i \in 1..Len(texts) /\ k \in 1..Len(texts[i]) /\ texts[i][k] = l
  <2>1. ASSUME <<i, k>> \in UNION rows
        PROVE  i \in 1..Len(texts) /\ k \in 1..Len(texts[i]) /\ texts[i][k] = l
    <3>1. PICK j \in 1..Len(texts) : <<i, k>> \in row(j) BY <2>1
    <3>2. PICK m \in 1..Len(texts[j]) : texts[j][m] = l /\ <<i, k>> = <<j, m>> BY <3>1
    <3>3. i = j /\ k = m BY <3>2
    <3> QED BY <3>2, <3>3
  <2>2. ASSUME i \in 1..Len(texts), k \in 1..Len(texts[i]), texts[i][k] = l
        PROVE  <<i, k>> \in UNION rows
    <3>1. <<i, k>> \in row(i) /\ row(i) \in rows BY <2>2
    <3> QED BY <3>1
  <2> QED BY <1>1, <2>1, <2>2
<1>3. ASSUME NEW p \in Places(l, texts) PROVE p = <<p[1], p[2]>>
  <2>1. PICK j \in 1..Len(texts) : p \in row(j) BY <1>1
  <2>2. PICK m \in 1..Len(texts[j]) : p = <<j, m>> BY <2>1
  <2> QED BY <2>2
<1>4. ASSUME NEW i \in 1..Len(texts) PROVE IsFiniteSet(row(i))
  <2> DEFINE K == {m \in 1..Len(texts[i]) : texts[i][m] = l}
             f == [k \in K |-> <<i, k>>]
  <2>0. Len(texts[i]) \in Int /\ 1 \in Int OBVIOUS
  <2>1. IsFiniteSet(1..Len(texts[i])) BY <2>0, FS_Interval
  <2>2. IsFiniteSet(K) BY <2>1, FS_Subset
  <2>3. f \in Surjection(K, row(i)) BY DEF Surjection
  <2> HIDE DEF f, K, row
  <2> QED BY <2>2, <2>3, FS_Surjection
<1>5. IsFiniteSet(rows)
  <2> DEFINE f == [i \in 1..Len(texts) |-> row(i)]
  <2>1. IsFiniteSet(1..Len(texts)) BY FS_Interval
  <2>2. f \in Surjection(1..Len(texts), rows)
    <3> HIDE DEF row
    <3> QED BY DEF Surjection
  <2> HIDE DEF f, rows
  <2> QED BY <2>1, <2>2, FS_Surjection
<1>6. IsFiniteSet(UNION rows)
  <2>1. \A T \in rows : IsFiniteSet(T) BY <1>4
  <2> HIDE DEF rows
  <2> QED BY <1>5, <2>1, FS_UNION
<1> QED BY <1>1, <1>2, <1>3, <1>6

\* The clean blocks are blocks, in order, and only the empty ones are missing.
OfBlocksClean(at) ==
  /\ Len(Cleaned) \in Nat
  /\ at \in [1..Len(Cleaned) -> 1..Len(blocks)]
  /\ \A i, j \in 1..Len(Cleaned) : i < j => at[i] < at[j]
  /\ \A i \in 1..Len(Cleaned) : Cleaned[i].text = Clean(blocks[at[i]].text)
  /\ \A k \in 1..Len(blocks) : Clean(blocks[k].text) # <<>> => \E i \in 1..Len(Cleaned) : at[i] = k

LEMMA AsIsFacts ==
  ASSUME NEW text \in Seq(Lines)
  PROVE  AsIs(text) \in Seq(Lines \X BOOLEAN)
<1> DEFINE T == Lines \X BOOLEAN
           pair(i) == <<text[i], FALSE>>
<1>1. Len(text) \in Nat /\ \A i \in 1..Len(text) : text[i] \in Lines OBVIOUS
<1>2. \A i \in 1..Len(text) : pair(i) \in T BY <1>1
<1>3. AsIs(text) = [i \in 1..Len(text) |-> pair(i)] BY DEF AsIs
<1> HIDE DEF pair, T
<1>4. AsIs(text) \in Seq(T) BY <1>1, <1>2, <1>3
<1> QED BY <1>4 DEF T

LEMMA CleanedFacts ==
  ASSUME blocks \in Seq(Made), arm \in Arms
  PROVE  /\ Cleaned \in Seq(MadeClean)
         /\ arm = "strip" => \E at : OfBlocksClean(at)
<1> DEFINE new(i) == IF arm = "strip" THEN Clean(blocks[i].text) ELSE AsIs(blocks[i].text)
           one(i) == [blocks[i] EXCEPT !.text = new(i)]
           all == [i \in 1..Len(blocks) |-> one(i)]
           S == {i \in 1..Len(all) : arm = "none" \/ all[i].text # <<>>}
           part == Select(all, S)
<1>0. Len(blocks) \in Nat BY BlocksFacts
<1>1. Cleaned = part BY DEF Cleaned
<1>2. ASSUME NEW i \in 1..Len(blocks)
      PROVE  one(i) \in MadeClean /\ one(i).text = new(i)
  <2>1. blocks[i].text \in Seq(Lines) /\ blocks[i] \in Made BY BlocksFacts
  <2>2. new(i) \in Seq(Lines \X BOOLEAN) BY <2>1, CleanFacts, AsIsFacts
  <2> HIDE DEF new
  <2> QED BY <2>1, <2>2 DEF Made, MadeClean
<1> HIDE DEF new, one
<1>3. /\ all \in Seq(MadeClean) /\ Len(all) = Len(blocks)
      /\ \A i \in 1..Len(blocks) : all[i] = one(i)
      BY <1>0, <1>2
<1> HIDE DEF all, part, S
<1>4. /\ part \in Seq(MadeClean) /\ Picks(InOrder(S, Len(all)), part, all, S)
      BY <1>3, SelectFacts DEF part
<1>5. ASSUME arm = "strip" PROVE \E at : OfBlocksClean(at)
  <2> DEFINE at == InOrder(S, Len(all))
  <2>1. /\ Len(part) \in Nat /\ at \in [1..Len(part) -> 1..Len(blocks)]
        /\ \A i, j \in 1..Len(part) : i < j => at[i] < at[j]
        /\ \A i \in 1..Len(part) : part[i] = all[at[i]]
        /\ \A k \in 1..Len(blocks) : k \in S => \E i \in 1..Len(part) : at[i] = k
        BY <1>3, <1>4 DEF Picks
  <2> HIDE DEF at
  <2>2. \A k \in 1..Len(blocks) : all[k].text = Clean(blocks[k].text)
    <3>1. ASSUME NEW k \in 1..Len(blocks) PROVE all[k].text = Clean(blocks[k].text)
      <4>1. all[k] = one(k) /\ one(k).text = new(k) BY <1>2, <1>3
      <4> QED BY <1>5, <4>1 DEF new
    <3> QED BY <3>1
  <2>3. \A i \in 1..Len(part) : part[i].text = Clean(blocks[at[i]].text) BY <2>1, <2>2
  <2>4. \A k \in 1..Len(blocks) : Clean(blocks[k].text) # <<>> => k \in S
        BY <1>3, <2>2 DEF S
  <2>5. OfBlocksClean(at) BY <1>1, <2>1, <2>3, <2>4 DEF OfBlocksClean
  <2> QED BY <2>5
<1> QED BY <1>1, <1>4, <1>5


\* What is furniture stands nowhere, and every other line where it did.
LEMMA OccurrencesStay ==
  ASSUME blocks \in Seq(Made), arm \in Arms, arm = "strip", NEW l \in Lines \ {Blank}
  PROVE  /\ l \notin Furniture => Occurrences(l, TextsOf(Cleaned)) = Occurrences(l, Before)
         /\ l \in Furniture => Occurrences(l, TextsOf(Cleaned)) = 0
<1> DEFINE n == Len(blocks)
           text(i) == blocks[i].text
           origin == [i \in 1..n |-> CHOOSE o : Picks(o, FirstOf(Clean(text(i))), text(i), Solid(text(i)))]
           A == Places(l, TextsOf(Cleaned))
           B == Places(l, Before)
<1>0. n \in Nat /\ \A i \in 1..n : text(i) \in Seq(Lines) /\ Len(text(i)) \in Nat BY BlocksFacts
<1>1. PICK at : OfBlocksClean(at) BY CleanedFacts
<1> DEFINE m == Len(Cleaned)
<1>2. /\ m \in Nat /\ at \in [1..m -> 1..n]
      /\ \A x, y \in 1..m : x < y => at[x] < at[y]
      /\ \A x \in 1..m : Cleaned[x].text = Clean(text(at[x]))
      /\ \A i \in 1..n : Clean(text(i)) # <<>> => \E x \in 1..m : at[x] = i
      BY <1>1 DEF OfBlocksClean
<1>3. ASSUME NEW i \in 1..n
      PROVE  /\ Picks(origin[i], FirstOf(Clean(text(i))), text(i), Solid(text(i)))
             /\ Len(FirstOf(Clean(text(i)))) \in Nat
             /\ \A k \in 1..Len(FirstOf(Clean(text(i)))) : FirstOf(Clean(text(i)))[k] \notin Furniture
             /\ Len(FirstOf(Clean(text(i)))) = Len(Clean(text(i)))
  <2>1. /\ \E o : Picks(o, FirstOf(Clean(text(i))), text(i), Solid(text(i)))
        /\ Len(FirstOf(Clean(text(i)))) = Len(Clean(text(i)))
        /\ \A k \in 1..Len(Clean(text(i))) :
             /\ FirstOf(Clean(text(i)))[k] = Clean(text(i))[k][1]
             /\ Clean(text(i))[k][1] \notin Furniture
        BY <1>0, CleanFacts
  <2>2. Picks(origin[i], FirstOf(Clean(text(i))), text(i), Solid(text(i))) BY <2>1
  <2>3. Len(FirstOf(Clean(text(i)))) \in Nat BY <2>2 DEF Picks
  <2> QED BY <2>1, <2>2, <2>3
<1> DEFINE clean == [i \in 1..n |-> FirstOf(Clean(text(i)))]
           after == TextsOf(Cleaned)
<1>4. /\ Len(after) = m /\ \A x \in 1..m : after[x] = clean[at[x]]
      BY <1>2 DEF TextsOf
<1>5. /\ Len(Before) = n /\ \A i \in 1..n : Before[i] = text(i)
      BY <1>0 DEF Before
<1>6. ASSUME NEW i \in 1..n
      PROVE  /\ Picks(origin[i], clean[i], text(i), Solid(text(i))) /\ Len(clean[i]) \in Nat
             /\ \A k \in 1..Len(clean[i]) : clean[i][k] \notin Furniture
             /\ Clean(text(i)) = <<>> => Len(clean[i]) = 0
  <2>1. clean[i] = FirstOf(Clean(text(i))) OBVIOUS
  <2>2. Clean(text(i)) = <<>> => Len(clean[i]) = 0 BY <1>3, <2>1
  <2> QED BY <1>3, <2>1, <2>2
<1> HIDE DEF origin, clean, after, m
<1>7. ASSUME NEW x \in 1..m PROVE at[x] \in 1..n /\ Len(after[x]) \in Nat
  <2>1. at[x] \in 1..n BY <1>2
  <2> QED BY <1>4, <1>6, <2>1
<1>8. /\ \A x, k : <<x, k>> \in A <=> x \in 1..m /\ k \in 1..Len(after[x]) /\ after[x][k] = l
      /\ \A p \in A : p = <<p[1], p[2]>>
  <2>1. Len(after) \in Nat /\ \A x \in 1..Len(after) : Len(after[x]) \in Nat BY <1>2, <1>4, <1>7
  <2> QED BY <1>4, <2>1, PlacesFacts DEF after
<1>9. /\ \A i, k : <<i, k>> \in B <=> i \in 1..n /\ k \in 1..Len(text(i)) /\ text(i)[k] = l
      /\ \A p \in B : p = <<p[1], p[2]>>
      /\ IsFiniteSet(B)
  <2>1. Len(Before) \in Nat /\ \A i \in 1..Len(Before) : Len(Before[i]) \in Nat BY <1>0, <1>5
  <2>2. /\ \A i, k : <<i, k>> \in B <=> i \in 1..Len(Before) /\ k \in 1..Len(Before[i]) /\ Before[i][k] = l
        /\ \A p \in B : p = <<p[1], p[2]>>
        /\ IsFiniteSet(B)
        BY <2>1, PlacesFacts
  <2> QED BY <1>5, <2>2
<1>10. Occurrences(l, TextsOf(Cleaned)) = Cardinality(A) /\ Occurrences(l, Before) = Cardinality(B)
       BY DEF Occurrences
<1> HIDE DEF A, B, n, text
<1>11. ASSUME l \in Furniture PROVE Cardinality(A) = 0
  <2>1. ASSUME NEW p \in A PROVE FALSE
    <3>1. <<p[1], p[2]>> \in A BY <1>8
    <3>2. p[1] \in 1..m /\ p[2] \in 1..Len(after[p[1]]) /\ after[p[1]][p[2]] = l BY <1>8, <3>1
    <3>3. at[p[1]] \in 1..n /\ after[p[1]] = clean[at[p[1]]] BY <1>4, <1>7, <3>2
    <3> QED BY <1>6, <1>11, <3>2, <3>3
  <2>2. A = {} BY <2>1
  <2> QED BY <2>2, FS_EmptySet
<1>12. ASSUME l \notin Furniture PROVE Cardinality(A) = Cardinality(B)
  <2> DEFINE f == [p \in A |-> <<at[p[1]], origin[at[p[1]]][p[2]]>>]
  <2>1. ASSUME NEW p \in A
        PROVE  /\ p[1] \in 1..m /\ at[p[1]] \in 1..n /\ p[2] \in 1..Len(clean[at[p[1]]])
               /\ f[p] = <<at[p[1]], origin[at[p[1]]][p[2]]>> /\ f[p] \in B
    <3>1. <<p[1], p[2]>> \in A BY <1>8
    <3>2. p[1] \in 1..m /\ p[2] \in 1..Len(after[p[1]]) /\ after[p[1]][p[2]] = l BY <1>8, <3>1
    <3> DEFINE i == at[p[1]]
               k == origin[i][p[2]]
    <3>3. i \in 1..n /\ after[p[1]] = clean[i] BY <1>4, <1>7, <3>2
    <3>4. k \in 1..Len(text(i)) /\ text(i)[k] = clean[i][p[2]] BY ZenonT(60), <1>6, <3>2, <3>3 DEF Picks
    <3>5. <<i, k>> \in B BY <1>9, <3>2, <3>3, <3>4
    <3>6. f[p] = <<i, k>> OBVIOUS
    <3> QED BY <3>2, <3>3, <3>5, <3>6
  <2>2. f \in [A -> B] BY <2>1
  <2> HIDE DEF f
  <2>3. ASSUME NEW p \in A, NEW q \in A, f[p] = f[q] PROVE p = q
    <3>1. at[p[1]] = at[q[1]] /\ origin[at[p[1]]][p[2]] = origin[at[q[1]]][q[2]]
      <4>1. f[p] = <<at[p[1]], origin[at[p[1]]][p[2]]>> /\ f[q] = <<at[q[1]], origin[at[q[1]]][q[2]]>>
            BY <2>1
      <4> DEFINE a == at[p[1]]
                 b == origin[at[p[1]]][p[2]]
                 c == at[q[1]]
                 d == origin[at[q[1]]][q[2]]
      <4>2. f[p] = <<a, b>> /\ f[q] = <<c, d>> BY <4>1
      <4> HIDE DEF a, b, c, d
      <4>3. <<a, b>> = <<c, d>> BY <2>3, <4>2
      <4>4. a = c /\ b = d BY <4>3
      <4> QED BY <4>4 DEF a, b, c, d
    <3>2. p[1] = q[1]
      <4>1. p[1] \in 1..m /\ q[1] \in 1..m /\ p[1] \in Int /\ q[1] \in Int BY <2>1
      <4>2. at[p[1]] \in Int BY <2>1
      <4>3. ~(p[1] < q[1]) BY <1>2, <3>1, <4>1, <4>2
      <4>4. ~(q[1] < p[1]) BY <1>2, <3>1, <4>1, <4>2
      <4> QED BY <4>1, <4>3, <4>4
    <3> DEFINE i == at[p[1]]
               o == origin[i]
    <3>3. i \in 1..n /\ p[2] \in 1..Len(clean[i]) /\ q[2] \in 1..Len(clean[i]) BY <2>1, <3>2
    <3>4. o[p[2]] = o[q[2]] BY <3>1, <3>2
    <3>5. /\ o \in [1..Len(clean[i]) -> 1..Len(text(i))]
          /\ \A x, y \in 1..Len(clean[i]) : x < y => o[x] < o[y]
          BY <1>6, <3>3 DEF Picks
    <3> HIDE DEF o, i
    <3>6. p[2] = q[2]
      <4>1. o[p[2]] \in Int /\ p[2] \in Int /\ q[2] \in Int BY <3>3, <3>5
      <4>2. ~(p[2] < q[2]) BY <3>3, <3>4, <3>5, <4>1
      <4>3. ~(q[2] < p[2]) BY <3>3, <3>4, <3>5, <4>1
      <4> QED BY <4>1, <4>2, <4>3
    <3> QED BY <1>8, <3>2, <3>6
  <2>4. ASSUME NEW b \in B PROVE \E p \in A : f[p] = b
    <3>1. <<b[1], b[2]>> \in B /\ b = <<b[1], b[2]>> BY <1>9
    <3>2. b[1] \in 1..n /\ b[2] \in 1..Len(text(b[1])) /\ text(b[1])[b[2]] = l BY <1>9, <3>1
    <3>3. b[2] \in Solid(text(b[1])) BY <1>12, <3>2 DEF Solid
    <3>4. PICK k \in 1..Len(clean[b[1]]) : origin[b[1]][k] = b[2] BY <1>6, <3>2, <3>3 DEF Picks
    <3>5. Clean(text(b[1])) # <<>>
      <4>1. Len(clean[b[1]]) # 0 BY <3>4
      <4> QED BY <1>6, <3>2, <4>1
    <3>6. PICK x \in 1..m : at[x] = b[1] BY <1>2, <3>2, <3>5
    <3>7. after[x] = clean[b[1]] BY <1>4, <3>6
    <3>8. clean[b[1]][k] = l BY SMTT(40), <1>6, <3>2, <3>4 DEF Picks
    <3>9. <<x, k>> \in A BY <1>8, <3>4, <3>7, <3>8
    <3>10. f[<<x, k>>] = <<at[x], origin[at[x]][k]>>
      <4>1. <<x, k>>[1] = x /\ <<x, k>>[2] = k OBVIOUS
      <4> QED BY <2>1, <3>9, <4>1
    <3> QED BY <3>1, <3>4, <3>6, <3>9, <3>10
  <2>5. f \in Injection(A, B) BY <2>2, <2>3 DEF Injection, IsInjective
  <2>6. f \in Surjection(A, B) BY <2>2, <2>4 DEF Surjection
  <2> QED BY <1>9, <2>5, <2>6, FS_Injection
<1> QED BY <1>10, <1>11, <1>12

\* Joined text leaves no word broken.
Meeting(w) ==
  \A i, j \in 1..Len(w) :
    (i < j /\ w[i][1] \in Broken /\ w[j][1] \in Continued
      /\ \A k \in (i + 1)..(j - 1) : w[k][1] = Blank) => w[j][2]
LEMMA RejoinedMeet ==
  ASSUME NEW text \in Seq(Lines)
  PROVE  Meeting(Rejoined(text))
<1> DEFINE w == Rejoined(text)
           S == Unswallowed(text)
           at == InOrder(S, Len(text))
           n == Len(w)
<1>1. /\ Picks(at, FirstOf(w), text, S) /\ Len(FirstOf(w)) = n
      /\ \A i \in 1..n : FirstOf(w)[i] = w[i][1] /\ w[i][2] = Meets(text, at[i])
      BY RejoinedFacts
<1> HIDE DEF at, w, n
<1>2. /\ n \in Nat /\ Len(text) \in Nat /\ at \in [1..n -> 1..Len(text)]
      /\ \A i, j \in 1..n : i < j => at[i] < at[j]
      /\ \A i \in 1..n : w[i][1] = text[at[i]]
      /\ \A k \in 1..Len(text) : k \in S => \E i \in 1..n : at[i] = k
      BY <1>1 DEF Picks
<1> SUFFICES ASSUME NEW i \in 1..n, NEW j \in 1..n, i < j, w[i][1] \in Broken, w[j][1] \in Continued,
                    \A k \in (i + 1)..(j - 1) : w[k][1] = Blank
             PROVE  w[j][2]
    BY DEF Meeting, w, n
<1>3. /\ at[i] \in 1..Len(text) /\ at[j] \in 1..Len(text) /\ at[i] < at[j]
      /\ text[at[i]] \in Broken /\ text[at[j]] \in Continued
      BY <1>2
<1>4. ASSUME NEW m \in (at[i] + 1)..(at[j] - 1) PROVE text[m] = Blank
  <2>1. m \in 1..Len(text) /\ at[i] < m /\ m < at[j] /\ m \in Int BY SMTT(40), <1>2, <1>3
  <2>2. CASE m \in S
    <3>1. PICK k \in 1..n : at[k] = m BY <1>2, <2>1, <2>2
    <3>2. at[i] \in Int /\ at[j] \in Int /\ i \in Int /\ j \in Int /\ k \in Int BY <1>2, <1>3
    <3>3. k # i /\ ~(k < i) BY <1>2, <2>1, <3>1, <3>2
    <3>4. k # j /\ ~(j < k) BY <1>2, <2>1, <3>1, <3>2
    <3>5. k \in (i + 1)..(j - 1) BY <3>2, <3>3, <3>4
    <3> QED BY <1>2, <3>1, <3>5
  <2>3. CASE m \notin S BY <2>1, <2>3 DEF Unswallowed, Swallowed
  <2> QED BY <2>2, <2>3
<1>5. at[i] \in 1..(at[j] - 1) BY <1>2, <1>3
<1>6. Meets(text, at[j]) BY <1>3, <1>4, <1>5 DEF Meets
<1>7. w[j][2] = Meets(text, at[j]) BY <1>1
<1> QED BY <1>6, <1>7

LEMMA WordsMeet ==
  ASSUME blocks \in Seq(Made), arm \in Arms, arm = "strip", NEW i \in 1..Len(Cleaned)
  PROVE  Meeting(Cleaned[i].text)
<1>1. PICK at : OfBlocksClean(at) BY CleanedFacts
<1>2. at[i] \in 1..Len(blocks) /\ Cleaned[i].text = Clean(blocks[at[i]].text) BY <1>1 DEF OfBlocksClean
<1> DEFINE text == blocks[at[i]].text
<1>3. text \in Seq(Lines) BY <1>2, BlocksFacts
<1> HIDE DEF text
<1>4. Without(text) \in Seq(Lines) BY <1>3, SelectFacts DEF Without
<1>5. Trim(Without(text)) \in Seq(Lines) BY <1>4, TrimFacts
<1>6. Clean(text) = Rejoined(Trim(Without(text))) BY DEF Clean
<1>7. Meeting(Clean(text)) BY <1>5, <1>6, RejoinedMeet
<1> QED BY <1>2, <1>7 DEF text


(***************************************************************************)
(* What is counted, and what is furniture.                                 *)
(***************************************************************************)

OnPages(l, pages) == {p \in pages : l \in Short \ {Blank} /\ l \in LinesOn(p)}
SeenCounts == seen \in [Lines -> Nat] /\ \A l \in Lines : seen[l] = Cardinality(OnPages(l, counted))

LEMMA PagesFacts ==
  ASSUME Documented, blocks \in Seq(Made)
  PROVE  /\ PagesOf(blocks) \subseteq 1..Len(doc)
         /\ \A S \in SUBSET PagesOf(blocks) : IsFiniteSet(S) /\ Cardinality(S) \in Nat
         /\ \A l : OnPages(l, PagesOf(blocks)) \subseteq Standing(l)
         /\ \A l \in Short \ {Blank} : Standing(l) = OnPages(l, PagesOf(blocks))
         /\ \A l : Standing(l) \subseteq PagesOf(blocks)
<1>1. PagesOf(blocks) \subseteq 1..Len(doc)
  <2>1. \A i \in 1..Len(blocks) : blocks[i].page \in 1..Len(doc) BY BlocksFacts
  <2> QED BY <2>1 DEF PagesOf
<1>2. IsFiniteSet(1..Len(doc))
  <2>1. Len(doc) \in Int /\ 1 \in Int BY DEF Documented
  <2> QED BY <2>1, FS_Interval
<1>3. \A S \in SUBSET PagesOf(blocks) : IsFiniteSet(S) /\ Cardinality(S) \in Nat
  <2>1. \A S \in SUBSET PagesOf(blocks) : S \in SUBSET (1..Len(doc)) BY <1>1
  <2>2. \A S \in SUBSET (1..Len(doc)) : IsFiniteSet(S) BY <1>2, FS_Subset
  <2> QED BY <2>1, <2>2, FS_CardinalityType
<1>4. ASSUME NEW l, NEW p PROVE l \in LinesOn(p) <=> \E i \in 1..Len(blocks) : blocks[i].page = p /\ l \in Range(blocks[i].text)
  <2> DEFINE on == {j \in 1..Len(blocks) : blocks[j].page = p}
  <2>1. LinesOn(p) = UNION {Range(blocks[i].text) : i \in on} BY DEF LinesOn
  <2>2. l \in LinesOn(p) => \E i \in on : l \in Range(blocks[i].text) BY <2>1
  <2>3. (\E i \in on : l \in Range(blocks[i].text)) => l \in LinesOn(p) BY <2>1
  <2> QED BY <2>2, <2>3
<1>5. ASSUME NEW l, NEW p
      PROVE  p \in Standing(l) <=> \E i \in 1..Len(blocks) : blocks[i].page = p /\ l \in Range(blocks[i].text)
      BY DEF Standing
<1>6. ASSUME NEW p PROVE p \in PagesOf(blocks) <=> \E i \in 1..Len(blocks) : blocks[i].page = p
      BY DEF PagesOf
<1>7. \A l : Standing(l) \subseteq PagesOf(blocks) BY <1>5, <1>6
<1>8. \A l : \A p \in PagesOf(blocks) : l \in LinesOn(p) <=> p \in Standing(l) BY <1>4, <1>5
<1>9. \A l : OnPages(l, PagesOf(blocks)) \subseteq Standing(l) BY <1>8 DEF OnPages
<1>10. ASSUME NEW l \in Short \ {Blank} PROVE Standing(l) = OnPages(l, PagesOf(blocks))
  <2>1. \A p \in Standing(l) : p \in PagesOf(blocks) /\ l \in LinesOn(p) BY <1>7, <1>8
  <2>2. Standing(l) \subseteq OnPages(l, PagesOf(blocks)) BY <2>1 DEF OnPages
  <2> QED BY <1>9, <2>2
<1> QED BY <1>1, <1>3, <1>7, <1>9, <1>10

\* FURNITURE_SHARE, rounded down.
LEMMA ShareFacts ==
  ASSUME NEW pages \in Nat
  PROVE  LET share == (pages * 3) \div 5
         IN  share \in Nat /\ 5 * share <= 3 * pages /\ 3 * pages < 5 * share + 5
BY SMT

LEMMA ThresholdFacts ==
  ASSUME Documented, blocks \in Seq(Made), NEW on \in Nat
  PROVE  LET pages == Cardinality(PagesOf(blocks))
         IN  /\ Threshold \in Nat
             /\ (on < 3 \/ 5 * (on + 1) <= 3 * pages) => on < Threshold
             /\ (on >= 3 /\ 5 * (on + 1) > 3 * pages) => on >= Threshold
<1> DEFINE pages == Cardinality(PagesOf(blocks))
           share == (pages * 3) \div 5
<1>1. pages \in Nat BY PagesFacts
<1> HIDE DEF pages
<1>2. share \in Nat /\ 5 * share <= 3 * pages /\ 3 * pages < 5 * share + 5 BY <1>1, ShareFacts
<1>3. Threshold = IF share > 3 THEN share ELSE 3 BY DEF Threshold, pages
<1> HIDE DEF share
<1>4. Threshold \in Nat BY <1>2, <1>3
<1>5. ASSUME on < 3 \/ 5 * (on + 1) <= 3 * pages PROVE on < Threshold
  <2>1. CASE on < 3 BY <1>2, <1>3, <2>1
  <2>2. CASE on >= 3 /\ 5 * (on + 1) <= 3 * pages
    <3>1. on < share BY <1>1, <1>2, <2>2
    <3> QED BY <1>2, <1>3, <2>2, <3>1
  <2> QED BY <1>5, <2>1, <2>2
<1>6. ASSUME on >= 3, 5 * (on + 1) > 3 * pages PROVE on >= Threshold
  <2>1. on >= share BY <1>1, <1>2, <1>6
  <2> QED BY <1>2, <1>3, <1>6, <2>1
<1> QED BY <1>4, <1>5, <1>6 DEF pages

\* When all pages are counted, what runs through them is furniture.
LEMMA FurnitureFacts ==
  ASSUME Documented, blocks \in Seq(Made), SeenCounts, arm = "strip", Converted, ~failed,
         Counting => counted = PagesOf(blocks), NEW l \in Lines \ {Blank}
  PROVE  LET pages == Cardinality(PagesOf(blocks))
             on == Cardinality(Standing(l))
         IN  /\ (l \notin Short \/ on < 3 \/ 5 * (on + 1) <= 3 * pages) => l \notin Furniture
             /\ (on >= 3 /\ 5 * (on + 1) > 3 * pages /\ l \in Short) => l \in Furniture
<1> DEFINE pages == Cardinality(PagesOf(blocks))
           on == Cardinality(Standing(l))
<1>1. pages \in Nat /\ on \in Nat /\ on <= pages
  <2>1. Standing(l) \in SUBSET PagesOf(blocks) /\ IsFiniteSet(PagesOf(blocks)) BY PagesFacts
  <2>2. on <= pages BY <2>1, FS_Subset
  <2> QED BY <2>1, <2>2, PagesFacts
<1>2. CASE ~Counting
  <2>1. Furniture = {} BY <1>2 DEF Furniture
  <2>2. pages < 3 BY <1>1, <1>2 DEF Counting
  <2> HIDE DEF pages, on
  <2>3. ~(on >= 3) BY <1>1, <2>2
  <2> QED BY <2>1, <2>3 DEF pages, on
<1>3. CASE Counting
  <2>1. l \in Furniture <=> seen[l] >= Threshold BY <1>3 DEF Furniture
  <2>2. seen[l] = Cardinality(OnPages(l, PagesOf(blocks))) BY <1>3 DEF SeenCounts
  <2>3. seen[l] \in Nat /\ seen[l] <= on
    <3>1. OnPages(l, PagesOf(blocks)) \in SUBSET Standing(l) /\ IsFiniteSet(Standing(l)) BY PagesFacts
    <3>2. seen[l] \in Nat BY DEF SeenCounts
    <3> QED BY <2>2, <3>1, <3>2, FS_Subset
  <2>4. l \in Short => seen[l] = on BY <2>2, PagesFacts
  <2>5. /\ Threshold \in Nat
        /\ (on < 3 \/ 5 * (on + 1) <= 3 * pages) => on < Threshold
        /\ (on >= 3 /\ 5 * (on + 1) > 3 * pages) => on >= Threshold
        BY <1>1, ThresholdFacts
  <2>6. l \notin Short => seen[l] = 0 /\ 0 < Threshold
    <3>1. l \notin Short => OnPages(l, PagesOf(blocks)) = {} BY DEF OnPages
    <3>2. 0 \in Nat /\ 0 < 3 OBVIOUS
    <3>3. 0 < Threshold BY <3>2, ThresholdFacts
    <3> QED BY <2>2, <3>1, <3>3, FS_EmptySet
  <2> HIDE DEF pages, on
  <2>7. (l \notin Short \/ on < 3 \/ 5 * (on + 1) <= 3 * pages) => l \notin Furniture
        BY <1>1, <2>1, <2>3, <2>5, <2>6
  <2>8. (on >= 3 /\ 5 * (on + 1) > 3 * pages /\ l \in Short) => l \in Furniture BY <1>1, <2>1, <2>4, <2>5
  <2> QED BY <2>7, <2>8 DEF pages, on
<1> QED BY <1>2, <1>3


(***************************************************************************)
(* The invariant: every block is what the adapter made of an item taken,   *)
(* the pages are counted, and what is clean is clean.                      *)
(***************************************************************************)

OneEach(src) ==
  /\ src \in [1..Len(blocks) -> 1..taken]
  /\ \A i, j \in 1..Len(blocks) : i < j => src[i] < src[j]
  /\ \A i \in 1..Len(blocks) : Yield(converter, Items[src[i]]) = <<blocks[i]>>

Converting ==
  /\ Documented /\ arm \in Arms /\ failed \in BOOLEAN
  /\ taken \in 0..Len(Items)
  /\ blocks \in Seq(Made) /\ \E src : OneEach(src)
Counts == counted \subseteq PagesOf(blocks) /\ (counted # {} => Converted) /\ SeenCounts
CleanIs ==
  /\ done \in BOOLEAN /\ cleaned \in Seq(MadeClean)
  /\ done => Converted /\ (arm = "strip" /\ Counting => counted = PagesOf(blocks))
  /\ FurnitureIsWhatRuns /\ BrokenWordsMeet

BlocksInv == Converting /\ Counts /\ CleanIs

\* The blocks of an item: none, or one.
LEMMA YieldFacts ==
  ASSUME Documented
  PROVE  /\ Len(Items) \in Nat
         /\ \A m \in 1..Len(Items) :
              \/ Yield(converter, Items[m]) = <<>>
              \/ \E b \in Made : Yield(converter, Items[m]) = <<b>>
<1>1. ASSUME NEW name, NEW items, NEW spot, Yields(name, items, spot)
      PROVE  /\ Len(items) \in Nat
             /\ \A m \in 1..Len(items) : \/ Yield(name, items[m]) = <<>>
                                         \/ \E b \in Made : Yield(name, items[m]) = <<b>>
      BY <1>1 DEF Yields, Rightly
<1>2. CASE converter = "pypdf" BY <1>2, ItemsFacts, PypdfYields
<1>3. CASE converter = "docling"
  <2>1. PICK spot : Yields(converter, Items, spot) BY <1>3, ItemsFacts, DoclingYields
  <2> QED BY <1>1, <2>1
<1>4. CASE converter = "marker"
  <2>1. PICK spot : Yields(converter, Items, spot) BY <1>4, ItemsFacts, MarkerYields
  <2> QED BY <1>1, <2>1
<1>5. CASE converter = "mineru"
  <2>1. PICK spot : Yields(converter, Items, spot) BY <1>5, ItemsFacts, MineruYields
  <2> QED BY <1>1, <2>1
<1> QED BY <1>2, <1>3, <1>4, <1>5 DEF Documented, Converters

\* Whatever the converter, its items come in the order of the document.
LEMMA InDocumentOrder ==
  ASSUME Documented, converter # "pypdf"
  PROVE  \E spot : Yields(converter, Items, spot)
<1>1. CASE converter = "docling" BY <1>1, ItemsFacts, DoclingYields
<1>2. CASE converter = "marker" BY <1>2, ItemsFacts, MarkerYields
<1>3. CASE converter = "mineru" BY <1>3, ItemsFacts, MineruYields
<1> QED BY <1>1, <1>2, <1>3 DEF Documented, Converters

\* So the blocks keep it.
LEMMA StructureFollows == Converting => StructureIsKept
<1> SUFFICES ASSUME Converting, converter # "pypdf"
             PROVE  /\ \A n \in 1..Len(doc) : ThingsOn(n)
                    /\ \A i \in 1..(Len(blocks) - 1) : blocks[i].page <= blocks[i + 1].page
    BY DEF StructureIsKept
<1>1. Documented /\ blocks \in Seq(Made) /\ taken \in 0..Len(Items) BY DEF Converting
<1>2. PICK src : OneEach(src) BY DEF Converting
<1>3. PICK spot : Yields(converter, Items, spot) BY <1>1, InDocumentOrder
<1> DEFINE at(i) == spot[src[i]]
<1>4. Len(blocks) \in Nat /\ Len(Items) \in Nat /\ Len(doc) \in Nat
      BY <1>1, BlocksFacts, YieldFacts DEF Documented
<1>5. ASSUME NEW i \in 1..Len(blocks)
      PROVE  /\ src[i] \in 1..Len(Items) /\ at(i) \in Spots /\ BlockOf(at(i), blocks[i])
             /\ Yield(converter, Items[src[i]]) # <<>>
  <2>1. src[i] \in 1..taken /\ Yield(converter, Items[src[i]]) = <<blocks[i]>> BY <1>2 DEF OneEach
  <2>2. src[i] \in 1..Len(Items) BY <1>1, <1>4, <2>1
  <2>3. at(i) \in Spots /\ Rightly(at(i), Yield(converter, Items[src[i]])) BY <1>3, <2>2 DEF Yields
  <2>4. <<blocks[i]>> # <<>> OBVIOUS
  <2>5. PICK b \in Made : <<blocks[i]>> = <<b>> /\ BlockOf(at(i), b) BY <2>1, <2>3, <2>4 DEF Rightly
  <2>6. b = blocks[i] BY <2>5
  <2> QED BY <2>1, <2>2, <2>3, <2>4, <2>5, <2>6
<1>6. ASSUME NEW i \in 1..Len(blocks), NEW j \in 1..Len(blocks), i < j
      PROVE  Sooner(at(i), at(j))
  <2>1. src[i] < src[j] BY <1>2, <1>6 DEF OneEach
  <2> QED BY <1>3, <1>5, <2>1 DEF Yields
<1> HIDE DEF at
<1>7. \A i \in 1..Len(blocks) : /\ at(i)[1] \in 1..Len(doc) /\ at(i)[2] \in 1..Len(doc[at(i)[1]])
                                /\ blocks[i].page = at(i)[1]
      BY <1>5 DEF Spots, BlockOf
<1>8. ASSUME NEW n \in 1..Len(doc) PROVE ThingsOn(n)
  <2> DEFINE place == [i \in BlocksOn(n) |-> at(i)[2]]
  <2>1. ASSUME NEW i \in BlocksOn(n)
        PROVE  /\ i \in 1..Len(blocks) /\ at(i)[1] = n /\ place[i] = at(i)[2]
               /\ place[i] \in 1..Len(doc[n])
    <3>1. i \in 1..Len(blocks) /\ blocks[i].page = n BY DEF BlocksOn
    <3> QED BY <1>7, <3>1
  <2> HIDE DEF place
  <2>2. place \in [BlocksOn(n) -> 1..Len(doc[n])] BY <2>1 DEF place
  <2>3. ASSUME NEW i \in BlocksOn(n)
        PROVE  /\ blocks[i].kind = KindOf[doc[n][place[i]].what]
               /\ blocks[i].text = StripUnmapped(Trim(doc[n][place[i]].text))
    <3>1. BlockOf(at(i), blocks[i]) /\ ThingAt(at(i)) = doc[n][place[i]] BY <1>5, <2>1 DEF ThingAt
    <3> QED BY <3>1 DEF BlockOf
  <2>4. ASSUME NEW i \in BlocksOn(n), NEW j \in BlocksOn(n), i < j PROVE place[i] < place[j]
    <3>1. Sooner(at(i), at(j)) /\ at(i)[1] = n /\ at(j)[1] = n /\ n \in Int BY <1>6, <2>1, <2>4
    <3>2. at(i)[2] < at(j)[2] BY <3>1 DEF Sooner
    <3> QED BY <2>1, <3>2
  <2> QED BY <2>2, <2>3, <2>4 DEF ThingsOn
<1>9. ASSUME NEW i \in 1..(Len(blocks) - 1) PROVE blocks[i].page <= blocks[i + 1].page
  <2>1. i \in 1..Len(blocks) /\ i + 1 \in 1..Len(blocks) /\ i < i + 1 BY <1>4
  <2>2. Sooner(at(i), at(i + 1)) BY <1>6, <2>1
  <2>3. at(i)[1] \in Int /\ at(i + 1)[1] \in Int BY <1>4, <1>7, <2>1
  <2>4. at(i)[1] <= at(i + 1)[1] BY <2>2, <2>3 DEF Sooner
  <2> QED BY <1>7, <2>1, <2>4
<1> QED BY <1>8, <1>9


(***************************************************************************)
(* Every step keeps it.                                                    *)
(***************************************************************************)

LEMMA ItemsStay ==
  ASSUME UNCHANGED <<doc, converter>>
  PROVE  Items' = Items /\ Documented' = Documented /\ Made' = Made /\ MadeClean' = MadeClean
<1>1. doc' = doc /\ converter' = converter OBVIOUS
<1>2. PypdfItems' = PypdfItems BY <1>1 DEF PypdfItems
<1>3. DoclingItems' = DoclingItems BY <1>1 DEF DoclingItems
<1>4. MarkerItems' = MarkerItems BY <1>1 DEF MarkerItems
<1>5. MineruRows' = MineruRows BY <1>1 DEF MineruRows
<1>6. Items' = Items BY <1>1, <1>2, <1>3, <1>4, <1>5, Zenon DEF Items, ItemsOf
<1>7. Documented' = Documented BY <1>1 DEF Documented
<1>8. Made' = Made /\ MadeClean' = MadeClean BY <1>1 DEF Made, MadeClean
<1> QED BY <1>6, <1>7, <1>8

LEMMA BlocksInit == Init => BlocksInv
<1> SUFFICES ASSUME Init PROVE BlocksInv
    OBVIOUS
<1>1. /\ doc \in Documents /\ converter \in Converters /\ arm \in Arms /\ taken = 0
      /\ blocks = <<>> /\ failed = FALSE /\ counted = {} /\ seen = [l \in Lines |-> 0]
      /\ cleaned = <<>> /\ done = FALSE
      BY DEF Init
<1>2. Documented BY <1>1, BlocksAssumption DEF Documented
<1>3. Converting
  <2>1. taken \in 0..Len(Items) BY <1>1, <1>2, YieldFacts
  <2>2. OneEach(<<>>) BY <1>1 DEF OneEach
  <2>3. blocks \in Seq(Made) BY <1>1
  <2> QED BY <1>1, <1>2, <2>1, <2>2, <2>3 DEF Converting
<1>4. Counts
  <2>1. \A l \in Lines : OnPages(l, counted) = {} BY <1>1 DEF OnPages
  <2>2. \A l \in Lines : seen[l] = Cardinality(OnPages(l, counted))
    <3>1. Cardinality({}) = 0 BY FS_EmptySet
    <3> QED BY <1>1, <2>1, <3>1
  <2>3. seen \in [Lines -> Nat] BY <1>1
  <2> QED BY <1>1, <2>2, <2>3 DEF Counts, SeenCounts
<1>5. CleanIs
  <2>1. cleaned \in Seq(MadeClean) BY <1>1
  <2> QED BY <1>1, <2>1 DEF CleanIs, FurnitureIsWhatRuns, BrokenWordsMeet
<1> QED BY <1>3, <1>4, <1>5 DEF BlocksInv

\* One more item is taken, and its block, if it makes one, is put behind.
LEMMA TakeInv ==
  ASSUME BlocksInv, ~failed, taken < Len(Items), Take(Yield(converter, Item))
  PROVE  BlocksInv'
<1> DEFINE one == Yield(converter, Item)
           n == Len(blocks)
<1>1. /\ taken' = taken + 1 /\ blocks' = blocks \o one
      /\ UNCHANGED <<doc, converter, arm, failed, counted, seen, cleaned, done>>
      BY DEF Take
<1>2. /\ Documented /\ arm \in Arms /\ failed \in BOOLEAN /\ taken \in 0..Len(Items)
      /\ blocks \in Seq(Made) /\ \E src : OneEach(src)
      BY DEF BlocksInv, Converting
<1>3. Items' = Items /\ Documented' /\ Made' = Made /\ MadeClean' = MadeClean
      BY <1>1, <1>2, ItemsStay
<1>4. Len(Items) \in Nat /\ taken + 1 \in 1..Len(Items) /\ taken' \in 0..Len(Items)
      BY <1>1, <1>2, YieldFacts
<1>5. one = <<>> \/ \E b \in Made : one = <<b>> BY <1>2, <1>4, YieldFacts DEF Item
<1>6. PICK src : OneEach(src) BY <1>2
<1>7. n \in Nat /\ taken \in Nat BY <1>2, <1>4
<1>8. ~Converted BY <1>2, <1>4 DEF Converted
<1>9. ~done /\ counted = {} BY <1>8 DEF BlocksInv, Counts, CleanIs
<1>10. blocks' \in Seq(Made) /\ \E new : OneEach(new)'
  <2>1. CASE one = <<>>
    <3>1. blocks' = blocks BY <1>1, <1>2, <2>1
    <3>2. /\ src \in [1..n -> 1..taken]
          /\ \A i, j \in 1..n : i < j => src[i] < src[j]
          /\ \A i \in 1..n : Yield(converter, Items[src[i]]) = <<blocks[i]>>
          BY <1>6 DEF OneEach
    <3>3. 1..taken \subseteq 1..taken' BY <1>1, <1>7
    <3>4. src \in [1..n -> 1..taken'] BY <3>2, <3>3
    <3>5. OneEach(src)' BY <1>1, <1>3, <3>1, <3>2, <3>4 DEF OneEach
    <3> QED BY <1>2, <3>1, <3>5
  <2>2. CASE \E b \in Made : one = <<b>>
    <3>1. PICK b \in Made : one = <<b>> BY <2>2
    <3>2. /\ blocks' \in Seq(Made) /\ Len(blocks') = n + 1 /\ blocks'[n + 1] = b
          /\ \A i \in 1..n : blocks'[i] = blocks[i]
      <4>1. blocks' = Append(blocks, b) BY <1>1, <1>2, <3>1
      <4> QED BY <1>2, <4>1, AppendFacts
    <3>3. /\ src \in [1..n -> 1..taken]
          /\ \A i, j \in 1..n : i < j => src[i] < src[j]
          /\ \A i \in 1..n : Yield(converter, Items[src[i]]) = <<blocks[i]>>
          BY <1>6 DEF OneEach
    <3>4. \A i \in 1..(n + 1) : i = n + 1 \/ i \in 1..n BY <1>7
    <3>5. n + 1 \in 1..(n + 1) /\ \A i \in 1..n : i \in 1..(n + 1) /\ i # n + 1 BY <1>7
    <3>6. PICK new : /\ new = [i \in 1..(n + 1) |-> new[i]] /\ new[n + 1] = taken + 1
                     /\ \A i \in 1..n : new[i] = src[i] /\ src[i] \in 1..taken
      <4> DEFINE nw == [i \in 1..(n + 1) |-> IF i = n + 1 THEN taken + 1 ELSE src[i]]
      <4>1. nw[n + 1] = taken + 1 /\ \A i \in 1..n : nw[i] = src[i] /\ src[i] \in 1..taken
            BY <3>3, <3>5
      <4>2. nw = [i \in 1..(n + 1) |-> nw[i]] OBVIOUS
      <4> HIDE DEF nw
      <4> QED BY <4>1, <4>2
    <3>7. new \in [1..(n + 1) -> 1..taken']
      <4>1. taken + 1 \in 1..taken' /\ \A x \in 1..taken : x \in 1..taken' BY <1>1, <1>7
      <4>2. ASSUME NEW i \in 1..(n + 1) PROVE new[i] \in 1..taken'
        <5>1. CASE i = n + 1 BY <3>6, <4>1, <5>1
        <5>2. CASE i \in 1..n BY <3>6, <4>1, <5>2
        <5> QED BY <3>4, <5>1, <5>2
      <4> QED BY <3>6, <4>2
    <3>8. ASSUME NEW i \in 1..(n + 1), NEW j \in 1..(n + 1), i < j PROVE new[i] < new[j]
      <4>1. i \in 1..n BY <1>7, <3>8
      <4>2. CASE j = n + 1
        <5>1. new[j] = taken + 1 /\ new[i] \in 1..taken BY <3>6, <4>1, <4>2
        <5> QED BY <1>7, <5>1
      <4>3. CASE j \in 1..n BY <3>3, <3>6, <3>8, <4>1, <4>3
      <4> QED BY <3>4, <4>2, <4>3
    <3>9. ASSUME NEW i \in 1..(n + 1)
          PROVE  Yield(converter, Items[new[i]]) = <<blocks'[i]>>
      <4>1. CASE i = n + 1
        <5>1. Items[new[i]] = Item BY <3>6, <4>1 DEF Item
        <5> QED BY <3>1, <3>2, <4>1, <5>1
      <4>2. CASE i \in 1..n BY <3>2, <3>3, <3>6, <4>2
      <4> QED BY <3>4, <4>1, <4>2
    <3>10. OneEach(new)'
      <4>1. /\ new \in [1..Len(blocks') -> 1..taken']
            /\ \A i, j \in 1..Len(blocks') : i < j => new[i] < new[j]
            /\ \A i \in 1..Len(blocks') : Yield(converter, Items[new[i]]) = <<blocks'[i]>>
            BY <3>2, <3>7, <3>8, <3>9
      <4>2. \A x : Yield(converter', x) = Yield(converter, x) BY <1>1
      <4>3. \A x : Yield(converter, x)' = Yield(converter, x) BY <1>1 DEF Yield
      <4> QED BY <1>3, <4>1, <4>2, <4>3 DEF OneEach
    <3> QED BY <3>2, <3>10
  <2> QED BY <1>5, <2>1, <2>2
<1>11. Converting' BY <1>1, <1>2, <1>3, <1>4, <1>10 DEF Converting
<1>12. Counts'
  <2>1. counted' = {} BY <1>1, <1>9
  <2>2. \A l \in Lines : OnPages(l, counted) = {} BY <1>9 DEF OnPages
  <2>3. \A l \in Lines : OnPages(l, counted)' = {} BY <2>1 DEF OnPages
  <2>4. seen' \in [Lines -> Nat] /\ \A l \in Lines : seen'[l] = Cardinality({})
        BY <1>1, <2>2 DEF BlocksInv, Counts, SeenCounts
  <2>5. SeenCounts' BY <2>3, <2>4 DEF SeenCounts
  <2> QED BY <2>1, <2>5 DEF Counts
<1>13. CleanIs'
  <2>1. ~done' /\ done' \in BOOLEAN BY <1>1, <1>9 DEF BlocksInv, CleanIs
  <2>2. cleaned' \in Seq(MadeClean') BY <1>1, <1>3 DEF BlocksInv, CleanIs
  <2> QED BY <2>1, <2>2 DEF CleanIs, FurnitureIsWhatRuns, BrokenWordsMeet
<1> QED BY <1>11, <1>12, <1>13 DEF BlocksInv

LEMMA FailMineruInv == ASSUME BlocksInv, FailMineru PROVE BlocksInv'
<1>1. /\ failed' = TRUE /\ ~failed /\ taken < Len(Items) /\ taken = 0
      /\ UNCHANGED <<doc, converter, arm, taken, blocks, counted, seen, cleaned, done>>
      BY DEF FailMineru, Left
<1>2. /\ Documented /\ arm \in Arms /\ taken \in 0..Len(Items)
      /\ blocks \in Seq(Made) /\ \E src : OneEach(src)
      BY DEF BlocksInv, Converting
<1>3. Items' = Items /\ Documented' /\ Made' = Made /\ MadeClean' = MadeClean
      BY <1>1, <1>2, ItemsStay
<1>4. Len(Items) \in Nat BY <1>2, YieldFacts
<1>5. ~Converted BY <1>1, <1>4 DEF Converted
<1>6. ~done /\ counted = {} BY <1>5 DEF BlocksInv, Counts, CleanIs
<1>7. \E src : OneEach(src)'
  <2>1. PICK src : OneEach(src) BY <1>2
  <2>2. OneEach(src)' BY <1>1, <1>3, <2>1 DEF OneEach
  <2> QED BY <2>2
<1>8. Converting' BY <1>1, <1>2, <1>3, <1>7 DEF Converting
<1>9. Counts'
  <2>1. counted' = {} BY <1>1, <1>6
  <2>2. \A l \in Lines : OnPages(l, counted) = {} BY <1>6 DEF OnPages
  <2>3. \A l \in Lines : OnPages(l, counted)' = {} BY <2>1 DEF OnPages
  <2>4. seen' \in [Lines -> Nat] /\ \A l \in Lines : seen'[l] = Cardinality({})
        BY <1>1, <2>2 DEF BlocksInv, Counts, SeenCounts
  <2>5. SeenCounts' BY <2>3, <2>4 DEF SeenCounts
  <2> QED BY <2>1, <2>5 DEF Counts
<1>10. CleanIs'
  <2>1. ~done' /\ done' \in BOOLEAN BY <1>1, <1>6 DEF BlocksInv, CleanIs
  <2>2. cleaned' \in Seq(MadeClean') BY <1>1, <1>3 DEF BlocksInv, CleanIs
  <2> QED BY <2>1, <2>2 DEF CleanIs, FurnitureIsWhatRuns, BrokenWordsMeet
<1> QED BY <1>8, <1>9, <1>10 DEF BlocksInv

LEMMA ConvertingStays ==
  ASSUME Converting, UNCHANGED <<doc, converter, arm, taken, blocks, failed>>
  PROVE  /\ Converting' /\ (Converted' <=> Converted) /\ (Counting' <=> Counting)
         /\ PagesOf(blocks)' = PagesOf(blocks)
<1>1. /\ Documented /\ arm \in Arms /\ failed \in BOOLEAN /\ taken \in 0..Len(Items)
      /\ blocks \in Seq(Made) /\ \E src : OneEach(src)
      BY DEF Converting
<1>2. Items' = Items /\ Documented' /\ Made' = Made
      BY <1>1, ItemsStay
<1>3. \E src : OneEach(src)'
  <2>1. PICK src : OneEach(src) BY <1>1
  <2>2. OneEach(src)' BY <1>2, <2>1 DEF OneEach
  <2> QED BY <2>2
<1>4. Converting' BY <1>1, <1>2, <1>3 DEF Converting
<1>5. Converted' <=> Converted BY <1>2 DEF Converted
<1>6. PagesOf(blocks)' = PagesOf(blocks) BY DEF PagesOf
<1>7. Counting' <=> Counting BY <1>5, <1>6 DEF Counting
<1> QED BY <1>4, <1>5, <1>6, <1>7

\* One more page is counted.
LEMMA CountPageInv == ASSUME BlocksInv, CountPage PROVE BlocksInv'
<1>1. PICK p \in PagesOf(blocks) \ counted :
        /\ counted' = counted \cup {p}
        /\ seen' = [l \in Lines |->
             IF l \in Short \ {Blank} /\ l \in LinesOn(p) THEN seen[l] + 1 ELSE seen[l]]
      BY DEF CountPage
<1>2. Counting /\ UNCHANGED <<doc, converter, arm, taken, blocks, failed, cleaned, done>>
      BY DEF CountPage
<1>3. /\ Converting /\ Counts /\ CleanIs /\ Documented /\ blocks \in Seq(Made)
      /\ counted \subseteq PagesOf(blocks) /\ SeenCounts
      BY DEF BlocksInv, Converting, Counts
<1>4. Converting' /\ Converted' /\ PagesOf(blocks)' = PagesOf(blocks)
      BY <1>2, <1>3, ConvertingStays DEF Counting
<1>5. ~done
  <2>1. done => counted = PagesOf(blocks) BY <1>2, <1>3 DEF CleanIs, Counting
  <2> QED BY <2>1
<1>6. Counts'
  <2>1. counted' \subseteq PagesOf(blocks)' BY <1>1, <1>3, <1>4
  <2>2. seen \in [Lines -> Nat] /\ \A l \in Lines : seen[l] = Cardinality(OnPages(l, counted))
        BY <1>3 DEF SeenCounts
  <2>3. seen' \in [Lines -> Nat] BY <1>1, <2>2
  <2>4. ASSUME NEW l \in Lines PROVE seen'[l] = Cardinality(OnPages(l, counted)')
    <3>1. OnPages(l, counted)' = OnPages(l, counted')
      <4>1. \A q : LinesOn(q)' = LinesOn(q) BY <1>2 DEF LinesOn
      <4> QED BY <4>1 DEF OnPages
    <3>2. CASE l \in Short \ {Blank} /\ l \in LinesOn(p)
      <4>1. OnPages(l, counted') = OnPages(l, counted) \cup {p} BY <1>1, <3>2 DEF OnPages
      <4>2. p \notin OnPages(l, counted) BY DEF OnPages
      <4>3. IsFiniteSet(OnPages(l, counted))
        <5>1. OnPages(l, counted) \in SUBSET PagesOf(blocks) BY <1>3 DEF OnPages
        <5> QED BY <1>3, <5>1, PagesFacts
      <4>4. Cardinality(OnPages(l, counted) \cup {p}) = Cardinality(OnPages(l, counted)) + 1
            BY <4>2, <4>3, FS_AddElement
      <4>5. seen'[l] = seen[l] + 1 BY <1>1, <3>2
      <4> QED BY <2>2, <3>1, <4>1, <4>4, <4>5
    <3>3. CASE ~(l \in Short \ {Blank} /\ l \in LinesOn(p))
      <4>1. OnPages(l, counted') = OnPages(l, counted) BY <1>1, <3>3 DEF OnPages
      <4>2. seen'[l] = seen[l] BY <1>1, <3>3
      <4> QED BY <2>2, <3>1, <4>1, <4>2
    <3> QED BY <3>2, <3>3
  <2>5. SeenCounts' BY <2>3, <2>4 DEF SeenCounts
  <2> QED BY <1>4, <2>1, <2>5 DEF Counts
<1>7. CleanIs'
  <2>1. ~done' /\ done' \in BOOLEAN BY <1>2, <1>3, <1>5 DEF CleanIs
  <2>2. cleaned' \in Seq(MadeClean') BY <1>2, <1>3 DEF CleanIs, MadeClean
  <2> QED BY <2>1, <2>2 DEF CleanIs, FurnitureIsWhatRuns, BrokenWordsMeet
<1> QED BY <1>4, <1>6, <1>7 DEF BlocksInv

\* All is cleaned, when all is counted.
LEMMA CleanAllInv == ASSUME BlocksInv, CleanAll PROVE BlocksInv'
<1>1. /\ Converted /\ ~failed /\ (Counting => counted = PagesOf(blocks))
      /\ cleaned' = Cleaned /\ done' = TRUE
      /\ UNCHANGED <<doc, converter, arm, taken, blocks, failed, counted, seen>>
      BY DEF CleanAll
<1>2. /\ Converting /\ Counts /\ Documented /\ arm \in Arms /\ blocks \in Seq(Made) /\ SeenCounts
      BY DEF BlocksInv, Converting, Counts
<1>3. Converting' /\ Converted' /\ (Counting' <=> Counting) /\ PagesOf(blocks)' = PagesOf(blocks)
      BY <1>1, <1>2, ConvertingStays
<1>4. Counts'
  <2>1. \A l : OnPages(l, counted)' = OnPages(l, counted)
    <3>1. \A q : LinesOn(q)' = LinesOn(q) BY <1>1 DEF LinesOn
    <3> QED BY <1>1, <3>1 DEF OnPages
  <2>2. SeenCounts' BY <1>1, <1>2, <2>1 DEF SeenCounts
  <2> QED BY <1>1, <1>2, <1>3, <2>2 DEF Counts
<1>5. cleaned' \in Seq(MadeClean')
  <2>1. MadeClean' = MadeClean BY <1>1 DEF MadeClean
  <2>2. Cleaned \in Seq(MadeClean) BY <1>2, CleanedFacts
  <2> QED BY <1>1, <2>1, <2>2
<1>6. FurnitureIsWhatRuns'
  <2> SUFFICES ASSUME arm = "strip", NEW l \in Lines \ {Blank}
               PROVE  LET pages == Cardinality(PagesOf(blocks)')
                          on == Cardinality(Standing(l)')
                      IN  /\ (l \notin Short \/ on < 3 \/ 5 * (on + 1) <= 3 * pages)
                               => Occurrences(l, After') = Occurrences(l, Before')
                          /\ (on >= 3 /\ 5 * (on + 1) > 3 * pages /\ l \in Short)
                               => Occurrences(l, After') = 0
      BY <1>1 DEF FurnitureIsWhatRuns, Occurrences, Places
  <2>1. Before' = Before /\ Standing(l)' = Standing(l) BY <1>1 DEF Before, Standing
  <2>2. After' = TextsOf(Cleaned) BY <1>1 DEF After, TextsOf, FirstOf
  <2>3. /\ l \notin Furniture => Occurrences(l, TextsOf(Cleaned)) = Occurrences(l, Before)
        /\ l \in Furniture => Occurrences(l, TextsOf(Cleaned)) = 0
        BY <1>2, OccurrencesStay
  <2> DEFINE pages == Cardinality(PagesOf(blocks))
             on == Cardinality(Standing(l))
  <2>4. /\ (l \notin Short \/ on < 3 \/ 5 * (on + 1) <= 3 * pages) => l \notin Furniture
        /\ (on >= 3 /\ 5 * (on + 1) > 3 * pages /\ l \in Short) => l \in Furniture
        BY <1>1, <1>2, FurnitureFacts
  <2> QED BY <1>3, <2>1, <2>2, <2>3, <2>4
<1>7. BrokenWordsMeet'
  <2> SUFFICES ASSUME arm = "strip" PROVE \A b \in Range(Cleaned) : Meeting(b.text)
      BY <1>1 DEF BrokenWordsMeet, Meeting
  <2> TAKE b \in Range(Cleaned)
  <2>1. PICK i \in DOMAIN Cleaned : b = Cleaned[i] BY DEF Range
  <2>2. DOMAIN Cleaned = 1..Len(Cleaned)
    <3>1. Cleaned \in Seq(MadeClean) BY <1>2, CleanedFacts
    <3> HIDE DEF MadeClean
    <3> QED BY <3>1
  <2> QED BY <1>2, <2>1, <2>2, WordsMeet
<1>8. CleanIs' BY <1>1, <1>3, <1>5, <1>6, <1>7 DEF CleanIs
<1> QED BY <1>3, <1>4, <1>8 DEF BlocksInv

\* Nothing happens.
LEMMA BlocksStay == ASSUME BlocksInv, UNCHANGED vars PROVE BlocksInv'
<1>1. UNCHANGED <<doc, converter, arm, taken, blocks, failed, counted, seen, cleaned, done>>
      BY DEF vars
<1>2. Converting /\ Counts /\ CleanIs BY DEF BlocksInv
<1>3. Converting' /\ (Converted' <=> Converted) /\ (Counting' <=> Counting)
      /\ PagesOf(blocks)' = PagesOf(blocks)
      BY <1>1, <1>2, ConvertingStays
<1>4. Counts'
  <2>1. \A l : OnPages(l, counted)' = OnPages(l, counted)
    <3>1. \A q : LinesOn(q)' = LinesOn(q) BY <1>1 DEF LinesOn
    <3> QED BY <1>1, <3>1 DEF OnPages
  <2>2. SeenCounts' BY <1>1, <1>2, <2>1 DEF SeenCounts, Counts
  <2> QED BY <1>1, <1>2, <1>3, <2>2 DEF Counts
<1>5. cleaned' \in Seq(MadeClean') BY <1>1, <1>2 DEF CleanIs, MadeClean
<1>6. FurnitureIsWhatRuns'
  <2>1. Before' = Before /\ After' = After BY <1>1 DEF Before, After
  <2>2. \A l : Standing(l)' = Standing(l) BY <1>1 DEF Standing
  <2>3. FurnitureIsWhatRuns BY <1>2 DEF CleanIs
  <2>4. \A l : /\ Occurrences(l, After)' = Occurrences(l, After)
               /\ Occurrences(l, Before)' = Occurrences(l, Before)
        BY <2>1 DEF Occurrences, Places
  <2>5. done' = done /\ arm' = arm BY <1>1
  <2> QED BY ONLY <1>3, <2>2, <2>3, <2>4, <2>5 DEF FurnitureIsWhatRuns
<1>7. BrokenWordsMeet' BY <1>1, <1>2 DEF CleanIs, BrokenWordsMeet
<1>8. CleanIs' BY <1>1, <1>2, <1>3, <1>5, <1>6, <1>7 DEF CleanIs
<1> QED BY <1>3, <1>4, <1>8 DEF BlocksInv

LEMMA BlocksNext == ASSUME BlocksInv, [Next]_vars PROVE BlocksInv'
<1>1. CASE TakePypdf
  <2>1. converter = "pypdf" /\ ~failed /\ taken < Len(Items) /\ Take(PypdfBlocks(Item))
        BY <1>1 DEF TakePypdf, Left
  <2>2. Take(Yield(converter, Item)) BY <2>1 DEF Yield
  <2> QED BY <2>1, <2>2, TakeInv
<1>2. CASE TakeDocling
  <2>1. converter = "docling" /\ ~failed /\ taken < Len(Items) /\ Take(DoclingBlocks(Item))
        BY <1>2 DEF TakeDocling, Left
  <2>2. Take(Yield(converter, Item)) BY <2>1 DEF Yield
  <2> QED BY <2>1, <2>2, TakeInv
<1>3. CASE TakeMarker
  <2>1. converter = "marker" /\ ~failed /\ taken < Len(Items) /\ Take(MarkerBlocks(Item))
        BY <1>3 DEF TakeMarker, Left
  <2>2. Take(Yield(converter, Item)) BY <2>1 DEF Yield
  <2> QED BY <2>1, <2>2, TakeInv
<1>4. CASE TakeMineru
  <2>1. converter = "mineru" /\ ~failed /\ taken < Len(Items) /\ Take(MineruBlocks(Item))
        BY <1>4 DEF TakeMineru, Left
  <2>2. Take(Yield(converter, Item)) BY <2>1 DEF Yield
  <2> QED BY <2>1, <2>2, TakeInv
<1>5. CASE FailMineru BY <1>5, FailMineruInv
<1>6. CASE CountPage BY <1>6, CountPageInv
<1>7. CASE CleanAll BY <1>7, CleanAllInv
<1>8. CASE UNCHANGED vars BY <1>8, BlocksStay
<1> QED BY <1>1, <1>2, <1>3, <1>4, <1>5, <1>6, <1>7, <1>8 DEF Next

LEMMA BlocksInvariance == Spec => []BlocksInv
BY BlocksInit, BlocksNext, PTL DEF Spec

(***************************************************************************)
(* The theorems.                                                           *)
(***************************************************************************)

LEMMA BlocksTyped == BlocksInv => TypeOK
<1> SUFFICES ASSUME BlocksInv PROVE TypeOK
    OBVIOUS
<1>1. Converting /\ Counts /\ CleanIs BY DEF BlocksInv
<1>2. /\ doc \in Seq(Seq(Things)) /\ converter \in Converters /\ arm \in Arms
      /\ taken \in 0..Len(Items) /\ failed \in BOOLEAN
      /\ blocks \in Seq([text : Texts, page : 1..Len(doc), kind : Kinds])
      BY <1>1 DEF Converting, Documented, Made
<1>3. /\ done \in BOOLEAN
      /\ cleaned \in Seq([text : Seq(Lines \X BOOLEAN), page : 1..Len(doc), kind : Kinds])
      BY <1>1 DEF CleanIs, MadeClean
<1>4. Documented /\ blocks \in Seq(Made) /\ counted \subseteq PagesOf(blocks)
      BY <1>1 DEF Converting, Counts
<1>5. seen \in [Lines -> 0..Cardinality(counted)]
  <2>1. seen \in [Lines -> Nat] /\ \A l \in Lines : seen[l] = Cardinality(OnPages(l, counted))
        BY <1>1 DEF Counts, SeenCounts
  <2>2. IsFiniteSet(counted) /\ Cardinality(counted) \in Nat BY <1>4, PagesFacts
  <2>3. ASSUME NEW l \in Lines PROVE seen[l] \in 0..Cardinality(counted)
    <3>1. OnPages(l, counted) \in SUBSET counted BY DEF OnPages
    <3>2. Cardinality(OnPages(l, counted)) <= Cardinality(counted) BY <2>2, <3>1, FS_Subset
    <3>3. seen[l] \in Nat /\ seen[l] = Cardinality(OnPages(l, counted)) BY <2>1
    <3> QED BY <2>2, <3>2, <3>3
  <2> QED BY <2>1, <2>3
<1> QED BY <1>2, <1>3, <1>4, <1>5 DEF TypeOK

\* Every block, clean or not, is on a page of the document and of a kind the
\* splitters know, and no line is counted on more pages than were counted.
THEOREM BlocksTypes == Spec => []TypeOK
BY BlocksInvariance, BlocksTyped, PTL

\* For every document and whatever its libraries find or lose, the blocks of a
\* page are things of that page, once each and in order, with the text and the
\* kind they had: no adapter is off by a page, doubles a text or flattens a heading.
THEOREM StructureKept == Spec => []StructureIsKept
<1>1. BlocksInv => StructureIsKept BY StructureFollows DEF BlocksInv
<1> QED BY <1>1, BlocksInvariance, PTL

\* For documents of every length, the short lines on FURNITURE_SHARE of the pages
\* (three, at least) are gone from the clean text; long lines, and those on one or
\* two pages or on less than half of them, keep every occurrence.
THEOREM FurnitureRuns == Spec => []FurnitureIsWhatRuns
<1>1. BlocksInv => FurnitureIsWhatRuns BY DEF BlocksInv, CleanIs
<1> QED BY <1>1, BlocksInvariance, PTL

\* In every clean block, a line that ends in a hyphen is joined to the lowercase
\* line that comes next, over whatever was taken out between them.
THEOREM WordsAreWhole == Spec => []BrokenWordsMeet
<1>1. BlocksInv => BrokenWordsMeet BY DEF BlocksInv, CleanIs
<1> QED BY <1>1, BlocksInvariance, PTL
=============================================================================
