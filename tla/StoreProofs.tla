---------------------------- MODULE StoreProofs -----------------------------
(***************************************************************************)
(* The file index and the folder it describes, for every capacity, quota,  *)
(* depth of repair, number of files and order of steps.                    *)
(*                                                                         *)
(* The library's induction theorems have an operator for a parameter.  The *)
(* two inductions here are stated for sets (StepByStep, SetsBySize), which *)
(* is enough to prove what the walks over a list and the sum of a folder   *)
(* compute.                                                                *)
(***************************************************************************)
EXTENDS StoreProps, IndexCalls, SequenceTheorems, FiniteSetTheorems,
        WellFoundedInduction, TLAPS

\* A set of naturals with an element has a least one.
LEMMA LeastElement ==
  ASSUME NEW A \in SUBSET Nat, A # {}
  PROVE  \E x \in A : \A y \in A : x <= y
<1> DEFINE R == {p \in Nat \X Nat : p[1] < p[2]}
<1>0. IsWellFoundedOn(R, Nat)
  BY NatLessThanWellFounded DEF OpToRel
<1>1. PICK x \in A : \A y \in A : ~ (<<y, x>> \in R)
  <2> HIDE DEF R
  <2> QED BY <1>0, WFMin
<1>2. ASSUME NEW y \in A PROVE ~ (y < x)
  <2>1. <<y, x>> \in Nat \X Nat /\ <<y, x>>[1] = y /\ <<y, x>>[2] = x
    OBVIOUS
  <2>2. <<y, x>> \notin R
    BY <1>1
  <2> QED BY <2>1, <2>2
<1> QED BY <1>2

\* Induction along 0..n, for a set instead of a predicate: no operator parameter.
LEMMA StepByStep ==
  ASSUME NEW n \in Nat, NEW A, 0 \in A,
         \A i \in 1..n : i - 1 \in A => i \in A
  PROVE  \A i \in 0..n : i \in A
<1> SUFFICES ASSUME (0..n) \ A # {} PROVE FALSE
  OBVIOUS
<1>1. (0..n) \ A \in SUBSET Nat
  OBVIOUS
<1>2. PICK x \in (0..n) \ A : \A y \in (0..n) \ A : x <= y
  BY <1>1, LeastElement
<1>3. x # 0
  BY <1>2
<1>4. x - 1 \in A
  BY <1>2, <1>3
<1> QED BY <1>2, <1>3, <1>4

\* g is a walk of n steps from base: place i holds what step i makes of i - 1.
Walks(g, n, base, step) ==
  g[0] = base /\ \A i \in 1..n : g[i] = step[i][g[i - 1]]

\* Walking step by step through S is possible: there is such a function.
LEMMA WalkExists ==
  ASSUME NEW n \in Nat, NEW S, NEW base \in S, NEW step \in [1..n -> [S -> S]]
  PROVE  \E g \in [0..n -> S] : Walks(g, n, base, step)
<1> DEFINE A == {k \in 0..n : \E g \in [0..k -> S] : Walks(g, k, base, step)}
<1>1. 0 \in A
  <2>1. [i \in 0..0 |-> base] \in [0..0 -> S] /\ Walks([i \in 0..0 |-> base], 0, base, step)
    BY DEF Walks
  <2>2. \E g \in [0..0 -> S] : Walks(g, 0, base, step)
    BY <2>1
  <2> QED BY <2>2
<1>2. ASSUME NEW k \in 1..n, k - 1 \in A PROVE k \in A
  <2>1. PICK g \in [0..(k - 1) -> S] : Walks(g, k - 1, base, step)
    BY <1>2
  <2> DEFINE h == [i \in 0..k |-> IF i = k THEN step[k][g[k - 1]] ELSE g[i]]
  <2>2. step[k][g[k - 1]] \in S
    OBVIOUS
  <2>3. h \in [0..k -> S] /\ h[0] = base
    BY <2>1, <2>2 DEF Walks
  <2>4. ASSUME NEW i \in 1..k PROVE h[i] = step[i][h[i - 1]]
    <3>1. CASE i \in 1..(k - 1)
      <4>1. g[i] = step[i][g[i - 1]]
        BY <3>1, <2>1 DEF Walks
      <4> QED BY <4>1, <3>1
    <3>2. CASE i = k
      BY <3>2
    <3> QED BY <3>1, <3>2
  <2> HIDE DEF h
  <2>5. \E f \in [0..k -> S] : Walks(f, k, base, step)
    BY <2>3, <2>4 DEF Walks
  <2> QED BY <2>5
<1>3. \A k \in 0..n : k \in A
  <2> HIDE DEF A
  <2> QED BY <1>1, <1>2, StepByStep
<1> QED BY <1>3

\* SizesUpTo adds one size at a time.
LEMMA SumsOf ==
  ASSUME NEW F, \A f \in F : f.size \in Nat, NEW files \in Seq(F)
  PROVE  /\ SizesUpTo(files) \in [0..Len(files) -> Nat]
         /\ SizesUpTo(files)[0] = 0
         /\ \A i \in 1..Len(files) :
              SizesUpTo(files)[i] = SizesUpTo(files)[i - 1] + files[i].size
<1> DEFINE n == Len(files)
           S == Nat
           base == 0
           step == [i \in 1..n |-> [a \in S |-> a + files[i].size]]
           P(s) == s = [i \in 0..n |-> IF i = 0 THEN 0 ELSE s[i - 1] + files[i].size]
<1>1. n \in Nat /\ \A i \in 1..n : files[i].size \in Nat
  BY ElementOfSeq
<1>2. step \in [1..n -> [S -> S]] /\ base \in S
  BY <1>1
<1>3. \A a \in S, i \in 1..n : step[i][a] = a + files[i].size
  OBVIOUS
<1> HIDE DEF step, n, S, base
<1>4. \E s : P(s)
  <2>1. PICK s \in [0..n -> S] : Walks(s, n, base, step)
    BY <1>1, <1>2, WalkExists
  <2>2. ASSUME NEW i \in 1..n PROVE s[i] = s[i - 1] + files[i].size
    <3>1. s[i - 1] \in S
      BY <2>1, <1>1
    <3> QED BY <2>1, <1>3, <3>1 DEF Walks
  <2>3. P(s)
    BY <2>1, <2>2, <1>1 DEF Walks, base
  <2> QED BY <2>3
<1>5. P(SizesUpTo(files))
  BY <1>4 DEF SizesUpTo, n
<1>6. ASSUME NEW s, P(s)
      PROVE  /\ s \in [0..n -> Nat] /\ s[0] = 0
             /\ \A i \in 1..n : s[i] = s[i - 1] + files[i].size
  <2>1. s[0] = 0
    BY <1>1, <1>6
  <2>2. \A i \in 1..n : s[i] = s[i - 1] + files[i].size
    BY <1>1, <1>6
  <2> DEFINE A == {i \in 0..n : s[i] \in Nat}
  <2>3. 0 \in A
    BY <2>1, <1>1
  <2>6. ASSUME NEW i \in 1..n, i - 1 \in A PROVE i \in A
    <3>1. s[i - 1] \in Nat /\ files[i].size \in Nat /\ i \in 0..n
      BY <1>1, <2>6
    <3>2. s[i] = s[i - 1] + files[i].size
      BY <2>2
    <3> QED BY <3>1, <3>2
  <2>4. \A i \in 0..n : i \in A
    <3> HIDE DEF A
    <3> QED BY <2>3, <2>6, <1>1, StepByStep
  <2>5. s \in [0..n -> Nat]
    BY <1>1, <1>6, <2>4
  <2> QED BY <2>1, <2>2, <2>5
<1> HIDE DEF P
<1> QED BY <1>5, <1>6 DEF n

\* Sizes sum up to a natural.
LEMMA SizesOfType ==
  ASSUME NEW F, \A f \in F : f.size \in Nat, NEW files \in Seq(F)
  PROVE  SizesOf(files) \in Nat
<1>1. SizesUpTo(files) \in [0..Len(files) -> Nat]
  BY SumsOf
<1>2. Len(files) \in 0..Len(files)
  OBVIOUS
<1> QED BY <1>1, <1>2 DEF SizesOf

\* Lists that agree on their first k files have the same sums up to k.
LEMMA SumsAgree ==
  ASSUME NEW F, \A f \in F : f.size \in Nat,
         NEW s \in Seq(F), NEW t \in Seq(F), NEW k \in Nat,
         k <= Len(s), k <= Len(t), \A i \in 1..k : s[i] = t[i]
  PROVE  \A i \in 0..k : SizesUpTo(s)[i] = SizesUpTo(t)[i]
<1> DEFINE a == SizesUpTo(s)
           b == SizesUpTo(t)
           A == {i \in 0..k : a[i] = b[i]}
<1>1. a[0] = 0 /\ \A i \in 1..k : a[i] = a[i - 1] + s[i].size
  BY SumsOf
<1>2. b[0] = 0 /\ \A i \in 1..k : b[i] = b[i - 1] + t[i].size
  BY SumsOf
<1> HIDE DEF a, b
<1>3. 0 \in A
  BY <1>1, <1>2
<1>5. ASSUME NEW i \in 1..k, i - 1 \in A PROVE i \in A
  <2>1. a[i - 1] = b[i - 1] /\ s[i] = t[i]
    BY <1>5
  <2> QED BY <1>1, <1>2, <2>1
<1>4. \A i \in 0..k : i \in A
  <2> HIDE DEF A
  <2> QED BY <1>3, <1>5, StepByStep
<1> QED BY <1>4 DEF a, b

\* t is s with one more element, at place p.
Longer(s, t, p) ==
  /\ Len(t) = Len(s) + 1
  /\ p \in 1..Len(t)
  /\ \A i \in 1..(p - 1) : t[i] = s[i]
  /\ \A i \in (p + 1)..Len(t) : t[i] = s[i - 1]

\* One file more, wherever it goes, adds its size.
LEMMA SizesOfInserted ==
  ASSUME NEW F, \A f \in F : f.size \in Nat,
         NEW s \in Seq(F), NEW t \in Seq(F), NEW p, Longer(s, t, p)
  PROVE  SizesOf(t) = SizesOf(s) + t[p].size
<1> DEFINE n == Len(t)
           a == SizesUpTo(s)
           b == SizesUpTo(t)
           A == {i \in 0..n : i >= p => b[i] = a[i - 1] + t[p].size}
<1>0. n \in Nat /\ Len(s) = n - 1 /\ Len(s) \in Nat /\ p \in 1..n
  BY DEF Longer
<1>1. a \in [0..(n - 1) -> Nat] /\ \A i \in 1..(n - 1) : a[i] = a[i - 1] + s[i].size
  BY SumsOf, <1>0
<1>2. b \in [0..n -> Nat] /\ \A i \in 1..n : b[i] = b[i - 1] + t[i].size
  BY SumsOf, <1>0
<1>3. b[p - 1] = a[p - 1]
  <2>1. p - 1 \in Nat /\ p - 1 <= Len(s) /\ p - 1 <= Len(t)
    BY <1>0
  <2>2. \A i \in 1..(p - 1) : t[i] = s[i]
    BY DEF Longer
  <2> QED BY <2>1, <2>2, SumsAgree
<1>4. \A i \in 1..n : t[i].size \in Nat
  BY ElementOfSeq
<1>5. ASSUME NEW i \in (p + 1)..n PROVE a[i - 1] = a[i - 2] + t[i].size
  <2>1. t[i] = s[i - 1] /\ i - 1 \in 1..(n - 1) /\ (i - 1) - 1 = i - 2
    BY <1>0 DEF Longer
  <2> QED BY <1>1, <2>1
<1> HIDE DEF a, b, n
<1>6. 0 \in A
  BY <1>0
<1>7. ASSUME NEW i \in 1..n, i - 1 \in A PROVE i \in A
  <2>1. CASE i < p
    BY <1>0, <2>1
  <2>2. CASE i = p
    BY <1>0, <1>2, <1>3, <2>2
  <2>3. CASE i > p
    <3>1. b[i - 1] = a[i - 2] + t[p].size
      BY <1>0, <1>7, <2>3
    <3>2. b[i] = b[i - 1] + t[i].size /\ a[i - 1] = a[i - 2] + t[i].size
      <4>1. b[i] = b[i - 1] + t[i].size
        BY <1>2
      <4>2. i \in (p + 1)..n
        BY <1>0, <2>3
      <4> QED BY <1>5, <4>1, <4>2
    <3>3. a[i - 2] \in Nat /\ t[p].size \in Nat /\ t[i].size \in Nat
      <4>1. i - 2 \in 0..(n - 1)
        BY <1>0, <2>3
      <4> QED BY <1>0, <1>1, <1>4, <4>1
    <3> QED BY <3>1, <3>2, <3>3
  <2> QED BY <1>0, <2>1, <2>2, <2>3
<1>8. \A i \in 0..n : i \in A
  <2> HIDE DEF A
  <2> QED BY <1>0, <1>6, <1>7, StepByStep
<1>9. b[n] = a[n - 1] + t[p].size
  BY <1>8, <1>0
<1> QED BY <1>9, <1>0 DEF a, b, n, SizesOf

\* What the walk of file_list_del carries along.
UnlinkAcc(F) == [kept : Seq(F), compare : BOOLEAN]

\* What the walk of repair carries along.
RepairAcc(F) == [kept : Seq(F), skip : BOOLEAN, tries : Nat]

\* A step of file_list_del leads from such a record to such a record.
LEMMA UnlinkStepStays ==
  ASSUME NEW F, NEW acc \in UnlinkAcc(F), NEW file \in F, NEW name
  PROVE  UnlinkStep(acc, file, name) \in UnlinkAcc(F)
<1>1. Append(acc.kept, file) \in Seq(F)
  BY AppendProperties DEF UnlinkAcc
<1>2. [acc EXCEPT !.compare = (acc.kept = << >>)] \in UnlinkAcc(F)
  BY DEF UnlinkAcc
<1> QED BY <1>1, <1>2 DEF UnlinkStep, UnlinkAcc

\* The same of a step of repair.
LEMMA RepairStepStays ==
  ASSUME NEW F, NEW acc \in RepairAcc(F), NEW i, NEW file \in F, NEW names
  PROVE  RepairStep(acc, i, file, names) \in RepairAcc(F)
<1>1. Append(acc.kept, file) \in Seq(F)
  BY AppendProperties DEF RepairAcc
<1>0. acc.tries + 1 \in Nat
  BY DEF RepairAcc
<1>2. [acc EXCEPT !.kept = Append(@, file), !.skip = FALSE] \in RepairAcc(F)
  BY <1>1 DEF RepairAcc
<1>3. [acc EXCEPT !.skip = TRUE, !.tries = @ + 1] \in RepairAcc(F)
  BY <1>0 DEF RepairAcc
<1>4. [acc EXCEPT !.kept = Append(@, file), !.tries = @ + 1] \in RepairAcc(F)
  BY <1>0, <1>1 DEF RepairAcc
<1> QED BY <1>2, <1>3, <1>4 DEF RepairStep

\* UnlinkWalk is the walk its definition describes.
LEMMA UnlinkWalkOf ==
  ASSUME NEW F, NEW files \in Seq(F), NEW name
  PROVE  /\ UnlinkWalk(files, name) \in [0..Len(files) -> UnlinkAcc(F)]
         /\ UnlinkWalk(files, name)[0] = [kept |-> << >>, compare |-> TRUE]
         /\ \A i \in 1..Len(files) :
              UnlinkWalk(files, name)[i] =
                UnlinkStep(UnlinkWalk(files, name)[i - 1], files[i], name)
<1> DEFINE n == Len(files)
           S == UnlinkAcc(F)
           base == [kept |-> << >>, compare |-> TRUE]
           step == [i \in 1..n |-> [a \in S |-> UnlinkStep(a, files[i], name)]]
           P(s) == s = [i \in 0..n |-> IF i = 0 THEN base
                                       ELSE UnlinkStep(s[i - 1], files[i], name)]
<1>1. n \in Nat /\ \A i \in 1..n : files[i] \in F
  BY ElementOfSeq
<1>2. base \in S
  BY EmptySeq DEF UnlinkAcc
<1>3. \A a \in S, i \in 1..n : UnlinkStep(a, files[i], name) \in S
  BY <1>1, UnlinkStepStays
<1>4. step \in [1..n -> [S -> S]]
  BY <1>3
<1>5. \A a \in S, i \in 1..n : step[i][a] = UnlinkStep(a, files[i], name)
  OBVIOUS
<1> HIDE DEF step, n, S, base
<1>6. \E s : P(s)
  <2>1. PICK s \in [0..n -> S] : Walks(s, n, base, step)
    BY <1>1, <1>2, <1>4, WalkExists
  <2>2. ASSUME NEW i \in 1..n PROVE s[i] = UnlinkStep(s[i - 1], files[i], name)
    <3>1. s[i - 1] \in S
      BY <2>1, <1>1
    <3> QED BY <2>1, <1>5, <3>1 DEF Walks
  <2>3. P(s)
    BY <2>1, <2>2, <1>1 DEF Walks
  <2> QED BY <2>3
<1>7. P(UnlinkWalk(files, name))
  BY <1>6 DEF UnlinkWalk, n, base
<1>8. ASSUME NEW s, P(s)
      PROVE  /\ s \in [0..n -> S] /\ s[0] = base
             /\ \A i \in 1..n : s[i] = UnlinkStep(s[i - 1], files[i], name)
  <2>1. s[0] = base
    BY <1>1, <1>8
  <2>2. \A i \in 1..n : s[i] = UnlinkStep(s[i - 1], files[i], name)
    BY <1>1, <1>8
  <2> DEFINE A == {i \in 0..n : s[i] \in S}
  <2>3. 0 \in A
    BY <2>1, <1>1, <1>2
  <2>4. ASSUME NEW i \in 1..n, i - 1 \in A PROVE i \in A
    <3>1. s[i - 1] \in S
      BY <2>4
    <3>2. s[i] \in S
      BY <3>1, <2>2, <1>3
    <3> QED BY <3>2, <1>1
  <2>5. \A i \in 0..n : i \in A
    <3> HIDE DEF A
    <3> QED BY <2>3, <2>4, <1>1, StepByStep
  <2>6. s \in [0..n -> S]
    BY <1>1, <1>8, <2>5
  <2> QED BY <2>1, <2>2, <2>6
<1> HIDE DEF P
<1> QED BY <1>7, <1>8 DEF n, S, base

\* RepairWalk is the walk its definition describes.
LEMMA RepairWalkOf ==
  ASSUME NEW F, NEW files \in Seq(F), NEW names
  PROVE  /\ RepairWalk(files, names) \in [0..Len(files) -> RepairAcc(F)]
         /\ RepairWalk(files, names)[0] = [kept |-> << >>, skip |-> FALSE, tries |-> 0]
         /\ \A i \in 1..Len(files) :
              RepairWalk(files, names)[i] =
                RepairStep(RepairWalk(files, names)[i - 1], i, files[i], names)
<1> DEFINE n == Len(files)
           S == RepairAcc(F)
           base == [kept |-> << >>, skip |-> FALSE, tries |-> 0]
           step == [i \in 1..n |-> [a \in S |-> RepairStep(a, i, files[i], names)]]
           P(s) == s = [i \in 0..n |-> IF i = 0 THEN base
                                       ELSE RepairStep(s[i - 1], i, files[i], names)]
<1>1. n \in Nat /\ \A i \in 1..n : files[i] \in F
  BY ElementOfSeq
<1>2. base \in S
  BY EmptySeq DEF RepairAcc
<1>3. \A a \in S, i \in 1..n : RepairStep(a, i, files[i], names) \in S
  BY <1>1, RepairStepStays
<1>4. step \in [1..n -> [S -> S]]
  BY <1>3
<1>5. \A a \in S, i \in 1..n : step[i][a] = RepairStep(a, i, files[i], names)
  OBVIOUS
<1> HIDE DEF step, n, S, base
<1>6. \E s : P(s)
  <2>1. PICK s \in [0..n -> S] : Walks(s, n, base, step)
    BY <1>1, <1>2, <1>4, WalkExists
  <2>2. ASSUME NEW i \in 1..n PROVE s[i] = RepairStep(s[i - 1], i, files[i], names)
    <3>1. s[i - 1] \in S
      BY <2>1, <1>1
    <3> QED BY <2>1, <1>5, <3>1 DEF Walks
  <2>3. P(s)
    BY <2>1, <2>2, <1>1 DEF Walks
  <2> QED BY <2>3
<1>7. P(RepairWalk(files, names))
  BY <1>6 DEF RepairWalk, n, base
<1>8. ASSUME NEW s, P(s)
      PROVE  /\ s \in [0..n -> S] /\ s[0] = base
             /\ \A i \in 1..n : s[i] = RepairStep(s[i - 1], i, files[i], names)
  <2>1. s[0] = base
    BY <1>1, <1>8
  <2>2. \A i \in 1..n : s[i] = RepairStep(s[i - 1], i, files[i], names)
    BY <1>1, <1>8
  <2> DEFINE A == {i \in 0..n : s[i] \in S}
  <2>3. 0 \in A
    BY <2>1, <1>1, <1>2
  <2>4. ASSUME NEW i \in 1..n, i - 1 \in A PROVE i \in A
    <3>1. s[i - 1] \in S
      BY <2>4
    <3>2. s[i] \in S
      BY <3>1, <2>2, <1>3
    <3> QED BY <3>2, <1>1
  <2>5. \A i \in 0..n : i \in A
    <3> HIDE DEF A
    <3> QED BY <2>3, <2>4, <1>1, StepByStep
  <2>6. s \in [0..n -> S]
    BY <1>1, <1>8, <2>5
  <2> QED BY <2>1, <2>2, <2>6
<1> HIDE DEF P
<1> QED BY <1>7, <1>8 DEF n, S, base

-----------------------------------------------------------------------------
\* kept is files cut down to the places in set K, in their order.
Picks(h, kept, files, K) ==
  /\ h \in [1..Len(kept) -> K]
  /\ \A i, j \in 1..Len(kept) : i < j => h[i] < h[j]
  /\ \A k \in K : \E j \in 1..Len(kept) : h[j] = k
  /\ \A j \in 1..Len(kept) : kept[j] = files[h[j]]

\* kept is some such cut.
Picked(kept, files, K) == \E h : Picks(h, kept, files, K)

\* Newest first, and no name twice.
Ordered(files) ==
  \A i, j \in 1..Len(files) : i < j =>
    /\ files[i].time >= files[j].time
    /\ files[i].name # files[j].name

\* Nothing kept so far.
LEMMA PickNothing == \A files : Picked(<< >>, files, {})
<1> TAKE files
<1>1. Len(<< >>) = 0
  OBVIOUS
<1>2. Picks([j \in 1..0 |-> 0], << >>, files, {})
  BY <1>1 DEF Picks
<1> QED BY <1>2 DEF Picked

\* Keeping file i, behind all the kept ones, adds its place.
LEMMA PickNext ==
  ASSUME NEW F, NEW files \in Seq(F), NEW i \in 1..Len(files),
         NEW kept \in Seq(F), NEW K \in SUBSET (1..(i - 1)), Picked(kept, files, K)
  PROVE  Picked(Append(kept, files[i]), files, K \cup {i})
<1> DEFINE n == Len(kept)
           more == Append(kept, files[i])
<1>1. PICK h : Picks(h, kept, files, K)
  BY DEF Picked
<1>2. n \in Nat /\ files[i] \in F /\ i \in Nat
  BY ElementOfSeq
<1>3. /\ Len(more) = n + 1 /\ more[n + 1] = files[i]
      /\ \A j \in 1..n : more[j] = kept[j]
  BY <1>2, AppendProperties
<1> DEFINE g == [j \in 1..(n + 1) |-> IF j = n + 1 THEN i ELSE h[j]]
<1> HIDE DEF n, more
<1>4. /\ h \in [1..n -> K]
      /\ \A j, k \in 1..n : j < k => h[j] < h[k]
      /\ \A k \in K : \E j \in 1..n : h[j] = k
      /\ \A j \in 1..n : kept[j] = files[h[j]]
  BY <1>1 DEF Picks, n
<1>5. g \in [1..(n + 1) -> K \cup {i}]
  BY <1>2, <1>4
<1>6. ASSUME NEW j \in 1..(n + 1), NEW k \in 1..(n + 1), j < k PROVE g[j] < g[k]
  <2>0. j \in 1..n
    BY <1>2, <1>6
  <2>1. j \in 1..n /\ h[j] \in 1..(i - 1)
    BY <1>4, <2>0
  <2>2. CASE k = n + 1
    BY <1>2, <2>1, <2>2
  <2>3. CASE k \in 1..n
    BY <1>2, <1>4, <1>6, <2>1, <2>3
  <2> QED BY <1>2, <2>2, <2>3
<1>7. ASSUME NEW k \in K \cup {i} PROVE \E j \in 1..(n + 1) : g[j] = k
  <2>1. CASE k = i
    <3>1. n + 1 \in 1..(n + 1) /\ g[n + 1] = i
      BY <1>2
    <3> QED BY <3>1, <2>1
  <2>2. CASE k \in K
    <3>1. PICK j \in 1..n : h[j] = k
      BY <1>4, <2>2
    <3>2. j \in 1..(n + 1) /\ g[j] = k
      BY <1>2, <3>1
    <3> QED BY <3>2
  <2> QED BY <2>1, <2>2
<1>8. ASSUME NEW j \in 1..(n + 1) PROVE more[j] = files[g[j]]
  BY <1>2, <1>3, <1>4
<1> HIDE DEF g
<1>9. Picks(g, more, files, K \cup {i})
  BY <1>3, <1>5, <1>6, <1>7, <1>8 DEF Picks
<1> QED BY <1>9 DEF Picked, more

\* A picked list is as ordered as the whole, and holds the files at its places.
LEMMA PickedFacts ==
  ASSUME NEW F, NEW files \in Seq(F), NEW kept \in Seq(F),
         NEW K \in SUBSET (1..Len(files)), Picked(kept, files, K)
  PROVE  /\ Ordered(files) => Ordered(kept)
         /\ \A j \in 1..Len(kept) : \E k \in K : kept[j] = files[k]
         /\ \A k \in K : \E j \in 1..Len(kept) : kept[j] = files[k]
<1>1. PICK h : Picks(h, kept, files, K)
  BY DEF Picked
<1>2. ASSUME Ordered(files), NEW i \in 1..Len(kept), NEW j \in 1..Len(kept), i < j
      PROVE  kept[i].time >= kept[j].time /\ kept[i].name # kept[j].name
  <2>1. h[i] \in 1..Len(files) /\ h[j] \in 1..Len(files) /\ h[i] < h[j]
    BY <1>1, <1>2 DEF Picks
  <2>2. kept[i] = files[h[i]] /\ kept[j] = files[h[j]]
    BY <1>1 DEF Picks
  <2> QED BY <1>2, <2>1, <2>2 DEF Ordered
<1>3. \A j \in 1..Len(kept) : \E k \in K : kept[j] = files[k]
  BY <1>1 DEF Picks
<1>4. \A k \in K : \E j \in 1..Len(kept) : kept[j] = files[k]
  BY <1>1 DEF Picks
<1> QED BY <1>2, <1>3, <1>4 DEF Ordered

\* The walk of file_list_del over a list without a name twice keeps, in their
\* order, exactly the files of the other names.
LEMMA UnlinkPicks ==
  ASSUME NEW F, NEW files \in Seq(F), Ordered(files), NEW name
  PROVE  /\ Unlink(files, name) \in Seq(F)
         /\ Picked(Unlink(files, name), files,
                   {j \in 1..Len(files) : files[j].name # name})
<1> DEFINE n == Len(files)
           w == UnlinkWalk(files, name)
           K(i) == {j \in 1..i : files[j].name # name}
           Claim(i) == /\ Picked(w[i].kept, files, K(i))
                       /\ ~ w[i].compare => i # 0 /\ files[i].name = name
           A == {i \in 0..n : Claim(i)}
<1>1. n \in Nat
  OBVIOUS
<1>2. w \in [0..n -> UnlinkAcc(F)] /\ w[0] = [kept |-> << >>, compare |-> TRUE]
  BY UnlinkWalkOf
<1>3. \A i \in 1..n : w[i] = UnlinkStep(w[i - 1], files[i], name)
  BY UnlinkWalkOf
<1> HIDE DEF w
<1>4. 0 \in A
  <2>1. K(0) = {}
    OBVIOUS
  <2> QED BY <1>1, <1>2, <2>1, PickNothing
<1>5. ASSUME NEW i \in 1..n, i - 1 \in A PROVE i \in A
  <2>1. w[i - 1] \in UnlinkAcc(F) /\ Claim(i - 1) /\ w[i] = UnlinkStep(w[i - 1], files[i], name)
    BY <1>1, <1>2, <1>3, <1>5
  <2>2. CASE files[i].name = name
    <3>1. w[i - 1].compare
      <4> SUFFICES ASSUME ~ w[i - 1].compare PROVE FALSE
        OBVIOUS
      <4>1. i - 1 \in 1..n /\ files[i - 1].name = name
        BY <1>1, <2>1
      <4> QED BY <4>1, <2>2 DEF Ordered
    <3>2. w[i].kept = w[i - 1].kept
      BY <2>1, <2>2, <3>1 DEF UnlinkStep, UnlinkAcc
    <3>3. K(i) = K(i - 1)
      BY <1>1, <2>2
    <3> HIDE DEF K
    <3> QED BY <2>1, <2>2, <3>2, <3>3, <1>1
  <2>3. CASE files[i].name # name
    <3>1. w[i].kept = Append(w[i - 1].kept, files[i]) /\ w[i].compare
      BY <2>1, <2>3 DEF UnlinkStep
    <3>2. K(i) = K(i - 1) \cup {i}
      BY <1>1, <2>3
    <3>3. w[i - 1].kept \in Seq(F) /\ K(i - 1) \in SUBSET (1..(i - 1))
      BY <2>1 DEF UnlinkAcc
    <3>4. Picked(Append(w[i - 1].kept, files[i]), files, K(i - 1) \cup {i})
      BY <2>1, <3>3, PickNext
    <3>5. Picked(w[i].kept, files, K(i))
      BY <3>1, <3>2, <3>4
    <3>6. i \in 0..n
      BY <1>1
    <3> HIDE DEF K
    <3> QED BY <3>1, <3>5, <3>6
  <2> QED BY <2>2, <2>3
<1>6. \A i \in 0..n : i \in A
  <2> HIDE DEF A
  <2> QED BY <1>1, <1>4, <1>5, StepByStep
<1>7. Claim(n) /\ w[n] \in UnlinkAcc(F)
  BY <1>1, <1>2, <1>6
<1> QED BY <1>7 DEF Unlink, UnlinkAcc, w

\* What the walk of repair over a list leaves: only files named as bad go, and
\* of the files it gets to, one named as bad stays only at the head or behind
\* one that went.  K is the set of places that stay among the first n.
Repaired(kept, files, names, K, n) ==
  /\ K \in SUBSET (1..n)
  /\ Picked(kept, files, K)
  /\ \A j \in (1..n) \ K : files[j].name \in names
  /\ \A j \in K : files[j].name \in names /\ j <= RepairDepth + 1 =>
       j = 1 \/ j - 1 \notin K
  /\ SizesOf(kept) <= SizesUpTo(files)[n]
  /\ K = 1..n => SizesOf(kept) = SizesUpTo(files)[n]

\* A file kept at the end adds its size.
LEMMA SizesOfAppend ==
  ASSUME NEW F, \A f \in F : f.size \in Nat, NEW s \in Seq(F), NEW e \in F
  PROVE  SizesOf(Append(s, e)) = SizesOf(s) + e.size
<1>1. /\ Append(s, e) \in Seq(F) /\ Len(Append(s, e)) = Len(s) + 1
      /\ Append(s, e)[Len(s) + 1] = e
      /\ \A i \in 1..Len(s) : Append(s, e)[i] = s[i]
  BY AppendProperties
<1>2. Longer(s, Append(s, e), Len(s) + 1)
  BY <1>1 DEF Longer
<1> DEFINE t == Append(s, e)
<1>3. t \in Seq(F) /\ t[Len(s) + 1] = e /\ Longer(s, t, Len(s) + 1)
  BY <1>1, <1>2
<1> HIDE DEF t
<1>4. SizesOf(t) = SizesOf(s) + t[Len(s) + 1].size
  BY <1>3, SizesOfInserted
<1> QED BY <1>3, <1>4 DEF t

\* The walk of repair, one file at a time.
LEMMA RepairTailPicks ==
  ASSUME NEW F, \A f \in F : f.size \in Nat, NEW files \in Seq(F), NEW names
  PROVE  /\ RepairTail(files, names) \in Seq(F)
         /\ \E K : Repaired(RepairTail(files, names), files, names, K, Len(files))
<1> DEFINE n == Len(files)
           w == RepairWalk(files, names)
           Claim(i, K) ==
             /\ Repaired(w[i].kept, files, names, K, i)
             /\ i = 0 => w[i].tries = 0
             /\ i > 0 => w[i].tries <= i - 1 /\ (w[i].skip <=> i \notin K)
           A == {i \in 0..n : \E K : Claim(i, K)}
<1>1. n \in Nat /\ RepairDepth \in Nat
  BY RepairDepthAssumption
<1>2. /\ w \in [0..n -> RepairAcc(F)]
      /\ w[0] = [kept |-> << >>, skip |-> FALSE, tries |-> 0]
      /\ \A i \in 1..n : w[i] = RepairStep(w[i - 1], i, files[i], names)
  BY RepairWalkOf
<1>3. SizesUpTo(files) \in [0..n -> Nat] /\ SizesUpTo(files)[0] = 0
  BY SumsOf
<1>4. \A i \in 1..n : SizesUpTo(files)[i] = SizesUpTo(files)[i - 1] + files[i].size
  BY SumsOf
<1>5. \A i \in 1..n : files[i] \in F /\ files[i].size \in Nat
  BY ElementOfSeq
<1>6. SizesOf(<< >>) = 0
  <2>1. << >> \in Seq(F) /\ Len(<< >>) = 0
    BY EmptySeq
  <2> QED BY <2>1, SumsOf DEF SizesOf
<1> HIDE DEF w, n
<1>7. 0 \in A
  <2>1. Repaired(w[0].kept, files, names, {}, 0)
    BY <1>2, <1>3, <1>6, PickNothing DEF Repaired
  <2>2. Claim(0, {})
    BY <1>2, <2>1
  <2> HIDE DEF Claim
  <2> QED BY <1>1, <2>2
<1>8. ASSUME NEW i \in 1..n, i - 1 \in A PROVE i \in A
  <2>1. PICK K : Claim(i - 1, K)
    BY <1>8
  <2> DEFINE acc == w[i - 1]
             sum == SizesUpTo(files)
  <2>2. /\ acc \in RepairAcc(F) /\ w[i] = RepairStep(acc, i, files[i], names)
        /\ i - 1 \in Nat /\ i \in Nat /\ i \in 1..Len(files)
    BY <1>1, <1>2 DEF n
  <2>3. acc.kept \in Seq(F) /\ acc.tries \in Nat /\ acc.skip \in BOOLEAN
    BY <2>2 DEF RepairAcc
  <2>4. /\ sum[i] = sum[i - 1] + files[i].size
        /\ sum[i - 1] \in Nat /\ files[i] \in F /\ files[i].size \in Nat
    BY <1>1, <1>3, <1>4, <1>5
  <2>5. SizesOf(acc.kept) \in Nat
    <3> DEFINE kept == acc.kept
    <3>1. kept \in Seq(F)
      BY <2>3
    <3> HIDE DEF kept
    <3>2. SizesOf(kept) \in Nat
      BY <3>1, SizesOfType
    <3> QED BY <3>2 DEF kept
  <2>6. /\ K \in SUBSET (1..(i - 1)) /\ Picked(acc.kept, files, K)
        /\ \A j \in (1..(i - 1)) \ K : files[j].name \in names
        /\ \A j \in K : files[j].name \in names /\ j <= RepairDepth + 1 =>
             j = 1 \/ j - 1 \notin K
        /\ SizesOf(acc.kept) <= sum[i - 1]
        /\ K = 1..(i - 1) => SizesOf(acc.kept) = sum[i - 1]
    BY <2>1 DEF Repaired
  <2>7. i = 1 => acc.tries = 0
    BY <2>1
  <2>8. i # 1 => acc.tries <= i - 2 /\ (acc.skip <=> i - 1 \notin K)
    BY <2>1, <2>2
  <2> HIDE DEF acc, sum, Claim
  <2>9. ASSUME w[i].kept = Append(acc.kept, files[i]),
               files[i].name \in names /\ i <= RepairDepth + 1 => i = 1 \/ i - 1 \notin K
        PROVE  Repaired(w[i].kept, files, names, K \cup {i}, i)
    <3>1. SizesOf(w[i].kept) = SizesOf(acc.kept) + files[i].size
      BY <2>3, <2>4, <2>9, SizesOfAppend
    <3>2. Picked(w[i].kept, files, K \cup {i})
      <4>1. i \in 1..Len(files) /\ acc.kept \in Seq(F) /\ K \in SUBSET (1..(i - 1))
        BY <2>2, <2>3, <2>6
      <4>2. Picked(acc.kept, files, K)
        BY <2>6
      <4>3. Picked(Append(acc.kept, files[i]), files, K \cup {i})
        BY <4>1, <4>2, PickNext
      <4> QED BY <4>3, <2>9
    <3>3. K \cup {i} \in SUBSET (1..i)
      BY <2>2, <2>6
    <3>4. ASSUME NEW j \in (1..i) \ (K \cup {i}) PROVE files[j].name \in names
      BY <2>2, <2>6
    <3>5. ASSUME NEW j \in K \cup {i}, files[j].name \in names, j <= RepairDepth + 1
          PROVE  j = 1 \/ j - 1 \notin K \cup {i}
      <4>1. CASE j = i
        BY <2>2, <2>9, <3>5, <4>1
      <4>2. CASE j \in K
        <5>1. j \in 1..(i - 1)
          BY <2>6, <4>2
        <5> QED BY <2>2, <2>6, <3>5, <4>2, <5>1
      <4> QED BY <4>1, <4>2
    <3>6. SizesOf(w[i].kept) <= sum[i]
      BY <2>4, <2>5, <2>6, <3>1
    <3>7. ASSUME K \cup {i} = 1..i PROVE SizesOf(w[i].kept) = sum[i]
      <4>1. K = 1..(i - 1)
        <5>1. ASSUME NEW j \in 1..(i - 1) PROVE j \in K
          <6>1. j \in 1..i /\ j # i
            BY <2>2
          <6> QED BY <3>7, <6>1
        <5> QED BY <2>6, <5>1
      <4> QED BY <2>4, <2>5, <2>6, <3>1, <4>1
    <3> QED BY <3>2, <3>3, <3>4, <3>5, <3>6, <3>7 DEF Repaired, sum
  <2>10. CASE i = 1 \/ acc.skip \/ acc.tries = RepairDepth
    <3>1. w[i] = [acc EXCEPT !.kept = Append(acc.kept, files[i]), !.skip = FALSE]
      BY <2>2, <2>10 DEF RepairStep
    <3>2. w[i].kept = Append(acc.kept, files[i]) /\ w[i].skip = FALSE /\ w[i].tries = acc.tries
      BY <2>2, <3>1 DEF RepairAcc
    <3>3. i <= RepairDepth + 1 => i = 1 \/ i - 1 \notin K
      BY <1>1, <2>2, <2>3, <2>8, <2>10
    <3>4. Repaired(w[i].kept, files, names, K \cup {i}, i)
      BY <2>9, <3>2, <3>3
    <3>5. Claim(i, K \cup {i})
      BY <2>2, <2>3, <2>7, <2>8, <3>2, <3>4 DEF Claim
    <3> QED BY <1>1, <3>5
  <2>11. CASE ~ (i = 1 \/ acc.skip \/ acc.tries = RepairDepth) /\ files[i].name \in names
    <3>1. w[i] = [acc EXCEPT !.skip = TRUE, !.tries = acc.tries + 1]
      BY <2>2, <2>11 DEF RepairStep
    <3>2. w[i].kept = acc.kept /\ w[i].skip = TRUE /\ w[i].tries = acc.tries + 1
      BY <2>2, <3>1 DEF RepairAcc
    <3>3. i \notin K
      BY <2>2, <2>6
    <3>4. Repaired(w[i].kept, files, names, K, i)
      <4>1. K \in SUBSET (1..i) /\ K # 1..i
        BY <2>2, <2>6, <3>3
      <4>2. ASSUME NEW j \in (1..i) \ K PROVE files[j].name \in names
        BY <2>2, <2>6, <2>11
      <4>3. SizesOf(w[i].kept) <= sum[i]
        BY <2>4, <2>5, <2>6, <3>2
      <4> QED BY <2>6, <3>2, <4>1, <4>2, <4>3 DEF Repaired, sum
    <3>5. Claim(i, K)
      BY <2>2, <2>3, <2>8, <2>11, <3>2, <3>3, <3>4 DEF Claim
    <3> QED BY <1>1, <3>5
  <2>12. CASE ~ (i = 1 \/ acc.skip \/ acc.tries = RepairDepth) /\ files[i].name \notin names
    <3>1. w[i] = [acc EXCEPT !.kept = Append(acc.kept, files[i]), !.tries = acc.tries + 1]
      BY <2>2, <2>12 DEF RepairStep
    <3>2. w[i].kept = Append(acc.kept, files[i]) /\ w[i].skip = acc.skip /\ w[i].tries = acc.tries + 1
      BY <2>2, <3>1 DEF RepairAcc
    <3>3. Repaired(w[i].kept, files, names, K \cup {i}, i)
      BY <2>9, <2>12, <3>2
    <3>4. Claim(i, K \cup {i})
      BY <2>2, <2>3, <2>8, <2>12, <3>2, <3>3 DEF Claim
    <3> QED BY <1>1, <3>4
  <2> QED BY <2>10, <2>11, <2>12
<1>9. \A i \in 0..n : i \in A
  <2> HIDE DEF A
  <2> QED BY <1>1, <1>7, <1>8, StepByStep
<1>10. PICK K : Claim(n, K)
  <2>1. n \in A
    <3> HIDE DEF A
    <3> QED BY <1>1, <1>9
  <2> HIDE DEF Claim
  <2> QED BY <2>1
<1>11. w[n] \in RepairAcc(F)
  BY <1>1, <1>2
<1>12. Repaired(RepairTail(files, names), files, names, K, Len(files))
  BY <1>10 DEF RepairTail, n, w
<1> QED BY <1>11, <1>12 DEF RepairTail, RepairAcc, n, w

\* A list without its head, as places of the whole.
LEMMA TailPicks ==
  ASSUME NEW F, NEW files \in Seq(F), files # << >>, NEW kept \in Seq(F),
         NEW K \in SUBSET (1..Len(Tail(files))), Picked(kept, Tail(files), K)
  PROVE  Picked(kept, files, {k + 1 : k \in K})
<1>1. PICK h : Picks(h, kept, Tail(files), K)
  BY DEF Picked
<1>2. /\ Len(files) \in Nat /\ Len(Tail(files)) = Len(files) - 1
      /\ \A i \in 1..Len(Tail(files)) : Tail(files)[i] = files[i + 1]
  BY HeadTailProperties
<1> DEFINE m == Len(kept)
           g == [j \in 1..m |-> h[j] + 1]
           more == {k + 1 : k \in K}
<1>3. /\ h \in [1..m -> K]
      /\ \A i, j \in 1..m : i < j => h[i] < h[j]
      /\ \A k \in K : \E j \in 1..m : h[j] = k
      /\ \A j \in 1..m : kept[j] = Tail(files)[h[j]]
  BY <1>1 DEF Picks
<1> HIDE DEF m
<1>4. g \in [1..m -> more]
  BY <1>3
<1>5. ASSUME NEW i \in 1..m, NEW j \in 1..m, i < j PROVE g[i] < g[j]
  <2>1. h[i] \in 1..Len(Tail(files)) /\ h[j] \in 1..Len(Tail(files))
    BY <1>3
  <2>2. h[i] \in Int /\ h[j] \in Int /\ h[i] < h[j]
    BY <1>3, <1>5, <2>1
  <2> QED BY <2>2
<1>6. ASSUME NEW l \in more PROVE \E j \in 1..m : g[j] = l
  <2>1. PICK k \in K : l = k + 1
    OBVIOUS
  <2>2. PICK j \in 1..m : h[j] = k
    BY <1>3
  <2> QED BY <2>1, <2>2
<1>7. ASSUME NEW j \in 1..m PROVE kept[j] = files[g[j]]
  <2>1. h[j] \in 1..Len(Tail(files)) /\ g[j] = h[j] + 1
    BY <1>3
  <2> QED BY <1>2, <1>3, <2>1
<1> HIDE DEF g, more
<1>8. Picks(g, kept, files, more)
  BY <1>4, <1>5, <1>6, <1>7 DEF Picks, m
<1> QED BY <1>8 DEF Picked, more

\* Head and tail together: the first damaged file always goes.
LEMMA RepairPicks ==
  ASSUME NEW F, \A f \in F : f.size \in Nat, NEW files \in Seq(F), NEW names,
         NEW kept, kept = RepairTail(RepairHead(files, names), names)
  PROVE  /\ kept \in Seq(F)
         /\ \E K : /\ Repaired(kept, files, names, K, Len(files))
                   /\ \A j \in K : files[j].name \in names /\ j <= RepairDepth + 1 =>
                        j - 1 \in (1..Len(files)) \ K
<1> DEFINE n == Len(files)
<1>1. n \in Nat /\ RepairDepth \in Nat
  BY RepairDepthAssumption
<1>2. CASE files # << >> /\ files[1].name \in names
  <2> DEFINE tail == Tail(files)
  <2>1. /\ tail \in Seq(F) /\ Len(tail) = n - 1 /\ n >= 1
        /\ \A i \in 1..(n - 1) : tail[i] = files[i + 1]
    BY <1>2, HeadTailProperties, EmptySeq
  <2>2. RepairHead(files, names) = tail
    BY <1>2 DEF RepairHead
  <2>3. kept \in Seq(F)
    BY <2>1, <2>2, RepairTailPicks
  <2>4. PICK K : Repaired(kept, tail, names, K, n - 1)
    BY <2>1, <2>2, RepairTailPicks
  <2> DEFINE L == {k + 1 : k \in K}
  <2>5. SizesOf(files) = SizesOf(tail) + files[1].size /\ files[1].size \in Nat
    <3>1. files[1] \in F
      BY <1>1, <2>1, ElementOfSeq
    <3> HIDE DEF tail
    <3>2. Longer(tail, files, 1)
      BY <1>1, <2>1 DEF Longer
    <3> QED BY <2>1, <3>1, <3>2, SizesOfInserted
  <2>6. /\ K \in SUBSET (1..(n - 1)) /\ Picked(kept, tail, K)
        /\ \A j \in (1..(n - 1)) \ K : tail[j].name \in names
        /\ \A j \in K : tail[j].name \in names /\ j <= RepairDepth + 1 =>
             j = 1 \/ j - 1 \notin K
        /\ SizesOf(kept) <= SizesOf(tail)
    BY <2>1, <2>4 DEF Repaired, SizesOf
  <2>7. SizesOf(kept) \in Nat /\ SizesOf(tail) \in Nat
    <3> HIDE DEF tail
    <3> QED BY <2>1, <2>3, SizesOfType
  <2>8. Picked(kept, files, L)
    BY <1>2, <2>1, <2>3, <2>6, TailPicks
  <2> HIDE DEF tail
  <2>9. L \in SUBSET (1..n) /\ L # 1..n
    <3>1. 1 \notin L /\ 1 \in 1..n
      BY <1>1, <2>1, <2>6
    <3>2. L \in SUBSET (1..n)
      BY <1>1, <2>6
    <3> QED BY <3>1, <3>2
  <2>10. ASSUME NEW j \in (1..n) \ L PROVE files[j].name \in names
    <3>1. CASE j = 1
      BY <1>2, <3>1
    <3>2. CASE j # 1
      <4>1. j - 1 \in 1..(n - 1) /\ (j - 1) + 1 = j
        BY <1>1, <3>2
      <4>2. j - 1 \notin K
        BY <4>1
      <4> QED BY <2>1, <2>6, <4>1, <4>2
    <3> QED BY <3>1, <3>2
  <2>11. ASSUME NEW j \in L, files[j].name \in names, j <= RepairDepth + 1
         PROVE  j - 1 \in (1..n) \ L
    <3>1. PICK k \in K : j = k + 1
      OBVIOUS
    <3>2. k \in 1..(n - 1) /\ tail[k].name \in names /\ k <= RepairDepth + 1
      BY <1>1, <2>1, <2>6, <2>11, <3>1
    <3>3. k = 1 \/ k - 1 \notin K
      BY <2>6, <3>2
    <3>4. k \notin L
      BY <1>1, <2>6, <3>2, <3>3
    <3> QED BY <1>1, <3>1, <3>2, <3>4
  <2>12. SizesOf(kept) <= SizesUpTo(files)[n]
    BY <2>5, <2>6, <2>7 DEF SizesOf
  <2> HIDE DEF L
  <2>13. Repaired(kept, files, names, L, n)
    BY <1>1, <2>8, <2>9, <2>10, <2>11, <2>12 DEF Repaired
  <2> QED BY <2>3, <2>11, <2>13
<1>3. CASE ~ (files # << >> /\ files[1].name \in names)
  <2>1. RepairHead(files, names) = files
    BY <1>3 DEF RepairHead
  <2>2. PICK K : Repaired(kept, files, names, K, n)
    BY <2>1, RepairTailPicks
  <2>3. ASSUME NEW j \in K, files[j].name \in names, j <= RepairDepth + 1
        PROVE  j - 1 \in (1..n) \ K
    <3>1. j \in 1..n
      BY <2>2 DEF Repaired
    <3>2. files # << >>
      BY <1>1, <3>1, EmptySeq
    <3>3. j # 1
      BY <1>3, <2>3, <3>2
    <3>4. j - 1 \notin K
      BY <2>2, <2>3, <3>3 DEF Repaired
    <3> QED BY <1>1, <3>1, <3>3, <3>4
  <2> QED BY <2>1, <2>2, <2>3, RepairTailPicks
<1> QED BY <1>2, <1>3

-----------------------------------------------------------------------------
(* The three operations on a folder.                                       *)

\* Records that can be listed.
IsFiles(F) == \A f \in F : f.size \in Nat /\ f.time \in Nat

\* What the operations keep: the list in order and described by last and num,
\* and a total that covers it.
Sound(d, F) ==
  /\ d.files \in Seq(F)
  /\ Ordered(d.files)
  /\ d.last = IF d.files = << >> THEN NoFile ELSE Last(d.files)
  /\ d.num = Len(d.files)
  /\ d.total \in Nat
  /\ d.total >= SizesOf(d.files)

\* The place of a new file: newer files before it, no newer one behind it.
LEMMA PlaceOf ==
  ASSUME NEW F, IsFiles(F), NEW files \in Seq(F), NEW t \in Nat
  PROVE  /\ Place(files, t) \in 1..(Len(files) + 1)
         /\ \A i \in 1..Len(files) : i < Place(files, t) => files[i].time > t
         /\ Place(files, t) <= Len(files) => t >= files[Place(files, t)].time
<1> DEFINE n == Len(files)
           older == {i \in 1..n : t >= files[i].time}
<1>1. n \in Nat /\ \A i \in 1..n : files[i].time \in Nat
  BY ElementOfSeq DEF IsFiles
<1>2. CASE older = {}
  <2>1. Place(files, t) = n + 1
    BY <1>2 DEF Place
  <2> QED BY <1>1, <1>2, <2>1
<1>3. CASE older # {}
  <2>1. older \in SUBSET Nat
    OBVIOUS
  <2>2. \E i \in older : \A j \in older : i <= j
    BY <1>3, <2>1, LeastElement
  <2>3. Place(files, t) \in older /\ \A j \in older : Place(files, t) <= j
    BY <1>3, <2>2 DEF Place
  <2> QED BY <1>1, <2>3
<1> QED BY <1>2, <1>3

\* A list with a file inserted is the list with one more element.
LEMMA InsertFacts ==
  ASSUME NEW F, NEW s \in Seq(F), NEW p \in 1..(Len(s) + 1), NEW f \in F
  PROVE  /\ InsertAt(s, p, f) \in Seq(F)
         /\ Len(InsertAt(s, p, f)) = Len(s) + 1
         /\ InsertAt(s, p, f)[p] = f
         /\ \A i \in 1..(p - 1) : InsertAt(s, p, f)[i] = s[i]
         /\ \A i \in (p + 1)..(Len(s) + 1) : InsertAt(s, p, f)[i] = s[i - 1]
<1> DEFINE n == Len(s)
           a == SubSeq(s, 1, p - 1)
           b == SubSeq(s, p, n)
           ab == a \o <<f>>
<1>1. n \in Nat /\ p \in Nat /\ p >= 1 /\ p <= n + 1 /\ \A i \in 1..n : s[i] \in F
  BY ElementOfSeq
<1>2. a \in Seq(F) /\ Len(a) = p - 1 /\ \A i \in 1..(p - 1) : a[i] = s[i]
  <2>1. \A i \in 1..(p - 1) : s[i] \in F
    BY <1>1
  <2> QED BY <1>1, <2>1, SubSeqProperties
<1>3. b \in Seq(F) /\ Len(b) = n - p + 1 /\ \A i \in 1..(n - p + 1) : b[i] = s[p + i - 1]
  <2>1. \A i \in p..n : s[i] \in F
    BY <1>1
  <2> QED BY <1>1, <2>1, SubSeqProperties
<1>4. <<f>> \in Seq(F) /\ Len(<<f>>) = 1 /\ <<f>>[1] = f
  OBVIOUS
<1> HIDE DEF a, b, n
<1>5. /\ ab \in Seq(F) /\ Len(ab) = p
      /\ ab[p] = f /\ \A i \in 1..(p - 1) : ab[i] = a[i]
  <2> DEFINE g == <<f>>
  <2>1. g \in Seq(F) /\ Len(g) = 1 /\ g[1] = f
    BY <1>4
  <2> HIDE DEF g
  <2>2. /\ a \o g \in Seq(F) /\ Len(a \o g) = Len(a) + Len(g)
        /\ \A i \in 1..(Len(a) + Len(g)) :
             (a \o g)[i] = IF i <= Len(a) THEN a[i] ELSE g[i - Len(a)]
    BY <1>2, <2>1, ConcatProperties
  <2>3. a \o g \in Seq(F) /\ Len(a \o g) = p /\ (a \o g)[p] = f
    BY <1>1, <1>2, <2>1, <2>2
  <2>4. \A i \in 1..(p - 1) : (a \o g)[i] = a[i]
    BY <1>1, <1>2, <2>1, <2>2
  <2> QED BY <2>3, <2>4 DEF g
<1> HIDE DEF ab
<1>6. /\ ab \o b \in Seq(F) /\ Len(ab \o b) = n + 1
      /\ \A i \in 1..p : (ab \o b)[i] = ab[i]
      /\ \A i \in (p + 1)..(n + 1) : (ab \o b)[i] = b[i - p]
  <2>1. /\ ab \o b \in Seq(F) /\ Len(ab \o b) = Len(ab) + Len(b)
        /\ \A i \in 1..(Len(ab) + Len(b)) :
             (ab \o b)[i] = IF i <= Len(ab) THEN ab[i] ELSE b[i - Len(ab)]
    BY <1>3, <1>5, ConcatProperties
  <2>2. Len(ab) + Len(b) = n + 1 /\ Len(ab) = p
    BY <1>1, <1>3, <1>5
  <2> QED BY <1>1, <2>1, <2>2
<1>7. InsertAt(s, p, f) = ab \o b
  BY DEF InsertAt, a, b, ab, n
<1>8. ASSUME NEW i \in (p + 1)..(n + 1) PROVE b[i - p] = s[i - 1]
  <2>1. i - p \in 1..(n - p + 1) /\ p + (i - p) - 1 = i - 1
    BY <1>1
  <2> QED BY <1>3, <2>1
<1> QED BY <1>1, <1>2, <1>5, <1>6, <1>7, <1>8 DEF n

\* An inserted file adds its size.
LEMMA SizesOfInsertAt ==
  ASSUME NEW F, \A f \in F : f.size \in Nat,
         NEW s \in Seq(F), NEW p \in 1..(Len(s) + 1), NEW e \in F
  PROVE  SizesOf(InsertAt(s, p, e)) = SizesOf(s) + e.size
<1> DEFINE t == InsertAt(s, p, e)
<1>1. /\ t \in Seq(F) /\ Len(t) = Len(s) + 1 /\ t[p] = e
      /\ \A i \in 1..(p - 1) : t[i] = s[i]
      /\ \A i \in (p + 1)..(Len(s) + 1) : t[i] = s[i - 1]
  BY InsertFacts
<1> HIDE DEF t
<1>2. Longer(s, t, p)
  BY <1>1 DEF Longer
<1>3. SizesOf(t) = SizesOf(s) + t[p].size
  BY <1>1, <1>2, SizesOfInserted
<1> QED BY <1>1, <1>3 DEF t

\* The last of a list is its element at its length.
LEMMA LastIs ==
  ASSUME NEW F, NEW s \in Seq(F), s # << >>
  PROVE  Last(s) = s[Len(s)] /\ Len(s) \in 1..Len(s)
BY EmptySeq DEF Last

\* file_list_add of a name that is not listed: the list stays sound, gains
\* exactly that file, and total stays exact where it was.
LEMMA AddSound ==
  ASSUME NEW F, IsFiles(F), NEW d, Sound(d, F), NEW f \in F, f.name \notin Names(d)
  PROVE  /\ Sound(ListAdd(d, f), F)
         /\ Names(ListAdd(d, f)) = Names(d) \cup {f.name}
         /\ ToSet(ListAdd(d, f).files) = ToSet(d.files) \cup {f}
         /\ d.total = SizesOf(d.files) =>
              ListAdd(d, f).total = SizesOf(ListAdd(d, f).files)
<1> DEFINE s == d.files
           n == Len(s)
           p == Place(s, f.time)
           t == InsertAt(s, p, f)
           e == ListAdd(d, f)
<1>1. s \in Seq(F) /\ n \in Nat /\ f.time \in Nat /\ f.size \in Nat
  BY DEF Sound, IsFiles
<1>2. /\ p \in 1..(n + 1)
      /\ \A i \in 1..n : i < p => s[i].time > f.time
      /\ p <= n => f.time >= s[p].time
  BY <1>1, PlaceOf
<1>3. \A i \in 1..n : s[i] \in F /\ s[i].time \in Nat /\ s[i].name # f.name
  BY <1>1, ElementOfSeq DEF IsFiles, Names
<1>4. /\ t \in Seq(F) /\ Len(t) = n + 1 /\ t[p] = f
      /\ \A i \in 1..(p - 1) : t[i] = s[i]
      /\ \A i \in (p + 1)..(n + 1) : t[i] = s[i - 1]
  <2>1. p \in 1..(Len(s) + 1) /\ s \in Seq(F)
    BY <1>1, <1>2
  <2> HIDE DEF p, s
  <2>2. /\ InsertAt(s, p, f) \in Seq(F)
        /\ Len(InsertAt(s, p, f)) = Len(s) + 1
        /\ InsertAt(s, p, f)[p] = f
        /\ \A i \in 1..(p - 1) : InsertAt(s, p, f)[i] = s[i]
        /\ \A i \in (p + 1)..(Len(s) + 1) : InsertAt(s, p, f)[i] = s[i - 1]
    BY <2>1, InsertFacts
  <2> QED BY <2>2
<1>5. /\ e.files = t /\ e.num = n + 1 /\ e.total = d.total + f.size
      /\ e.last = IF p = n + 1 THEN f ELSE d.last
  BY DEF ListAdd, LastAfterAdd, TotalAfterAdd, Sound
<1>6. SizesOf(t) = SizesOf(s) + f.size
  <2>1. \A g \in F : g.size \in Nat
    BY DEF IsFiles
  <2>2. p \in 1..(Len(s) + 1) /\ s \in Seq(F)
    BY <1>1, <1>2
  <2> HIDE DEF p, s
  <2> QED BY <2>1, <2>2, SizesOfInsertAt
<1>7. SizesOf(s) \in Nat
  BY <1>1, SizesOfType DEF IsFiles
<1> HIDE DEF t, p, e, n
<1>8. \A i \in 1..n : \E j \in 1..(n + 1) : t[j] = s[i]
  <2> TAKE i \in 1..n
  <2>1. CASE i < p
    <3>1. i \in 1..(n + 1) /\ t[i] = s[i]
      BY <1>1, <1>2, <1>4, <2>1
    <3> QED BY <3>1
  <2>2. CASE i >= p
    <3>1. i + 1 \in (p + 1)..(n + 1) /\ (i + 1) - 1 = i
      BY <1>1, <1>2, <2>2
    <3>2. i + 1 \in 1..(n + 1) /\ t[i + 1] = s[i]
      BY <1>1, <1>2, <1>4, <3>1
    <3> QED BY <3>2
  <2> QED BY <1>1, <1>2, <2>1, <2>2
<1>9. \A j \in 1..(n + 1) : t[j] = f \/ \E i \in 1..n : t[j] = s[i]
  <2> TAKE j \in 1..(n + 1)
  <2>1. CASE j < p
    BY <1>1, <1>2, <1>4, <2>1
  <2>2. CASE j > p
    <3>1. j - 1 \in 1..n /\ t[j] = s[j - 1]
      BY <1>1, <1>2, <1>4, <2>2
    <3> QED BY <3>1
  <2> QED BY <1>1, <1>2, <1>4, <2>1, <2>2
<1>10. Ordered(t)
  <2> SUFFICES ASSUME NEW i \in 1..(n + 1), NEW j \in 1..(n + 1), i < j
               PROVE  t[i].time >= t[j].time /\ t[i].name # t[j].name
    BY <1>4 DEF Ordered
  <2>0. \A k, l \in 1..n : k < l => s[k].time >= s[l].time /\ s[k].name # s[l].name
    BY DEF Sound, Ordered, n
  <2>1. CASE j < p
    <3>1. i \in 1..(p - 1) /\ j \in 1..(p - 1) /\ i \in 1..n /\ j \in 1..n
      BY <1>1, <1>2, <2>1
    <3>2. t[i] = s[i] /\ t[j] = s[j]
      BY <1>4, <3>1
    <3> QED BY <2>0, <3>1, <3>2
  <2>2. CASE j = p
    <3>1. i \in 1..(p - 1) /\ i \in 1..n
      BY <1>1, <1>2, <2>2
    <3>2. t[i] = s[i] /\ t[j] = f
      BY <1>4, <2>2, <3>1
    <3>3. s[i].time > f.time /\ s[i].time \in Nat /\ s[i].name # f.name
      BY <1>1, <1>2, <1>3, <3>1
    <3> QED BY <1>1, <3>2, <3>3
  <2>3. CASE j > p
    <3>0. j \in (p + 1)..(n + 1) /\ j - 1 \in 1..n
      BY <1>1, <1>2, <2>3
    <3>1. j \in (p + 1)..(n + 1) /\ j - 1 \in 1..n /\ t[j] = s[j - 1]
      BY <1>4, <3>0
    <3>2. CASE i < p
      <4>1. i \in 1..(p - 1) /\ i \in 1..n /\ i < j - 1
        BY <1>1, <1>2, <2>3, <3>2
      <4> QED BY <1>4, <2>0, <3>1, <4>1
    <3>3. CASE i = p
      <4>1. p \in 1..n /\ f.time >= s[p].time
        BY <1>1, <1>2, <2>3
      <4>2. s[p].time >= s[j - 1].time
        <5>1. CASE p = j - 1
          BY <1>3, <4>1, <5>1
        <5>2. CASE p < j - 1
          BY <2>0, <3>1, <4>1, <5>2
        <5> QED BY <1>1, <1>2, <2>3, <5>1, <5>2
      <4>4. t[i] = f /\ t[j] = s[j - 1]
        BY <1>4, <3>1, <3>3
      <4>3. s[p].time \in Nat /\ s[j - 1].time \in Nat /\ s[j - 1].name # f.name
        BY <1>3, <3>1, <4>1
      <4>5. f.time \in Nat /\ f.time >= s[j - 1].time
        <5>1. f.time \in Nat
          BY <1>1 DEF IsFiles
        <5> QED BY <4>1, <4>2, <4>3, <5>1
      <4> QED BY <4>3, <4>4, <4>5
    <3>4. CASE i > p
      <4>1. i \in (p + 1)..(n + 1) /\ i - 1 \in 1..n /\ i - 1 < j - 1
        BY <1>1, <1>2, <3>4
      <4> QED BY <1>4, <2>0, <3>1, <4>1
    <3> QED BY <1>1, <1>2, <3>2, <3>3, <3>4
  <2> QED BY <1>1, <1>2, <2>1, <2>2, <2>3
<1>11. e.last = Last(t) /\ t # << >>
  <2>1. t # << >> /\ Last(t) = t[n + 1]
    BY <1>1, <1>4, LastIs, EmptySeq
  <2>2. CASE p = n + 1
    BY <1>4, <1>5, <2>1, <2>2
  <2>3. CASE p # n + 1
    <3>1. n + 1 \in (p + 1)..(n + 1) /\ t[n + 1] = s[(n + 1) - 1] /\ n >= 1 /\ (n + 1) - 1 = n
      BY <1>1, <1>2, <1>4, <2>3
    <3>2. s # << >>
      BY <3>1, EmptySeq DEF n
    <3>3. d.last = s[n]
      BY <1>1, <3>2, LastIs DEF Sound, n
    <3> QED BY <1>5, <2>1, <2>3, <3>1, <3>3
  <2> QED BY <2>2, <2>3
<1>12. Sound(e, F)
  <2>1. d.total \in Nat /\ d.total >= SizesOf(s)
    BY DEF Sound
  <2> QED BY <1>1, <1>4, <1>5, <1>6, <1>7, <1>10, <1>11, <2>1 DEF Sound
<1>13. Names(e) = Names(d) \cup {f.name}
  <2>1. p \in 1..(n + 1)
    BY <1>2
  <2>2. Names(e) = {t[j].name : j \in 1..(n + 1)} /\ Names(d) = {s[i].name : i \in 1..n}
    BY <1>4, <1>5 DEF Names, n
  <2>3. Names(e) \subseteq Names(d) \cup {f.name}
    BY <1>9, <2>2
  <2>4. Names(d) \subseteq Names(e)
    BY <1>8, <2>2
  <2>5. t[p] = f
    BY <1>4
  <2> QED BY <2>1, <2>2, <2>3, <2>4, <2>5
<1>14. ToSet(t) = ToSet(s) \cup {f}
  <2>1. p \in 1..(n + 1)
    BY <1>2
  <2>2. ToSet(t) = {t[j] : j \in 1..(n + 1)} /\ ToSet(s) = {s[i] : i \in 1..n}
    <3>1. DOMAIN t = 1..(n + 1) /\ DOMAIN s = 1..n
      BY <1>1, <1>4, LenProperties DEF n
    <3> QED BY <3>1 DEF ToSet
  <2>3. ToSet(t) \subseteq ToSet(s) \cup {f}
    BY <1>9, <2>2
  <2>4. ToSet(s) \subseteq ToSet(t)
    BY <1>8, <2>2
  <2>5. t[p] = f
    BY <1>4
  <2> QED BY <2>1, <2>2, <2>3, <2>4, <2>5
<1>15. d.total = SizesOf(s) => e.total = SizesOf(t)
  BY <1>5, <1>6
<1> QED BY <1>5, <1>12, <1>13, <1>14, <1>15 DEF e

\* file_list_del: the list stays sound and loses exactly that name, and total
\* is exact again.
LEMMA DelSound ==
  ASSUME NEW F, IsFiles(F), NEW d, Sound(d, F), NEW name
  PROVE  /\ Sound(ListDel(d, name), F)
         /\ Names(ListDel(d, name)) = Names(d) \ {name}
         /\ ToSet(ListDel(d, name).files) = {f \in ToSet(d.files) : f.name # name}
         /\ ListDel(d, name).num = Len(ListDel(d, name).files)
         /\ ListDel(d, name).total = SizesOf(ListDel(d, name).files)
<1> DEFINE s == d.files
           n == Len(s)
           t == Unlink(s, name)
           e == ListDel(d, name)
           K == {j \in 1..n : s[j].name # name}
<1>1. s \in Seq(F) /\ Ordered(s)
  BY DEF Sound
<1>2. t \in Seq(F) /\ Picked(t, s, K)
  BY <1>1, UnlinkPicks
<1>3. /\ e.files = t /\ e.num = Len(t) /\ e.total = SizesOf(t)
      /\ e.last = IF t = << >> THEN NoFile ELSE Last(t)
  BY DEF ListDel, TotalAfterDel
<1> HIDE DEF t, e, s
<1>4. /\ Ordered(t)
      /\ \A j \in 1..Len(t) : \E k \in K : t[j] = s[k]
      /\ \A k \in K : \E j \in 1..Len(t) : t[j] = s[k]
  <2>1. K \in SUBSET (1..Len(s))
    OBVIOUS
  <2> HIDE DEF K
  <2> QED BY <1>1, <1>2, <2>1, PickedFacts
<1>5. Sound(e, F)
  <2>1. SizesOf(t) \in Nat
    BY <1>2, SizesOfType DEF IsFiles
  <2> QED BY <1>2, <1>3, <1>4, <2>1 DEF Sound
<1>6. Names(e) = Names(d) \ {name}
  <2>1. Names(e) = {t[j].name : j \in 1..Len(t)} /\ Names(d) = {s[i].name : i \in 1..n}
    BY <1>3 DEF Names, s
  <2>2. ASSUME NEW j \in 1..Len(t) PROVE t[j].name \in Names(d) \ {name}
    <3>1. PICK k \in K : t[j] = s[k]
      BY <1>4
    <3> QED BY <2>1, <3>1
  <2>3. ASSUME NEW i \in 1..n, s[i].name # name PROVE s[i].name \in Names(e)
    <3>1. i \in K
      BY <2>3
    <3>2. PICK j \in 1..Len(t) : t[j] = s[i]
      BY <1>4, <3>1
    <3> QED BY <2>1, <3>2
  <2> QED BY <2>1, <2>2, <2>3
<1>7. ToSet(t) = {f \in ToSet(s) : f.name # name}
  <2>1. ToSet(t) = {t[j] : j \in 1..Len(t)} /\ ToSet(s) = {s[i] : i \in 1..n}
    BY <1>1, <1>2 DEF ToSet
  <2>2. ASSUME NEW j \in 1..Len(t) PROVE t[j] \in ToSet(s) /\ t[j].name # name
    <3>1. PICK k \in K : t[j] = s[k]
      BY <1>4
    <3> QED BY <2>1, <3>1
  <2>3. ASSUME NEW i \in 1..n, s[i].name # name PROVE s[i] \in ToSet(t)
    <3>1. i \in K
      BY <2>3
    <3>2. PICK j \in 1..Len(t) : t[j] = s[i]
      BY <1>4, <3>1
    <3> QED BY <2>1, <3>2
  <2> QED BY <2>1, <2>2, <2>3
<1> QED BY <1>3, <1>5, <1>6, <1>7 DEF e, s

\* The places of the files that repair takes from the list.
Dropped(d, names) ==
  {i \in 1..Len(d.files) : d.files[i].name \notin Names(Repair(d, names))}

\* repair: the list stays sound, loses damaged files only, and misses one only
\* behind a dropped one or beyond its depth.
LEMMA RepairSound ==
  ASSUME NEW F, IsFiles(F), NEW d, Sound(d, F), NEW names
  PROVE  /\ Sound(Repair(d, names), F)
         /\ Names(Repair(d, names)) \subseteq Names(d)
         /\ Names(d) \ Names(Repair(d, names)) \subseteq names
         /\ ToSet(Repair(d, names).files) \subseteq ToSet(d.files)
         /\ d.total = SizesOf(d.files) /\ names = {} =>
              Repair(d, names).total = SizesOf(Repair(d, names).files)
         /\ \A i \in Dropped(d, names) : d.files[i].name \in names
         /\ \A i \in (1..Len(d.files)) \ Dropped(d, names) :
              d.files[i].name \in names /\ i <= RepairDepth + 1 =>
                i - 1 \in Dropped(d, names)
<1> DEFINE s == d.files
           n == Len(s)
           t == RepairTail(RepairHead(s, names), names)
           e == Repair(d, names)
<1>1. s \in Seq(F) /\ Ordered(s) /\ n \in Nat /\ d.total \in Nat /\ d.total >= SizesOf(s) /\ d.num = n
  BY DEF Sound
<1>2. \A f \in F : f.size \in Nat
  BY DEF IsFiles
<1>3. /\ e.files = t /\ e.total = d.total /\ e.num = d.num - (n - Len(t))
      /\ e.last = IF t = << >> THEN NoFile ELSE Last(t)
  BY DEF Repair, RepairLast, NumAfterRepair
<1> HIDE DEF e
<1>4. /\ t \in Seq(F)
      /\ \E K : /\ Repaired(t, s, names, K, n)
                /\ \A j \in K : s[j].name \in names /\ j <= RepairDepth + 1 =>
                     j - 1 \in (1..n) \ K
  BY <1>1, <1>2, RepairPicks
<1>5. PICK K : /\ Repaired(t, s, names, K, n)
               /\ \A j \in K : s[j].name \in names /\ j <= RepairDepth + 1 =>
                    j - 1 \in (1..n) \ K
  BY <1>4
<1> HIDE DEF t, s
<1>6. /\ K \in SUBSET (1..n) /\ Picked(t, s, K)
      /\ \A j \in (1..n) \ K : s[j].name \in names
      /\ SizesOf(t) <= SizesOf(s)
      /\ K = 1..n => SizesOf(t) = SizesOf(s)
  BY <1>5 DEF Repaired, SizesOf
<1>7. /\ Ordered(t)
      /\ \A j \in 1..Len(t) : \E k \in K : t[j] = s[k]
      /\ \A k \in K : \E j \in 1..Len(t) : t[j] = s[k]
  <2>1. /\ t \in Seq(F) /\ s \in Seq(F) /\ K \in SUBSET (1..Len(s)) /\ Picked(t, s, K)
        /\ Ordered(s)
    BY <1>1, <1>4, <1>6
  <2> QED BY <2>1, PickedFacts
<1>8. Sound(e, F)
  <2>1. SizesOf(t) \in Nat /\ SizesOf(s) \in Nat
    BY <1>1, <1>2, <1>4, SizesOfType
  <2>2. Len(t) \in Nat
    BY <1>4
  <2> QED BY <1>1, <1>3, <1>4, <1>6, <1>7, <2>1, <2>2 DEF Sound
<1>9. Names(e) = {t[j].name : j \in 1..Len(t)} /\ Names(d) = {s[i].name : i \in 1..n}
  BY <1>3 DEF Names, s
<1>10. Names(e) = {s[k].name : k \in K}
  BY <1>7, <1>9
<1>11. Dropped(d, names) = (1..n) \ K
  <2>1. Dropped(d, names) = {i \in 1..n : s[i].name \notin Names(e)}
    BY DEF Dropped, e, s
  <2>2. ASSUME NEW i \in 1..n PROVE s[i].name \in Names(e) <=> i \in K
    <3>1. ASSUME NEW k \in K, s[k].name = s[i].name PROVE k = i
      <4>1. k \in 1..n
        BY <1>6
      <4>2. ~ (k < i) /\ ~ (i < k)
        BY <1>1, <3>1, <4>1 DEF Ordered
      <4> QED BY <1>1, <4>1, <4>2
    <3> QED BY <1>10, <3>1
  <2> QED BY <1>6, <2>1, <2>2
<1>12. ToSet(t) \subseteq ToSet(s)
  <2>1. ToSet(t) = {t[j] : j \in 1..Len(t)} /\ ToSet(s) = {s[i] : i \in 1..n}
    BY <1>1, <1>4 DEF ToSet
  <2> QED BY <1>6, <1>7, <2>1
<1>13. Names(e) \subseteq Names(d) /\ Names(d) \ Names(e) \subseteq names
  BY <1>6, <1>9, <1>10
<1>14. ASSUME d.total = SizesOf(s), names = {} PROVE e.total = SizesOf(t)
  <2>1. K = 1..n
    BY <1>6, <1>14
  <2> QED BY <1>3, <1>6, <1>14, <2>1
<1>15. \A i \in Dropped(d, names) : s[i].name \in names
  BY <1>6, <1>11
<1>16. \A i \in (1..n) \ Dropped(d, names) :
         s[i].name \in names /\ i <= RepairDepth + 1 => i - 1 \in Dropped(d, names)
  BY <1>5, <1>6, <1>11
<1> QED BY <1>3, <1>8, <1>12, <1>13, <1>14, <1>15, <1>16 DEF e, s
-----------------------------------------------------------------------------
(* Every sequence of calls on one index (IndexCalls).                      *)

\* The list is sound throughout, and total is exact until repair drops a file.
IndexInv ==
  /\ IndexTypeOK
  /\ Sound(index, AnyFile)
  /\ bad = {} => index.total = SizesOf(index.files)
  /\ phase = "read" => bad = {}

\* The files of the calls can be listed.
LEMMA CallFiles == IsFiles(AnyFile)
BY BoundsAssumption DEF IsFiles, AnyFile

\* The types of a sound index.
LEMMA SoundLast ==
  ASSUME NEW F, NEW d, Sound(d, F)
  PROVE  d.last \in F \cup {NoFile} /\ d.num \in Nat /\ d.total \in Nat /\ d.files \in Seq(F)
<1>1. d.files # << >> => Last(d.files) \in F
  BY LastIs, ElementOfSeq DEF Sound
<1> QED BY <1>1 DEF Sound

\* The index at start-up.
LEMMA IndexStarts == IndexInit => IndexInv
<1> SUFFICES ASSUME IndexInit PROVE IndexInv
  OBVIOUS
<1>1. /\ index.files = << >> /\ index.last = NoFile /\ index.num = 0 /\ index.total = 0
      /\ phase = "read" /\ bad = {} /\ calls = 0
  BY DEF IndexInit, EmptyFolder
<1>2. << >> \in Seq(AnyFile) /\ Len(<< >>) = 0
  BY EmptySeq
<1>3. SizesOf(<< >>) = 0
  BY <1>2, CallFiles, SumsOf DEF SizesOf, IsFiles
<1>4. Ordered(<< >>)
  BY <1>2 DEF Ordered
<1>5. Sound(index, AnyFile)
  BY <1>1, <1>2, <1>3, <1>4 DEF Sound
<1>6. IndexTypeOK
  BY <1>1, <1>5, SoundLast, BoundsAssumption DEF IndexTypeOK
<1> QED BY <1>1, <1>3, <1>5, <1>6 DEF IndexInv

\* An add behind list_check adds exactly one file.
LEMMA CheckedAddFacts ==
  ASSUME IndexInv, NEW file \in AnyFile, CheckedAdd(file)
  PROVE  /\ Sound(index', AnyFile)
         /\ Names(index') = Names(index) \cup {file.name}
         /\ ToSet(index'.files) = ToSet(index.files) \cup {file}
         /\ index.total = SizesOf(index.files) => index'.total = SizesOf(index'.files)
         /\ file.name \notin Names(index)
<1>1. file.name \notin Names(index) /\ index' = ListAdd(index, file)
  BY DEF CheckedAdd, ListCheck
<1>2. Sound(index, AnyFile)
  BY DEF IndexInv
<1> QED BY <1>1, <1>2, CallFiles, AddSound

\* What RunRepair takes for damaged: names of listed files.
LEMMA DamagedFacts ==
  ASSUME IndexInv, RunRepair
  PROVE  bad' \in SUBSET FileName /\ index' = Repair(index, bad') /\ phase = "read"
<1>1. PICK damaged \in SUBSET Names(index) :
        /\ bad' = damaged \cup {f.name : f \in {g \in ToSet(index.files) : g.size = 0}}
        /\ index' = Repair(index, bad')
  BY DEF RunRepair
<1>2. index.files \in Seq(AnyFile)
  BY DEF IndexInv, Sound
<1>3. \A i \in 1..Len(index.files) : index.files[i] \in AnyFile
  BY <1>2, ElementOfSeq
<1>4. ToSet(index.files) \subseteq AnyFile
  BY <1>2, <1>3 DEF ToSet
<1>5. Names(index) \subseteq FileName
  BY <1>3 DEF Names, AnyFile
<1>6. \A f \in ToSet(index.files) : f.name \in FileName
  BY <1>4 DEF AnyFile
<1> QED BY <1>1, <1>5, <1>6 DEF RunRepair

\* Every call keeps the invariant.
LEMMA IndexStepKeeps == IndexInv /\ [IndexNext]_indexVars => IndexInv'
<1> SUFFICES ASSUME IndexInv, [IndexNext]_indexVars PROVE IndexInv'
  OBVIOUS
<1> USE BoundsAssumption
<1>0. /\ Sound(index, AnyFile) /\ bad \in SUBSET FileName /\ calls \in 0..MaxCalls
      /\ phase \in {"read", "monitor"}
      /\ bad = {} => index.total = SizesOf(index.files)
      /\ phase = "read" => bad = {}
  BY DEF IndexInv, IndexTypeOK
<1>1. ASSUME Sound(index', AnyFile), bad' \in SUBSET FileName, calls' \in 0..MaxCalls,
             phase' \in {"read", "monitor"},
             bad' = {} => index'.total = SizesOf(index'.files),
             phase' = "read" => bad' = {}
      PROVE  IndexInv'
  <2>1. IndexTypeOK'
    BY <1>1, SoundLast DEF IndexTypeOK
  <2> QED BY <1>1, <2>1 DEF IndexInv
<1>2. CASE ScanFile
  <2>1. PICK file \in AnyFile : CheckedAdd(file)
    BY <1>2 DEF ScanFile
  <2>2. UNCHANGED <<phase, bad, calls>>
    BY <1>2 DEF ScanFile
  <2> QED BY <1>0, <1>1, <2>1, <2>2, CheckedAddFacts
<1>3. CASE RunRepair
  <2>1. bad' \in SUBSET FileName /\ index' = Repair(index, bad') /\ phase = "read"
    BY <1>3, DamagedFacts
  <2>2. /\ Sound(index', AnyFile)
        /\ index.total = SizesOf(index.files) /\ bad' = {} =>
             index'.total = SizesOf(index'.files)
    BY <1>0, <2>1, CallFiles, RepairSound
  <2>3. phase' = "monitor" /\ calls' = calls
    BY <1>3 DEF RunRepair
  <2> QED BY <1>0, <1>1, <2>1, <2>2, <2>3
<1>4. CASE FileAppears
  <2>1. PICK file \in AnyFile : CheckedAdd(file)
    BY <1>4 DEF FileAppears
  <2>2. phase = "monitor" /\ calls' \in 0..MaxCalls /\ UNCHANGED <<phase, bad>>
    BY <1>0, <1>4 DEF FileAppears, Call
  <2> QED BY <1>0, <1>1, <2>1, <2>2, CheckedAddFacts
<1>5. CASE FileVanishes
  <2>1. PICK name \in FileName : index' = ListDel(index, name)
    BY <1>5 DEF FileVanishes
  <2>2. phase = "monitor" /\ calls' \in 0..MaxCalls /\ UNCHANGED <<phase, bad>>
    BY <1>0, <1>5 DEF FileVanishes, Call
  <2>3. Sound(index', AnyFile) /\ index'.total = SizesOf(index'.files)
    BY <1>0, <2>1, CallFiles, DelSound
  <2> QED BY <1>0, <1>1, <2>2, <2>3
<1>6. CASE UNCHANGED indexVars
  BY <1>0, <1>1, <1>6 DEF indexVars
<1> QED BY <1>2, <1>3, <1>4, <1>5, <1>6 DEF IndexNext

\* The invariant contains WellFormed.
LEMMA IndexInvImplies == IndexInv => WellFormed
<1> SUFFICES ASSUME IndexInv PROVE WellFormed
  OBVIOUS
<1>1. Sound(index, AnyFile) /\ IndexTypeOK /\ (bad = {} => index.total = SizesOf(index.files))
  BY DEF IndexInv
<1>2. ASSUME NEW n \in FileName
      PROVE  LET after == ListDel(index, n)
             IN  /\ Names(after) = Names(index) \ {n}
                 /\ after.num = Len(after.files)
                 /\ after.total = SizesOf(after.files)
  BY <1>1, CallFiles, DelSound
<1> QED BY <1>1, <1>2 DEF WellFormed, Sound, Ordered

\* Every sequence of scans, repairs, arrivals and deletions keeps the list of
\* rkipc_storage_file_list_* in order, and its counters exact until a repair.
THEOREM IndexInvariant == IndexSpec => []IndexInv
<1> QED BY IndexStarts, IndexStepKeeps, PTL DEF IndexSpec

\* file_list_add, file_list_del and repair, in any order of calls: the list stays
\* sorted without a name twice, last, num and total describe it, and a deletion
\* removes its name and repairs the counters (IndexCalls!WellFormed).
THEOREM IndexIsWellFormed == IndexSpec => []WellFormed
<1> QED BY IndexInvariant, IndexInvImplies, PTL

\* rkipc_storage_repair drops damaged files only, and one it looks at survives
\* only directly behind one it dropped (IndexCalls!RepairMissesOnlyNeighbours).
THEOREM RepairMisses == IndexSpec => RepairMissesOnlyNeighbours
<1> DEFINE Misses ==
      LET dropped == {i \in 1..Len(index.files) :
                        index.files[i].name \notin Names(index')}
          damaged == {i \in 1..Len(index.files) : index.files[i].name \in bad'}
      IN  /\ dropped \subseteq damaged
          /\ \A i \in damaged \ dropped :
               i <= RepairDepth + 1 => i - 1 \in dropped
<1>1. IndexInv /\ [IndexNext]_indexVars => [RunRepair => Misses]_indexVars
  <2> SUFFICES ASSUME IndexInv, RunRepair PROVE Misses
    OBVIOUS
  <2>1. index' = Repair(index, bad') /\ Sound(index, AnyFile)
    BY DamagedFacts DEF IndexInv
  <2>2. /\ \A i \in Dropped(index, bad') : index.files[i].name \in bad'
        /\ \A i \in (1..Len(index.files)) \ Dropped(index, bad') :
             index.files[i].name \in bad' /\ i <= RepairDepth + 1 =>
               i - 1 \in Dropped(index, bad')
    BY <2>1, CallFiles, RepairSound
  <2>3. Dropped(index, bad') = {i \in 1..Len(index.files) :
                                 index.files[i].name \notin Names(index')}
    BY <2>1 DEF Dropped
  <2> QED BY <2>2, <2>3
<1> QED BY <1>1, IndexInvariant, PTL DEF IndexSpec, RepairMissesOnlyNeighbours

\* To its callers the linked list is a set of files: every call inserts one,
\* erases a name or, in repair, discards some (FileSet).
THEOREM IndexIsFileSet == IndexSpec => IsFileSet
<1>1. IndexInit => Set!FileSetInit
  <2> SUFFICES ASSUME IndexInit PROVE Set!FileSetInit
    OBVIOUS
  <2>1. index.files = << >> /\ phase = "read"
    BY DEF IndexInit, EmptyFolder
  <2>2. ToSet(<< >>) = {}
    BY DEF ToSet
  <2> QED BY <2>1, <2>2 DEF Set!FileSetInit
<1>2. IndexInv /\ [IndexNext]_indexVars =>
        [Set!FileSetNext]_<<ToSet(index.files), phase = "monitor">>
  <2> SUFFICES ASSUME IndexInv, [IndexNext]_indexVars
               PROVE  Set!FileSetNext \/ UNCHANGED <<ToSet(index.files), phase = "monitor">>
    OBVIOUS
  <2>0. Sound(index, AnyFile)
    BY DEF IndexInv
  <2>1. ASSUME NEW file \in AnyFile, CheckedAdd(file), phase' = phase PROVE Set!FileSetNext
    <3>1. ToSet(index'.files) = ToSet(index.files) \cup {file} /\ file.name \notin Names(index)
      BY <2>1, CheckedAddFacts
    <3>2. ASSUME NEW g \in ToSet(index.files) PROVE g.name # file.name
      BY <2>0, <3>1 DEF ToSet, Names, Sound
    <3>3. Set!Insert(file)
      BY <2>1, <3>1, <3>2 DEF Set!Insert
    <3> QED BY <3>3 DEF Set!FileSetNext
  <2>2. CASE ScanFile
    BY <2>1, <2>2 DEF ScanFile
  <2>3. CASE FileAppears
    BY <2>1, <2>3 DEF FileAppears
  <2>4. CASE RunRepair
    <3>1. index' = Repair(index, bad') /\ phase = "read" /\ phase' = "monitor"
      BY <2>4, DamagedFacts DEF RunRepair
    <3>2. ToSet(index'.files) \subseteq ToSet(index.files)
      BY <2>0, <3>1, CallFiles, RepairSound
    <3>3. Set!Discard
      BY <3>1, <3>2 DEF Set!Discard
    <3> QED BY <3>3 DEF Set!FileSetNext
  <2>5. CASE FileVanishes
    <3>1. PICK name \in FileName : index' = ListDel(index, name)
      BY <2>5 DEF FileVanishes
    <3>2. phase = "monitor" /\ phase' = phase
      BY <2>5 DEF FileVanishes, Call
    <3>3. ToSet(index'.files) = {f \in ToSet(index.files) : f.name # name}
      BY <2>0, <3>1, CallFiles, DelSound
    <3>4. Set!Erase(name)
      BY <3>2, <3>3 DEF Set!Erase
    <3> QED BY <3>4 DEF Set!FileSetNext
  <2>6. CASE UNCHANGED indexVars
    BY <2>6 DEF indexVars
  <2> QED BY <2>2, <2>3, <2>4, <2>5, <2>6 DEF IndexNext
<1> QED BY <1>1, <1>2, IndexInvariant, PTL DEF IndexSpec, IsFileSet, Set!FileSetSpec
-----------------------------------------------------------------------------
(* The space that a folder takes up (FolderStore).                          *)

\* Induction over the subsets of a finite set, for a set instead of a predicate.
LEMMA SetsBySize ==
  ASSUME NEW T, IsFiniteSet(T), NEW A,
         \A N \in SUBSET T : (\A m \in N : N \ {m} \in A) => N \in A
  PROVE  \A N \in SUBSET T : N \in A
<1> DEFINE B == {k \in 0..Cardinality(T) :
                   \A N \in SUBSET T : Cardinality(N) <= k => N \in A}
<1>0. Cardinality(T) \in Nat
  BY FS_CardinalityType
<1>1. \A N \in SUBSET T : /\ IsFiniteSet(N) /\ Cardinality(N) \in Nat
                          /\ Cardinality(N) <= Cardinality(T)
                          /\ Cardinality(N) = 0 <=> N = {}
                          /\ \A m \in N : Cardinality(N \ {m}) = Cardinality(N) - 1
  BY FS_Subset, FS_CardinalityType, FS_EmptySet, FS_RemoveElement
<1>2. 0 \in B
  <2>1. ASSUME NEW N \in SUBSET T, Cardinality(N) <= 0 PROVE N \in A
    <3>1. N = {}
      BY <1>1, <2>1
    <3> QED BY <3>1
  <2> QED BY <1>0, <2>1
<1>3. ASSUME NEW k \in 1..Cardinality(T), k - 1 \in B PROVE k \in B
  <2>1. ASSUME NEW N \in SUBSET T, Cardinality(N) <= k PROVE N \in A
    <3>1. ASSUME NEW m \in N PROVE N \ {m} \in A
      <4>1. N \ {m} \in SUBSET T /\ Cardinality(N \ {m}) <= k - 1
        BY <1>1, <2>1
      <4> QED BY <1>3, <4>1
    <3> QED BY <3>1
  <2> QED BY <1>0, <2>1
<1>4. \A k \in 0..Cardinality(T) : k \in B
  <2> HIDE DEF B
  <2> QED BY <1>0, <1>2, <1>3, StepByStep
<1> QED BY <1>0, <1>1, <1>4

\* A folder with finitely many files, each with a size.
Sized(d) == IsFiniteSet(DOMAIN d) /\ \A n \in DOMAIN d : d[n].size \in Nat

\* SpaceOf is the function its definition describes: it is what stays of
\* summing up the sets of one file, of two files, and so on.
LEMMA SpaceExists ==
  ASSUME NEW d, Sized(d)
  PROVE  SpaceOf(d) = [names \in SUBSET DOMAIN d |->
           IF names = {} THEN 0
           ELSE SpaceOf(d)[names \ {CHOOSE n \in names : TRUE}]
                  + d[CHOOSE n \in names : TRUE].size]
<1> DEFINE D == DOMAIN d
           first(N) == CHOOSE n \in N : TRUE
           S == [SUBSET D -> Nat]
           base == [N \in SUBSET D |-> 0]
           Made(g) == [N \in SUBSET D |-> IF N = {} THEN 0
                                          ELSE g[N \ {first(N)}] + d[first(N)].size]
           C == Cardinality(D)
           step == [i \in 1..(C + 1) |-> [g \in S |-> Made(g)]]
<1>1. C \in Nat /\ IsFiniteSet(D)
  BY FS_CardinalityType DEF Sized
<1>2. \A N \in SUBSET D : N # {} => first(N) \in N
  OBVIOUS
<1>3. ASSUME NEW g \in S PROVE Made(g) \in S
  <2>1. ASSUME NEW N \in SUBSET D, N # {}
        PROVE  g[N \ {first(N)}] + d[first(N)].size \in Nat
    <3>1. first(N) \in D /\ N \ {first(N)} \in SUBSET D
      BY <1>2, <2>1
    <3>2. d[first(N)].size \in Nat /\ g[N \ {first(N)}] \in Nat
      BY <3>1 DEF Sized
    <3> QED BY <3>2
  <2> QED BY <2>1
<1>4. base \in S /\ step \in [1..(C + 1) -> [S -> S]]
  BY <1>3
<1>5. \A i \in 1..(C + 1), g \in S : step[i][g] = Made(g)
  OBVIOUS
<1> HIDE DEF S, step, Made, base, C
<1>6. PICK w \in [0..(C + 1) -> S] : Walks(w, C + 1, base, step)
  <2>1. C + 1 \in Nat
    BY <1>1
  <2> QED BY <1>4, <2>1, WalkExists
<1>7. w[0] = base /\ \A i \in 1..(C + 1) : w[i] = Made(w[i - 1])
  <2>1. \A i \in 1..(C + 1) : w[i - 1] \in S
    BY <1>1, <1>6
  <2> QED BY <1>5, <1>6, <2>1 DEF Walks
<1> HIDE DEF D
<1>8. \A i \in 1..(C + 1), N \in SUBSET D :
        w[i][N] = IF N = {} THEN 0 ELSE w[i - 1][N \ {first(N)}] + d[first(N)].size
  BY <1>7 DEF Made
<1> DEFINE B == {i \in 0..C : \A N \in SUBSET D : Cardinality(N) <= i => w[i + 1][N] = w[i][N]}
<1>9. \A N \in SUBSET D : /\ Cardinality(N) \in Nat
                          /\ Cardinality(N) <= C
                          /\ Cardinality(N) = 0 <=> N = {}
                          /\ \A m \in N : Cardinality(N \ {m}) = Cardinality(N) - 1
  BY <1>1, FS_Subset, FS_CardinalityType, FS_EmptySet, FS_RemoveElement DEF C
<1>10. 0 \in B
  <2>1. ASSUME NEW N \in SUBSET D, Cardinality(N) <= 0 PROVE w[0 + 1][N] = w[0][N]
    <3>1. N = {} /\ w[0][N] = 0 /\ 1 \in 1..(C + 1)
      BY <1>1, <1>7, <1>9, <2>1 DEF base
    <3> QED BY <1>8, <3>1
  <2> QED BY <1>1, <2>1
<1>11. ASSUME NEW i \in 1..C, i - 1 \in B PROVE i \in B
  <2>1. ASSUME NEW N \in SUBSET D, Cardinality(N) <= i PROVE w[i + 1][N] = w[i][N]
    <3>0. i \in 1..(C + 1) /\ i + 1 \in 1..(C + 1) /\ (i + 1) - 1 = i /\ (i - 1) + 1 = i
      BY <1>1
    <3>1. CASE N = {}
      BY <1>8, <3>0, <3>1
    <3>2. CASE N # {}
      <4>1. first(N) \in N /\ N \ {first(N)} \in SUBSET D
        BY <1>2, <3>2
      <4>2. Cardinality(N \ {first(N)}) <= i - 1
        BY <1>1, <1>9, <2>1, <4>1
      <4>3. w[i][N \ {first(N)}] = w[i - 1][N \ {first(N)}]
        BY <1>11, <3>0, <4>1, <4>2
      <4>4. w[i + 1][N] = w[i][N \ {first(N)}] + d[first(N)].size
        BY <1>8, <3>0, <3>2
      <4>5. w[i][N] = w[i - 1][N \ {first(N)}] + d[first(N)].size
        BY <1>8, <3>0, <3>2
      <4> QED BY <4>3, <4>4, <4>5
    <3> QED BY <3>1, <3>2
  <2> QED BY <1>1, <2>1
<1>12. C \in B
  <2>1. \A i \in 0..C : i \in B
    <3> HIDE DEF B
    <3> QED BY <1>1, <1>10, <1>11, StepByStep
  <2> QED BY <1>1, <2>1
<1> DEFINE P(s) == s = [N \in SUBSET D |->
                          IF N = {} THEN 0 ELSE s[N \ {first(N)}] + d[first(N)].size]
<1>13. P(w[C])
  <2>1. ASSUME NEW N \in SUBSET D
        PROVE  w[C][N] = IF N = {} THEN 0 ELSE w[C][N \ {first(N)}] + d[first(N)].size
    <3>1. w[C + 1][N] = w[C][N]
      BY <1>1, <1>9, <1>12
    <3>2. C + 1 \in 1..(C + 1) /\ (C + 1) - 1 = C
      BY <1>1
    <3> QED BY <1>8, <3>1, <3>2
  <2>2. w[C] \in S
    BY <1>1, <1>6
  <2>3. w[C] \in [SUBSET D -> Nat]
    BY <2>2 DEF S
  <2> QED BY <2>1, <2>3
<1>14. P(SpaceOf(d))
  <2>1. \E s : P(s)
    BY <1>13
  <2> QED BY <2>1 DEF SpaceOf, D
<1> QED BY <1>14 DEF D

\* The order of summation does not matter: any file may come last.
LEMMA SpaceFacts ==
  ASSUME NEW d, Sized(d)
  PROVE  /\ SpaceOf(d) \in [SUBSET DOMAIN d -> Nat]
         /\ SpaceOf(d)[{}] = 0
         /\ \A N \in SUBSET DOMAIN d : \A m \in N :
              SpaceOf(d)[N] = SpaceOf(d)[N \ {m}] + d[m].size
<1> DEFINE D == DOMAIN d
           s == SpaceOf(d)
           first(N) == CHOOSE n \in N : TRUE
           A == {N \in SUBSET D : s[N] \in Nat}
           B == {N \in SUBSET D : \A m \in N : s[N] = s[N \ {m}] + d[m].size}
<1>1. s = [N \in SUBSET D |-> IF N = {} THEN 0 ELSE s[N \ {first(N)}] + d[first(N)].size]
  BY SpaceExists
<1>2. IsFiniteSet(D) /\ \A n \in D : d[n].size \in Nat
  BY DEF Sized
<1>3. \A N \in SUBSET D : N # {} => first(N) \in N
  OBVIOUS
<1> HIDE DEF s, D
<1>4. \A N \in SUBSET D : N # {} => s[N] = s[N \ {first(N)}] + d[first(N)].size
  BY <1>1
<1>5. s[{}] = 0
  BY <1>1
<1> HIDE DEF first
<1>6. ASSUME NEW N \in SUBSET D, \A m \in N : N \ {m} \in A PROVE N \in A
  <2>1. CASE N = {}
    BY <1>5, <2>1
  <2>2. CASE N # {}
    <3>1. first(N) \in N /\ s[N] = s[N \ {first(N)}] + d[first(N)].size
      BY <1>3, <1>4, <2>2
    <3>2. s[N \ {first(N)}] \in Nat /\ d[first(N)].size \in Nat
      BY <1>2, <1>6, <3>1
    <3> QED BY <3>1, <3>2
  <2> QED BY <2>1, <2>2
<1>7. \A N \in SUBSET D : N \in A
  <2> HIDE DEF A
  <2> QED BY <1>2, <1>6, SetsBySize
<1>8. ASSUME NEW N \in SUBSET D, \A m \in N : N \ {m} \in B PROVE N \in B
  <2>1. ASSUME NEW m \in N, m # first(N) PROVE s[N] = s[N \ {m}] + d[m].size
    <3> DEFINE c == first(N)
               R == N \ {c, m}
    <3>0. c \in N /\ R = (N \ {c}) \ {m} /\ R = (N \ {m}) \ {c}
      BY <1>3, <2>1
    <3>1. s[N] = s[N \ {c}] + d[c].size
      BY <1>4, <2>1
    <3>2. s[N \ {c}] = s[R] + d[m].size
      BY <1>8, <2>1, <3>0
    <3>3. s[N \ {m}] = s[R] + d[c].size
      BY <1>8, <2>1, <3>0
    <3>4. s[R] \in Nat /\ d[c].size \in Nat /\ d[m].size \in Nat
      BY <1>2, <1>7, <3>0
    <3> HIDE DEF R, c
    <3> QED BY <3>1, <3>2, <3>3, <3>4
  <2> QED BY <1>4, <2>1
<1>9. \A N \in SUBSET D : N \in B
  <2> HIDE DEF B
  <2> QED BY <1>2, <1>8, SetsBySize
<1>10. s \in [SUBSET D -> Nat]
  BY <1>1, <1>7
<1> QED BY <1>5, <1>9, <1>10 DEF s, D

\* Files of the same sizes take up the same space.
LEMMA SpaceAgrees ==
  ASSUME NEW d, Sized(d), NEW e, Sized(e), NEW T \in SUBSET DOMAIN d,
         T \subseteq DOMAIN e, \A n \in T : d[n].size = e[n].size
  PROVE  SpaceOf(d)[T] = SpaceOf(e)[T]
<1> DEFINE a == SpaceOf(d)
           b == SpaceOf(e)
           A == {N \in SUBSET T : a[N] = b[N]}
<1>1. a[{}] = 0 /\ \A N \in SUBSET DOMAIN d : \A m \in N : a[N] = a[N \ {m}] + d[m].size
  BY SpaceFacts
<1>2. b[{}] = 0 /\ \A N \in SUBSET DOMAIN e : \A m \in N : b[N] = b[N \ {m}] + e[m].size
  BY SpaceFacts
<1>3. IsFiniteSet(T)
  BY FS_Subset DEF Sized
<1> HIDE DEF a, b
<1>4. ASSUME NEW N \in SUBSET T, \A m \in N : N \ {m} \in A PROVE N \in A
  <2>1. CASE N = {}
    BY <1>1, <1>2, <2>1
  <2>2. CASE N # {}
    <3>1. PICK m \in N : TRUE
      BY <2>2
    <3>2. a[N] = a[N \ {m}] + d[m].size /\ b[N] = b[N \ {m}] + e[m].size
      BY <1>1, <1>2
    <3> QED BY <1>4, <3>2
  <2> QED BY <2>1, <2>2
<1>5. \A N \in SUBSET T : N \in A
  <2> HIDE DEF A
  <2> QED BY <1>3, <1>4, SetsBySize
<1> QED BY <1>5 DEF a, b

\* A part takes up no more than the whole.
LEMMA SpaceGrows ==
  ASSUME NEW d, Sized(d), NEW T \in SUBSET DOMAIN d
  PROVE  SpaceOf(d)[T] <= SpaceOf(d)[DOMAIN d]
<1> DEFINE D == DOMAIN d
           a == SpaceOf(d)
           A == {N \in SUBSET D : a[N \cap T] <= a[N]}
<1>1. /\ a \in [SUBSET D -> Nat]
      /\ \A N \in SUBSET D : \A m \in N : a[N] = a[N \ {m}] + d[m].size
      /\ a[{}] = 0
  BY SpaceFacts
<1>2. IsFiniteSet(D) /\ \A n \in D : d[n].size \in Nat
  BY DEF Sized
<1> HIDE DEF a, D
<1>3. ASSUME NEW N \in SUBSET D, \A m \in N : N \ {m} \in A PROVE N \in A
  <2>1. CASE N = {}
    <3>1. N \cap T = {}
      BY <2>1
    <3> QED BY <1>1, <2>1, <3>1
  <2>2. CASE N # {}
    <3>1. PICK m \in N : TRUE
      BY <2>2
    <3>2. a[N] = a[N \ {m}] + d[m].size /\ a[(N \ {m}) \cap T] <= a[N \ {m}]
      BY <1>1, <1>3
    <3>3. a[N \ {m}] \in Nat /\ d[m].size \in Nat /\ a[(N \ {m}) \cap T] \in Nat
      BY <1>1, <1>2
    <3>4. CASE m \in T
      <4>1. (N \cap T) \ {m} = (N \ {m}) \cap T /\ m \in N \cap T
        BY <3>4
      <4>2. a[N \cap T] = a[(N \ {m}) \cap T] + d[m].size
        BY <1>1, <4>1
      <4> QED BY <3>2, <3>3, <4>2
    <3>5. CASE m \notin T
      <4>1. N \cap T = (N \ {m}) \cap T
        BY <3>5
      <4> QED BY <3>2, <3>3, <4>1
    <3> QED BY <3>4, <3>5
  <2> QED BY <2>1, <2>2
<1>4. \A N \in SUBSET D : N \in A
  <2> HIDE DEF A
  <2> QED BY <1>2, <1>3, SetsBySize
<1>5. D \cap T = T
  BY DEF D
<1> QED BY <1>4, <1>5 DEF a, D

\* e is d with one entry new or changed.
LEMMA SpaceOfChanged ==
  ASSUME NEW d, Sized(d), NEW e, Sized(e), NEW n,
         DOMAIN e = DOMAIN d \cup {n}, \A m \in DOMAIN d \ {n} : e[m].size = d[m].size
  PROVE  SpaceOf(e)[DOMAIN e] =
           SpaceOf(d)[DOMAIN d] + e[n].size - (IF n \in DOMAIN d THEN d[n].size ELSE 0)
<1> DEFINE T == DOMAIN d \ {n}
           a == SpaceOf(d)
           b == SpaceOf(e)
<1>1. a[T] = b[T]
  BY SpaceAgrees
<1>2. b[DOMAIN e] = b[T] + e[n].size
  <2>1. DOMAIN e \ {n} = T /\ n \in DOMAIN e
    OBVIOUS
  <2>2. \A N \in SUBSET DOMAIN e : \A m \in N : b[N] = b[N \ {m}] + e[m].size
    BY SpaceFacts
  <2> HIDE DEF b
  <2> QED BY <2>1, <2>2
<1>3. a[T] \in Nat /\ e[n].size \in Nat
  BY SpaceFacts DEF Sized
<1>4. CASE n \in DOMAIN d
  <2>1. a[DOMAIN d] = a[T] + d[n].size /\ d[n].size \in Nat
    <3>1. \A N \in SUBSET DOMAIN d : \A m \in N : a[N] = a[N \ {m}] + d[m].size
      BY SpaceFacts
    <3> HIDE DEF a
    <3> QED BY <1>4, <3>1 DEF Sized
  <2> QED BY <1>1, <1>2, <1>3, <1>4, <2>1
<1>5. CASE n \notin DOMAIN d
  <2>1. DOMAIN d = T
    BY <1>5
  <2> QED BY <1>1, <1>2, <1>3, <1>5, <2>1
<1> QED BY <1>4, <1>5

\* A folder that loses files takes up no more.
LEMMA SpaceOfPart ==
  ASSUME NEW d, Sized(d), NEW T \in SUBSET DOMAIN d
  PROVE  /\ Sized([n \in T |-> d[n]])
         /\ SpaceOf([n \in T |-> d[n]])[T] <= SpaceOf(d)[DOMAIN d]
<1> DEFINE e == [n \in T |-> d[n]]
<1>1. Sized(e)
  BY FS_Subset DEF Sized
<1>2. SpaceOf(d)[T] = SpaceOf(e)[T]
  <2>1. DOMAIN e = T /\ \A n \in T : d[n].size = e[n].size
    OBVIOUS
  <2> HIDE DEF e
  <2> QED BY <1>1, <2>1, SpaceAgrees
<1> QED BY <1>1, <1>2, SpaceGrows
-----------------------------------------------------------------------------
(* One folder on the disk and everybody who works on it (FolderStore).     *)

\* An entry of the index.
Stored == [name : Name, time : Nat, size : Nat]

\* An entry of the inotify queue.
Event  == [kind : {"close", "moved", "delete"}, name : Name]

\* What lstat said.
Stat   == [kind : {"close", "moved"}, name : Name, size : Nat, time : Nat]

\* What inotify still has to say.
Due(kinds, n) == \E e \in ToSet(events) : e.kind \in kinds /\ e.name = n

\* The files on disk, and that they fit.
DiskInv ==
  /\ now \in Nat
  /\ IsFiniteSet(used) /\ used \subseteq Name
  /\ Present \subseteq used
  /\ disk \in [Present -> [size : 0..MaxSize, time : 0..now]]
  /\ Free >= 0

\* Every name that somebody holds was given out.
HandInv ==
  /\ open \in used \cup {NoName} /\ unfinished \subseteq used
  /\ toRead \subseteq used
  /\ victim \in used \cup {NoName} /\ target \in used \cup {NoName}
  /\ monPc = "stat" => monStat \in Stat /\ monStat.name \in used

\* Nobody watches before the scan is over, and then nothing is left to read.
PlaceInv ==
  /\ scanPc \in {"open", "read", "repair", "start", "run"}
  /\ watched \in BOOLEAN
  /\ monPc \in {"off", "start", "wait", "stat"}
  /\ clPc \in {"sleep", "pick", "remove", "reread", "drop", "dead"}
  /\ auto \in {0, 1}
  /\ watched \/ monPc # "off" => scanPc = "run"
  /\ scanPc \in {"repair", "start", "run"} => toRead = {}

\* The index, whatever its interleaved calls.
ListInv == Sound(folder, Stored) /\ Names(folder) \subseteq used

\* A name is given out once: a deleted file does not come back, and no event
\* but a deletion is about the open file.
QueueInv ==
  /\ events \in Seq(Event)
  /\ \A e \in ToSet(events) :
       /\ e \in Event /\ e.name \in used
       /\ IF e.kind = "delete" THEN e.name \notin Present ELSE e.name # open

\* The open file is listed, or about to be removed, only if the scan read it.
OpenInv ==
  /\ monPc = "stat" => monStat.name # open
  /\ open \in (Names(folder) \cup {victim}) \ {NoName} => open \in scannedOpen

\* The explanations of a difference, from the moment the folder is opened.
DiffInv ==
  /\ \A n \in Names(folder) \ Present : n \in vanished \/ Due({"delete"}, n)
  /\ monPc = "stat" /\ monStat.name \notin Present =>
       monStat.name \in vanished \/ Due({"delete"}, monStat.name)
  /\ scanPc # "open" => \A n \in Present \ {open} :
       \/ n \in Names(folder) \cup missed \cup forgotten \cup toRead
       \/ Due({"close", "moved"}, n)
       \/ monPc = "stat" /\ monStat.name = n

\* All of it: what the steps of the five actors keep.
StoreInv ==
  DiskInv /\ HandInv /\ PlaceInv /\ ListInv /\ QueueInv /\ OpenInv /\ DiffInv

-----------------------------------------------------------------------------
\* The folder's space is defined.
LEMMA DiskSized == DiskInv => Sized(disk) /\ IsFiniteSet(Present)
<1> SUFFICES ASSUME DiskInv PROVE Sized(disk) /\ IsFiniteSet(Present)
  OBVIOUS
<1>1. IsFiniteSet(Present)
  BY FS_Subset DEF DiskInv
<1>2. \A n \in Present : disk[n].size \in 0..MaxSize
  BY DEF DiskInv
<1>3. \A n \in Present : disk[n].size \in Nat
  BY <1>2, StoreAssumption
<1> QED BY <1>1, <1>3 DEF Sized, Present

\* Free space is a number.
LEMMA FreeIsNumber == DiskInv => Free \in Int
<1> SUFFICES ASSUME DiskInv PROVE Free \in Int
  OBVIOUS
<1>1. SpaceOf(disk) \in [SUBSET DOMAIN disk -> Nat]
  BY DiskSized, SpaceFacts
<1>2. SpaceOf(disk)[DOMAIN disk] \in Nat
  BY <1>1
<1> QED BY <1>2, StoreAssumption DEF Free, Present

\* Time may pass over an unchanged disk.
LEMMA DiskSame ==
  ASSUME DiskInv, UNCHANGED <<disk, used>>, now' \in Nat, now' >= now
  PROVE  DiskInv'
<1>1. Present' = Present /\ Free' = Free
  BY DEF Present, Free
<1>2. \A n \in Present : disk[n] \in [size : 0..MaxSize, time : 0..now']
  <2>1. ASSUME NEW n \in Present PROVE disk[n] \in [size : 0..MaxSize, time : 0..now']
    <3>1. disk[n] \in [size : 0..MaxSize, time : 0..now] /\ now \in Nat
      BY DEF DiskInv
    <3>2. 0..now \subseteq 0..now'
      BY <3>1
    <3> QED BY <3>1, <3>2
  <2> QED BY <2>1
<1>3. disk = [n \in Present |-> disk[n]]
  BY DEF DiskInv
<1>4. disk' \in [Present' -> [size : 0..MaxSize, time : 0..now']]
  BY <1>1, <1>2, <1>3
<1> QED BY <1>1, <1>4 DEF DiskInv

\* A file is made, moved in or written: Free pays for it.
LEMMA DiskGrows ==
  ASSUME DiskInv, NEW n \in used', NEW s \in 0..MaxSize, NEW t \in 0..now,
         disk' = With(n, s, t), now' = now,
         used' = used \cup {n}, used' \subseteq Name,
         s - (IF n \in Present THEN disk[n].size ELSE 0) <= Free
  PROVE  DiskInv' /\ Present' = Present \cup {n}
<1>1. DOMAIN disk' = Present \cup {n} /\ Present' = Present \cup {n}
  BY DEF With, Present
<1>2. /\ disk'[n] = [size |-> s, time |-> t]
      /\ \A m \in Present \ {n} : disk'[m] = disk[m]
  BY DEF With
<1>3. disk' \in [Present' -> [size : 0..MaxSize, time : 0..now']]
  <2>1. ASSUME NEW m \in Present'
        PROVE  disk'[m] \in [size : 0..MaxSize, time : 0..now']
    <3>1. CASE m = n
      BY <1>2, <3>1
    <3>2. CASE m # n
      <4>1. m \in Present \ {n} /\ disk[m] \in [size : 0..MaxSize, time : 0..now]
        BY <1>1, <2>1, <3>2 DEF DiskInv
      <4> QED BY <1>2, <4>1
    <3> QED BY <3>1, <3>2
  <2>2. disk' = [m \in Present' |-> disk'[m]]
    BY <1>1 DEF With
  <2> QED BY <2>1, <2>2
<1>4. IsFiniteSet(used')
  BY FS_AddElement DEF DiskInv
<1>5. Present' \subseteq used'
  BY <1>1 DEF DiskInv
<1>6. Sized(disk) /\ Sized(disk')
  <2>1. IsFiniteSet(DOMAIN disk')
    BY <1>4, <1>5, FS_Subset DEF Present
  <2>2. \A m \in DOMAIN disk' : disk'[m].size \in 0..MaxSize
    BY <1>3 DEF Present
  <2> QED BY <2>1, <2>2, DiskSized, StoreAssumption DEF Sized
<1>7. SpaceOf(disk')[DOMAIN disk'] =
        SpaceOf(disk)[DOMAIN disk] + disk'[n].size - (IF n \in DOMAIN disk THEN disk[n].size ELSE 0)
  <2>1. DOMAIN disk' = DOMAIN disk \cup {n}
    BY <1>1 DEF Present
  <2>2. \A m \in DOMAIN disk \ {n} : disk'[m].size = disk[m].size
    BY <1>2 DEF Present
  <2> DEFINE d == disk
             e == disk'
  <2>3. /\ Sized(d) /\ Sized(e) /\ DOMAIN e = DOMAIN d \cup {n}
        /\ \A m \in DOMAIN d \ {n} : e[m].size = d[m].size
    BY <1>6, <2>1, <2>2
  <2> HIDE DEF d, e
  <2>4. SpaceOf(e)[DOMAIN e] =
          SpaceOf(d)[DOMAIN d] + e[n].size - (IF n \in DOMAIN d THEN d[n].size ELSE 0)
    BY <2>3, SpaceOfChanged
  <2> QED BY <2>4 DEF d, e
<1>8. /\ SpaceOf(disk)[DOMAIN disk] \in Nat
      /\ n \in Present => disk[n].size \in Nat
  BY <1>6, SpaceFacts DEF Sized, Present
<1>9. Free' >= 0
  <2>1. Free = Capacity - SpaceOf(disk)[DOMAIN disk] /\ Free' = Capacity - SpaceOf(disk')[DOMAIN disk']
    BY DEF Free, Present
  <2>2. disk'[n].size = s /\ Capacity \in Nat /\ s \in Nat
    BY <1>2, StoreAssumption
  <2> QED BY <1>7, <1>8, <2>1, <2>2 DEF Present
<1> QED BY <1>1, <1>3, <1>4, <1>5, <1>9 DEF DiskInv

\* Files go: space is freed.
LEMMA DiskShrinks ==
  ASSUME DiskInv, NEW T \in SUBSET Present, disk' = [n \in T |-> disk[n]],
         UNCHANGED <<used, now>>
  PROVE  DiskInv' /\ Present' = T
<1>1. DOMAIN disk' = T /\ Present' = T
  BY DEF Present
<1>2. disk' \in [Present' -> [size : 0..MaxSize, time : 0..now']]
  BY <1>1 DEF DiskInv
<1>3. Free' >= 0
  <2>1. SpaceOf(disk')[T] <= SpaceOf(disk)[DOMAIN disk]
    BY DiskSized, SpaceOfPart DEF Present
  <2>2. SpaceOf(disk)[DOMAIN disk] \in Nat /\ SpaceOf(disk')[T] \in Nat
    <3>1. Sized(disk) /\ Sized(disk')
      BY DiskSized, SpaceOfPart DEF Present
    <3>2. SpaceOf(disk) \in [SUBSET DOMAIN disk -> Nat]
      BY <3>1, SpaceFacts
    <3> DEFINE e == disk'
    <3>3. Sized(e) /\ DOMAIN e = T
      BY <1>1, <3>1
    <3> HIDE DEF e
    <3>4. SpaceOf(e) \in [SUBSET DOMAIN e -> Nat]
      BY <3>3, SpaceFacts
    <3>5. SpaceOf(e)[T] \in Nat
      BY <3>3, <3>4
    <3> QED BY <3>2, <3>5 DEF e
  <2>3. Free = Capacity - SpaceOf(disk)[DOMAIN disk] /\ Free' = Capacity - SpaceOf(disk')[T]
    BY <1>1 DEF Free, Present
  <2> QED BY <2>1, <2>2, <2>3, StoreAssumption DEF DiskInv
<1> QED BY <1>1, <1>2, <1>3 DEF DiskInv
-----------------------------------------------------------------------------
\* An event queued is one event more.
LEMMA EventAdded ==
  ASSUME NEW F, NEW q \in Seq(F), NEW e \in F
  PROVE  Append(q, e) \in Seq(F) /\ ToSet(Append(q, e)) = ToSet(q) \cup {e}
<1> DEFINE r == Append(q, e)
           n == Len(q)
<1>1. /\ r \in Seq(F) /\ Len(r) = n + 1 /\ r[n + 1] = e
      /\ \A i \in 1..n : r[i] = q[i]
  BY AppendProperties
<1>2. n \in Nat
  OBVIOUS
<1>3. ToSet(r) = {r[i] : i \in 1..(n + 1)} /\ ToSet(q) = {q[i] : i \in 1..n}
  BY <1>1 DEF ToSet
<1> HIDE DEF r, n
<1>4. \A i \in 1..(n + 1) : i \in 1..n \/ i = n + 1
  BY <1>2
<1>5. n + 1 \in 1..(n + 1) /\ 1..n \subseteq 1..(n + 1)
  BY <1>2
<1> QED BY <1>1, <1>3, <1>4, <1>5 DEF r

\* The head is the only event that a tail lacks.
LEMMA EventTaken ==
  ASSUME NEW F, NEW q \in Seq(F), q # << >>
  PROVE  /\ Tail(q) \in Seq(F) /\ Head(q) \in ToSet(q)
         /\ ToSet(Tail(q)) \subseteq ToSet(q)
         /\ ToSet(q) \subseteq ToSet(Tail(q)) \cup {Head(q)}
<1> DEFINE r == Tail(q)
           n == Len(q)
<1>1. /\ r \in Seq(F) /\ Len(r) = n - 1 /\ Head(q) = q[1]
      /\ \A i \in 1..(n - 1) : r[i] = q[i + 1]
  BY HeadTailProperties
<1>2. n \in Nat /\ n > 0
  BY EmptySeq
<1> HIDE DEF r, n
<1>3. ToSet(r) = {r[i] : i \in 1..(n - 1)} /\ ToSet(q) = {q[i] : i \in 1..n}
  <2>1. ToSet(r) = {r[i] : i \in 1..(n - 1)}
    <3>1. DOMAIN r = 1..(n - 1)
      BY <1>1, LenProperties
    <3> QED BY <3>1 DEF ToSet
  <2>2. ToSet(q) = {q[i] : i \in 1..n}
    BY DEF ToSet, n
  <2> QED BY <2>1, <2>2
<1>4. \A i \in 1..n : i = 1 \/ (i - 1 \in 1..(n - 1) /\ (i - 1) + 1 = i)
  BY <1>2
<1>5. 1 \in 1..n /\ \A i \in 1..(n - 1) : i + 1 \in 1..n
  BY <1>2
<1>6. ToSet(q) \subseteq ToSet(r) \cup {q[1]}
  <2>1. ASSUME NEW i \in 1..n PROVE q[i] \in ToSet(r) \cup {q[1]}
    <3>1. CASE i = 1
      BY <3>1
    <3>2. CASE i # 1
      <4>1. i - 1 \in 1..(n - 1) /\ r[i - 1] = q[i]
        BY <1>1, <1>4, <3>2
      <4> QED BY <1>3, <4>1
    <3> QED BY <3>1, <3>2
  <2> QED BY <1>3, <2>1
<1> QED BY <1>1, <1>3, <1>5, <1>6 DEF r

\* What Report leaves behind, watched or not.
LEMMA Reported ==
  ASSUME QueueInv, NEW kind \in {"close", "moved", "delete"}, NEW n \in Name,
         Report(kind, n)
  PROVE  /\ events' \in Seq(Event)
         /\ ToSet(events) \subseteq ToSet(events')
         /\ ToSet(events') \subseteq ToSet(events) \cup {[kind |-> kind, name |-> n]}
         /\ missed \subseteq missed' /\ vanished \subseteq vanished'
         /\ kind = "delete" => n \in vanished' \/ Due({"delete"}, n)'
         /\ kind # "delete" => n \in missed' \/ Due({"close", "moved"}, n)'
<1> DEFINE x == [kind |-> kind, name |-> n]
<1>1. x \in Event /\ events \in Seq(Event) /\ x.kind = kind /\ x.name = n
  BY DEF Event, QueueInv
<1>2. CASE watched
  <2>1. events' = Append(events, x) /\ missed' = missed /\ vanished' = vanished
    BY <1>2 DEF Report
  <2> HIDE DEF x
  <2>2. events' \in Seq(Event) /\ ToSet(events') = ToSet(events) \cup {x}
    BY <1>1, <2>1, EventAdded
  <2>3. x \in ToSet(events')
    BY <2>2
  <2> QED BY <1>1, <2>1, <2>2, <2>3 DEF Due, x
<1>3. CASE ~watched
  BY <1>1, <1>3 DEF Report
<1> QED BY <1>2, <1>3
-----------------------------------------------------------------------------
\* Nothing the recorder, the users or another thread reports is lost on the way.
LEMMA QueueKeeps ==
  ASSUME QueueInv, used \subseteq used',
         events' \in Seq(Event),
         NEW x, ToSet(events') \subseteq ToSet(events) \cup {x},
         x \in ToSet(events') =>
           /\ x \in Event /\ x.name \in used'
           /\ IF x.kind = "delete" THEN x.name \notin Present' ELSE x.name # open',
         Present' \cap used \subseteq Present,
         open' \notin used \/ open' = open
  PROVE  QueueInv'
<1>1. ASSUME NEW e \in ToSet(events')
      PROVE  /\ e \in Event /\ e.name \in used'
             /\ IF e.kind = "delete" THEN e.name \notin Present' ELSE e.name # open'
  <2>1. CASE e = x
    BY <1>1, <2>1
  <2>2. CASE e # x
    <3>1. e \in ToSet(events)
      BY <1>1, <2>2
    <3>2. /\ e \in Event /\ e.name \in used
          /\ IF e.kind = "delete" THEN e.name \notin Present ELSE e.name # open
      BY <3>1 DEF QueueInv
    <3> QED BY <3>2
  <2> QED BY <2>1, <2>2
<1> QED BY <1>1 DEF QueueInv

\* No file is called NoName.
LEMMA NoNameIsNoName == NoName \notin Name
BY StoreAssumption

\* The files of a folder can be listed.
LEMMA StoredFiles == IsFiles(Stored)
BY DEF IsFiles, Stored

\* The index at start-up.
LEMMA EmptySound ==
  ASSUME NEW F, IsFiles(F)
  PROVE  Sound(EmptyFolder, F) /\ Names(EmptyFolder) = {}
<1>1. << >> \in Seq(F) /\ Len(<< >>) = 0
  BY EmptySeq
<1>2. SizesOf(<< >>) = 0
  BY <1>1, SumsOf DEF SizesOf, IsFiles
<1>3. Ordered(<< >>)
  BY <1>1 DEF Ordered
<1> QED BY <1>1, <1>2, <1>3 DEF Sound, Names, EmptyFolder

\* The queue at start-up.
LEMMA NoEvents == ToSet(<< >>) = {} /\ << >> \in Seq(Event)
BY EmptySeq DEF ToSet

\* The folder at start-up.
LEMMA StoreStarts == Init => StoreInv
<1> SUFFICES ASSUME Init PROVE StoreInv
  OBVIOUS
<1> USE DEF Init
<1>0. Present = {}
  BY DEF Present
<1>1. DiskInv
  <2>1. IsFiniteSet({})
    BY FS_EmptySet
  <2>2. Sized(disk)
    BY <1>0, <2>1 DEF Sized, Present
  <2>3. Free = Capacity
    <3>1. SpaceOf(disk)[{}] = 0
      BY <2>2, SpaceFacts
    <3> QED BY <1>0, <3>1, StoreAssumption DEF Free
  <2>4. disk \in [Present -> [size : 0..MaxSize, time : 0..now]]
    BY <1>0 DEF Present
  <2> QED BY <1>0, <2>1, <2>3, <2>4, StoreAssumption DEF DiskInv
<1>2. HandInv
  BY DEF HandInv
<1>3. PlaceInv
  BY DEF PlaceInv
<1>4. ListInv
  BY StoredFiles, EmptySound DEF ListInv
<1>5. QueueInv
  BY NoEvents DEF QueueInv
<1>6. OpenInv
  BY DEF OpenInv
<1>7. DiffInv
  BY EmptySound, StoredFiles DEF DiffInv
<1> QED BY <1>1, <1>2, <1>3, <1>4, <1>5, <1>6, <1>7 DEF StoreInv
-----------------------------------------------------------------------------
(* The recorder, the users and the power supply.                           *)

\* A new name is in nobody's hand: no event, no entry and no victim has it.
LEMMA CreateKeeps == StoreInv /\ Create => StoreInv'
<1> SUFFICES ASSUME StoreInv, Create PROVE StoreInv'
  OBVIOUS
<1>0. PICK n \in Name \ used :
        /\ disk' = With(n, 0, now) /\ open' = n
        /\ used' = used \cup {n} /\ unfinished' = unfinished \cup {n}
  BY DEF Create
<1>1. /\ open = NoName
      /\ UNCHANGED <<now, folder, scanPc, toRead, watched, monPc, monStat, clPc, auto,
                     victim, target, events, missed, vanished, forgotten, scannedOpen>>
  BY DEF Create, scanVars, monitorVars, cleanVars, noteVars, rest
<1>2. NoName \notin Name
  BY NoNameIsNoName
<1>3. DiskInv' /\ Present' = Present \cup {n}
  <2>1. 0 \in 0..MaxSize /\ now \in 0..now /\ n \notin Present
    BY <1>0, StoreAssumption DEF StoreInv, DiskInv
  <2>2. 0 - (IF n \in Present THEN disk[n].size ELSE 0) <= Free
    <3>1. Free \in Int
      BY FreeIsNumber DEF StoreInv
    <3> QED BY <2>1, <3>1 DEF StoreInv, DiskInv
  <2>3. used' \subseteq Name /\ n \in used'
    BY <1>0 DEF StoreInv, DiskInv
  <2> QED BY <1>0, <1>1, <2>1, <2>2, <2>3, DiskGrows DEF StoreInv
<1>4. HandInv'
  BY <1>0, <1>1 DEF StoreInv, HandInv
<1>5. PlaceInv'
  BY <1>1 DEF StoreInv, PlaceInv
<1>6. ListInv'
  BY <1>0, <1>1 DEF StoreInv, ListInv
<1>7. QueueInv'
  <2>1. \A e \in ToSet(events) : e \in Event /\ e.name \in used /\ e.name # n
    BY <1>0 DEF StoreInv, QueueInv
  <2> QED BY <1>0, <1>1, <1>3, <2>1 DEF StoreInv, QueueInv
<1>8. OpenInv'
  BY <1>0, <1>1, <1>2 DEF StoreInv, OpenInv, HandInv, ListInv
<1>9. DiffInv'
  <2>1. NoName \notin Present /\ n \notin Present
    BY <1>0, <1>2 DEF StoreInv, DiskInv
  <2> QED BY <1>0, <1>1, <1>3, <2>1 DEF StoreInv, DiffInv, Due
<1> QED BY <1>3, <1>4, <1>5, <1>6, <1>7, <1>8, <1>9 DEF StoreInv

\* A write changes a size and nothing else, and there is room for it.
LEMMA WriteKeeps == StoreInv /\ Write => StoreInv'
<1> SUFFICES ASSUME StoreInv, Write PROVE StoreInv'
  OBVIOUS
<1>0. /\ open \in Present /\ disk[open].size < MaxSize /\ Free > 0
      /\ disk' = With(open, disk[open].size + 1, now)
      /\ UNCHANGED <<open, unfinished, used, now, folder, scanPc, toRead, watched, monPc,
                     monStat, clPc, auto, victim, target, events, missed, vanished,
                     forgotten, scannedOpen>>
  BY DEF Write, scanVars, monitorVars, cleanVars, noteVars, rest
<1>1. DiskInv' /\ Present' = Present \cup {open}
  <2>1. /\ disk[open].size \in 0..MaxSize /\ now \in Nat
        /\ open \in used /\ used \subseteq Name
    BY <1>0 DEF StoreInv, DiskInv
  <2> DEFINE s == disk[open].size + 1
  <2>2. s \in 0..MaxSize /\ now \in 0..now /\ s - disk[open].size = 1
    BY <1>0, <2>1, StoreAssumption
  <2>3. 1 <= Free
    <3>1. Free \in Int
      BY FreeIsNumber DEF StoreInv
    <3> QED BY <1>0, <3>1
  <2>4. s - (IF open \in Present THEN disk[open].size ELSE 0) <= Free
    BY <1>0, <2>2, <2>3
  <2>5. disk' = With(open, s, now) /\ open \in used' /\ used' = used \cup {open} /\ used' \subseteq Name
    BY <1>0, <2>1
  <2> HIDE DEF s
  <2> QED BY <1>0, <2>2, <2>4, <2>5, DiskGrows DEF StoreInv
<1>2. Present' = Present
  BY <1>0, <1>1
<1>3. HandInv' /\ PlaceInv' /\ ListInv'
  BY <1>0 DEF StoreInv, HandInv, PlaceInv, ListInv
<1>4. QueueInv' /\ OpenInv'
  BY <1>0, <1>2 DEF StoreInv, QueueInv, OpenInv
<1>5. DiffInv'
  BY <1>0, <1>2 DEF StoreInv, DiffInv, Due
<1> QED BY <1>1, <1>3, <1>4, <1>5 DEF StoreInv

\* The closed file is announced, or missed when nobody watches.
LEMMA CloseKeeps == StoreInv /\ Close => StoreInv'
<1> SUFFICES ASSUME StoreInv, Close PROVE StoreInv'
  OBVIOUS
<1> PICK n : n = open
  OBVIOUS
<1>0. /\ open # NoName /\ open' = NoName /\ unfinished' = unfinished \ {open}
      /\ now' = now + 1
      /\ UNCHANGED <<disk, used, folder, scanPc, toRead, watched, monPc, monStat, clPc,
                     auto, victim, target, forgotten, scannedOpen>>
      /\ IF open \in Present THEN Report("close", open)
         ELSE UNCHANGED <<events, missed, vanished>>
  BY DEF Close, scanVars, monitorVars, cleanVars, noteVars, rest
<1>1. NoName \notin Name /\ open \in used /\ used \subseteq Name
  BY <1>0, NoNameIsNoName DEF StoreInv, HandInv, DiskInv
<1>2. Present' = Present
  BY <1>0 DEF Present
<1>3. DiskInv'
  BY <1>0, DiskSame DEF StoreInv, DiskInv
<1>4. HandInv' /\ PlaceInv' /\ ListInv'
  BY <1>0 DEF StoreInv, HandInv, PlaceInv, ListInv
<1> DEFINE x == [kind |-> "close", name |-> n]
<1>5. /\ events' \in Seq(Event)
      /\ ToSet(events) \subseteq ToSet(events')
      /\ ToSet(events') \subseteq ToSet(events) \cup {x}
      /\ missed \subseteq missed' /\ vanished \subseteq vanished'
      /\ n \in Present => n \in missed' \/ Due({"close", "moved"}, n)'
  <2>1. CASE open \in Present
    <3>1. Report("close", n) /\ "close" \in {"close", "moved", "delete"} /\ n \in Name
      BY <1>0, <1>1, <2>1
    <3> QED BY <3>1, Reported DEF StoreInv
  <2>2. CASE open \notin Present
    BY <1>0, <2>2 DEF StoreInv, QueueInv
  <2> QED BY <2>1, <2>2
<1>6. QueueInv'
  <2>1. x \in Event /\ x.name \in used' /\ x.kind = "close" /\ x.name # open'
    BY <1>0, <1>1 DEF Event
  <2> HIDE DEF x
  <2> QED BY <1>0, <1>1, <1>2, <1>5, <2>1, QueueKeeps DEF StoreInv
<1>7. OpenInv'
  BY <1>0, <1>1 DEF StoreInv, OpenInv, HandInv
<1>8. DiffInv'
  BY <1>0, <1>2, <1>5 DEF StoreInv, DiffInv, Due
<1> QED BY <1>3, <1>4, <1>6, <1>7, <1>8 DEF StoreInv

\* A file leaves the folder and the kernel says so.
LEMMA RemovalKeeps ==
  ASSUME StoreInv, NEW n \in Present, disk' = Without(n), Report("delete", n),
         UNCHANGED <<open, unfinished, used, now, folder, scanPc, toRead, watched, auto,
                     forgotten, scannedOpen>>,
         victim' \in {victim, NoName}, target' \in {target, NoName},
         clPc' \in {clPc, "sleep"},
         \/ monPc' = monPc /\ monStat' = monStat
         \/ monPc = "stat" /\ monPc' = "wait" /\ monStat.name = n
  PROVE  StoreInv'
<1>1. NoName \notin Name /\ n \in used /\ n \in Name
  BY NoNameIsNoName DEF StoreInv, DiskInv
<1>2. DiskInv' /\ Present' = Present \ {n}
  <2>1. disk' = [m \in Present \ {n} |-> disk[m]]
    BY DEF Without
  <2> QED BY <2>1, DiskShrinks DEF StoreInv
<1>3. HandInv'
  BY DEF StoreInv, HandInv
<1>4. PlaceInv'
  BY DEF StoreInv, PlaceInv
<1>5. ListInv'
  BY DEF StoreInv, ListInv
<1> DEFINE x == [kind |-> "delete", name |-> n]
<1>6. /\ events' \in Seq(Event)
      /\ ToSet(events) \subseteq ToSet(events')
      /\ ToSet(events') \subseteq ToSet(events) \cup {x}
      /\ missed \subseteq missed' /\ vanished \subseteq vanished'
      /\ n \in vanished' \/ Due({"delete"}, n)'
  <2>1. "delete" \in {"close", "moved", "delete"}
    OBVIOUS
  <2> QED BY <1>1, <2>1, Reported DEF StoreInv
<1>7. QueueInv'
  <2>1. x \in Event /\ x.name \in used' /\ x.kind = "delete" /\ x.name \notin Present'
    BY <1>1, <1>2 DEF Event
  <2> HIDE DEF x
  <2> QED BY <1>2, <1>6, <2>1, QueueKeeps DEF StoreInv
<1>8. OpenInv'
  BY DEF StoreInv, OpenInv
<1>9. DiffInv'
  BY <1>2, <1>6 DEF StoreInv, DiffInv, Due
<1> QED BY <1>2, <1>3, <1>4, <1>5, <1>7, <1>8, <1>9 DEF StoreInv

\* A deletion, by whoever, is announced or noted.
LEMMA UserDeletesKeeps == StoreInv /\ UserDeletes => StoreInv'
<1> SUFFICES ASSUME StoreInv, UserDeletes PROVE StoreInv'
  OBVIOUS
<1>1. PICK n \in Present : disk' = Without(n) /\ Report("delete", n)
  BY DEF UserDeletes
<1>2. UNCHANGED <<open, unfinished, used, now, folder, scanPc, toRead, watched, auto, monPc,
                  monStat, clPc, victim, target, forgotten, scannedOpen>>
  BY DEF UserDeletes, scanVars, monitorVars, cleanVars, rest
<1> QED BY <1>1, <1>2, RemovalKeeps

\* A file moved in has a new name, and its arrival is announced or noted.
LEMMA UserMovesInKeeps == StoreInv /\ UserMovesIn => StoreInv'
<1> SUFFICES ASSUME StoreInv, UserMovesIn PROVE StoreInv'
  OBVIOUS
<1>0. PICK n \in Name \ used, s \in 0..MaxSize, t \in 0..now :
        /\ s <= Free /\ disk' = With(n, s, t)
        /\ used' = used \cup {n} /\ Report("moved", n)
  BY DEF UserMovesIn
<1>1. UNCHANGED <<open, unfinished, now, folder, scanPc, toRead, watched, monPc, monStat,
                  clPc, auto, victim, target, forgotten, scannedOpen>>
  BY DEF UserMovesIn, scanVars, monitorVars, cleanVars, rest
<1>2. NoName \notin Name
  BY NoNameIsNoName
<1>3. DiskInv' /\ Present' = Present \cup {n}
  <2>1. n \notin Present /\ used' \subseteq Name /\ n \in used'
    BY <1>0 DEF StoreInv, DiskInv
  <2>2. s - (IF n \in Present THEN disk[n].size ELSE 0) <= Free
    BY <1>0, <2>1
  <2> QED BY <1>0, <1>1, <2>1, <2>2, DiskGrows DEF StoreInv
<1>4. HandInv' /\ PlaceInv' /\ ListInv'
  BY <1>0, <1>1 DEF StoreInv, HandInv, PlaceInv, ListInv
<1> DEFINE x == [kind |-> "moved", name |-> n]
<1>5. /\ events' \in Seq(Event)
      /\ ToSet(events) \subseteq ToSet(events')
      /\ ToSet(events') \subseteq ToSet(events) \cup {x}
      /\ missed \subseteq missed' /\ vanished \subseteq vanished'
      /\ n \in missed' \/ Due({"close", "moved"}, n)'
  <2>1. "moved" \in {"close", "moved", "delete"} /\ n \in Name
    OBVIOUS
  <2> QED BY <1>0, <2>1, Reported DEF StoreInv
<1>6. QueueInv'
  <2>1. x \in Event /\ x.name \in used' /\ x.kind = "moved" /\ x.name # open'
    BY <1>0, <1>1, <1>2 DEF Event, StoreInv, HandInv
  <2> HIDE DEF x
  <2> QED BY <1>0, <1>1, <1>3, <1>5, <2>1, QueueKeeps DEF StoreInv
<1>7. OpenInv'
  BY <1>1 DEF StoreInv, OpenInv
<1>8. DiffInv'
  BY <1>1, <1>3, <1>5 DEF StoreInv, DiffInv, Due
<1> QED BY <1>3, <1>4, <1>6, <1>7, <1>8 DEF StoreInv

\* The disk survives; all the rest starts again.
LEMMA PowerFailsKeeps == StoreInv /\ PowerFails => StoreInv'
<1> SUFFICES ASSUME StoreInv, PowerFails PROVE StoreInv'
  OBVIOUS
<1>1. Booted /\ open' = NoName /\ UNCHANGED <<disk, unfinished, used, now>>
  BY DEF PowerFails
<1>2. DiskInv'
  BY <1>1, DiskSame DEF StoreInv, DiskInv
<1>3. HandInv' /\ PlaceInv'
  BY <1>1 DEF StoreInv, HandInv, PlaceInv, Booted
<1>4. ListInv' /\ Names(folder') = {}
  BY <1>1, StoredFiles, EmptySound DEF ListInv, Booted
<1>5. QueueInv'
  BY <1>1, NoEvents DEF QueueInv, Booted
<1>6. OpenInv' /\ DiffInv'
  BY <1>1, <1>4 DEF OpenInv, DiffInv, Booted
<1> QED BY <1>2, <1>3, <1>4, <1>5, <1>6 DEF StoreInv
-----------------------------------------------------------------------------
(* The scan thread up to its cleaning loop.                                *)

\* opendir: every file is still to be read.
LEMMA OpenFolderKeeps == StoreInv /\ OpenFolder => StoreInv'
<1> SUFFICES ASSUME StoreInv, OpenFolder PROVE StoreInv'
  OBVIOUS
<1>0. /\ scanPc = "open" /\ toRead' = Present /\ scanPc' = "read"
      /\ UNCHANGED <<disk, open, unfinished, used, now, folder, watched, monPc, monStat,
                     clPc, auto, victim, target, events, missed, vanished, forgotten,
                     scannedOpen>>
  BY DEF OpenFolder, diskVars, monitorVars, cleanVars, noteVars, rest
<1>1. Present' = Present
  BY <1>0 DEF Present
<1>2. DiskInv'
  BY <1>0, DiskSame DEF StoreInv, DiskInv
<1>3. HandInv' /\ PlaceInv' /\ ListInv'
  BY <1>0 DEF StoreInv, HandInv, PlaceInv, ListInv, DiskInv
<1>4. QueueInv' /\ OpenInv'
  BY <1>0, <1>1 DEF StoreInv, QueueInv, OpenInv
<1>5. DiffInv'
  BY <1>0, <1>1 DEF StoreInv, DiffInv, Due
<1> QED BY <1>2, <1>3, <1>4, <1>5 DEF StoreInv

\* readdir: a file read is a file listed, the open one too.
LEMMA ReadEntryKeeps == StoreInv /\ ReadEntry => StoreInv'
<1> SUFFICES ASSUME StoreInv, ReadEntry PROVE StoreInv'
  OBVIOUS
<1>0. PICK n \in toRead \cup Present :
        /\ toRead' = toRead \ {n}
        /\ IF n \in Present /\ ~ListCheck(folder, n)
           THEN /\ folder' = ListAdd(folder, File(n, disk[n].time, disk[n].size))
                /\ scannedOpen' = scannedOpen \cup ({n} \cap {open})
           ELSE UNCHANGED <<folder, scannedOpen>>
  BY DEF ReadEntry
<1>1. /\ scanPc = "read"
      /\ UNCHANGED <<disk, open, unfinished, used, now, scanPc, watched, monPc, monStat,
                     clPc, auto, victim, target, events, missed, vanished, forgotten>>
  BY DEF ReadEntry, diskVars, monitorVars, cleanVars, noteVars
<1>2. Present' = Present /\ DiskInv'
  BY <1>1, DiskSame DEF StoreInv, DiskInv, Present
<1>3. HandInv' /\ PlaceInv'
  BY <1>0, <1>1 DEF StoreInv, HandInv, PlaceInv
<1>4. QueueInv'
  BY <1>1, <1>2 DEF StoreInv, QueueInv
<1>5. CASE n \in Present /\ n \notin Names(folder)
  <2>1. /\ folder' = ListAdd(folder, File(n, disk[n].time, disk[n].size))
        /\ scannedOpen' = scannedOpen \cup ({n} \cap {open})
    BY <1>0, <1>5 DEF ListCheck
  <2>2. File(n, disk[n].time, disk[n].size) \in Stored /\ n \in used
    <3>1. /\ disk[n] \in [size : 0..MaxSize, time : 0..now] /\ n \in used
          /\ n \in Name /\ now \in Nat
      BY <1>5 DEF StoreInv, DiskInv
    <3>2. disk[n].size \in Nat /\ disk[n].time \in Nat
      BY <3>1, StoreAssumption
    <3> QED BY <3>1, <3>2 DEF File, Stored
  <2>3. Sound(folder', Stored) /\ Names(folder') = Names(folder) \cup {n}
    <3> DEFINE f == File(n, disk[n].time, disk[n].size)
    <3>1. f.name = n /\ f \in Stored
      BY <2>2 DEF File
    <3>2. folder' = ListAdd(folder, f) /\ f.name \notin Names(folder) /\ Sound(folder, Stored)
      BY <1>5, <2>1, <3>1 DEF StoreInv, ListInv
    <3> HIDE DEF f
    <3> QED BY <3>1, <3>2, StoredFiles, AddSound
  <2>4. ListInv'
    BY <1>1, <2>2, <2>3 DEF StoreInv, ListInv
  <2>5. OpenInv'
    BY <1>1, <2>1, <2>3 DEF StoreInv, OpenInv
  <2>6. DiffInv'
    BY <1>0, <1>1, <1>2, <1>5, <2>3 DEF StoreInv, DiffInv, Due
  <2> QED BY <1>2, <1>3, <1>4, <2>4, <2>5, <2>6 DEF StoreInv
<1>6. CASE ~ (n \in Present /\ n \notin Names(folder))
  <2>1. UNCHANGED <<folder, scannedOpen>>
    BY <1>0, <1>6 DEF ListCheck
  <2>2. ListInv' /\ OpenInv'
    BY <1>1, <2>1 DEF StoreInv, ListInv, OpenInv
  <2>3. DiffInv'
    BY <1>0, <1>1, <1>2, <1>6, <2>1 DEF StoreInv, DiffInv, Due
  <2> QED BY <1>2, <1>3, <1>4, <2>2, <2>3 DEF StoreInv
<1> QED BY <1>5, <1>6

\* The end of readdir: nothing is left to read.
LEMMA EndReadKeeps == StoreInv /\ EndRead => StoreInv'
<1> SUFFICES ASSUME StoreInv, EndRead PROVE StoreInv'
  OBVIOUS
<1>0. /\ scanPc = "read" /\ toRead = {} /\ scanPc' = "repair"
      /\ UNCHANGED <<disk, open, unfinished, used, now, folder, toRead, watched, monPc,
                     monStat, clPc, auto, victim, target, events, missed, vanished,
                     forgotten, scannedOpen>>
  BY DEF EndRead, diskVars, monitorVars, cleanVars, noteVars, rest
<1>1. Present' = Present /\ DiskInv'
  BY <1>0, DiskSame DEF StoreInv, DiskInv, Present
<1>2. HandInv' /\ PlaceInv' /\ ListInv'
  BY <1>0 DEF StoreInv, HandInv, PlaceInv, ListInv
<1>3. QueueInv' /\ OpenInv'
  BY <1>0, <1>1 DEF StoreInv, QueueInv, OpenInv
<1>4. DiffInv'
  BY <1>0, <1>1 DEF StoreInv, DiffInv, Due
<1> QED BY <1>1, <1>2, <1>3, <1>4 DEF StoreInv

\* What repair does to the list and, by the same names, to the disk.
LEMMA RepairFolderFacts ==
  ASSUME StoreInv, RepairFolder
  PROVE  /\ Sound(folder', Stored)
         /\ Names(folder') \subseteq Names(folder)
         /\ disk' = [n \in Present \ (Names(folder) \ Names(folder')) |-> disk[n]]
         /\ scanPc = "repair" /\ scanPc' = "start"
         /\ UNCHANGED <<open, unfinished, used, now, toRead, watched, monPc, monStat, clPc,
                        auto, victim, target, events, missed, vanished, forgotten,
                        scannedOpen>>
<1>1. PICK damaged \in SUBSET Repairable : folder' = Repair(folder, damaged \cup Empty)
  BY DEF RepairFolder
<1>2. Sound(folder', Stored) /\ Names(folder') \subseteq Names(folder)
  BY <1>1, StoredFiles, RepairSound DEF StoreInv, ListInv
<1>3. disk' = [n \in Present \ (Names(folder) \ Names(folder')) |-> disk[n]]
  BY DEF RepairFolder
<1>4. /\ scanPc = "repair" /\ scanPc' = "start"
      /\ UNCHANGED <<open, unfinished, used, now, toRead, watched, monPc, monStat, clPc,
                     auto, victim, target, events, missed, vanished, forgotten,
                     scannedOpen>>
  BY DEF RepairFolder, monitorVars, cleanVars, noteVars, rest
<1> QED BY <1>2, <1>3, <1>4

\* repair drops the same names from the disk and from the list, unwatched.
LEMMA RepairFolderKeeps == StoreInv /\ RepairFolder => StoreInv'
<1> SUFFICES ASSUME StoreInv, RepairFolder PROVE StoreInv'
  OBVIOUS
<1> DEFINE kept == Present \ (Names(folder) \ Names(folder'))
<1>0. /\ Sound(folder', Stored)
      /\ Names(folder') \subseteq Names(folder)
      /\ disk' = [n \in kept |-> disk[n]]
      /\ scanPc = "repair" /\ scanPc' = "start"
      /\ UNCHANGED <<open, unfinished, used, now, toRead, watched, monPc, monStat, clPc,
                     auto, victim, target, events, missed, vanished, forgotten,
                     scannedOpen>>
  BY RepairFolderFacts
<1>1. DiskInv' /\ Present' = kept
  <2>1. kept \in SUBSET Present
    OBVIOUS
  <2> HIDE DEF kept
  <2> QED BY <1>0, <2>1, DiskShrinks DEF StoreInv
<1>2. monPc = "off"
  BY <1>0 DEF StoreInv, PlaceInv
<1>3. HandInv' /\ PlaceInv' /\ ListInv'
  BY <1>0 DEF StoreInv, HandInv, PlaceInv, ListInv
<1>4. QueueInv' /\ OpenInv'
  BY <1>0, <1>1 DEF StoreInv, QueueInv, OpenInv
<1>5. DiffInv'
  BY <1>0, <1>1, <1>2 DEF StoreInv, DiffInv, Due
<1> QED BY <1>1, <1>3, <1>4, <1>5 DEF StoreInv

\* The monitor is created behind the repair.
LEMMA StartMonitorKeeps == StoreInv /\ StartMonitor => StoreInv'
<1> SUFFICES ASSUME StoreInv, StartMonitor PROVE StoreInv'
  OBVIOUS
<1>0. /\ scanPc = "start" /\ scanPc' = "run" /\ monPc' = "start"
      /\ UNCHANGED <<disk, open, unfinished, used, now, folder, toRead, watched, monStat,
                     clPc, auto, victim, target, events, missed, vanished, forgotten,
                     scannedOpen>>
  BY DEF StartMonitor, diskVars, cleanVars, noteVars, rest
<1>1. Present' = Present /\ DiskInv' /\ monPc = "off"
  BY <1>0, DiskSame DEF StoreInv, DiskInv, Present, PlaceInv
<1>2. HandInv' /\ PlaceInv' /\ ListInv'
  BY <1>0 DEF StoreInv, HandInv, PlaceInv, ListInv
<1>3. QueueInv' /\ OpenInv'
  BY <1>0, <1>1 DEF StoreInv, QueueInv, OpenInv
<1>4. DiffInv'
  BY <1>0, <1>1 DEF StoreInv, DiffInv, Due
<1> QED BY <1>1, <1>2, <1>3, <1>4 DEF StoreInv
-----------------------------------------------------------------------------
(* The monitor thread.                                                     *)

\* From here on changes are queued.
LEMMA AddWatchKeeps == StoreInv /\ AddWatch => StoreInv'
<1> SUFFICES ASSUME StoreInv, AddWatch PROVE StoreInv'
  OBVIOUS
<1>0. /\ monPc = "start" /\ watched' = TRUE /\ monPc' = "wait"
      /\ UNCHANGED <<disk, open, unfinished, used, now, folder, scanPc, toRead, monStat,
                     clPc, auto, victim, target, events, missed, vanished, forgotten,
                     scannedOpen>>
  BY DEF AddWatch, diskVars, scanVars, cleanVars, noteVars, rest
<1>1. Present' = Present /\ DiskInv'
  BY <1>0, DiskSame DEF StoreInv, DiskInv, Present
<1>2. HandInv' /\ PlaceInv' /\ ListInv'
  BY <1>0 DEF StoreInv, HandInv, PlaceInv, ListInv
<1>3. QueueInv' /\ OpenInv'
  BY <1>0, <1>1 DEF StoreInv, QueueInv, OpenInv
<1>4. DiffInv'
  BY <1>0, <1>1 DEF StoreInv, DiffInv, Due
<1> QED BY <1>1, <1>2, <1>3, <1>4 DEF StoreInv

\* The event the monitor takes is one of those queued, and the only one to go.
LEMMA Taken ==
  ASSUME QueueInv, NEW kinds, Take(kinds)
  PROVE  /\ events' \in Seq(Event) /\ Head(events) \in ToSet(events)
         /\ Head(events).kind \in kinds /\ monPc = "wait"
         /\ ToSet(events') \subseteq ToSet(events)
         /\ ToSet(events) \subseteq ToSet(events') \cup {Head(events)}
         /\ UNCHANGED <<missed, vanished>>
<1>1. /\ events # << >> /\ events' = Tail(events) /\ monPc = "wait"
      /\ Head(events).kind \in kinds /\ UNCHANGED <<missed, vanished>>
  BY DEF Take
<1>2. events \in Seq(Event)
  BY DEF QueueInv
<1> QED BY <1>1, <1>2, EventTaken

\* The deleted file is not there: its entry goes, no other.
LEMMA HandleDeleteKeeps == StoreInv /\ HandleDelete => StoreInv'
<1> SUFFICES ASSUME StoreInv, HandleDelete PROVE StoreInv'
  OBVIOUS
<1> PICK e : e = Head(events)
  OBVIOUS
<1>0. /\ folder' = ListDel(folder, e.name)
      /\ UNCHANGED <<disk, open, unfinished, used, now, scanPc, toRead, watched, monPc,
                     monStat, clPc, auto, victim, target, forgotten, scannedOpen>>
  BY DEF HandleDelete, diskVars, scanVars, monitorVars, cleanVars, rest
<1>1. /\ events' \in Seq(Event) /\ e \in ToSet(events) /\ e.kind = "delete"
      /\ ToSet(events') \subseteq ToSet(events)
      /\ ToSet(events) \subseteq ToSet(events') \cup {e}
      /\ UNCHANGED <<missed, vanished>>
      /\ monPc = "wait"
  BY Taken DEF HandleDelete, StoreInv
<1>2. Sound(folder', Stored) /\ Names(folder') = Names(folder) \ {e.name}
  BY <1>0, StoredFiles, DelSound DEF StoreInv, ListInv
<1>3. Present' = Present /\ DiskInv'
  BY <1>0, DiskSame DEF StoreInv, DiskInv, Present
<1>4. e.name \notin Present
  BY <1>1 DEF StoreInv, QueueInv
<1>5. HandInv' /\ PlaceInv'
  BY <1>0 DEF StoreInv, HandInv, PlaceInv
<1>6. ListInv'
  BY <1>0, <1>2 DEF StoreInv, ListInv
<1>7. QueueInv'
  BY <1>0, <1>1, <1>3 DEF StoreInv, QueueInv
<1>8. OpenInv'
  BY <1>0, <1>2 DEF StoreInv, OpenInv
<1>9. DiffInv'
  BY <1>0, <1>1, <1>2, <1>3, <1>4 DEF StoreInv, DiffInv, Due
<1> QED BY <1>3, <1>5, <1>6, <1>7, <1>8, <1>9 DEF StoreInv

\* The file the event names passes from the queue into the monitor's hand.
LEMMA HandleArrivalKeeps == StoreInv /\ HandleArrival => StoreInv'
<1> SUFFICES ASSUME StoreInv, HandleArrival PROVE StoreInv'
  OBVIOUS
<1> PICK e : e = Head(events)
  OBVIOUS
<1>0. /\ UNCHANGED <<disk, open, unfinished, used, now, folder, scanPc, toRead, watched,
                     clPc, auto, victim, target, forgotten, scannedOpen>>
      /\ IF e.name \in Present
         THEN /\ monStat' = [kind |-> e.kind, name |-> e.name,
                             size |-> disk[e.name].size, time |-> disk[e.name].time]
              /\ monPc' = "stat"
         ELSE UNCHANGED <<monStat, monPc>>
  BY DEF HandleArrival, diskVars, scanVars, cleanVars, rest
<1>1. /\ events' \in Seq(Event) /\ e \in ToSet(events) /\ e.kind \in {"close", "moved"}
      /\ ToSet(events') \subseteq ToSet(events)
      /\ ToSet(events) \subseteq ToSet(events') \cup {e}
      /\ UNCHANGED <<missed, vanished>>
      /\ monPc = "wait"
  BY Taken DEF HandleArrival, StoreInv
<1>2. Present' = Present /\ DiskInv'
  BY <1>0, DiskSame DEF StoreInv, DiskInv, Present
<1>3. e.name # open /\ e.name \in used
  BY <1>1 DEF StoreInv, QueueInv
<1>4. ASSUME e.name \in Present
      PROVE  monStat' \in Stat /\ monStat'.name = e.name /\ monPc' = "stat"
  <2>1. /\ disk[e.name] \in [size : 0..MaxSize, time : 0..now] /\ e.name \in Name
        /\ now \in Nat
    BY <1>3, <1>4 DEF StoreInv, DiskInv
  <2>2. disk[e.name].size \in Nat /\ disk[e.name].time \in Nat
    BY <2>1, StoreAssumption
  <2> QED BY <1>0, <1>1, <1>4, <2>1, <2>2 DEF Stat
<1>5. monPc' = "stat" => e.name \in Present
  BY <1>0, <1>1
<1>6. HandInv'
  BY <1>0, <1>3, <1>4, <1>5 DEF StoreInv, HandInv
<1>7. PlaceInv'
  BY <1>0, <1>1 DEF StoreInv, PlaceInv
<1>8. ListInv'
  BY <1>0 DEF StoreInv, ListInv
<1>9. QueueInv'
  BY <1>0, <1>1, <1>2 DEF StoreInv, QueueInv
<1>10. OpenInv'
  BY <1>0, <1>3, <1>4, <1>5 DEF StoreInv, OpenInv
<1>11. DiffInv'
  BY <1>0, <1>1, <1>2, <1>4, <1>5 DEF StoreInv, DiffInv, Due
<1> QED BY <1>2, <1>6, <1>7, <1>8, <1>9, <1>10, <1>11 DEF StoreInv

\* The file removed is the one in hand, so no other lacks an entry.
LEMMA RemoveEmptyKeeps == StoreInv /\ RemoveEmpty => StoreInv'
<1> SUFFICES ASSUME StoreInv, RemoveEmpty PROVE StoreInv'
  OBVIOUS
<1> PICK n : n = monStat.name
  OBVIOUS
<1>0. /\ monPc = "stat" /\ monPc' = "wait" /\ monStat' = NoStat
      /\ IF n \in Present THEN disk' = Without(n) /\ Report("delete", n)
         ELSE UNCHANGED <<disk, events, missed, vanished>>
      /\ UNCHANGED <<open, unfinished, used, now, folder, scanPc, toRead, watched, clPc, auto,
                     victim, target, forgotten, scannedOpen>>
  BY DEF RemoveEmpty, scanVars, cleanVars, rest, noteVars
<1>1. CASE n \in Present
  BY <1>0, <1>1, RemovalKeeps
<1>2. CASE n \notin Present
  <2>1. Present' = Present /\ DiskInv'
    BY <1>0, <1>2, DiskSame DEF StoreInv, DiskInv, Present
  <2>2. HandInv' /\ PlaceInv' /\ ListInv'
    BY <1>0 DEF StoreInv, HandInv, PlaceInv, ListInv
  <2>3. QueueInv' /\ OpenInv'
    BY <1>0, <1>2, <2>1 DEF StoreInv, QueueInv, OpenInv
  <2>4. DiffInv'
    BY <1>0, <1>2, <2>1 DEF StoreInv, DiffInv, Due
  <2> QED BY <2>1, <2>2, <2>3, <2>4 DEF StoreInv
<1> QED BY <1>1, <1>2

\* The file in hand is listed, even if it was deleted since: then its deletion
\* is still queued.
LEMMA AddArrivalKeeps == StoreInv /\ AddArrival => StoreInv'
<1> SUFFICES ASSUME StoreInv, AddArrival PROVE StoreInv'
  OBVIOUS
<1> PICK n : n = monStat.name
  OBVIOUS
<1>0. /\ monPc = "stat" /\ monPc' = "wait" /\ monStat' = NoStat
      /\ folder' = IF ListCheck(folder, n) THEN folder
                   ELSE ListAdd(folder, File(n, monStat.time, monStat.size))
      /\ UNCHANGED <<disk, open, unfinished, used, now, scanPc, toRead, watched, clPc, auto,
                     victim, target, events, missed, vanished, forgotten, scannedOpen>>
  BY DEF AddArrival, diskVars, scanVars, cleanVars, noteVars, rest
<1>1. n \in used /\ n # open /\ monStat \in Stat
  BY <1>0 DEF StoreInv, HandInv, OpenInv
<1>2. Sound(folder', Stored) /\ Names(folder') = Names(folder) \cup {n}
  <2> DEFINE f == File(n, monStat.time, monStat.size)
  <2>1. f \in Stored /\ f.name = n
    BY <1>1 DEF Stat, Stored, File
  <2> HIDE DEF f
  <2>2. CASE n \in Names(folder)
    BY <1>0, <2>2 DEF ListCheck, StoreInv, ListInv
  <2>3. CASE n \notin Names(folder)
    <3>1. folder' = ListAdd(folder, f) /\ f.name \notin Names(folder) /\ Sound(folder, Stored)
      BY <1>0, <2>1, <2>3 DEF ListCheck, StoreInv, ListInv, f
    <3> QED BY <2>1, <3>1, StoredFiles, AddSound
  <2> QED BY <2>2, <2>3
<1>3. Present' = Present /\ DiskInv'
  BY <1>0, DiskSame DEF StoreInv, DiskInv, Present
<1>4. HandInv' /\ PlaceInv'
  BY <1>0 DEF StoreInv, HandInv, PlaceInv
<1>5. ListInv'
  BY <1>0, <1>1, <1>2 DEF StoreInv, ListInv
<1>6. QueueInv'
  BY <1>0, <1>3 DEF StoreInv, QueueInv
<1>7. OpenInv'
  BY <1>0, <1>1, <1>2 DEF StoreInv, OpenInv
<1>8. DiffInv'
  BY <1>0, <1>2, <1>3 DEF StoreInv, DiffInv, Due
<1> QED BY <1>3, <1>4, <1>5, <1>6, <1>7, <1>8 DEF StoreInv
-----------------------------------------------------------------------------
(* The cleaning loop.                                                      *)

\* Measuring decides whether to clean and touches nothing.
LEMMA MeasureKeeps == StoreInv /\ Measure => StoreInv'
<1> SUFFICES ASSUME StoreInv, Measure PROVE StoreInv'
  OBVIOUS
<1>0. /\ auto' = AutoDelete
      /\ clPc' \in {clPc, "pick"}
      /\ UNCHANGED <<disk, open, unfinished, used, now, folder, scanPc, toRead, watched,
                     monPc, monStat, victim, target, events, missed, vanished, forgotten,
                     scannedOpen>>
  BY DEF Measure, diskVars, scanVars, monitorVars, noteVars, rest
<1>1. Present' = Present /\ DiskInv'
  BY <1>0, DiskSame DEF StoreInv, DiskInv, Present
<1>2. HandInv' /\ PlaceInv' /\ ListInv'
  BY <1>0 DEF StoreInv, HandInv, PlaceInv, ListInv, AutoDelete
<1>3. QueueInv' /\ OpenInv'
  BY <1>0, <1>1 DEF StoreInv, QueueInv, OpenInv
<1>4. DiffInv'
  BY <1>0, <1>1 DEF StoreInv, DiffInv, Due
<1> QED BY <1>1, <1>2, <1>3, <1>4 DEF StoreInv

\* The last file is a listed one.
LEMMA LastIsListed ==
  ASSUME ListInv, folder.last # NoFile
  PROVE  folder.last.name \in Names(folder)
<1>1. folder.files \in Seq(Stored) /\ folder.files # << >> /\ folder.last = Last(folder.files)
  BY DEF ListInv, Sound
<1>2. Len(folder.files) \in 1..Len(folder.files)
  BY <1>1, EmptySeq
<1>3. folder.last = folder.files[Len(folder.files)]
  BY <1>1 DEF Last
<1> QED BY <1>2, <1>3 DEF Names

\* The victim is a listed file.
LEMMA PickKeeps == StoreInv /\ Pick => StoreInv'
<1> SUFFICES ASSUME StoreInv, Pick PROVE StoreInv'
  OBVIOUS
<1>0. /\ \/ victim' = folder.last.name /\ folder.last # NoFile /\ target' = target /\ clPc' = "remove"
         \/ victim' = NoName /\ target' = NoName /\ clPc' = "sleep"
      /\ UNCHANGED <<disk, open, unfinished, used, now, folder, scanPc, toRead, watched,
                     monPc, monStat, auto, events, missed, vanished, forgotten, scannedOpen>>
  BY DEF Pick, EndPass, diskVars, scanVars, monitorVars, noteVars, rest
<1>1. Present' = Present /\ DiskInv'
  BY <1>0, DiskSame DEF StoreInv, DiskInv, Present
<1>2. victim' \in Names(folder) \cup {NoName} /\ target' \in {target, NoName}
  BY <1>0, LastIsListed DEF StoreInv
<1>3. HandInv'
  BY <1>0, <1>2 DEF StoreInv, HandInv, ListInv
<1>4. PlaceInv' /\ ListInv'
  BY <1>0 DEF StoreInv, PlaceInv, ListInv
<1>5. QueueInv'
  BY <1>0, <1>1 DEF StoreInv, QueueInv
<1>6. OpenInv'
  BY <1>0, <1>2 DEF StoreInv, OpenInv
<1>7. DiffInv'
  BY <1>0, <1>1 DEF StoreInv, DiffInv, Due
<1> QED BY <1>1, <1>3, <1>4, <1>5, <1>6, <1>7 DEF StoreInv

\* The victim's removal is announced like any other.
LEMMA RemoveVictimKeeps == StoreInv /\ RemoveVictim => StoreInv'
<1> SUFFICES ASSUME StoreInv, RemoveVictim PROVE StoreInv'
  OBVIOUS
<1> PICK n : n = victim
  OBVIOUS
<1>0. /\ IF n \in Present
         THEN disk' = Without(n) /\ Report("delete", n) /\ EndPass
         ELSE /\ clPc' = "reread"
              /\ UNCHANGED <<disk, events, missed, vanished, passTotal, victim, target>>
      /\ UNCHANGED <<open, unfinished, used, now, folder, scanPc, toRead, watched, monPc,
                     monStat, auto, forgotten, scannedOpen>>
  BY DEF RemoveVictim, scanVars, monitorVars, rest, noteVars
<1>1. CASE n \in Present
  BY <1>0, <1>1, RemovalKeeps DEF EndPass
<1>2. CASE n \notin Present
  <2>1. Present' = Present /\ DiskInv'
    BY <1>0, <1>2, DiskSame DEF StoreInv, DiskInv, Present
  <2>2. HandInv' /\ PlaceInv' /\ ListInv'
    BY <1>0, <1>2 DEF StoreInv, HandInv, PlaceInv, ListInv
  <2>3. QueueInv' /\ OpenInv'
    BY <1>0, <1>2, <2>1 DEF StoreInv, QueueInv, OpenInv
  <2>4. DiffInv'
    BY <1>0, <1>2, <2>1 DEF StoreInv, DiffInv, Due
  <2> QED BY <2>1, <2>2, <2>3, <2>4 DEF StoreInv
<1> QED BY <1>1, <1>2

\* The name read again is that of a listed file, or there is none.
LEMMA RereadKeeps == StoreInv /\ Reread => StoreInv'
<1> SUFFICES ASSUME StoreInv, Reread PROVE StoreInv'
  OBVIOUS
<1>0. /\ \/ folder.last = NoFile /\ clPc' = "dead" /\ target' = target
         \/ folder.last # NoFile /\ clPc' = "drop" /\ target' = folder.last.name
      /\ UNCHANGED <<disk, open, unfinished, used, now, folder, scanPc, toRead, watched,
                     monPc, monStat, auto, victim, events, missed, vanished, forgotten,
                     scannedOpen>>
  BY DEF Reread, diskVars, scanVars, monitorVars, noteVars, rest
<1>1. Present' = Present /\ DiskInv'
  BY <1>0, DiskSame DEF StoreInv, DiskInv, Present
<1>2. target' \in Names(folder) \cup {target}
  BY <1>0, LastIsListed DEF StoreInv
<1>3. HandInv'
  BY <1>0, <1>2 DEF StoreInv, HandInv, ListInv
<1>4. PlaceInv' /\ ListInv'
  BY <1>0 DEF StoreInv, PlaceInv, ListInv
<1>5. QueueInv' /\ OpenInv'
  BY <1>0, <1>1 DEF StoreInv, QueueInv, OpenInv
<1>6. DiffInv'
  BY <1>0, <1>1 DEF StoreInv, DiffInv, Due
<1> QED BY <1>1, <1>3, <1>4, <1>5, <1>6 DEF StoreInv

\* An entry dropped though its file is there is noted as forgotten.
LEMMA DropKeeps == StoreInv /\ Drop => StoreInv'
<1> SUFFICES ASSUME StoreInv, Drop PROVE StoreInv'
  OBVIOUS
<1> PICK n : n = target
  OBVIOUS
<1>0. /\ folder' = ListDel(folder, n) /\ forgotten' = forgotten \cup ({n} \cap Present)
      /\ clPc' = "sleep" /\ victim' = NoName /\ target' = NoName
      /\ UNCHANGED <<disk, open, unfinished, used, now, scanPc, toRead, watched, monPc,
                     monStat, auto, events, missed, vanished, scannedOpen>>
  BY DEF Drop, EndPass, diskVars, scanVars, monitorVars, noteVars
<1>1. Sound(folder', Stored) /\ Names(folder') = Names(folder) \ {n}
  BY <1>0, StoredFiles, DelSound DEF StoreInv, ListInv
<1>2. Present' = Present /\ DiskInv'
  BY <1>0, DiskSame DEF StoreInv, DiskInv, Present
<1>3. HandInv' /\ PlaceInv'
  BY <1>0 DEF StoreInv, HandInv, PlaceInv
<1>4. ListInv'
  BY <1>0, <1>1 DEF StoreInv, ListInv
<1>5. QueueInv'
  BY <1>0, <1>2 DEF StoreInv, QueueInv
<1>6. OpenInv'
  BY <1>0, <1>1 DEF StoreInv, OpenInv
<1>7. DiffInv'
  BY <1>0, <1>1, <1>2 DEF StoreInv, DiffInv, Due
<1> QED BY <1>2, <1>3, <1>4, <1>5, <1>6, <1>7 DEF StoreInv
-----------------------------------------------------------------------------
\* Every step of everybody keeps the invariant.
LEMMA StoreStepKeeps == StoreInv /\ [Next]_vars => StoreInv'
<1> SUFFICES ASSUME StoreInv, [Next]_vars PROVE StoreInv'
  OBVIOUS
<1>1. CASE Scan
  BY <1>1, OpenFolderKeeps, ReadEntryKeeps, EndReadKeeps, RepairFolderKeeps,
     StartMonitorKeeps DEF Scan
<1>2. CASE Monitor
  BY <1>2, AddWatchKeeps, HandleDeleteKeeps, HandleArrivalKeeps, RemoveEmptyKeeps,
     AddArrivalKeeps DEF Monitor
<1>3. CASE Clean
  BY <1>3, MeasureKeeps, PickKeeps, RemoveVictimKeeps, RereadKeeps, DropKeeps DEF Clean
<1>4. CASE Outside
  BY <1>4, CreateKeeps, WriteKeeps, CloseKeeps, UserDeletesKeeps, UserMovesInKeeps,
     PowerFailsKeeps DEF Outside
<1>5. CASE UNCHANGED vars
  <2>0. UNCHANGED <<disk, open, unfinished, used, now, folder, scanPc, toRead, watched, monPc,
                    monStat, clPc, auto, victim, target, events, missed, vanished,
                    forgotten, scannedOpen>>
    BY <1>5 DEF vars, diskVars, scanVars, monitorVars, cleanVars, noteVars, rest
  <2>1. Present' = Present /\ DiskInv'
    BY <2>0, DiskSame DEF StoreInv, DiskInv, Present
  <2>2. HandInv' /\ PlaceInv' /\ ListInv'
    BY <2>0 DEF StoreInv, HandInv, PlaceInv, ListInv
  <2>3. QueueInv' /\ OpenInv'
    BY <2>0, <2>1 DEF StoreInv, QueueInv, OpenInv
  <2>4. DiffInv'
    BY <2>0, <2>1 DEF StoreInv, DiffInv, Due
  <2> QED BY <2>1, <2>2, <2>3, <2>4 DEF StoreInv
<1> QED BY <1>1, <1>2, <1>3, <1>4, <1>5 DEF Next

\* Due and Pending say the same of a queue.
LEMMA DueIsPending ==
  ASSUME QueueInv, NEW kinds, NEW n
  PROVE  Due(kinds, n) => Pending(kinds, n)
<1>1. \A e \in ToSet(events) : \E i \in 1..Len(events) : events[i] = e
  BY DEF QueueInv, ToSet
<1> QED BY <1>1 DEF Due, Pending

\* The invariant contains IndexSound.
LEMMA SoundFromInv == StoreInv => IndexSound
<1> SUFFICES ASSUME StoreInv PROVE IndexSound
  OBVIOUS
<1>1. TypeOK
  <2>1. Present \subseteq used /\ used \subseteq Name /\ Free >= 0
    BY DEF StoreInv, DiskInv
  <2>2. \A n \in Present : disk[n].size \in 0..MaxSize /\ disk[n].time \in 0..now
    BY DEF StoreInv, DiskInv
  <2>3. \A i \in 1..Len(events) : events[i].kind \in {"close", "moved", "delete"}
                                  /\ events[i].name \in used
    <3>1. \A i \in 1..Len(events) : events[i] \in ToSet(events)
      BY DEF StoreInv, QueueInv, ToSet
    <3> QED BY <3>1 DEF StoreInv, QueueInv, Event
  <2>4. /\ open \in used \cup {NoName} /\ unfinished \subseteq used /\ toRead \subseteq used
        /\ {victim, target} \subseteq used \cup {NoName}
    BY DEF StoreInv, HandInv
  <2>5. /\ scanPc \in {"open", "read", "repair", "start", "run"}
        /\ watched \in BOOLEAN
        /\ monPc \in {"off", "start", "wait", "stat"}
        /\ clPc \in {"sleep", "pick", "remove", "reread", "drop", "dead"}
        /\ auto \in {0, 1}
    BY DEF StoreInv, PlaceInv
  <2>6. Names(folder) \subseteq used
    BY DEF StoreInv, ListInv
  <2> QED BY <2>1, <2>2, <2>3, <2>4, <2>5, <2>6 DEF TypeOK
<1>2. Sound(folder, Stored)
  BY DEF StoreInv, ListInv
<1> QED BY <1>1, <1>2 DEF IndexSound, Sound, Ordered

\* Once watched, nothing is left to read, and DiffInv is the property.
LEMMA ExplainedFromInv == StoreInv => DifferencesExplained
<1> SUFFICES ASSUME StoreInv PROVE DifferencesExplained
  OBVIOUS
<1>1. QueueInv
  BY DEF StoreInv
<1>2. \A n \in Names(folder) \ Present : n \in vanished \/ Pending({"delete"}, n)
  BY <1>1, DueIsPending DEF StoreInv, DiffInv
<1>3. ASSUME watched, NEW n \in Present \ {open}
      PROVE  \/ n \in Names(folder) \cup missed \cup forgotten
             \/ Pending({"close", "moved"}, n)
             \/ monPc = "stat" /\ monStat.name = n
  <2>1. scanPc # "open" /\ toRead = {}
    BY <1>3 DEF StoreInv, PlaceInv
  <2>2. \/ n \in Names(folder) \cup missed \cup forgotten
        \/ Due({"close", "moved"}, n)
        \/ monPc = "stat" /\ monStat.name = n
    BY <1>3, <2>1 DEF StoreInv, DiffInv
  <2> QED BY <1>1, <2>2, DueIsPending
<1> QED BY <1>2, <1>3 DEF DifferencesExplained

\* However scan, monitor, cleaner, recorder and users interleave, and whenever
\* power fails: the invariant of the folder and its index.
THEOREM StoreInvariant == Spec => []StoreInv
<1> QED BY StoreStarts, StoreStepKeeps, PTL DEF Spec

\* Under folder->mutex the list stays sorted, without a name twice, and described
\* by last, num and total, and the disk is never overfull (StoreProps!IndexSound).
THEOREM IndexIsSound == Spec => []IndexSound
<1> QED BY StoreInvariant, SoundFromInv, PTL

\* An indexed file that is gone has its deletion queued, and a finished file on a
\* watched disk is listed or about to be (StoreProps!DifferencesExplained).
THEOREM DifferencesAreExplained == Spec => []DifferencesExplained
<1> QED BY StoreInvariant, ExplainedFromInv, PTL

\* repair, the removal of empty files and the cleaner leave the file that is being
\* recorded alone, unless the scan read it while it was open
\* (StoreProps!LiveFileSafe).
THEOREM LiveFileIsSafe == Spec => LiveFileSafe
<1> DEFINE Safe == (RepairFolder \/ RemoveEmpty \/ RemoveVictim) /\ open \in Present \ scannedOpen
                     => open \in DOMAIN disk'
<1>1. StoreInv /\ [Next]_vars => [Safe]_vars
  <2> SUFFICES ASSUME StoreInv, open \in Present \ scannedOpen,
                      RepairFolder \/ RemoveEmpty \/ RemoveVictim
               PROVE  open \in DOMAIN disk'
    OBVIOUS
  <2>0. /\ open \notin Names(folder) \cup {victim}
        /\ monPc = "stat" => monStat.name # open
        /\ open \in DOMAIN disk
    <3>1. open \in Name /\ NoName \notin Name
      BY NoNameIsNoName DEF StoreInv, DiskInv
    <3> QED BY <3>1 DEF StoreInv, OpenInv, Present
  <2>1. CASE RepairFolder
    <3>1. disk' = [n \in Present \ (Names(folder) \ Names(folder')) |-> disk[n]]
      BY <2>1, RepairFolderFacts
    <3> QED BY <2>0, <3>1 DEF Present
  <2>2. CASE RemoveEmpty
    BY <2>0, <2>2 DEF RemoveEmpty, Without, Present, noteVars
  <2>3. CASE RemoveVictim
    BY <2>0, <2>3 DEF RemoveVictim, Without, Present, noteVars
  <2> QED BY <2>1, <2>2, <2>3
<1> QED BY <1>1, StoreInvariant, PTL DEF Spec, LiveFileSafe
=============================================================================
