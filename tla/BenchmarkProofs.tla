-------------------------- MODULE BenchmarkProofs --------------------------
(* Theorems about the benchmark, for any modes, pictures and sizes.        *)
EXTENDS Benchmark, FiniteSetTheorems, TLAPS

\* Division, as \div rounds it.
LEMMA DivBounds ==
  ASSUME NEW n \in Nat, NEW d \in Nat \ {0}
  PROVE  /\ n \div d \in Nat
         /\ (n \div d) * d <= n
         /\ n < (n \div d) * d + d
<1>1. /\ n \div d \in Int /\ n % d \in 0 .. (d - 1)
      /\ n = d * (n \div d) + (n % d)
  BY Z3
<1> QED
  BY <1>1, Z3

\* What is scaled to h / e, at most b, and placed at the rounded rest, is
\* short of the edge b by nothing or by one.
LEMMA RoundedRest ==
  ASSUME NEW b \in Nat, NEW h \in Nat, NEW e \in Nat \ {0}, h <= b * e
  PROVE  /\ Rounded(b * e - h, e) \in Nat /\ Truncated(h, e) \in Nat
         /\ b - (Rounded(b * e - h, e) + Truncated(h, e)) \in {0, 1}
<1> DEFINE y == Rounded(b * e - h, e)
           q == Truncated(h, e)
           n == 2 * (b * e - h) + e
<1>1. b * e \in Nat /\ n \in Nat /\ 2 * e \in Nat \ {0}
  OBVIOUS
<1>2. q \in Nat /\ q * e <= h /\ h < q * e + e
  BY DivBounds DEF Truncated
<1>3. y \in Nat /\ y * (2 * e) <= n /\ n < y * (2 * e) + 2 * e
  <2> HIDE DEF n
  <2>1. /\ n \div (2 * e) \in Nat
        /\ (n \div (2 * e)) * (2 * e) <= n /\ n < (n \div (2 * e)) * (2 * e) + 2 * e
    BY <1>1, DivBounds
  <2> QED
    BY <2>1 DEF Rounded, n
<1> HIDE DEF y, q
<1>4. b - y - q \in {0, 1}
  <2>1. y * e \in Nat /\ q * e \in Nat /\ y * (2 * e) = 2 * (y * e)
    BY <1>2, <1>3
  <2>2. (b - y - q) * e = b * e - y * e - q * e
    BY <1>2, <1>3
  <2>3. -e <= 2 * ((b - y - q) * e) /\ 2 * ((b - y - q) * e) < 3 * e
    BY <1>1, <1>2, <1>3, <2>1, <2>2
  <2>4. \A s \in Int : -e <= 2 * (s * e) /\ 2 * (s * e) < 3 * e => s \in {0, 1}
    <3> SUFFICES ASSUME NEW s \in Int, -e <= 2 * (s * e), 2 * (s * e) < 3 * e
                 PROVE  s \in {0, 1}
      OBVIOUS
    <3>1. CASE s >= 2
      BY <3>1, Z3
    <3>2. CASE s <= -1
      BY <3>2, Z3
    <3> QED
      BY <3>1, <3>2
  <2> QED
    BY <1>2, <1>3, <2>3, <2>4
<1> QED
  BY <1>2, <1>3, <1>4 DEF y, q

(* Whatever the sizes of a foreground and of a background, the foreground  *)
(* is placed inside the background.                                        *)
THEOREM TransformInside ==
  ASSUME NEW bg \in Sizes, NEW fg \in Sizes
  PROVE  Inside(bg, Transform(bg, fg))
<1> DEFINE high == fg.rows > bg.rows
           d1 == IF high THEN fg.rows ELSE 1
           w1 == IF high THEN fg.cols * bg.rows ELSE fg.cols
           h1 == IF high THEN bg.rows ELSE fg.rows
           wide == w1 > bg.cols * d1
           w == IF wide THEN bg.cols ELSE w1
           d == IF wide THEN 1 ELSE d1
           h == IF wide THEN h1 * bg.cols * d1 ELSE h1
           e == IF wide THEN w1 ELSE 1
           at == Transform(bg, fg)
<1>1. /\ bg.cols \in Nat \ {0} /\ bg.rows \in Nat \ {0}
      /\ fg.cols \in Nat \ {0} /\ fg.rows \in Nat \ {0}
  BY BenchmarkAssumption DEF Sizes
<1>2. /\ d1 \in Nat \ {0} /\ w1 \in Nat \ {0} /\ h1 \in Nat \ {0} /\ h1 <= bg.rows
      /\ bg.cols * d1 \in Nat \ {0}
  <2>1. fg.cols * bg.rows \in Nat \ {0}
    BY <1>1, Z3
  <2>2. bg.cols * fg.rows \in Nat \ {0}
    BY <1>1, Z3
  <2> QED
    BY <1>1, <2>1, <2>2
<1>3. /\ at.x_offset = Rounded(bg.cols * d - w, d) \div 2
      /\ at.y_offset = Rounded(bg.rows * e - h, e)
      /\ at.cols = Truncated(w, d) /\ at.rows = Truncated(h, e)
  BY DEF Transform
<1> HIDE DEF high, d1, w1, h1, at
<1>4. w \in Nat /\ d \in Nat \ {0} /\ w <= bg.cols * d
  BY <1>1, <1>2
<1>5. h \in Nat /\ e \in Nat \ {0} /\ h <= bg.rows * e
  <2>1. CASE ~wide
    BY <1>1, <1>2, <2>1
  <2>2. CASE wide
    <3>1. h1 * bg.cols * d1 = h1 * (bg.cols * d1)
      BY <1>1, <1>2
    <3>2. \A k, a, b, c \in Nat : k <= b /\ a <= c => k * a <= b * c
      BY Z3
    <3> QED
      BY <1>1, <1>2, <2>2, <3>1, <3>2
  <2> QED
    BY <2>1, <2>2
<1> HIDE DEF w, d, h, e
<1>6. at.y_offset \in Nat /\ bg.rows - (at.y_offset + at.rows) \in {0, 1}
  <2>1. /\ Rounded(bg.rows * e - h, e) \in Nat
        /\ bg.rows - (Rounded(bg.rows * e - h, e) + Truncated(h, e)) \in {0, 1}
    BY <1>1, <1>5, RoundedRest
  <2> QED
    BY <1>3, <2>1
<1>7. PICK x \in Nat : /\ at.x_offset = x \div 2 /\ at.cols \in Nat
                       /\ bg.cols - (x + at.cols) \in {0, 1}
  <2>1. /\ Rounded(bg.cols * d - w, d) \in Nat /\ Truncated(w, d) \in Nat
        /\ bg.cols - (Rounded(bg.cols * d - w, d) + Truncated(w, d)) \in {0, 1}
    BY <1>1, <1>4, RoundedRest
  <2> QED
    BY <1>3, <2>1
<1>8. x \div 2 \in Nat /\ x - 2 * (x \div 2) \in {0, 1}
  BY <1>7
<1>9. LET right == bg.cols - (at.x_offset + at.cols)
      IN right >= 0 /\ right - at.x_offset \in 0 .. 2
  BY <1>1, <1>7, <1>8
<1> QED
  BY <1>6, <1>7, <1>8, <1>9 DEF Inside, at
-----------------------------------------------------------------------------
Composition == [truth : SUBSET Pixels, fits : BOOLEAN, fitting : BOOLEAN]

(* The loops are inside the pictures; the matters are those built and not  *)
(* yet deleted, those of the modes before, and then of the modes from, the *)
(* counter on; and what fits by its size is never what ends the process.   *)
Kept ==
  /\ pictures \in Seq(Composition)
  /\ \A k \in DOMAIN pictures : pictures[k].fitting => pictures[k].fits
Ready ==
  pc = "push" =>
    /\ placed.truth \in SUBSET Pixels
    /\ placed.fits \in BOOLEAN /\ placed.fitting \in BOOLEAN
    /\ placed.fitting => placed.fits
    /\ placed.at # Nothing => Inside(placed.bg, placed.at)
InLoops ==
  /\ mode \in Modes /\ picture \in Nat \ {0}
  /\ pc \in {"init", "score"} => picture \in DOMAIN pictures
  /\ pc \in {"compose", "push"} => mode = 1 /\ picture = 1
Built ==
  /\ pc = "init" => matters = {<<m, picture>> : m \in 1 .. (mode - 1)}
  /\ pc = "score" => matters = {<<m, picture>> : m \in mode .. NumModes}
  /\ pc \notin {"init", "score"} => matters = {}

BenchmarkInv == Kept /\ Ready /\ InLoops /\ Built /\ OnlyMisfitsExit

LEMMA InitBenchmark == Init => BenchmarkInv
  BY BenchmarkAssumption DEF Init, BenchmarkInv, Kept, Ready, InLoops, Built,
     OnlyMisfitsExit, Modes

LEMMA ComposeKept == BenchmarkInv /\ Compose => BenchmarkInv'
<1> SUFFICES ASSUME BenchmarkInv, Compose PROVE BenchmarkInv'
  OBVIOUS
<1>1. /\ UNCHANGED <<pictures, picture, mode, matters, up>>
      /\ pc = "compose" /\ pc' \in {"push", "failed"} /\ up
  BY DEF Compose, At, loops
<1>2. Ready'
  <2> SUFFICES ASSUME pc' = "push" PROVE Ready'
    BY DEF Ready
  <2>1. PICK bg \in Sizes, fg \in Sizes, mask \in Sizes, truth \in SUBSET Pixels :
          placed' = [bg |-> bg, at |-> IF fg = mask THEN Transform(bg, fg) ELSE Nothing,
                     truth |-> truth, fits |-> MaskSize(bg, fg, mask) = bg,
                     fitting |-> mask \in {bg, fg}]
    BY DEF Compose
  <2>2. Inside(bg, Transform(bg, fg))
    BY TransformInside
  <2> QED
    BY <2>1, <2>2 DEF Ready, MaskSize
<1> QED
  BY <1>1, <1>2 DEF BenchmarkInv, Kept, InLoops, Built, OnlyMisfitsExit

LEMMA PushKept == BenchmarkInv /\ Push => BenchmarkInv'
<1> SUFFICES ASSUME BenchmarkInv, Push PROVE BenchmarkInv'
  OBVIOUS
<1> DEFINE new == [truth |-> placed.truth, fits |-> placed.fits, fitting |-> placed.fitting]
<1>1. /\ new \in Composition /\ (new.fitting => new.fits)
      /\ pictures \in Seq(Composition) /\ pictures' = Append(pictures, new)
      /\ UNCHANGED <<picture, mode, matters, up>>
      /\ up /\ pc = "push" /\ pc' = "compose"
  BY DEF Push, At, loops, BenchmarkInv, Kept, Ready, Composition
<1> HIDE DEF new
<1>2. Kept'
  BY <1>1 DEF BenchmarkInv, Kept
<1> QED
  BY <1>1, <1>2 DEF BenchmarkInv, Ready, InLoops, Built, OnlyMisfitsExit

LEMMA LoopsKept ==
  BenchmarkInv /\ (Run \/ InitMatter \/ Score \/ AverageMode) => BenchmarkInv'
<1> SUFFICES ASSUME BenchmarkInv, Run \/ InitMatter \/ Score \/ AverageMode
             PROVE  BenchmarkInv'
  OBVIOUS
<1>1. /\ up /\ UNCHANGED <<pictures, up>> /\ pc' # "push"
      /\ mode \in 1 .. NumModes /\ NumModes \in Nat \ {0} /\ picture \in Nat \ {0}
      /\ DOMAIN pictures = 1 .. Len(pictures) /\ Len(pictures) \in Nat
  BY BenchmarkAssumption DEF Run, InitMatter, Score, AverageMode, NextMode, At,
     BenchmarkInv, Kept, InLoops, Modes
<1>2. Kept' /\ Ready' /\ OnlyMisfitsExit'
  BY <1>1 DEF BenchmarkInv, Kept, Ready, OnlyMisfitsExit
<1>3. CASE Run
  <2>1. pictures # <<>> => 1 \in DOMAIN pictures
    BY <1>1 DEF BenchmarkInv, Kept
  <2> QED
    BY <1>1, <1>2, <1>3, <2>1 DEF Run, At, loops, BenchmarkInv, InLoops, Built
<1>4. CASE InitMatter
  BY <1>1, <1>2, <1>4 DEF InitMatter, NextMode, At, BenchmarkInv, InLoops, Built, Modes
<1>5. CASE Score
  BY <1>1, <1>2, <1>5 DEF Score, NextMode, At, BenchmarkInv, InLoops, Built, Modes
<1>6. CASE AverageMode
  BY <1>1, <1>2, <1>6 DEF AverageMode, NextMode, At, BenchmarkInv, InLoops, Built, Modes
<1> QED
  BY <1>3, <1>4, <1>5, <1>6

LEMMA StepBenchmark == BenchmarkInv /\ [Next]_vars => BenchmarkInv'
<1> SUFFICES ASSUME BenchmarkInv, [Next]_vars PROVE BenchmarkInv'
  OBVIOUS
<1>1. CASE UNCHANGED vars
  BY <1>1 DEF vars, loops, BenchmarkInv, Kept, Ready, InLoops, Built, OnlyMisfitsExit
<1>2. CASE ScoreExits
  <2>1. picture \in DOMAIN pictures /\ ~pictures[picture].fitting
    BY <1>2 DEF ScoreExits, At, BenchmarkInv, Kept, InLoops
  <2> QED
    BY <1>2, <2>1 DEF ScoreExits, loops, BenchmarkInv, Kept, Ready, InLoops, Built,
                      OnlyMisfitsExit
<1>3. CASE Report
  BY <1>3 DEF Report, At, loops, BenchmarkInv, Kept, Ready, InLoops, Built, OnlyMisfitsExit
<1> QED
  BY <1>1, <1>2, <1>3, ComposeKept, PushKept, LoopsKept DEF Next

LEMMA BenchmarkInvHolds == Spec => []BenchmarkInv
  BY InitBenchmark, StepBenchmark, PTL DEF Spec

(* For files of any sizes, compose() writes inside the background only.    *)
THEOREM PlacesInside == Spec => []PlacedInside
<1>1. BenchmarkInv => PlacedInside
  BY DEF BenchmarkInv, Ready, PlacedInside, At
<1> QED
  BY <1>1, BenchmarkInvHolds, PTL

(* For any modes and pictures, run() deletes every matter it built, and    *)
(* those of one picture before it builds any of the next.                  *)
THEOREM MattersAreFreed == Spec => []MattersFreed
<1>1. BenchmarkInv => MattersFreed
  BY DEF BenchmarkInv, Built, MattersFreed
<1> QED
  BY <1>1, BenchmarkInvHolds, PTL

(* For any modes and pictures, the only masks that end the process have    *)
(* neither the size of their foreground nor that of their background.      *)
THEOREM ExitsForMisfits == Spec => []OnlyMisfitsExit
<1>1. BenchmarkInv => OnlyMisfitsExit
  BY DEF BenchmarkInv
<1> QED
  BY <1>1, BenchmarkInvHolds, PTL
-----------------------------------------------------------------------------
(* Averages, which a fold adds up: TLAPS has no induction to cite here, but *)
(* a set of numbers has a least element.                                    *)

\* A set of numbers that is not empty has a least element.
LEMMA Least ==
  ASSUME NEW T \in SUBSET Nat, T # {}
  PROVE  \E n \in T : \A k \in T : n <= k
<1> DEFINE R == {ss \in Nat \X Nat : ss[1] < ss[2]}
<1>1. IsWellFoundedOn(R, Nat)
  BY NatLessThanWellFounded DEF OpToRel
<1>2. \A k, n \in Nat : k < n => <<k, n>> \in R
  OBVIOUS
<1> HIDE DEF R
<1>3. PICK n \in T : \A k \in T : ~(<<k, n>> \in R)
  BY <1>1, WFMin
<1>4. n \in Nat /\ \A k \in T : k \in Nat /\ ~(k < n)
  BY <1>2, <1>3
<1>5. \A k \in T : n <= k
  BY <1>4
<1> QED
  BY <1>5

\* Induction, for the numbers up to some n that a set contains.
LEMMA UpTo ==
  ASSUME NEW n \in Nat, NEW P, 0 \in P, \A k \in 0 .. (n - 1) : k \in P => k + 1 \in P
  PROVE  \A k \in 0 .. n : k \in P
<1> DEFINE T == {k \in 0 .. n : k \notin P}
<1> SUFFICES ASSUME T # {} PROVE FALSE
  OBVIOUS
<1>1. T \in SUBSET Nat
  OBVIOUS
<1>2. PICK k \in T : \A i \in T : k <= i
  BY <1>1, Least
<1>3. k \in 0 .. n /\ k \notin P /\ k # 0
  BY <1>2
<1>4. k - 1 \in 0 .. (n - 1) /\ k - 1 \notin T /\ k = (k - 1) + 1
  BY <1>2, <1>3
<1>5. k - 1 \in P
  BY <1>4
<1> QED
  BY <1>3, <1>4, <1>5

\* One row of a fold over the numbers in s: g is the fold of what is left
\* of s without its greatest number.
Sum(g, s, scores) ==
  IF s = {} THEN Zero ELSE Plus(g[s \ {Max(s)}], scores[Max(s)].stats)

\* The function of FoldLeft that Average applies.
Sums(g, n, scores) == g = [s \in SUBSET (1 .. n) |-> Sum(g, s, scores)]

LEMMA GreatestIs ==
  ASSUME NEW n \in Nat, NEW s \in SUBSET (1 .. (n + 1)), n + 1 \in s
  PROVE  Max(s) = n + 1 /\ s \ {n + 1} \in SUBSET (1 .. n)
<1>1. \A i \in s : n + 1 >= i
  OBVIOUS
<1>2. \A i \in s : (\A j \in s : i >= j) => i = n + 1
  OBVIOUS
<1>3. Max(s) \in s /\ \A j \in s : Max(s) >= j
  BY <1>1 DEF Max
<1>4. s \ {n + 1} \subseteq 1 .. n
  OBVIOUS
<1> QED
  BY <1>2, <1>3, <1>4

\* There is such a function.
LEMMA SumsExist ==
  ASSUME NEW n \in Nat, NEW scores
  PROVE  \E g : Sums(g, n, scores)
<1> DEFINE P == {k \in Nat : \E g : Sums(g, k, scores)}
<1>1. 0 \in P
  <2> DEFINE g == [s \in SUBSET (1 .. 0) |-> Zero]
  <2>1. \A s \in SUBSET (1 .. 0) : s = {}
    OBVIOUS
  <2>2. g = [s \in SUBSET (1 .. 0) |-> Sum(g, s, scores)]
    BY <2>1 DEF Sum
  <2> QED
    BY <2>2 DEF Sums
<1>2. ASSUME NEW k \in 0 .. (n - 1), k \in P PROVE k + 1 \in P
  <2>1. PICK g : Sums(g, k, scores)
    BY <1>2
  <2> DEFINE h == [s \in SUBSET (1 .. (k + 1)) |->
                     IF k + 1 \in s THEN Plus(g[s \ {k + 1}], scores[k + 1].stats) ELSE g[s]]
  <2>2. ASSUME NEW s \in SUBSET (1 .. (k + 1)) PROVE h[s] = Sum(h, s, scores)
    <3>1. CASE k + 1 \in s
      <4>1. Max(s) = k + 1 /\ s \ {k + 1} \in SUBSET (1 .. k) /\ s # {}
        BY <3>1, GreatestIs
      <4>2. h[s \ {k + 1}] = g[s \ {k + 1}]
        BY <4>1
      <4> QED
        BY <3>1, <4>1, <4>2 DEF Sum
    <3>2. CASE k + 1 \notin s
      <4>1. s \in SUBSET (1 .. k)
        BY <3>2
      <4>2. g[s] = Sum(g, s, scores)
        BY <2>1, <4>1 DEF Sums
      <4>3. ASSUME NEW i PROVE h[s \ {i}] = g[s \ {i}]
        <5>1. s \ {i} \in SUBSET (1 .. (k + 1))
          OBVIOUS
        <5>2. k + 1 \notin s \ {i}
          BY <3>2
        <5> QED
          BY <5>1, <5>2
      <4>5. h[s] = g[s]
        BY <3>2
      <4> HIDE DEF h
      <4> QED
        BY <4>2, <4>3, <4>5 DEF Sum
    <3> QED
      BY <3>1, <3>2
  <2>3. Sums(h, k + 1, scores)
    BY <2>2 DEF Sums
  <2> QED
    BY <2>3
<1> HIDE DEF P
<1>3. n \in P
  BY <1>1, <1>2, UpTo
<1> QED
  BY <1>3 DEF P

\* Average is the sum of all, which adds the scores one by one.
LEMMA AverageSums ==
  ASSUME NEW n \in Nat, NEW scores, DOMAIN scores = 1 .. n
  PROVE  \E g : /\ Average(scores) = g[1 .. n]
                /\ g[1 .. 0] = Zero
                /\ \A k \in 0 .. (n - 1) :
                     g[1 .. (k + 1)] = Plus(g[1 .. k], scores[k + 1].stats)
<1> DEFINE g == CHOOSE f : Sums(f, n, scores)
<1>1. Average(scores) = g[1 .. n]
  BY DEF Average, FoldLeft, MapThenFoldSet, Sums, Sum
<1>2. Sums(g, n, scores)
  BY SumsExist
<1> HIDE DEF g
<1>3. g[1 .. 0] = Zero
  BY <1>2 DEF Sums, Sum
<1>4. ASSUME NEW k \in 0 .. (n - 1)
      PROVE  g[1 .. (k + 1)] = Plus(g[1 .. k], scores[k + 1].stats)
  <2>1. /\ 1 .. (k + 1) \in SUBSET (1 .. n) /\ k + 1 \in 1 .. (k + 1)
        /\ (1 .. (k + 1)) \ {k + 1} = 1 .. k
    OBVIOUS
  <2>2. Max(1 .. (k + 1)) = k + 1
    BY <2>1, GreatestIs
  <2> QED
    BY <1>2, <2>1, <2>2 DEF Sums, Sum
<1> QED
  BY <1>1, <1>3, <1>4

\* The pixels of the pictures up to k that are, and are taken for, what o says.
Hits(k, o, scores, truth) ==
  {kp \in (1 .. k) \X Pixels : o = <<kp[2] \in truth[kp[1]], kp[2] \in scores[kp[1]].predicted>>}

LEMMA HitsAdded ==
  ASSUME NEW k \in Nat, NEW o, NEW scores, NEW truth, IsFiniteSet(Hits(k, o, scores, truth)),
         scores[k + 1].stats = Difference(scores[k + 1].predicted, truth[k + 1]), o \in Outcomes
  PROVE  /\ IsFiniteSet(Hits(k + 1, o, scores, truth))
         /\ Cardinality(Hits(k + 1, o, scores, truth)) =
              Cardinality(Hits(k, o, scores, truth)) + scores[k + 1].stats[o]
<1> DEFINE H == Hits(k, o, scores, truth)
           D == {p \in Pixels : <<p \in truth[k + 1], p \in scores[k + 1].predicted>> = o}
<1>1. Hits(k + 1, o, scores, truth) = H \cup ({k + 1} \X D)
  BY DEF Hits
<1>2. H \cap ({k + 1} \X D) = {}
  BY DEF Hits
<1>3. IsFiniteSet(D) /\ scores[k + 1].stats[o] = Cardinality(D)
  BY FS_Subset, BenchmarkAssumption DEF Difference
<1> HIDE DEF H, D
<1>4. IsFiniteSet({k + 1}) /\ Cardinality({k + 1}) = 1
  BY FS_Singleton
<1>5. /\ IsFiniteSet({k + 1} \X D)
      /\ Cardinality({k + 1} \X D) = Cardinality({k + 1}) * Cardinality(D)
  BY <1>3, <1>4, FS_Product
<1>6. /\ IsFiniteSet(H \cup ({k + 1} \X D))
      /\ Cardinality(H \cup ({k + 1} \X D)) =
           Cardinality(H) + Cardinality({k + 1} \X D) - Cardinality(H \cap ({k + 1} \X D))
  BY <1>5, FS_Union DEF H
<1>7. Cardinality({}) = 0 /\ Cardinality(H) \in Nat /\ Cardinality(D) \in Nat
  BY <1>3, FS_EmptySet, FS_CardinalityType DEF H
<1>8. \A i, j \in Nat : i = 1 => i * j = j
  OBVIOUS
<1>9. Cardinality({k + 1} \X D) = Cardinality(D)
  BY <1>4, <1>5, <1>7, <1>8
<1>10. Cardinality(H \cap ({k + 1} \X D)) = 0
  BY <1>2, <1>7, Zenon
<1>11. Cardinality(H \cup ({k + 1} \X D)) = Cardinality(H) + Cardinality(D)
  BY <1>6, <1>7, <1>9, <1>10
<1> QED
  BY <1>1, <1>3, <1>6, <1>11 DEF H

\* The average of scores against the true masks counts every pixel once.
LEMMA AverageCounted ==
  ASSUME NEW n \in Nat, NEW scores, DOMAIN scores = 1 .. n, NEW truth,
         \A k \in 1 .. n : scores[k].stats = Difference(scores[k].predicted, truth[k])
  PROVE  /\ Average(scores) \in [Outcomes -> Nat]
         /\ \A o \in Outcomes :
              Average(scores)[o] = Cardinality(Hits(n, o, scores, truth))
<1>1. PICK g : /\ Average(scores) = g[1 .. n]
               /\ g[1 .. 0] = Zero
               /\ \A k \in 0 .. (n - 1) :
                    g[1 .. (k + 1)] = Plus(g[1 .. k], scores[k + 1].stats)
  BY AverageSums
<1> DEFINE P == {k \in 0 .. n :
                   /\ g[1 .. k] \in [Outcomes -> Nat]
                   /\ \A o \in Outcomes :
                        /\ IsFiniteSet(Hits(k, o, scores, truth))
                        /\ g[1 .. k][o] = Cardinality(Hits(k, o, scores, truth))}
<1>2. 0 \in P
  <2>1. \A o : Hits(0, o, scores, truth) = {}
    BY DEF Hits
  <2>2. g[1 .. 0] \in [Outcomes -> Nat] /\ \A o \in Outcomes : g[1 .. 0][o] = 0
    BY <1>1 DEF Zero
  <2>3. IsFiniteSet({}) /\ Cardinality({}) = 0
    BY FS_EmptySet
  <2>4. ASSUME NEW o \in Outcomes
        PROVE  /\ IsFiniteSet(Hits(0, o, scores, truth))
               /\ g[1 .. 0][o] = Cardinality(Hits(0, o, scores, truth))
    BY <2>1, <2>2, <2>3, Zenon
  <2> QED
    BY <2>2, <2>4
<1>3. ASSUME NEW k \in 0 .. (n - 1), k \in P PROVE k + 1 \in P
  <2>1. k + 1 \in 1 .. n /\ k \in Nat
    OBVIOUS
  <2>2. ASSUME NEW o \in Outcomes
        PROVE  /\ IsFiniteSet(Hits(k + 1, o, scores, truth))
               /\ Cardinality(Hits(k + 1, o, scores, truth)) =
                    g[1 .. k][o] + scores[k + 1].stats[o]
    BY <1>3, <2>1, HitsAdded
  <2>3. g[1 .. (k + 1)] = [o \in Outcomes |-> g[1 .. k][o] + scores[k + 1].stats[o]]
    BY <1>1 DEF Plus
  <2>4. \A o \in Outcomes : g[1 .. (k + 1)][o] \in Nat
    BY <2>2, <2>3, FS_CardinalityType
  <2> QED
    BY <2>1, <2>2, <2>3, <2>4
<1> HIDE DEF P
<1>4. \A k \in 0 .. (n - 1) : k \in P => k + 1 \in P
  BY <1>3
<1>5. \A k \in 0 .. n : k \in P
  BY <1>2, <1>4, UpTo
<1>6. n \in P
  BY <1>5
<1> QED
  BY <1>1, <1>6 DEF P
-----------------------------------------------------------------------------
(* What run() has scored: each row has a score for each picture so far,    *)
(* made against the mask of that picture, and the last one an average of   *)
(* the row of each mode so far.                                            *)
Bounds ==
  /\ Len(pictures) <= MaxPictures /\ (pc = "push" => Len(pictures) < MaxPictures)
  /\ picture <= Len(pictures) + 1
Scored(m) ==
  IF pc = "init" THEN picture - 1
  ELSE IF pc = "score" THEN IF m < mode THEN picture ELSE picture - 1
  ELSE IF pc \in {"average", "report", "done"} THEN Len(pictures) ELSE 0
Averaged ==
  IF pc = "average" THEN mode - 1 ELSE IF pc \in {"report", "done"} THEN NumModes ELSE 0
Rows ==
  \A m \in Modes :
    /\ Len(result[m]) = Scored(m)
    /\ \A k \in DOMAIN result[m] :
         result[m][k].stats = Difference(result[m][k].predicted, pictures[k].truth)
AverageRow ==
  /\ Len(result[Averages]) = Averaged
  /\ \A m \in DOMAIN result[Averages] : result[Averages][m].stats = Average(result[m])

RowsInv ==
  /\ Bounds /\ Rows /\ AverageRow
  /\ result \in [1 .. Averages -> Scores]
  /\ reported \in [Modes -> Seq([Outcomes -> Nat])]
  /\ up \in BOOLEAN
  /\ pc \in {"compose", "push", "init", "score", "average", "report", "done", "failed"}

AScore == [predicted : SUBSET Pixels, stats : [Outcomes -> Nat]]

\* A score is added to one row of the results.
LEMMA RowAppended ==
  ASSUME result \in [1 .. Averages -> Scores], NEW r \in 1 .. Averages, NEW new \in AScore,
         result' = [result EXCEPT ![r] = Append(@, new)]
  PROVE  /\ result' \in [1 .. Averages -> Scores]
         /\ \A m \in 1 .. Averages : m # r => result'[m] = result[m]
         /\ Len(result[r]) \in Nat /\ DOMAIN result[r] = 1 .. Len(result[r])
         /\ Len(result'[r]) = Len(result[r]) + 1
         /\ DOMAIN result'[r] = 1 .. (Len(result[r]) + 1)
         /\ result'[r][Len(result[r]) + 1] = new
         /\ \A k \in DOMAIN result[r] : result'[r][k] = result[r][k]
<1> DEFINE row == result[r]
           more == Append(row, new)
<1>1. Scores = Seq(AScore)
  BY DEF Scores, AScore
<1>2. row \in Seq(AScore)
  BY <1>1
<1>3. /\ more \in Seq(AScore) /\ Len(row) \in Nat /\ DOMAIN row = 1 .. Len(row)
      /\ Len(more) = Len(row) + 1 /\ DOMAIN more = 1 .. (Len(row) + 1)
      /\ more[Len(row) + 1] = new /\ \A k \in DOMAIN row : more[k] = row[k]
  <2> HIDE DEF row
  <2> QED
    BY <1>2
<1>4. UNCHANGED Averages
  BY DEF Averages
<1> HIDE DEF more
<1>5. result' = [result EXCEPT ![r] = more]
  BY DEF more
<1>6. result' \in [1 .. Averages -> Scores] /\ result'[r] = more
  BY <1>1, <1>3, <1>5
<1> QED
  BY <1>3, <1>5, <1>6

LEMMA InitRows == Init => RowsInv
<1> SUFFICES ASSUME Init PROVE RowsInv
  OBVIOUS
<1>1. NumModes \in Nat \ {0} /\ Modes \subseteq 1 .. Averages /\ Averages \in 1 .. Averages
  BY BenchmarkAssumption DEF Modes, Averages
<1>2. \A m \in 1 .. Averages : result[m] = <<>>
  BY DEF Init
<1> QED
  BY <1>1, <1>2, BenchmarkAssumption DEF Init, RowsInv, Bounds, Rows, AverageRow, Scored,
     Averaged, Scores

\* The average of each mode so far counts the pixels of its row.
LEMMA RowCounted ==
  ASSUME BenchmarkInv, RowsInv, NEW m \in Modes, Len(result[m]) = Len(pictures)
  PROVE  /\ Average(result[m]) \in [Outcomes -> Nat]
         /\ \A o \in Outcomes :
              Average(result[m])[o] =
                Cardinality({kp \in (DOMAIN pictures) \X Pixels :
                  o = <<kp[2] \in pictures[kp[1]].truth, kp[2] \in result[m][kp[1]].predicted>>})
<1> DEFINE n == Len(pictures)
           truth == [k \in 1 .. n |-> pictures[k].truth]
<1>1. m \in 1 .. Averages /\ result[m] \in Scores
  BY BenchmarkAssumption DEF Modes, Averages, RowsInv
<1>2. n \in Nat /\ DOMAIN pictures = 1 .. n /\ DOMAIN result[m] = 1 .. n
  BY <1>1 DEF BenchmarkInv, Kept, Scores
<1>3. \A k \in 1 .. n :
        /\ truth[k] = pictures[k].truth
        /\ result[m][k].stats = Difference(result[m][k].predicted, truth[k])
  BY <1>2 DEF RowsInv, Rows
<1> HIDE DEF n, truth
<1>4. /\ Average(result[m]) \in [Outcomes -> Nat]
      /\ \A o \in Outcomes :
           Average(result[m])[o] = Cardinality(Hits(n, o, result[m], truth))
  BY <1>2, <1>3, AverageCounted
<1>5. \A o : Hits(n, o, result[m], truth) =
        {kp \in (DOMAIN pictures) \X Pixels :
           o = <<kp[2] \in pictures[kp[1]].truth, kp[2] \in result[m][kp[1]].predicted>>}
  BY <1>2, <1>3 DEF Hits
<1> QED
  BY <1>4, <1>5, Zenon

LEMMA ScoreRows == BenchmarkInv /\ RowsInv /\ Score => RowsInv'
<1> SUFFICES ASSUME BenchmarkInv, RowsInv, Score PROVE RowsInv'
  OBVIOUS
<1>1. PICK predicted \in SUBSET Pixels :
        result' = [result EXCEPT ![mode] = Append(@,
          [predicted |-> predicted, stats |-> Difference(predicted, pictures[picture].truth)])]
  BY DEF Score
<1> DEFINE new == [predicted |-> predicted,
                   stats |-> Difference(predicted, pictures[picture].truth)]
<1>2. /\ UNCHANGED <<pictures, reported, up>> /\ pc = "score"
      /\ NumModes \in Nat \ {0} /\ mode \in 1 .. NumModes
      /\ Len(pictures) \in Nat /\ picture \in 1 .. Len(pictures)
      /\ Modes \subseteq 1 .. Averages /\ Averages \in 1 .. Averages /\ Averages \notin Modes
      /\ Modes = 1 .. NumModes
  BY BenchmarkAssumption DEF Score, At, BenchmarkInv, Kept, InLoops, Modes, Averages
<1>3. new \in AScore
  <2>1. \A o \in Outcomes : new.stats[o] \in Nat
    BY BenchmarkAssumption, FS_Subset, FS_CardinalityType DEF Difference
  <2> QED
    BY <2>1 DEF Difference, AScore
<1>4. /\ result \in [1 .. Averages -> Scores]
      /\ result' = [result EXCEPT ![mode] = Append(@, new)]
  BY <1>1 DEF RowsInv
<1>4a. new.stats = Difference(new.predicted, pictures[picture].truth)
  OBVIOUS
<1> HIDE DEF new
<1>5. /\ result' \in [1 .. Averages -> Scores]
      /\ \A m \in 1 .. Averages : m # mode => result'[m] = result[m]
      /\ Len(result[mode]) \in Nat /\ Len(result'[mode]) = Len(result[mode]) + 1
      /\ DOMAIN result'[mode] = 1 .. (Len(result[mode]) + 1)
      /\ result'[mode][Len(result[mode]) + 1] = new
      /\ DOMAIN result[mode] = 1 .. Len(result[mode])
      /\ \A k \in DOMAIN result[mode] : result'[mode][k] = result[mode][k]
  BY <1>2, <1>3, <1>4, RowAppended
<1>6. /\ Len(result[mode]) = picture - 1
      /\ \A m \in Modes : Len(result[m]) = IF m < mode THEN picture ELSE picture - 1
  BY <1>2 DEF RowsInv, Rows, Scored
<1>7. \A m \in Modes : \A k \in DOMAIN result'[m] :
        result'[m][k].stats = Difference(result'[m][k].predicted, pictures[k].truth)
  <2> TAKE m \in Modes
  <2>1. CASE m = mode
    <3>1. Len(result[mode]) + 1 = picture
      BY <1>2, <1>6
    <3>2. \A k \in DOMAIN result[mode] :
            result[mode][k].stats = Difference(result[mode][k].predicted, pictures[k].truth)
      BY <1>2 DEF RowsInv, Rows
    <3>3. \A k \in DOMAIN result'[mode] : k = picture \/ k \in DOMAIN result[mode]
      BY <1>2, <1>5, <3>1
    <3> QED
      BY <1>4a, <1>5, <2>1, <3>1, <3>2, <3>3
  <2>2. CASE m # mode
    BY <1>2, <1>5, <2>2 DEF RowsInv, Rows
  <2> QED
    BY <2>1, <2>2
<1>8. \A m \in Modes : Len(result'[m]) = Scored(m)'
  <2>1. CASE mode < NumModes
    BY <1>2, <1>5, <1>6, <2>1 DEF Score, NextMode, Scored
  <2>2. CASE ~(mode < NumModes)
    <3>1. mode = NumModes /\ mode' = 1 /\ picture' = picture + 1
          /\ pc' = IF picture < Len(pictures) THEN "init" ELSE "average"
      BY <1>2, <2>2 DEF Score, NextMode
    <3>2. ASSUME NEW m \in Modes PROVE Len(result'[m]) = picture
      <4>1. CASE m = mode
        BY <1>2, <1>5, <1>6, <4>1
      <4>2. CASE m # mode
        <5>1. m < mode /\ m \in 1 .. Averages
          BY <1>2, <3>1, <4>2
        <5> QED
          BY <1>5, <1>6, <4>2, <5>1
      <4> QED
        BY <4>1, <4>2
    <3>3. pc' = "init" => picture' - 1 = picture
      BY <1>2, <3>1
    <3>4. pc' = "average" => Len(pictures') = picture
      BY <1>2, <3>1
    <3>5. \A m : Scored(m)' = picture
      BY <3>1, <3>3, <3>4 DEF Scored
    <3> QED
      BY <3>2, <3>5
  <2> QED
    BY <2>1, <2>2
<1>9. AverageRow'
  <2>1. Len(result[Averages]) = 0 /\ DOMAIN result[Averages] = {}
    BY <1>2, <1>4 DEF RowsInv, AverageRow, Averaged, Scores
  <2>2. Averaged' = 0
    BY <1>2 DEF Score, NextMode, Averaged
  <2>3. result'[Averages] = result[Averages]
    BY <1>2, <1>5
  <2>4. UNCHANGED Averages
    BY DEF Averages
  <2> QED
    BY <2>1, <2>2, <2>3, <2>4 DEF AverageRow
<1>10. Bounds' /\ pc' \in {"score", "init", "average"}
  BY <1>2 DEF Score, NextMode, RowsInv, Bounds
<1> QED
  BY <1>2, <1>5, <1>7, <1>8, <1>9, <1>10 DEF RowsInv, Rows

LEMMA AverageRows == BenchmarkInv /\ RowsInv /\ AverageMode => RowsInv'
<1> SUFFICES ASSUME BenchmarkInv, RowsInv, AverageMode PROVE RowsInv'
  OBVIOUS
<1> DEFINE new == [predicted |-> {}, stats |-> Average(result[mode])]
<1>1. /\ UNCHANGED <<pictures, picture, reported, up>> /\ pc = "average"
      /\ NumModes \in Nat \ {0} /\ mode \in 1 .. NumModes
      /\ Len(pictures) \in Nat /\ picture \in Nat
      /\ Modes \subseteq 1 .. Averages /\ Averages \in 1 .. Averages /\ Averages \notin Modes
      /\ Modes = 1 .. NumModes
  BY BenchmarkAssumption DEF AverageMode, At, BenchmarkInv, Kept, InLoops, Modes, Averages
<1>2. /\ pc' \in {"average", "report"}
      /\ Averaged' = Averaged + 1 /\ Averaged = mode - 1
  BY <1>1 DEF AverageMode, NextMode, Averaged
<1>3. new \in AScore
  <2>1. Len(result[mode]) = Len(pictures)
    BY <1>1 DEF RowsInv, Rows, Scored
  <2> QED
    BY <1>1, <2>1, RowCounted DEF AScore
<1>4. /\ result \in [1 .. Averages -> Scores]
      /\ result' = [result EXCEPT ![Averages] = Append(@, new)]
      /\ new.stats = Average(result[mode])
  BY DEF RowsInv, AverageMode
<1> HIDE DEF new
<1>5. /\ result' \in [1 .. Averages -> Scores]
      /\ \A m \in Modes : result'[m] = result[m]
      /\ Len(result[Averages]) \in Nat /\ Len(result'[Averages]) = Len(result[Averages]) + 1
      /\ DOMAIN result'[Averages] = 1 .. (Len(result[Averages]) + 1)
      /\ result'[Averages][Len(result[Averages]) + 1] = new
      /\ DOMAIN result[Averages] = 1 .. Len(result[Averages])
      /\ \A k \in DOMAIN result[Averages] : result'[Averages][k] = result[Averages][k]
  BY <1>1, <1>3, <1>4, RowAppended
<1>6. Rows'
  BY <1>1, <1>2, <1>5 DEF RowsInv, Rows, Scored
<1>7. AverageRow'
  <2>1. Len(result[Averages]) = mode - 1 /\ Len(result'[Averages]) = Averaged'
    BY <1>1, <1>2, <1>5 DEF RowsInv, AverageRow
  <2>2. ASSUME NEW m \in DOMAIN result'[Averages]
        PROVE  result'[Averages][m].stats = Average(result'[m])
    <3>1. m \in Modes /\ m \in 1 .. mode /\ result'[m] = result[m]
      BY <1>1, <1>5, <2>1
    <3>2. CASE m = mode
      BY <1>4, <1>5, <2>1, <3>1, <3>2
    <3>3. CASE m # mode
      <4>1. m \in DOMAIN result[Averages]
        BY <1>1, <1>5, <2>1, <3>1, <3>3
      <4> QED
        BY <1>5, <3>1, <4>1 DEF RowsInv, AverageRow
    <3> QED
      BY <3>2, <3>3
  <2>3. UNCHANGED Averages
    BY DEF Averages
  <2> QED
    BY <2>1, <2>2, <2>3 DEF AverageRow
<1> QED
  BY <1>1, <1>2, <1>5, <1>6, <1>7 DEF RowsInv, Bounds

LEMMA ReportRows == BenchmarkInv /\ RowsInv /\ Report => RowsInv'
<1> SUFFICES ASSUME BenchmarkInv, RowsInv, Report PROVE RowsInv'
  OBVIOUS
<1>1. /\ UNCHANGED <<pictures, picture, mode, result>> /\ pc = "report" /\ pc' = "done"
      /\ up' \in BOOLEAN
  BY DEF Report, At, loops, RowsInv
<1>2. Bounds' /\ Rows' /\ AverageRow'
  BY <1>1 DEF RowsInv, Bounds, Rows, Scored, AverageRow, Averaged
<1>3. reported' \in [Modes -> Seq([Outcomes -> Nat])]
  <2>1. CASE pictures = <<>>
    BY <2>1 DEF Report, RowsInv
  <2>2. CASE pictures # <<>>
    <3>1. Len(pictures) \in Nat \ {0}
      BY <2>2 DEF BenchmarkInv, Kept
    <3>2. ASSUME NEW m \in Modes PROVE Last(result[m]).stats \in [Outcomes -> Nat]
      <4>1. m \in 1 .. Averages /\ Len(result[m]) = Len(pictures)
        BY <1>1, BenchmarkAssumption DEF Modes, Averages, RowsInv, Rows, Scored
      <4>2. result[m] \in Seq(AScore)
        BY <4>1 DEF RowsInv, Scores, AScore
      <4>3. result[m][Len(result[m])] \in AScore
        BY <3>1, <4>1, <4>2
      <4> QED
        BY <4>3 DEF Last, AScore
    <3>3. \A S, x : x \in S => <<x>> \in Seq(S)
      OBVIOUS
    <3>4. reported' = [m \in Modes |-> <<Last(result[m]).stats>>]
      BY <2>2 DEF Report
    <3> QED
      BY <3>2, <3>3, <3>4
  <2> QED
    BY <2>1, <2>2
<1> QED
  BY <1>1, <1>2, <1>3 DEF RowsInv

LEMMA StepRows == BenchmarkInv /\ RowsInv /\ [Next]_vars => RowsInv'
<1> SUFFICES ASSUME BenchmarkInv, RowsInv, [Next]_vars PROVE RowsInv'
  OBVIOUS
<1> USE DEF RowsInv, Bounds, Rows, AverageRow, Scored, Averaged
<1>0. Len(pictures) \in Nat /\ NumModes \in Nat \ {0} /\ MaxPictures \in Nat
  BY BenchmarkAssumption DEF BenchmarkInv, Kept
<1>1. CASE UNCHANGED vars
  BY <1>1 DEF vars, loops, results
<1>2. CASE ScoreExits
  BY <1>2 DEF ScoreExits, loops, results
<1>3. CASE Compose
  BY <1>0, <1>3 DEF Compose, At, loops, results
<1>4. CASE Push
  <2>1. Len(pictures') = Len(pictures) + 1 /\ UNCHANGED <<picture, mode, result, reported, up>>
        /\ pc = "push" /\ pc' = "compose" /\ picture = 1 /\ Len(pictures) < MaxPictures
    BY <1>4 DEF Push, At, loops, results, BenchmarkInv, Kept, InLoops
  <2>2. \A m \in Modes : DOMAIN result[m] = {}
    <3> TAKE m \in Modes
    <3>1. m \in 1 .. Averages /\ result[m] \in Scores /\ Len(result[m]) = 0
      BY <2>1, BenchmarkAssumption DEF Modes, Averages
    <3> QED
      BY <3>1 DEF Scores
  <2>3. Rows' /\ AverageRow' /\ Bounds'
    BY <1>0, <2>1, <2>2
  <2> QED
    BY <2>1, <2>3
<1>5. CASE Run
  <2>1. /\ UNCHANGED <<pictures, picture, mode, result, reported, up>>
        /\ pc = "compose" /\ mode = 1 /\ picture = 1
        /\ pc' \in {"average", "init", "failed"} /\ (pc' = "average" => Len(pictures) = 0)
    BY <1>5 DEF Run, At, loops, results, BenchmarkInv, InLoops
  <2>2. Averaged' = Averaged /\ \A m : Scored(m)' = Scored(m)
    BY <1>0, <2>1
  <2>3. UNCHANGED <<Averages, Modes>>
    BY DEF Averages, Modes
  <2>4. Bounds' /\ Rows' /\ AverageRow'
    <3> HIDE DEF Scored, Averaged
    <3> QED
      BY <1>0, <2>1, <2>2, <2>3
  <2>5. /\ result' \in [1 .. Averages -> Scores] /\ up' \in BOOLEAN
        /\ reported' \in [Modes -> Seq([Outcomes -> Nat])]
    BY <2>1
  <2> HIDE DEF Bounds, Rows, AverageRow
  <2> QED
    BY <2>1, <2>4, <2>5
<1>6. CASE InitMatter
  <2>1. /\ UNCHANGED <<pictures, picture, result, reported, up>>
        /\ pc = "init" /\ (pc' = "init" \/ (pc' = "score" /\ mode' = 1))
    BY <1>6 DEF InitMatter, NextMode, At, results
  <2>2. Averaged' = Averaged /\ \A m \in Modes : Scored(m)' = Scored(m)
    <3>1. Averaged' = 0 /\ Averaged = 0 /\ \A m : Scored(m) = picture - 1
      BY <2>1
    <3>2. \A m \in Modes : ~(m < 1)
      BY DEF Modes
    <3>3. \A m \in Modes : Scored(m)' = picture - 1
      BY <2>1, <3>2
    <3> QED
      BY <3>1, <3>3
  <2>3. Bounds' /\ Rows' /\ AverageRow'
    <3>1. UNCHANGED <<Averages, Modes>>
      BY DEF Averages, Modes
    <3> HIDE DEF Scored, Averaged
    <3> QED
      BY <1>0, <2>1, <2>2, <3>1
  <2>4. /\ result' \in [1 .. Averages -> Scores] /\ up' \in BOOLEAN
        /\ reported' \in [Modes -> Seq([Outcomes -> Nat])]
    BY <2>1
  <2> HIDE DEF Bounds, Rows, AverageRow
  <2> QED
    BY <2>1, <2>3, <2>4
<1> QED
  BY <1>1, <1>2, <1>3, <1>4, <1>5, <1>6, ScoreRows, AverageRows, ReportRows DEF Next

LEMMA RowsInvHolds == Spec => [](BenchmarkInv /\ RowsInv)
<1>1. BenchmarkInv /\ RowsInv /\ [Next]_vars => (BenchmarkInv /\ RowsInv)'
  BY StepBenchmark, StepRows
<1> QED
  BY <1>1, InitBenchmark, InitRows, PTL DEF Spec

(* The counters stay inside the pictures and the modes, and every score is *)
(* a matrix of counts, for any of them.                                    *)
THEOREM BenchmarkTypes == Spec => []TypeOK
<1>1. BenchmarkInv /\ RowsInv => TypeOK
  <2> SUFFICES ASSUME BenchmarkInv, RowsInv PROVE TypeOK
    OBVIOUS
  <2>1. matters \subseteq Modes \X (DOMAIN pictures)
    BY BenchmarkAssumption DEF BenchmarkInv, InLoops, Built, Modes
  <2> QED
    <3>1. \A k \in DOMAIN pictures : pictures[k] \in Composition
      BY DEF BenchmarkInv, Kept
    <3>2. picture \in 1 .. Len(pictures) + 1 /\ mode \in Modes
      BY DEF BenchmarkInv, Kept, InLoops, RowsInv, Bounds
    <3> QED
      BY <2>1, <3>1, <3>2 DEF TypeOK, RowsInv, Bounds, Composition
<1> QED
  BY <1>1, RowsInvHolds, PTL

(* For any modes, pictures and pixels, what run() says a mode is worth     *)
(* counts each pixel of each picture once, against the mask of that very   *)
(* picture.                                                                *)
THEOREM AveragesCount == Spec => []AverageCounts
<1>1. BenchmarkInv /\ RowsInv => AverageCounts
  <2> SUFFICES ASSUME BenchmarkInv, RowsInv, pc \in {"report", "done"}, NEW m \in Modes
               PROVE  /\ Average(result[m]) = result[Averages][m].stats
                      /\ Len(result[m]) = Len(pictures)
    BY RowCounted DEF AverageCounts
  <2>1. Len(result[Averages]) = NumModes /\ result[Averages] \in Scores
    BY BenchmarkAssumption DEF RowsInv, AverageRow, Averaged, Averages
  <2>2. m \in DOMAIN result[Averages]
    BY <2>1 DEF Modes, Scores
  <2> QED
    BY <2>2 DEF RowsInv, AverageRow, Rows, Scored
<1> QED
  BY <1>1, RowsInvHolds, PTL
=============================================================================
