----------------------------- MODULE Benchmark -----------------------------
(***************************************************************************)
(* GET /matters/benchmark: Benchmark, Compositor, Scorer, ConfusionMatrix  *)
(* and BenchmarkResults.  Foregrounds are placed on backgrounds, every     *)
(* matter is run on the compositions, and its masks are scored against the *)
(* true ones.  A mask is the set of its foreground pixels; the run times   *)
(* are left out.  Sizes are scaled exactly, in the program with doubles.   *)
(***************************************************************************)
EXTENDS Integers, Sequences, FiniteSets, SequencesExt

CONSTANTS
  NumModes,     \* MatterModes::num_modes
  Pixels,       \* the pixels of a composition
  Sides,        \* the rows and the columns a file may have
  MaxPictures   \* the most files the directories hold

ASSUME BenchmarkAssumption ==
  /\ NumModes \in Nat \ {0}
  /\ IsFiniteSet(Pixels)
  /\ Sides \subseteq Nat \ {0}
  /\ MaxPictures \in Nat

VARIABLES
  pictures,  \* the compositions and their masks
  placed,    \* what compose() has just placed, or Nothing
  picture,   \* the counter i of run()
  mode,      \* the counter j of run()
  matters,   \* the matters there are: <<their mode, their picture>>
  result,    \* result[m]: the scores of mode m; the last one: the averages
  reported,  \* BenchmarkResults::results
  up,        \* the process, the server included, has not exited
  pc         \* where the handler is

loops == <<picture, mode, matters>>
results == <<result, reported>>
vars == <<pictures, placed, loops, results, up, pc>>
-----------------------------------------------------------------------------
Modes == 1 .. NumModes
Averages == NumModes + 1

Sizes == [cols : Sides, rows : Sides]
Nothing == [bg |-> 0, at |-> 0]
At(s) == up /\ pc = s

(* A confusion matrix: the number of pixels by <<what they are, what they  *)
(* are taken for>>, TRUE being the foreground.                             *)
Outcomes == BOOLEAN \X BOOLEAN
Zero == [o \in Outcomes |-> 0]
Plus(m, n) == [o \in Outcomes |-> m[o] + n[o]]

\* Scorer::difference.
Difference(predicted, truth) ==
  [o \in Outcomes |-> Cardinality({p \in Pixels : <<p \in truth, p \in predicted>> = o})]

\* Mutant of Average: the first matrix is counted twice.
AverageFirstTwice(scores) ==
  FoldLeft(LAMBDA m, s : Plus(m, s.stats), IF scores = <<>> THEN Zero ELSE scores[1].stats, scores)

\* ConfusionMatrix::average, which adds up.
Average(scores) == FoldLeft(LAMBDA m, s : Plus(m, s.stats), Zero, scores)

\* round() and int() of n / d, for a number that is not negative.
Rounded(n, d) == (2 * n + d) \div (2 * d)
Truncated(n, d) == n \div d

\* Mutant of Transform: the width is not scaled with the height.
TransformHeightOnly(bg, fg) ==
  [x_offset |-> Rounded(bg.cols - fg.cols, 1) \div 2,
   y_offset |-> bg.rows - (IF fg.rows > bg.rows THEN bg.rows ELSE fg.rows),
   cols |-> fg.cols, rows |-> IF fg.rows > bg.rows THEN bg.rows ELSE fg.rows]

(* calculate_foreground_transform: a foreground too high, and then one too *)
(* wide, is scaled down; it stands on the bottom edge, in the middle.  The *)
(* width is w / d, the height h / e.                                       *)
Transform(bg, fg) ==
  LET high == fg.rows > bg.rows
      d1 == IF high THEN fg.rows ELSE 1
      w1 == IF high THEN fg.cols * bg.rows ELSE fg.cols
      h1 == IF high THEN bg.rows ELSE fg.rows
      wide == w1 > bg.cols * d1
      w == IF wide THEN bg.cols ELSE w1
      d == IF wide THEN 1 ELSE d1
      h == IF wide THEN h1 * bg.cols * d1 ELSE h1
      e == IF wide THEN w1 ELSE 1
  IN [x_offset |-> Rounded(bg.cols * d - w, d) \div 2,
      y_offset |-> Rounded(bg.rows * e - h, e),
      cols |-> Truncated(w, d), rows |-> Truncated(h, e)]

Init ==
  /\ pictures = <<>>
  /\ placed = Nothing
  /\ picture = 1 /\ mode = 1
  /\ matters = {}
  /\ result = [m \in 1 .. Averages |-> <<>>]
  /\ reported = [m \in Modes |-> <<>>]
  /\ up = TRUE
  /\ pc = "compose"
-----------------------------------------------------------------------------
\* Mutant of MaskSize: the mask is scaled with the foreground, but not placed.
MaskSizeScaled(bg, fg, mask) ==
  IF fg = mask THEN [cols |-> Transform(bg, fg).cols, rows |-> Transform(bg, fg).rows] ELSE mask

\* The size of the mask that compose() returns.
MaskSize(bg, fg, mask) == IF fg = mask THEN bg ELSE mask

(* The constructor reads the next three files, one from each directory,    *)
(* and compose()s them.  A foreground that would be scaled to nothing      *)
(* makes resize() throw, which the handler answers with an error.          *)
Compose ==
  /\ At("compose") /\ Len(pictures) < MaxPictures
  /\ \E bg, fg, mask \in Sizes, truth \in SUBSET Pixels :
       LET at == Transform(bg, fg) IN
       IF fg = mask /\ 0 \in {at.cols, at.rows}
       THEN pc' = "failed" /\ UNCHANGED placed
       ELSE /\ pc' = "push"
            /\ placed' = [bg |-> bg, at |-> IF fg = mask THEN at ELSE Nothing,
                          truth |-> truth, fits |-> MaskSize(bg, fg, mask) = bg,
                          fitting |-> mask \in {bg, fg}]
  /\ UNCHANGED <<pictures, loops, results, up>>

\* The composition and its mask are kept.
Push ==
  /\ At("push")
  /\ pictures' = Append(pictures, [truth |-> placed.truth, fits |-> placed.fits,
                                   fitting |-> placed.fitting])
  /\ placed' = Nothing
  /\ pc' = "compose"
  /\ UNCHANGED <<loops, results, up>>

\* run(), once a directory has no more files; a directory that is not there,
\* or cannot be created, makes it throw.
Run ==
  /\ At("compose")
  /\ pc' \in {IF pictures = <<>> THEN "average" ELSE "init", "failed"}
  /\ UNCHANGED <<pictures, placed, loops, results, up>>

\* The loops over the modes: s for the next one, or t after the last.
NextMode(s, t) ==
  IF mode < NumModes THEN mode' = mode + 1 /\ pc' = s ELSE mode' = 1 /\ pc' = t

\* Each mode's matter is built on the background of the picture.
InitMatter ==
  /\ At("init")
  /\ matters' = matters \cup {<<mode, picture>>}
  /\ NextMode("init", "score")
  /\ UNCHANGED <<pictures, placed, picture, results, up>>

\* Mutant of Score: the last matter of a picture is not deleted.
ScoreKeepsLast ==
  /\ At("score") /\ pictures[picture].fits
  /\ \E predicted \in SUBSET Pixels :
       result' = [result EXCEPT ![mode] = Append(@,
         [predicted |-> predicted, stats |-> Difference(predicted, pictures[picture].truth)])]
  /\ matters' = IF mode = NumModes THEN matters ELSE matters \ {<<mode, picture>>}
  /\ NextMode("score", IF picture < Len(pictures) THEN "init" ELSE "average")
  /\ picture' = IF mode = NumModes THEN picture + 1 ELSE picture
  /\ UNCHANGED <<pictures, placed, reported, up>>

(* A matter makes its mask of the composition, the mask is scored and the  *)
(* matter deleted.  A score keeps, which the program does not, the mask.   *)
Score ==
  /\ At("score") /\ pictures[picture].fits
  /\ \E predicted \in SUBSET Pixels :
       result' = [result EXCEPT ![mode] = Append(@,
         [predicted |-> predicted, stats |-> Difference(predicted, pictures[picture].truth)])]
  /\ matters' = matters \ {<<mode, picture>>}
  /\ NextMode("score", IF picture < Len(pictures) THEN "init" ELSE "average")
  /\ picture' = IF mode = NumModes THEN picture + 1 ELSE picture
  /\ UNCHANGED <<pictures, placed, reported, up>>

\* Scorer::difference ends the process if the sizes differ.
ScoreExits ==
  /\ At("score") /\ ~pictures[picture].fits
  /\ up' = FALSE
  /\ UNCHANGED <<pictures, placed, loops, results, pc>>

\* The last row of the results: one average for each mode.
AverageMode ==
  /\ At("average")
  /\ result' = [result EXCEPT ![Averages] = Append(@, [predicted |-> {}, stats |-> Average(result[mode])])]
  /\ NextMode("average", "report")
  /\ UNCHANGED <<pictures, placed, picture, matters, reported, up>>

(* BenchmarkResults takes the back() of the row of each mode.  Without any *)
(* picture that row is empty: there is no such element, and the program    *)
(* crashes or reports what it finds in its place.                          *)
Report ==
  /\ At("report")
  /\ IF pictures = <<>>
     THEN UNCHANGED reported /\ up' \in BOOLEAN
     ELSE reported' = [m \in Modes |-> <<Last(result[m]).stats>>] /\ UNCHANGED up
  /\ pc' = "done"
  /\ UNCHANGED <<pictures, placed, loops, result>>

Next ==
  \/ Compose \/ Push \/ Run \/ InitMatter \/ Score \/ ScoreExits
  \/ AverageMode \/ Report

Spec == Init /\ [][Next]_vars
-----------------------------------------------------------------------------
Scores == Seq([predicted : SUBSET Pixels, stats : [Outcomes -> Nat]])

TypeOK ==
  /\ \A k \in DOMAIN pictures :
       pictures[k] \in [truth : SUBSET Pixels, fits : BOOLEAN, fitting : BOOLEAN]
  /\ Len(pictures) <= MaxPictures
  /\ picture \in 1 .. Len(pictures) + 1 /\ mode \in Modes
  /\ matters \subseteq Modes \X (DOMAIN pictures)
  /\ result \in [1 .. Averages -> Scores]
  /\ reported \in [Modes -> Seq([Outcomes -> Nat])]
  /\ up \in BOOLEAN
  /\ pc \in {"compose", "push", "init", "score", "average", "report", "done", "failed"}

(* A foreground at such a place is inside the background, on its bottom    *)
(* edge but for a row that was rounded off, in the middle but for two      *)
(* columns.                                                                *)
Inside(bg, at) ==
  LET below == bg.rows - (at.y_offset + at.rows)
      right == bg.cols - (at.x_offset + at.cols)
  IN /\ at.x_offset >= 0 /\ at.y_offset >= 0 /\ right >= 0
     /\ below \in {0, 1}
     /\ right - at.x_offset \in 0 .. 2

(* compose() writes every pixel of the scaled foreground: whatever the     *)
(* sizes of the files, each is a pixel of the composition.                 *)
PlacedInside ==
  At("push") /\ placed.at # Nothing => Inside(placed.bg, placed.at)

(* The matters of a benchmark are its own: each is deleted, and before any *)
(* of the next picture is built, so that a benchmark leaves nothing behind *)
(* in the server, and one that fails to compose a picture neither.         *)
MattersFreed ==
  /\ pc \notin {"init", "score"} => matters = {}
  /\ \A m \in matters : m[2] = picture

(* What a mode is said to be worth is its pixels over all pictures: the    *)
(* average counts each pixel of each picture once, under what the mask of  *)
(* that very picture says it is.                                           *)
AverageCounts ==
  pc \in {"report", "done"} => \A m \in Modes, o \in Outcomes :
    result[Averages][m].stats[o] =
      Cardinality({kp \in (DOMAIN pictures) \X Pixels :
        o = <<kp[2] \in pictures[kp[1]].truth, kp[2] \in result[m][kp[1]].predicted>>})

(* A benchmark ends the server only for a mask with the size neither of    *)
(* its foreground nor of its background, or for want of pictures.          *)
OnlyMisfitsExit ==
  ~up => pictures = <<>> \/ \E k \in DOMAIN pictures : ~pictures[k].fitting

\* calculate_accuracy, of which to_json reports this many of that many.
Correct(m) == m[<<TRUE, TRUE>>] + m[<<FALSE, FALSE>>]
Total(m) == Correct(m) + m[<<TRUE, FALSE>>] + m[<<FALSE, TRUE>>]

(* GET /matters/benchmark answers, by the comments and the names in it,    *)
(* averages over the pictures: the accuracy it reports for a mode is that  *)
(* which run() averaged.                                                   *)
ReportsAverages ==
  At("done") /\ pictures # <<>> =>
    \A m \in Modes :
      LET told == reported[m][1]
          average == result[Averages][m].stats
      IN Correct(told) * Total(average) = Correct(average) * Total(told)
=============================================================================
