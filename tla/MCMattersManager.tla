-------------------------- MODULE MCMattersManager --------------------------
(* Small instances of the matting engine: the mode that needs nothing, the *)
(* one that needs a plate (background negation) and the one that needs a   *)
(* plate and is rebuilt for some of its fields (background cut).           *)
EXTENDS MattersManager, TLC

CONSTANTS none, neg, cut, w1, w2,
          threshold, downscale, components, good, better, bad, p1, p2,
          o1, o2, o3, o4

OneWorker == {w1}
TwoWorkers == {w1, w2}
OneWorkerThreads == {Main, w1}
TwoWorkersThreads == {Main, w1, w2}
MCLocks == {AppLock, ManagerLock}
MCUsers == [l \in MCLocks |-> IF l = AppLock THEN {Main} ELSE Workers]

MCRank == [m \in Modes |-> CASE m = none -> 0 [] m = neg -> 1 [] OTHER -> 2]
MCFields == [m \in Modes |-> CASE m = none -> {}
                               [] m = neg -> {threshold}
                               [] OTHER -> {downscale, components}]
CutFields == [m \in Modes |-> IF m = cut THEN {threshold, downscale} ELSE {}]
CutDownscale == [m \in Modes |-> IF m = cut THEN {downscale} ELSE {}]

\* Objects, plates and workers are interchangeable.
Symmetry == Permutations(Objects) \cup Permutations(Plates)
WorkerSymmetry == Permutations(Objects) \cup Permutations(Workers)
SerialSymmetry == Symmetry \cup Permutations(Workers)

\* An import only repeats updates, which two workers do anyway.
NoImports == \A w \in Workers : req[w].op # "load"
=============================================================================
