--------------------------- MODULE MCBackgrounds ---------------------------
(* One worker, and the videos that matter to the loop over the frames: one *)
(* of a single frame, one of two, and one that ends before its header says.*)
EXTENDS Backgrounds

CONSTANTS w1, img, desk, single, two, short

MCThreads == Workers \cup {Main}
MCLocks == {AppLock, BackgroundLock}
MCUsers == [l \in MCLocks |-> IF l = AppLock THEN {Main} ELSE Workers]
MCFrameCount == [v \in Videos |-> CASE v = single -> 1 [] v = two -> 2 [] v = short -> 4]
MCFrames == [v \in Videos |-> IF v = single THEN 1 ELSE 2]
=============================================================================
