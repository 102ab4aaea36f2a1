--------------------------- MODULE MCInputCamera ---------------------------
(* Two devices, and the app's own two cameras.  Some names have digits or  *)
(* dashes, so that the list may be read wrongly or not at all.             *)
EXTENDS InputCamera, TLC

CONSTANTS w1, w2, d1, d2, cam, preview

MCThreads == Workers \cup {Main}
MCLocks == {AppLock, ManagerLock}
MCUsers == [l \in MCLocks |-> IF l = AppLock THEN {Main} ELSE Workers]

\* The workers differ in nothing but their names.
MCSymmetry == Permutations({w1, w2})

Line(n, d) == [num |-> n, dashes |-> d]
Entry(name, file) == [name |-> name, file |-> Line(file, FALSE)]
Entries == {Entry(Line(NoDigits, FALSE), d1), Entry(Line(NoDigits, TRUE), d2),
            Entry(Line(d1, FALSE), cam), Entry(Line(d2, FALSE), preview)}
MCListings == UNION {[1 .. n -> Entries] : n \in 0 .. 2}
=============================================================================
