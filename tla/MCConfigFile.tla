---------------------------- MODULE MCConfigFile ----------------------------
(* Two workers, one mode without fields, as NONE, and two with a field of  *)
(* their own; the default is the longer text, as to_string(double) has it. *)
EXTENDS ConfigFile, TLC

CONSTANTS w1, w2, none, neg, cut, threshold, downscale, default, short

MCFields == [m \in Modes |-> CASE m = none -> {}
                               [] m = neg -> {threshold}
                               [] OTHER -> {downscale}]
MCRank == [m \in Modes |-> CASE m = none -> 0 [] m = neg -> 1 [] OTHER -> 2]
Symmetry == Permutations(Workers)
=============================================================================
