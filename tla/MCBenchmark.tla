---------------------------- MODULE MCBenchmark ----------------------------
(* Two modes, two pictures of two pixels, files of up to six by six.     *)
EXTENDS Benchmark

CONSTANTS top, bottom
=============================================================================
