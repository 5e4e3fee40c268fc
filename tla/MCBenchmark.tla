---------------------------- MODULE MCBenchmark ----------------------------
(***************************************************************************)
(* Small instances of Benchmark for TLC.                                   *)
(***************************************************************************)
EXTENDS Benchmark, TLC

CONSTANTS a, b   \* other files

TwoOthers == {a, b}
TwoRounds == <<1, 2>>
MCGarbage == {0, 1}

FileSymmetry == Permutations(Others)

=============================================================================
