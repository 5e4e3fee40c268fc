---------------------------- MODULE MCTwoShells ----------------------------
(***************************************************************************)
(* Small instances of TwoShells for TLC.                                   *)
(***************************************************************************)
EXTENDS TwoShells, TLC

CONSTANTS p, q,        \* shells
          r, s         \* rows

TwoProcesses == {p, q}
TwoRows == {r, s}

\* Shells and rows only compare equal or not.
ShellAndRowSymmetry == Permutations(TwoProcesses) \union Permutations(Row)

=============================================================================
