------------------------------ MODULE MCBTFile ------------------------------
(***************************************************************************)
(* Small instances of BTFile for TLC.                                      *)
(***************************************************************************)
EXTENDS BTFile, TLC

CONSTANTS a, b, c,    \* names
          f, g,       \* objects
          page        \* a block with records

ThreeNames == {a, b, c}
TwoObjects == {f, g}
MCContent == {NewBlock, page}
MCGarbage == {0, 1}

\* Handles are handed out in order, but names and objects only compare equal
\* or not.
NameAndObjectSymmetry == Permutations(ThreeNames) \union Permutations(TwoObjects)

=============================================================================
