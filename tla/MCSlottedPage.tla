---------------------------- MODULE MCSlottedPage ----------------------------
(***************************************************************************)
(* Small instances of SlottedPage for TLC.                                 *)
(***************************************************************************)
EXTENDS SlottedPage

MCByte == {"a", "b", "c"}

\* Records of one, two and three bytes, pairwise different.
ThreeSizes == {<<"a">>, <<"b", "c">>, <<"c", "a", "a">>}

\* The same with the empty string: a table without columns has empty rows.
DataWithEmpty == ThreeSizes \union {<<>>}

=============================================================================
