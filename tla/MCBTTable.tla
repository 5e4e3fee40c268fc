----------------------------- MODULE MCBTTable -----------------------------
(***************************************************************************)
(* Small instances of BTTable for TLC.                                     *)
(***************************************************************************)
EXTENDS BTTable

IntColumn(c) == [name |-> c, data_type |-> "INT"]
TextColumn(c) == [name |-> c, data_type |-> "TEXT"]
BooleanColumn(c) == [name |-> c, data_type |-> "BOOLEAN"]

\* The table of the tests, the same the other way round, and one with a column
\* that cannot be marshalled.
MCColumnLists ==
  {<<IntColumn("a"), TextColumn("b")>>,
   <<TextColumn("b"), IntColumn("a")>>,
   <<IntColumn("a"), BooleanColumn("b")>>}

Row(n, s) == [c \in {"a", "b"} |-> IF c = "a" THEN IntValue(n) ELSE TextValue(s)]

\* Rows of several sizes; one with a column too many and one with too few; one
\* with a text for column a and an integer for column b; one longer than a block.
MCInputs ==
  {[c \in {"a", "b"} |-> IF c = "a" THEN TextValue(<<65>>) ELSE IntValue(7)],
   Row(0, [k \in 1 .. BLOCK_SZ |-> 65]),
   Row(0, <<>>), Row(-2, <<65>>), Row(70000, <<65, 66, 65>>),
   [c \in {"a", "b", "x"} |-> IF c = "b" THEN TextValue(<<66>>) ELSE IntValue(2 ^ 30)],
   [c \in {"a"} |-> IntValue(1)]}

MCWheres ==
  {[c \in {} |-> IntValue(0)]}
    \union [{"a"} -> {IntValue(n) : n \in {0, -2, 70000, 5}}]
    \union [{"b"} -> {IntValue(0), IntValue(1), TextValue(<<65>>), TextValue(<<>>)}]
    \union [{"a", "b"} -> {IntValue(0), IntValue(-2)}]
    \union [{"x"} -> {IntValue(0)}]

=============================================================================
