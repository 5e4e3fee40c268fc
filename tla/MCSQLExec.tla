------------------------------ MODULE MCSQLExec ------------------------------
(***************************************************************************)
(* Small instances of SQLExec for TLC.                                     *)
(***************************************************************************)
EXTENDS SQLExec

CONSTANTS t, u, v, w    \* names of tables

OneTable == {t}
TwoTables == {t, u}
FourTables == {t, u, v, w}
AllNames == Name

Good(name) == [name |-> name, ok |-> TRUE]
Bad(name) == [name |-> name, ok |-> FALSE]

\* One column, two columns, a bad column after a good one, a bad one at once
\* (as under a table name that is no identifier).
MCColumnLists ==
  {<<Good("x")>>, <<Good("x"), Good("y")>>, <<Good("x"), Bad("y")>>, <<Bad("x")>>}
OneColumn == {<<Good("x")>>}
GoodOrBad == {<<Good("x")>>, <<Good("x"), Bad("y")>>}

MCGarbage == {0, 1}

=============================================================================
