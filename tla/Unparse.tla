------------------------------- MODULE Unparse -------------------------------
(***************************************************************************)
(* Printing a statement (class parse_tree_to_string,                       *)
(* src/src/parse_tree_to_string.cpp).                                      *)
(*                                                                         *)
(* A statement is the tree the SQL parser makes, a text the sequence of    *)
(* its words and signs.  What the text must keep is not the tree but what  *)
(* it means: two statements with one text have to mean the same.  They do  *)
(* up to what the printer drops, which Kept below names.                   *)
(***************************************************************************)
EXTENDS Naturals, Sequences

LOCAL INSTANCE SequencesExt

CONSTANTS
  Statements,  \* the statements to print
  Atoms,       \* the conditions Kept of them that are neither AND, OR nor NOT
  None         \* a null pointer

VARIABLES stmt, text

vars == <<stmt, text>>

\* Lists are printed with commas.
Commas(list) ==
  FlattenSeq([i \in DOMAIN list |-> IF i = 1 THEN list[i] ELSE <<",">> \o list[i]])

AliasText(alias) == IF alias = None THEN <<>> ELSE <<"AS", alias>>

-----------------------------------------------------------------------------
(***************************************************************************)
(* Expressions.                                                            *)
(***************************************************************************)
RECURSIVE expression(_)

\* Mutant: other operators print nothing.
operator_expression_NoDefault(e) ==
  (IF e.op = "NOT" THEN <<"NOT">> ELSE <<>>) \o expression(e.expr)
    \o (IF e.op \in {"AND", "OR"} THEN <<e.op>> ELSE <<>>)
    \o (IF e.expr2 = None THEN <<>> ELSE expression(e.expr2))

\* operator_expression: the operands are not put in parentheses.
operator_expression(e) ==
  (IF e.op = "NOT" THEN <<"NOT">> ELSE <<>>) \o expression(e.expr)
    \o <<IF e.op \in {"AND", "OR"} THEN e.op ELSE "???">>
    \o (IF e.expr2 = None THEN <<>> ELSE expression(e.expr2))

\* A literal is one word, a string without its quotes.
expression(e) ==
  (CASE e.type = "star" -> <<"*">>
     [] e.type = "column" ->
          (IF e.table = None THEN <<>> ELSE <<e.table, ".">>) \o <<e.name>>
     [] e.type \in {"string", "int", "float"} -> <<e.name>>
     [] e.type = "function" -> <<e.name, "?", e.expr.name>>
     [] e.type = "operator" -> operator_expression(e)
     [] OTHER -> <<"???">>)
  \o AliasText(e.alias)

-----------------------------------------------------------------------------
(***************************************************************************)
(* Tables.                                                                 *)
(***************************************************************************)
\* Mutant: a case without its break.
JoinText_Falls(type) ==
  CASE type \in {"cross", "inner", "left"} -> <<"JOIN">>
    [] type = "right" -> <<"RIGHT", "JOIN">>
    [] type = "natural" -> <<"NATURAL", "JOIN">>

JoinText(type) ==
  CASE type \in {"cross", "inner"} -> <<"JOIN">>
    [] type = "left" -> <<"LEFT", "JOIN">>
    [] type = "right" -> <<"RIGHT", "JOIN">>
    [] type = "natural" -> <<"NATURAL", "JOIN">>

RECURSIVE table_ref(_)
table_ref(t) ==
  CASE t.type = "select" -> <<"kTableSelect", "FIXME">>
    [] t.type = "name" -> <<t.name>> \o AliasText(t.alias)
    [] t.type = "join" ->
         table_ref(t.left) \o JoinText(t.join) \o table_ref(t.right)
           \o (IF t.condition = None THEN <<>> ELSE <<"ON">> \o expression(t.condition))
    [] t.type = "list" -> Commas([i \in DOMAIN t.list |-> table_ref(t.list[i])])

-----------------------------------------------------------------------------
(***************************************************************************)
(* Statements.                                                             *)
(***************************************************************************)
column_definition(col) ==
  <<col.name, IF col.type \in {"DOUBLE", "INT", "TEXT"} THEN col.type ELSE "...">>

\* DISTINCT, GROUP BY, ORDER BY and LIMIT (s.rest) are not printed.
select(s) ==
  <<"SELECT">> \o Commas([i \in DOMAIN s.list |-> expression(s.list[i])])
    \o <<"FROM">> \o table_ref(s.from)
    \o (IF s.where = None THEN <<>> ELSE <<"WHERE">> \o expression(s.where))

create(s) ==
  IF s.type # "table" THEN <<"CREATE", "...">>
  ELSE <<"CREATE", "TABLE">>
         \o (IF s.ifNotExists THEN <<"IF", "NOT", "EXISTS">> ELSE <<>>)
         \o <<s.name, "(">>
         \o Commas([i \in DOMAIN s.columns |-> column_definition(s.columns[i])])
         \o <<")">>

drop(s) == <<"DROP", IF s.type = "table" THEN "TABLE" ELSE "?", s.name>>

show(s) ==
  CASE s.type = "tables" -> <<"SHOW", "TABLES">>
    [] s.type = "columns" -> <<"SHOW", "COLUMNS", "FROM", s.name>>
    [] OTHER -> <<"SHOW", "?what?">>

statement(s) ==
  CASE s.kind = "select" -> select(s)
    [] s.kind = "insert" -> <<"INSERT", "...">>
    [] s.kind = "create" -> create(s)
    [] s.kind = "drop" -> drop(s)
    [] s.kind = "show" -> show(s)
    [] OTHER -> <<"Not", "implemented">>

Init == stmt \in Statements /\ text = <<>>

PrintStatement ==
  /\ text = <<>>
  /\ text' = statement(stmt)
  /\ UNCHANGED stmt

Next == PrintStatement

Spec == Init /\ [][Next]_vars

-----------------------------------------------------------------------------
(***************************************************************************)
(* What the printer keeps of a statement.  Some things it drops without a  *)
(* trace.  Others leave a mark; they are taken away too if marks is TRUE.  *)
(***************************************************************************)
Marks == {"???", "?", "...", "?what?", "FIXME", "implemented"}

\* Dropped: the quotes of a string, the decimals of a number after the sixth.
\* Marked: what operator it is, the table of a function's argument, parameters
\* and sub-queries.
RECURSIVE KeptExpr(_, _)
KeptExpr(e, marks) ==
  CASE e = None -> None
    [] e.type = "string" ->
         [type |-> "column", table |-> None, name |-> e.name, alias |-> e.alias]
    [] e.type = "float" -> [e EXCEPT !.beyond = None]
    [] e.type = "function" /\ marks -> [e EXCEPT !.expr = @.name, !.distinct = None]
    [] e.type = "other" /\ marks -> [e EXCEPT !.name = None]
    [] e.type = "operator" ->
         [e EXCEPT !.op = IF marks /\ @ \notin {"AND", "OR", "NOT"} THEN "???" ELSE @,
                   !.expr = KeptExpr(@, marks), !.expr2 = KeptExpr(@, marks)]
    [] OTHER -> e

\* Dropped: the schema of a table.  Marked: sub-queries.
RECURSIVE KeptTable(_, _)
KeptTable(t, marks) ==
  CASE t.type = "name" -> [t EXCEPT !.schema = None]
    [] t.type = "select" /\ marks -> [t EXCEPT !.name = None]
    [] t.type = "join" ->
         [t EXCEPT !.left = KeptTable(@, marks), !.right = KeptTable(@, marks),
                   !.condition = KeptExpr(@, marks)]
    [] t.type = "list" -> [t EXCEPT !.list = [i \in DOMAIN @ |-> KeptTable(@[i], marks)]]
    [] OTHER -> t

\* Dropped: the rest of a SELECT.  Marked: all of INSERT and of the kinds below
\* "Not implemented", of CREATE and SHOW of other things; what a DROP of other
\* things drops; types of columns.
Kept(s, marks) ==
  CASE s.kind = "select" ->
         [s EXCEPT !.list = [i \in DOMAIN @ |-> KeptExpr(@[i], marks)],
                   !.from = KeptTable(@, marks), !.where = KeptExpr(@, marks), !.rest = None]
    [] s.kind = "create" /\ marks ->
         IF s.type # "table" THEN [kind |-> "create"]
         ELSE [s EXCEPT !.columns = [i \in DOMAIN @ |-> column_definition(@[i])]]
    [] s.kind = "drop" /\ marks -> [s EXCEPT !.type = IF @ = "table" THEN @ ELSE "?"]
    [] s.kind = "show" /\ marks /\ s.type \notin {"tables", "columns"} -> [kind |-> "show"]
    [] s.kind = "insert" /\ marks -> [kind |-> "insert"]
    [] s.kind \notin {"select", "create", "drop", "show", "insert"} /\ marks -> [kind |-> "other"]
    [] OTHER -> s

(***************************************************************************)
(* What statements mean.                                                   *)
(***************************************************************************)

\* Whether a condition holds where exactly the atoms of v are true.
RECURSIVE Holds(_, _)
Holds(e, v) ==
  CASE e.type = "operator" /\ e.op = "AND" -> Holds(e.expr, v) /\ Holds(e.expr2, v)
    [] e.type = "operator" /\ e.op = "OR" -> Holds(e.expr, v) \/ Holds(e.expr2, v)
    [] e.type = "operator" /\ e.op = "NOT" -> ~Holds(e.expr, v)
    [] OTHER -> e \in v

Condition(e) ==
  IF e = None THEN SUBSET Atoms ELSE {v \in SUBSET Atoms : Holds(e, v)}

\* A cross join with a condition is an inner join.
RECURSIVE From(_)
From(t) ==
  CASE t.type = "join" ->
         [type |-> "join", join |-> IF t.join = "cross" THEN "inner" ELSE t.join,
          left |-> From(t.left), right |-> From(t.right),
          condition |-> Condition(t.condition)]
    [] t.type = "list" -> [t EXCEPT !.list = [i \in DOMAIN @ |-> From(@[i])]]
    [] OTHER -> t

Meaning(s) ==
  IF s.kind = "select"
  THEN [s EXCEPT !.list = [i \in DOMAIN @ |-> IF @[i].type = "operator"
                                              THEN <<Condition(@[i]), @[i].alias>> ELSE @[i]],
                 !.from = From(@), !.where = Condition(@)]
  ELSE s

-----------------------------------------------------------------------------
(***************************************************************************)
(* Correctness properties.                                                 *)
(***************************************************************************)

\* An operand that is put in parentheses in SQL: OR below AND, a junction below
\* NOT, and any operator below a comparison.
Rank(op) == CASE op = "OR" -> 1 [] op = "AND" -> 2 [] op = "NOT" -> 3 [] OTHER -> 4
RECURSIVE NeedsParentheses(_)
NeedsParentheses(e) ==
  /\ e # None /\ e.type = "operator"
  /\ \E d \in {e.expr, e.expr2} :
       \/ d # None /\ d.type = "operator" /\ (Rank(d.op) < Rank(e.op) \/ Rank(e.op) = 4)
       \/ NeedsParentheses(d)

RECURSIVE JoinNeedsParentheses(_)
JoinNeedsParentheses(t) ==
  \/ /\ t.type = "join"
     /\ \/ NeedsParentheses(t.condition)
        \/ JoinNeedsParentheses(t.left) \/ JoinNeedsParentheses(t.right)
  \/ t.type = "list" /\ \E i \in DOMAIN t.list : JoinNeedsParentheses(t.list[i])

LosesNesting(s) ==
  /\ s.kind = "select"
  /\ \/ NeedsParentheses(s.where) \/ JoinNeedsParentheses(s.from)
     \/ \E i \in DOMAIN s.list : NeedsParentheses(s.list[i])

\* No statement with the text has another meaning than the printed one.
OneMeaning(marks) ==
  \A s \in Statements :
    statement(s) = text =>
      LosesNesting(s) \/ Meaning(Kept(s, marks)) = Meaning(Kept(stmt, marks))

\* "string of the SQL statement equivalent to what was parsed": so far as the
\* printer keeps anything of a statement, it keeps what it means.  Joins keep
\* their nesting, conditions lose theirs only where SQL would have parentheses,
\* and no two kinds of things have one text but strings and columns.
Unambiguous == text # <<>> /\ ~LosesNesting(stmt) => OneMeaning(TRUE)

\* A text without a mark is that of one meaning: what the printer cannot print
\* is not left out in silence, except the quotes, decimals, schemas and clauses
\* that Kept drops.
PrintsSQL ==
  /\ text # <<>> /\ ~LosesNesting(stmt)
  /\ \A i \in DOMAIN text : text[i] \notin Marks
  => OneMeaning(FALSE)

=============================================================================
