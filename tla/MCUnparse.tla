----------------------------- MODULE MCUnparse -----------------------------
(***************************************************************************)
(* Statements for Unparse.                                                 *)
(***************************************************************************)
EXTENDS Unparse

Column(table, name) == [type |-> "column", table |-> table, name |-> name, alias |-> None]
Leaf(type, name) == [type |-> type, name |-> name, alias |-> None]
Float(name, beyond) == [type |-> "float", name |-> name, beyond |-> beyond, alias |-> None]
Function(name, arg, distinct) ==
  [type |-> "function", name |-> name, expr |-> arg, distinct |-> distinct, alias |-> None]
Operator(op, e1, e2) ==
  [type |-> "operator", op |-> op, expr |-> e1, expr2 |-> e2, alias |-> None]
And(e1, e2) == Operator("AND", e1, e2)
Or(e1, e2) == Operator("OR", e1, e2)
Not(e) == Operator("NOT", e, None)

a == Column(None, "a")
b == Column(None, "b")
c == Column("t", "a")
Columns3 == {a, b, c}

\* Comparisons, one with an operand only; literals, a parameter and sub-queries.
Compared ==
  {Operator(op, a, e) : op \in {"=", "<"}, e \in {b, Leaf("int", "1"), Leaf("string", "b")}}
    \union {Operator("ISNULL", a, None)}
Others == {Leaf("string", "a"), Leaf("other", "?"), Leaf("other", "(SELECT b FROM t)")}

\* Conditions: conjunctions of up to three columns, disjunctions of one or two of
\* those of up to two; comparisons and negations below them.
Ands == {And(d, e) : d \in Columns3, e \in Columns3}
Conditions ==
  Columns3 \union Ands \union Compared \union Others
    \union {And(d, e) : d \in Ands, e \in Columns3}
    \union {And(d, e) : d \in Columns3, e \in Ands}
    \union {Or(d, e) : d \in Columns3 \union Ands, e \in Columns3 \union Ands}
    \union {Not(e) : e \in {a, b} \union Compared}
    \union {And(d, e) : d \in Compared \union {Not(b)}, e \in {a, Not(b)}}
    \union {Or(d, e) : d \in {a, Not(b)}, e \in Compared}

\* Conditions that are not printed faithfully: operands in parentheses.
Nested ==
  {And(Or(d, e), c) : d \in {a, b}, e \in {a, b}}
    \union {Not(And(a, b)), Not(Or(a, b)), Operator("ISNULL", Not(a), None),
            Operator("ISNULL", And(a, b), None), Operator("=", Operator("=", a, b), c)}

MCAtoms ==
  {a, b, c} \union {KeptExpr(e, marks) : e \in Compared \union Others, marks \in BOOLEAN}

Name(n, alias) == [type |-> "name", schema |-> None, name |-> n, alias |-> alias]
Join(type, l, r, condition) ==
  [type |-> "join", join |-> type, left |-> l, right |-> r, condition |-> condition]
TwoTables ==
  {Join(j, Name("t", None), Name("u", None), e) :
     j \in {"cross", "inner", "left", "right"}, e \in {a, Operator("=", a, b), Operator("<", a, b)}}
    \union {Join("natural", Name("t", None), Name("u", None), None)}
Froms ==
  TwoTables
    \union {Name("t", None), Name("t", "u"), [Name("t", None) EXCEPT !.schema = "s"]}
    \union {[type |-> "select", name |-> q] : q \in {"SELECT a FROM t", "SELECT b FROM t"}}
    \union {Join(j, t, Name("v", None), b) : j \in {"inner", "left"}, t \in TwoTables}
    \union {Join(j, Name("v", None), t, b) : j \in {"inner", "left"}, t \in TwoTables}
    \union {[type |-> "list", list |-> <<Name("t", None), Name("u", x)>>] : x \in {None, "v"}}

Select(list, from, where, rest) ==
  [kind |-> "select", list |-> list, from |-> from, where |-> where, rest |-> rest]
Lists ==
  {<<Leaf("star", "*")>>, <<a>>, <<c>>, <<a, c>>, <<[a EXCEPT !.alias = "b"]>>,
   <<Leaf("int", "1"), a>>, <<Leaf("string", "a")>>, <<And(a, b)>>,
   <<[Or(a, b) EXCEPT !.alias = "c"]>>}
    \union {<<Operator(op, a, b)>> : op \in {"=", "<"}}
    \union {<<Float("1.500000", beyond)>> : beyond \in {None, "1"}}
    \union {<<Function(f, e, d)>> : f \in {"max", "count"}, e \in Columns3, d \in {None, "DISTINCT"}}

Columns(types) == [i \in DOMAIN types |-> [name |-> <<"a", "b">>[i], type |-> types[i]]]
Creates ==
  {[kind |-> "create", type |-> "table", name |-> n, ifNotExists |-> i, columns |-> Columns(types)] :
     n \in {"t", "u"}, i \in BOOLEAN,
     types \in {<<"INT">>, <<"TEXT">>, <<"DOUBLE">>, <<"VARCHAR">>, <<"CHAR">>, <<"INT", "TEXT">>}}
Named ==
  {[kind |-> k, type |-> type, name |-> n] :
     k \in {"drop", "show"}, type \in {"table", "tables", "columns", "schema", "index"}, n \in {"t", "u"}}
    \union {[kind |-> k, name |-> n] : k \in {"insert", "update", "delete", "import"}, n \in {"t", "u"}}
    \union {[kind |-> "create", type |-> type, name |-> n] : type \in {"view", "index"}, n \in {"t", "u"}}
ShowsTables(s) == s.kind = "show" /\ s.type = "tables"

MCStatements ==
  {Select(<<a>>, Name("t", None), e, None) : e \in Conditions \union Nested \union {None}}
    \union {Select(<<a>>, f, None, None) : f \in Froms}
    \union {Select(l, Name("t", None), None, None) : l \in Lists}
    \union {Select(<<a>>, Name("t", None), None, r) : r \in {"DISTINCT", "ORDER BY", "LIMIT", "GROUP BY"}}
    \union Creates \union {s \in Named : ShowsTables(s) => s.name = "t"}

=============================================================================
