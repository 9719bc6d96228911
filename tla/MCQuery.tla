------------------------------- MODULE MCQuery -----------------------------
(***************************************************************************)
(* Query for TLC: two tables of up to two rows, in three layouts, and a    *)
(* statement for every clause, operator and access path.                   *)
(***************************************************************************)
EXTENDS Query

MCTexts == <<"", "%1%", "1", "2", "3", "4", "_", "admin">>
MCNumberOf == [x \in {"1", "2", "3", "4"} |-> CHOOSE n \in 1..4 : ToString(n) = x]
MCChars ==
  [x \in Range(MCTexts) |-> CASE x = "" -> <<>> [] x = "%1%" -> <<"%", "1", "%">> [] OTHER -> <<x>>]
MCStringFn(f, x) == x
MCSchema == [t |-> <<"a", "b">>, u |-> <<"c", "d">>]
MCNames == <<<<"a">>, <<"b">>>>

Quote(x) == "'" \o x \o "'"
MCLiterals ==
  [x \in {"0", "1", "2", "3"} |-> Num(CHOOSE n \in 0..3 : ToString(n) = x)]
    @@ [x \in {Quote(y) : y \in Range(MCTexts)} |-> Txt(CHOOSE y \in Range(MCTexts) : Quote(y) = x)]
MCParameters == [x \in {"$1"} |-> 1]
MCQuoted == [x \in {"\"x y\""} |-> "x y"]

-----------------------------------------------------------------------------
(* The stores. *)

\* The rows of a table as <<row id, second column>>; "-" is no row.
RowsOver(vals) ==
  {(IF x = "-" THEN <<>> ELSE <<<<"1", x>>>>) \o (IF y = "-" THEN <<>> ELSE <<<<"2", y>>>>) :
     x \in vals, y \in vals}

\* A row in one record, or in one cell per column.
Packed(id, c, v) == <<[id |-> id, col |-> "", val |-> <<<<c[1], id>>, <<c[2], v>>>>]>>
Legacy(id, c, v) == <<[id |-> id, col |-> c[1], val |-> id], [id |-> id, col |-> c[2], val |-> v]>>
Entries(rows, c, Layout(_, _, _)) ==
  FlattenSeq([i \in DOMAIN rows |-> Layout(rows[i][1], c, rows[i][2])])
Plain(x, y, Layout(_, _, _)) ==
  [tables |-> [t |-> Entries(x, MCSchema.t, Layout), u |-> Entries(y, MCSchema.u, Packed)],
   pk |-> [t |-> "", u |-> ""], index |-> [t |-> {}, u |-> {}], stats |-> <<>>,
   entries |-> [t |-> {}, u |-> {}], ctes |-> <<>>]

\* A primary key on t.a, an index on t.b, and statistics.
Tuned(x, y) ==
  [Plain(x, y, Packed) EXCEPT !.pk.t = "a", !.index.t = {"b"},
     !.entries.t = {<<"b", r[2], r[1]>> : r \in Range(x)},
     !.stats = [t |-> [rows |-> Len(x), ndv |-> [b |-> Cardinality({r[2] : r \in Range(x)})]]]]

MCStores ==
  LET ts == RowsOver({"-", "", "1", "2"})
      us == RowsOver({"-", "1", "2"})
  IN {Plain(x, y, Packed) : x \in ts, y \in us}
       \cup UNION {{Plain(x, y, Legacy), Tuned(x, y)} : x \in ts, y \in {<<>>, <<<<"1", "2">>>>}}

-----------------------------------------------------------------------------
(* The statements, token by token. *)

\* One table: predicates, expressions and access paths.
FilterTexts == {
  <<"SELECT", "*", "FROM", "t">>,
  <<"SELECT", "t", ".", "a", "AS", "x", "FROM", "t", "WHERE", "b", "=", "1">>,
  <<"SELECT", "a", "FROM", "t", "WHERE", "a", "=", "2">>,
  <<"SELECT", "a", ",", "b", "FROM", "t", "WHERE", "(", "b", "=", "'1'", ")">>,
  <<"SELECT", "a", "FROM", "t", "WHERE", "t", ".", "b", "=", "1">>,
  <<"SELECT", "a", "FROM", "t", "WHERE", "1", "=", "b">>,
  <<"SELECT", "a", "FROM", "t", "WHERE", "b", "=", "NULL">>,
  <<"SELECT", "a", "FROM", "t", "WHERE", "b", ">", "1", "AND", "a", "<", "3">>,
  <<"SELECT", "a", "FROM", "t", "WHERE", "b", "<>", "1", "AND", "b", "<=", "2", "AND", "b",
    ">=", "1", "AND", "b", "!=", "2">>,
  <<"SELECT", "a", "FROM", "t", "WHERE", "NOT", "b", "=", "1">>,
  <<"SELECT", "a", "FROM", "t", "WHERE", "a", "=", "1", "OR", "b", "=", "1", "AND", "a", "=",
    "2">>,
  <<"SELECT", "a", "FROM", "t", "WHERE", "NOT", "a", "=", "1", "AND", "b", "=", "1">>,
  <<"SELECT", "a", "FROM", "t", "WHERE", "b", "LIKE", "'_'", "AND", "a", "LIKE", "'%1%'">>,
  <<"SELECT", "a", "FROM", "t", "WHERE", "b", "NOT", "LIKE", "'1'">>,
  <<"SELECT", "a", "FROM", "t", "WHERE", "b", "IN", "(", "1", ",", "2", ")">>,
  <<"SELECT", "a", ",", "b", "FROM", "t", "WHERE", "b", "NOT", "IN", "(", "1", ",", "2", ")">>,
  <<"SELECT", "a", "FROM", "t", "WHERE", "b", "BETWEEN", "1", "AND", "2">>,
  <<"SELECT", "a", ",", "b", "FROM", "t", "WHERE", "b", "IS", "NOT", "NULL", "AND", "a", "NOT",
    "BETWEEN", "b", "AND", "2">>,
  <<"SELECT", "a", "FROM", "t", "WHERE", "a", "=", "$1">>,
  <<"SELECT", "a", "+", "b", "AS", "s", "FROM", "t", "WHERE", "b", "IS", "NOT", "NULL">>,
  <<"SELECT", "a", "-", "1", "-", "1", "AS", "s", ",", "-", "a", "AS", "n", "FROM", "t">>,
  <<"SELECT", "a", "/", "b", "AS", "r", ",", "a", "%", "2", "AS", "m", ",", "a", "*", "b", "AS",
    "p", "FROM", "t">>,
  <<"SELECT", "COALESCE", "(", "b", ",", "0", ")", "AS", "k", ",", "LENGTH", "(", "b", ")",
    "AS", "l", "FROM", "t">>,
  <<"SELECT", "UPPER", "(", "b", ")", "AS", "x", ",", "ABS", "(", "a", ")", "AS", "y", ",",
    "ROUND", "(", "a", ")", "AS", "z", "FROM", "t">>,
  <<"SELECT", "CAST", "(", "a", "AS", "INT", ")", "AS", "k", "FROM", "t", "WHERE", "CAST", "(",
    "b", "AS", "BOOLEAN", ")">>,
  <<"SELECT", "1", "+", "2", "AS", "n">>}

\* ORDER BY, LIMIT, DISTINCT and aggregates.
SortTexts == {
  <<"SELECT", "a", ",", "b", "FROM", "t", "ORDER", "BY", "b", "DESC", "LIMIT", "1", "OFFSET",
    "1">>,
  <<"SELECT", "a", ",", "b", "FROM", "t", "ORDER", "BY", "b", ",", "a", "DESC">>,
  <<"SELECT", "a", ",", "b", "FROM", "t", "ORDER", "BY", "b", "LIMIT", "1">>,
  <<"SELECT", "a", "FROM", "t", "ORDER", "BY", "a", "LIMIT", "0">>,
  <<"SELECT", "a", "AS", "k", "FROM", "t", "ORDER", "BY", "k", "DESC", "OFFSET", "1">>,
  <<"SELECT", "a", "FROM", "t", "LIMIT", "1">>,
  <<"SELECT", "DISTINCT", "b", "FROM", "t", "ORDER", "BY", "b", "DESC">>,
  <<"SELECT", "b", ",", "COUNT", "(", "*", ")", "FROM", "t", "GROUP", "BY", "b", "HAVING",
    "COUNT", "(", "*", ")", ">", "1">>,
  <<"SELECT", "b", ",", "COUNT", "(", "*", ")", "AS", "n", "FROM", "t", "GROUP", "BY", "b",
    "ORDER", "BY", "n">>,
  <<"SELECT", "b", ",", "SUM", "(", "a", ")", "AS", "s", "FROM", "t", "GROUP", "BY", "b",
    "HAVING", "SUM", "(", "a", ")", ">", "1">>,
  <<"SELECT", "b", ",", "MIN", "(", "a", ")", "FROM", "t", "WHERE", "a", ">", "1", "GROUP",
    "BY", "b">>,
  <<"SELECT", "b", "FROM", "t", "GROUP", "BY", "b">>,
  <<"SELECT", "COUNT", "(", "*", ")", ",", "SUM", "(", "b", ")", "FROM", "t">>,
  <<"SELECT", "SUM", "(", "b", ")", "AS", "s", "FROM", "t", "WHERE", "b", "IS", "NOT", "NULL">>,
  <<"SELECT", "COUNT", "(", "b", ")", ",", "MIN", "(", "b", ")", ",", "MAX", "(", "b", ")", ",",
    "AVG", "(", "a", ")", "FROM", "t", "WHERE", "a", "=", "1">>}

\* Window functions.
WindowTexts == {
  <<"SELECT", "a", ",", "ROW_NUMBER", "(", ")", "OVER", "(", "ORDER", "BY", "a", ")", "AS", "n",
    "FROM", "t">>,
  <<"SELECT", "a", ",", "RANK", "(", ")", "OVER", "(", "ORDER", "BY", "b", "DESC", ")", "AS",
    "n", ",", "DENSE_RANK", "(", ")", "OVER", "(", "ORDER", "BY", "b", ")", "AS", "m", "FROM",
    "t">>,
  <<"SELECT", "RANK", "(", ")", "OVER", "(", "PARTITION", "BY", "b", ")", "AS", "s", "FROM",
    "t">>,
  <<"SELECT", "a", ",", "b", ",", "SUM", "(", "a", ")", "OVER", "(", "PARTITION", "BY", "b",
    "ORDER", "BY", "a", ")", "AS", "s", "FROM", "t">>,
  <<"SELECT", "SUM", "(", "a", ")", "OVER", "(", "PARTITION", "BY", "b", ")", "AS", "s", ",",
    "a", "FROM", "t", "ORDER", "BY", "a">>,
  <<"SELECT", "a", ",", "SUM", "(", "a", ")", "OVER", "(", ")", "AS", "s", "FROM", "t">>,
  <<"SELECT", "a", ",", "AVG", "(", "b", ")", "OVER", "(", "ORDER", "BY", "a", "ROWS",
    "BETWEEN", "1", "PRECEDING", "AND", "CURRENT", "ROW", ")", "AS", "s", "FROM", "t", "WHERE",
    "b", "IS", "NOT", "NULL">>,
  <<"SELECT", "a", ",", "SUM", "(", "b", ")", "OVER", "(", "ORDER", "BY", "a", "ROWS",
    "BETWEEN", "UNBOUNDED", "PRECEDING", "AND", "UNBOUNDED", "FOLLOWING", ")", "AS", "s",
    "FROM", "t">>,
  <<"SELECT", "a", ",", "SUM", "(", "a", ")", "OVER", "(", "ORDER", "BY", "a", "RANGE",
    "BETWEEN", "CURRENT", "ROW", "AND", "1", "FOLLOWING", ")", "AS", "s", "FROM", "t">>}

\* Joins.
JoinTexts == {
  <<"SELECT", "t", ".", "a", ",", "u", ".", "d", "FROM", "t", "JOIN", "u", "ON", "t", ".", "a",
    "=", "u", ".", "c">>,
  <<"SELECT", "*", "FROM", "t", "INNER", "JOIN", "u", "ON", "t", ".", "a", "=", "u", ".", "c">>,
  <<"SELECT", "t", ".", "*", "FROM", "t", "JOIN", "u", "ON", "t", ".", "a", "=", "u", ".", "c">>,
  <<"SELECT", "t", ".", "a", ",", "u", ".", "d", "FROM", "t", "LEFT", "JOIN", "u", "ON", "t",
    ".", "a", "=", "u", ".", "c">>,
  <<"SELECT", "t", ".", "a", ",", "u", ".", "d", "FROM", "t", "LEFT", "JOIN", "u", "ON", "t",
    ".", "a", "=", "u", ".", "c", "WHERE", "u", ".", "d", "IS", "NULL">>,
  <<"SELECT", "t", ".", "a", ",", "u", ".", "d", "FROM", "t", "LEFT", "OUTER", "JOIN", "u",
    "ON", "u", ".", "d", "=", "t", ".", "b", "ORDER", "BY", "a", ",", "d", "DESC">>,
  <<"SELECT", "t", ".", "a", ",", "u", ".", "d", "FROM", "t", "JOIN", "u", "ON", "t", ".", "b",
    "=", "u", ".", "d">>,
  <<"SELECT", "t", ".", "a", ",", "u", ".", "d", "FROM", "t", "JOIN", "u", "ON", "t", ".", "a",
    "=", "u", ".", "c", "WHERE", "u", ".", "d", "=", "1">>,
  <<"SELECT", "t", ".", "a", ",", "u", ".", "d", "FROM", "t", "JOIN", "u", "ON", "t", ".", "a",
    "=", "u", ".", "c", "WHERE", "t", ".", "b", "=", "u", ".", "d">>,
  <<"SELECT", "t", ".", "a", ",", "u", ".", "d", "FROM", "t", "JOIN", "u", "ON", "t", ".", "a",
    "<", "u", ".", "c">>,
  <<"SELECT", "t", ".", "a", ",", "COUNT", "(", "*", ")", "FROM", "t", "JOIN", "u", "ON", "t",
    ".", "a", "=", "u", ".", "c", "GROUP", "BY", "t", ".", "a">>,
  <<"SELECT", "COUNT", "(", "*", ")", "AS", "n", "FROM", "t", "JOIN", "u", "ON", "t", ".", "b",
    "=", "u", ".", "d">>,
  <<"SELECT", "x", ".", "a", ",", "y", ".", "b", "FROM", "t", "AS", "x", "JOIN", "t", "AS", "y",
    "ON", "x", ".", "a", "=", "y", ".", "b">>,
  <<"SELECT", "x", ".", "a", ",", "u", ".", "d", ",", "y", ".", "b", "FROM", "t", "AS", "x",
    "JOIN", "u", "ON", "x", ".", "a", "=", "u", ".", "c", "JOIN", "t", "AS", "y", "ON", "y",
    ".", "a", "=", "u", ".", "d">>}

\* Subqueries, common table expressions and set operations.
NestedTexts == {
  <<"SELECT", "a", "FROM", "t", "WHERE", "a", "IN", "(", "SELECT", "c", "FROM", "u", ")">>,
  <<"SELECT", "a", "FROM", "t", "WHERE", "b", "=", "1", "AND", "a", "IN", "(", "SELECT", "c",
    "FROM", "u", ")">>,
  <<"SELECT", "a", "FROM", "t", "WHERE", "a", "NOT", "IN", "(", "SELECT", "c", "FROM", "u",
    "WHERE", "d", "=", "1", ")">>,
  <<"SELECT", "a", "FROM", "t", "WHERE", "b", "IN", "(", "SELECT", "d", "FROM", "u", "WHERE",
    "u", ".", "c", "=", "t", ".", "a", ")">>,
  <<"SELECT", "a", "FROM", "t", "WHERE", "EXISTS", "(", "SELECT", "c", "FROM", "u", "WHERE",
    "u", ".", "c", "=", "t", ".", "a", ")">>,
  <<"SELECT", "a", "FROM", "t", "WHERE", "NOT", "EXISTS", "(", "SELECT", "1", "FROM", "u",
    "WHERE", "u", ".", "d", "=", "t", ".", "b", ")">>,
  <<"SELECT", "a", "FROM", "t", "WHERE", "NOT", "EXISTS", "(", "SELECT", "c", "FROM", "u",
    "WHERE", "u", ".", "d", "=", "t", ".", "b", ")">>,
  <<"SELECT", "a", "FROM", "t", "WHERE", "EXISTS", "(", "SELECT", "c", "FROM", "u", ")">>,
  <<"SELECT", "a", "FROM", "t", "WHERE", "a", "NOT", "IN", "(", "SELECT", "d", "FROM", "u", ")",
    "AND", "EXISTS", "(", "SELECT", "1", "FROM", "u", "WHERE", "u", ".", "c", "=", "t", ".",
    "a", ")">>,
  <<"SELECT", "a", "FROM", "t", "WHERE", "a", "=", "(", "SELECT", "MAX", "(", "c", ")", "FROM",
    "u", ")">>,
  <<"SELECT", "a", "FROM", "t", "WHERE", "a", "=", "(", "SELECT", "c", "FROM", "u", "WHERE",
    "d", "=", "1", ")">>,
  <<"SELECT", "s", ".", "a", "FROM", "(", "SELECT", "a", "FROM", "t", "WHERE", "b", "=", "1",
    ")", "AS", "s">>,
  <<"SELECT", "s", ".", "a", ",", "u", ".", "d", "FROM", "(", "SELECT", "a", "FROM", "t",
    "WHERE", "b", "=", "1", ")", "AS", "s", "JOIN", "u", "ON", "s", ".", "a", "=", "u", ".",
    "c">>,
  <<"WITH", "x", "AS", "(", "SELECT", "a", "FROM", "t", "WHERE", "b", "=", "1", ")", "SELECT",
    "a", "FROM", "x">>,
  <<"WITH", "x", "AS", "(", "SELECT", "a", "FROM", "t", ")", ",", "y", "AS", "(", "SELECT", "a",
    "FROM", "x", "WHERE", "a", ">", "1", ")", "SELECT", "y", ".", "a", ",", "t", ".", "b",
    "FROM", "y", "JOIN", "t", "ON", "y", ".", "a", "=", "t", ".", "a">>,
  <<"WITH", "x", "AS", "(", "SELECT", "b", ",", "COUNT", "(", "*", ")", "AS", "n", "FROM", "t",
    "GROUP", "BY", "b", ")", "SELECT", "b", ",", "n", "FROM", "x", "WHERE", "n", ">", "1">>,
  <<"WITH", "x", "AS", "(", "SELECT", "a", "FROM", "t", "UNION", "SELECT", "c", "FROM", "u",
    ")", "SELECT", "a", "FROM", "x">>,
  <<"WITH", "RECURSIVE", "x", "AS", "(", "SELECT", "a", "FROM", "t", "UNION", "ALL", "SELECT",
    "a", "+", "1", "AS", "a", "FROM", "x", "WHERE", "a", "<", "3", ")", "SELECT", "a", "FROM",
    "x">>,
  <<"SELECT", "a", "FROM", "t", "UNION", "SELECT", "c", "FROM", "u">>,
  <<"SELECT", "a", ",", "b", "FROM", "t", "UNION", "ALL", "SELECT", "d", ",", "c", "FROM", "u">>,
  <<"SELECT", "b", ",", "a", "FROM", "t", "UNION", "SELECT", "c", ",", "d", "FROM", "u">>,
  <<"SELECT", "b", "FROM", "t", "INTERSECT", "SELECT", "d", "FROM", "u">>,
  <<"SELECT", "b", "FROM", "t", "INTERSECT", "ALL", "SELECT", "d", "FROM", "u">>,
  <<"SELECT", "b", "FROM", "t", "EXCEPT", "SELECT", "d", "FROM", "u">>,
  <<"SELECT", "b", "FROM", "t", "EXCEPT", "ALL", "SELECT", "d", "FROM", "u", "UNION", "SELECT",
    "c", "FROM", "u">>}

\* The other statements, and sequences that are no statement.
OtherTexts == {
  <<"INSERT", "INTO", "t", "(", "a", ",", "b", ")", "VALUES", "(", "1", ",", "2", ")", ",", "(",
    "2", ",", "NULL", ")">>,
  <<"INSERT", "INTO", "t", "VALUES", "(", "1", "+", "2", ",", "'1'", ")">>,
  <<"UPDATE", "t", "SET", "a", "=", "1", ",", "b", "=", "NULL", "WHERE", "a", "=", "2">>,
  <<"DELETE", "FROM", "t">>,
  <<"DELETE", "FROM", "t", "WHERE", "a", "IN", "(", "SELECT", "c", "FROM", "u", ")">>,
  <<"CREATE", "TABLE", "IF", "NOT", "EXISTS", "t", "(", "a", "INT", "PRIMARY", "KEY", ",", "b",
    "VARCHAR", "(", "3", ")", "NOT", "NULL", "UNIQUE", ")">>,
  <<"CREATE", "TABLE", "t", "(", "a", "BIGINT", ",", "b", "DOUBLE", ",", "PRIMARY", "KEY", "(",
    "a", ",", "b", ")", ")">>,
  <<"CREATE", "TABLE", "t", "(", "a", "INT", "NOT", "NULL", ",", "b", "VECTOR", "(", "2", ")",
    ")">>,
  <<"CREATE", "TABLE", "t", "(", "a", "BOOL", "NOT", ",", "b", "TEXT", "UNIQUE", ",", "c",
    "TIMESTAMP", ",", "d", "x", ")">>,
  <<"DROP", "TABLE", "t">>,
  <<"CREATE", "INDEX", "i", "ON", "t", "(", "a", ",", "b", ")">>,
  <<"CREATE", "POLICY", "p", "ON", "t", "USING", "(", "a", "=", "CURRENT_USER", ")">>,
  <<"ALTER", "TABLE", "t", "ENABLE", "ROW", "LEVEL", "SECURITY">>,
  <<"ALTER", "TABLE", "t", "ADD", "COLUMN", "c", "INT", "NOT", "NULL">>,
  <<"ALTER", "TABLE", "t", "ADD", "c", "CHAR", "UNIQUE">>,
  <<"PREPARE", "p", "AS", "SELECT", "a", "FROM", "t", "WHERE", "b", "=", "$1">>,
  <<"EXECUTE", "p", "(", "1", ",", "'1'", ")">>,
  <<"EXECUTE", "p">>,
  <<"SET", "ROLE", "admin">>,
  <<"SET", "ROLE", "'1'">>,
  <<"BEGIN">>,
  <<"COMMIT">>,
  <<"ROLLBACK">>,
  <<"ANALYZE", "TABLE", "t">>,
  <<"SELECT", "a", "AS", "\"x y\"", "FROM", "t">>,
  <<"SELECT", "a", "FROM">>,
  <<"SELECT", "FROM", "t">>,
  <<"INSERT", "INTO", "t", "VALUES">>,
  <<"DROP", "t">>,
  <<"SELECT", "a", "FROM", "t", "WHERE", "a", "=", "1", "b">>,
  <<"SELECT", "a", "b", "c", "FROM", "t">>,
  <<"UPDATE", "t", "SET", "a", "1">>,
  <<"CREATE", "TABLE", "t", "(", ")">>,
  <<"EXECUTE", "p", "(">>}

MCSources == FilterTexts \cup SortTexts \cup WindowTexts \cup JoinTexts \cup NestedTexts \cup OtherTexts
=============================================================================
