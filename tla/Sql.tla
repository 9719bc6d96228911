-------------------------------- MODULE Sql --------------------------------
(***************************************************************************)
(* What a SELECT promises, straight from its syntax tree: the reference    *)
(* the planner, the optimizer and the executor are checked against.        *)
(* Expressions mean what Eval.tla says; everything relational is defined   *)
(* here: products, outer joins, subqueries evaluated row by row, grouping, *)
(* set operations and ordering.  No plan, key, index or column set here.   *)
(***************************************************************************)
EXTENDS Executor

\* The row with this id: a legacy cell, or else the cell of the packed record.
Cells(st, t, id, c) ==
  LET mine == SelectSeq(st.tables[t], LAMBDA e : e.id = id)
      legacy == SelectSeq(mine, LAMBDA e : e.col = c)
      packed == SelectSeq(FlattenSeq([i \in DOMAIN mine |-> IF mine[i].col = "" THEN mine[i].val ELSE <<>>]),
                          LAMBDA p : p[1] = c)
  IN IF legacy # <<>> THEN <<legacy[1].val>> ELSE IF packed # <<>> THEN <<packed[1][2]>> ELSE <<>>
FullRow(st, t, id) ==
  FlattenSeq([i \in DOMAIN Schema[t] |->
    LET v == Cells(st, t, id, Schema[t][i])
    IN IF v = <<>> THEN <<>> ELSE <<<<<<Schema[t][i]>>, Txt(v[1])>>>>])
FullRows(st, t) ==
  LET ids == SetToSeq({e.id : e \in Range(st.tables[t])})
  IN [i \in DOMAIN ids |-> FullRow(st, t, ids[i])]

\* Names are looked up in the query's own row first, then in the outer one.
Else(v, w) == IF IsError(v) THEN w ELSE v
Truth(e, row, env) == Else(EvalPredicate(e, row), EvalPredicate(e, row \o env))
ValueOf(e, row, env) == Else(EvalExpr(e, row), EvalExpr(e, row \o env))

\* The columns of a table or a subquery, for the NULLs of a left join.
Labels(f) == IF f[1] = "Table" THEN Schema[f[2]] ELSE [i \in DOMAIN f[2].items |-> ItemLabel(f[2].items[i])]
Padding(f) ==
  LET a == IF f[1] = "Table" THEN AliasOf(f) ELSE f[3]
  IN [i \in DOMAIN Labels(f) |-> <<<<a, Labels(f)[i]>>, Null>>]

RECURSIVE Ask(_, _, _, _)
Answer(q, st, env) == Ask("rows", q, st, env)

SourceRows(f, st, env) ==
  IF f[1] = "Subquery" THEN PrefixRows(Answer(f[2], st, env), f[3])
  ELSE PrefixRows(IF f[2] \in DOMAIN st.ctes THEN st.ctes[f[2]] ELSE FullRows(st, f[2]), AliasOf(f))

Hits(l, rs, on, env) == SelectSeq(rs, LAMBDA r : Truth(on, l \o r, env) = True)
Extend(l, hits, j) ==
  IF hits # <<>> THEN [i \in DOMAIN hits |-> l \o hits[i]]
  ELSE IF j.kind = "LEFT" THEN <<l \o Padding(j.table)>> ELSE <<>>
JoinRows(ls, rs, j, env) ==
  FlattenSeq([i \in DOMAIN ls |-> Extend(ls[i], Hits(ls[i], rs, j.on, env), j)])
RECURSIVE AddJoins(_, _, _, _)
AddJoins(ls, joins, st, env) ==
  IF joins = <<>> THEN ls
  ELSE AddJoins(JoinRows(ls, SourceRows(joins[1].table, st, env), joins[1], env), Tail(joins), st, env)
FromRows(q, st, env) ==
  AddJoins(IF q.from = None THEN <<<<>>>> ELSE SourceRows(q.from[1], st, env), q.joins, st, env)

\* One conjunct of WHERE.  IN over a subquery compares with its first column.
Conjuncts(q) == IF q.where = None THEN <<>> ELSE FlattenAnd(q.where[1])
Meets(c, row, st, env) ==
  CASE c[1] = "InSubquery" ->
         (\E r \in Range(Answer(c[3], st, row \o env)) :
            SqlEq(ValueOf(c[2], row, env), r[1][2]) = True) # c[4]
    [] c[1] = "Exists" -> (Answer(c[2], st, row \o env) # <<>>) # c[3]
    [] OTHER -> Truth(c, row, env) = True
WhereRows(q, st, env) ==
  SelectSeq(FromRows(q, st, env), LAMBDA r : \A c \in Range(Conjuncts(q)) : Meets(c, r, st, env))

\* An aggregate over the rows of a group; SUM of nothing is NULL.
NullOr(nums, v) == IF nums = <<>> THEN Null ELSE v
Ratio(f) == Flt(f[1], f[2])
Share(f, n) == Flt(f[1], f[2] * n)
Numbers(vals) == FlattenSeq([i \in DOMAIN vals |-> FracOf(vals[i])])
Total(fn, nums) ==
  CASE fn = "SUM" -> NullOr(nums, Ratio(FracSum(nums)))
    [] fn = "AVG" -> NullOr(nums, Share(FracSum(nums), Len(nums)))
    [] fn = "MIN" -> NullOr(nums, Ratio(Least(nums, FracLt)))
    [] fn = "MAX" -> NullOr(nums, Ratio(Least(nums, LAMBDA a, b : FracLt(b, a))))
ValuesOf(e, rows, env) == [i \in DOMAIN rows |-> ValueOf(e, rows[i], env)]
AggOver(fn, vals) ==
  IF fn = "COUNT" THEN Num(Len(SelectSeq(vals, LAMBDA v : v # Null))) ELSE Total(fn, Numbers(vals))
AggValue(e, rows, env) ==
  IF e[2] = "COUNT" /\ (e[3] = <<>> \/ e[3][1][1] \in {"Star", "Lit"}) THEN Num(Len(rows))
  ELSE AggOver(e[2], ValuesOf(e[3][1], rows, env))

\* An expression over a group: its aggregates replaced by their values.
RECURSIVE OverGroup(_, _, _)
OverGroup(e, rows, env) ==
  CASE IsPlainCall(e) /\ e[2] \in AggNames -> Lit(AggValue(e, rows, env))
    [] e[1] = "Binary" -> Binary(e[2], OverGroup(e[3], rows, env), OverGroup(e[4], rows, env))
    [] e[1] = "Paren" -> OverGroup(e[2], rows, env)
    [] OTHER -> e

KeyOf(es, row, env) == [i \in DOMAIN es |-> ValueOf(es[i], row, env)]
Split(rows, key) == {SelectSeq(rows, LAMBDA r : key[r] = k) : k \in Range(key)}
GroupsOf(q, rows, env) ==
  IF q.group = <<>> THEN {rows}
  ELSE Split(rows, [r \in Range(rows) |-> KeyOf(q.group, r, env)])

\* A window function at row i: the rows of its partition (mine), their places
\* by the number of rows before them, and the places in the frame.
Mine(i, key) == {j \in DOMAIN key : key[j] = key[i]}
Places(mine, rows, keys) ==
  [j \in mine |-> Cardinality({k \in mine : RowLt(rows[k], rows[j], keys)}) + 1]
FramePlace(b, here, n) ==
  CASE b[1] = "UnboundedPreceding" -> 1
    [] b[1] = "Preceding" -> here - b[2]
    [] b[1] = "CurrentRow" -> here
    [] b[1] = "Following" -> here + b[2]
    [] b[1] = "UnboundedFollowing" -> n
InFrame(spec, there, here, n) ==
  IF spec.frame = None THEN spec.order = <<>> \/ there <= here
  ELSE there \in FramePlace(spec.frame[1].start, here, n)..FramePlace(spec.frame[1].end, here, n)
FrameRows(spec, place, i, rows) ==
  {j \in DOMAIN place : InFrame(spec, place[j], place[i], Len(rows))}
Pick(rows, ids) == [k \in DOMAIN ids |-> rows[ids[k]]]
WindowTotal(fn, vals) == Total(fn, FlattenSeq([k \in DOMAIN vals |-> Numeric(vals[k])]))
WindowAt(e, i, rows, place, env) ==
  CASE e[2] \in {"ROW_NUMBER", "RANK"} -> Num(place[i])
    [] e[2] = "DENSE_RANK" -> Num(Cardinality({n \in Range(place) : n < place[i]}) + 1)
    [] OTHER ->
         WindowTotal(e[2], ValuesOf(e[3][1], Pick(rows, SetToSeq(FrameRows(e[4][1], place, i, rows))), env))
WindowValue(e, i, rows, env) ==
  LET spec == e[4][1]
      keys == [k \in DOMAIN spec.order |-> <<<<spec.order[k].e[3]>>, spec.order[k].asc>>]
  IN WindowAt(e, i, rows,
              Places(Mine(i, [j \in DOMAIN rows |-> KeyOf(spec.parts, rows[j], env)]), rows, keys), env)
IsWindow(e) == e[1] = "Function" /\ e[4] # None

\* The same sequence; TLC evaluates its elements once, here.
Evaluated(s) == s \o <<>>

\* The rows of a SELECT without its ORDER BY, LIMIT and set operation.
GroupValue(e, g, env) == ValueOf(OverGroup(e, g, env), IF g = <<>> THEN <<>> ELSE g[1], env)
GroupLine(items, g, env) ==
  Evaluated([i \in DOMAIN items |-> <<OutputName(items[i]), GroupValue(items[i].e, g, env)>>])
GroupLines(items, groups, env) == [i \in DOMAIN groups |-> GroupLine(items, groups[i], env)]
KeptGroups(q, groups, env) ==
  SetToSeq({g \in groups : q.having = None \/ GroupValue(q.having[1], g, env) = True})
Line(items, i, rows, env) ==
  Evaluated([k \in DOMAIN items |-> <<CellName(items[k]),
    IF IsWindow(items[k].e) THEN WindowValue(items[k].e, i, rows, env)
    ELSE ValueOf(items[k].e, rows[i], env)>>])
Lines(q, items, rows, env) ==
  IF HasAggregate(items) THEN GroupLines(items, KeptGroups(q, GroupsOf(q, rows, env), env), env)
  ELSE [i \in DOMAIN rows |-> Line(items, i, rows, env)]
Distinctly(q, out) == IF q.distinct THEN SetToSeq(Range(out)) ELSE out
CoreRows(q, st, env) ==
  Distinctly(q, Evaluated(Lines(q, ExpandItems(q), WhereRows(q, st, env), env)))

\* The CTEs of a query, each over the ones before it; a recursive one is the
\* least set of rows that holds its anchor and what it derives from itself.
Grown(acc, next) ==
  IF acc = None THEN next
  ELSE acc[1] \o DedupRows(SelectSeq(next, LAMBDA r : RowKey(r) \notin KeysOfRows(acc[1])))
RECURSIVE Closure(_, _, _)
Closed(cte, acc, rows, st) ==
  IF cte.rec = None \/ acc = Some(rows) THEN rows ELSE Closure(cte, Some(rows), st)
Closure(cte, acc, st) ==
  Closed(cte, acc,
         Grown(acc, Answer(IF acc = None THEN cte.anchor ELSE cte.rec[1],
                           [st EXCEPT !.ctes = [n \in {cte.name : r \in Range(acc)} |-> acc[1]] @@ @],
                           <<>>)), st)
RECURSIVE AddCtes(_, _)
AddCtes(ctes, st) ==
  IF ctes = <<>> THEN st
  ELSE AddCtes(Tail(ctes), [st EXCEPT !.ctes =
         (ctes[1].name :> Closure(ctes[1], None, st)) @@ @])
WithCtes(q, st) == IF q.with = None THEN st ELSE AddCtes(q.with[1].ctes, st)

\* A set operation takes the names of its left side and matches by position.
Renamed(ls, rs) ==
  IF ls = <<>> THEN rs
  ELSE [k \in DOMAIN rs |-> Evaluated([i \in DOMAIN rs[k] |-> <<ls[1][i][1], rs[k][i][2]>>])]
Occurs(r, rows) == Len(SelectSeq(rows, LAMBDA x : x = r))
Copies(c, a, b) ==
  CASE c.op = "UNION" -> a + b
    [] c.op = "INTERSECT" -> Min({a, b})
    [] c.op = "EXCEPT" /\ c.all -> Max({a - b, 0})
    [] c.op = "EXCEPT" /\ ~c.all -> IF b = 0 THEN a ELSE 0
Repeated(r, n, c) == [k \in 1..(IF c.all THEN n ELSE Min({n, 1})) |-> r]
Merged(c, ls, rs, both) ==
  FlattenSeq([i \in DOMAIN both |->
    Repeated(both[i], Copies(c, Occurs(both[i], ls), Occurs(both[i], rs)), c)])
Combined(c, ls, rs) == Merged(c, ls, rs, SetToSeq(Range(ls) \cup Range(rs)))
AlignedUnion(c, ls, rs) == Combined(c, ls, Evaluated(Renamed(ls, rs)))
Compounded(q, ls, st, env) ==
  IF q.compound = None THEN ls
  ELSE AlignedUnion(q.compound[1], ls, Answer(q.compound[1].right, st, env))

\* A scalar subquery is its first value, or NULL.
First(rows) == IF rows = <<>> \/ rows[1][1][2] = Txt("") THEN Null ELSE rows[1][1][2]
AnswerFolded(q, st, env) == Compounded(q, CoreRows(q, st, env), st, env)
AnswerOver(q, st, env) ==
  AnswerFolded(FoldSelect(q, [s \in ScalarsOf(q) |-> First(Answer(s, st, env))]), st, env)

\* The rows of a query; or also the ones it is made of: those of its FROM
\* clause, and the two sides of each join.
WithParts(q, rows, st, env) ==
  [rows |-> rows, from |-> FromRows(q, st, env),
   left |-> [i \in DOMAIN q.joins |-> FromRows([q EXCEPT !.joins = SubSeq(@, 1, i - 1)], st, env)],
   right |-> [i \in DOMAIN q.joins |-> SourceRows(q.joins[i].table, st, env)]]
AskFor(what, q, rows, st, env) == IF what = "rows" THEN rows ELSE WithParts(q, rows, st, env)
AskOver(what, q, st, env) == AskFor(what, q, AnswerOver(q, st, env), st, env)
Ask(what, q, st, env) == AskOver(what, q, WithCtes(q, st), env)
=============================================================================
