------------------------------ MODULE Planner ------------------------------
(***************************************************************************)
(* SELECT to logical plan (noedb-planner: build.rs, aggregate.rs,          *)
(* subquery.rs, star.rs, window.rs, and the key extraction of join.rs).    *)
(* A plan is a tuple: its operator, then its inputs, then its parameters.  *)
(***************************************************************************)
EXTENDS Eval

CONSTANT Schema   \* the columns of each table, in order

PlanError == <<"PlanError">>
IsPlanError(p) == p[1] = "PlanError"

\* LIMIT without a count is u64::MAX: above every number of rows here.
NoLimit == 1000000

Scan(table, prefix) == <<"Scan", table, prefix>>
CteScan(name, prefix) == <<"CteScan", name, prefix>>
SubqueryScan(in, alias) == <<"SubqueryScan", in, alias>>
Filter(in, pred) == <<"Filter", in, pred>>
Project(in, items) == <<"Project", in, items>>
Join(l, r, on, outer) == <<"Join", l, r, on, outer>>
Aggregate(in, group, aggs) == <<"Aggregate", in, group, aggs>>
Sort(in, keys) == <<"Sort", in, keys>>
Limit(in, limit, offset) == <<"Limit", in, limit, offset>>
Window(in, windows) == <<"Window", in, windows>>
SemiJoin(l, r, lk, rk, corr, neg) == <<"SemiJoin", l, r, lk, rk, corr, neg>>
SetOp(l, r, op, all) == <<"SetOp", l, r, op, all>>
Distinct(in) == <<"Distinct", in>>

-----------------------------------------------------------------------------
(* Predicates. *)

\* extract_equi_join: the two column names of `a = b`.
RECURSIVE EquiJoin(_)
EquiJoin(e) ==
  CASE e[1] = "Paren" -> EquiJoin(e[2])
    [] e[1] = "Binary" /\ e[2] = "=" /\ IsColumn(e[3]) /\ IsColumn(e[4]) ->
         Some(<<NameOf(e[3]), NameOf(e[4])>>)
    [] OTHER -> None

AndOf(l, r) == Binary("AND", l, r)
IsAnd(e) == e[1] = "Binary" /\ e[2] = "AND"

\* Takes the IN (SELECT) or EXISTS predicates that are conjuncts of a WHERE
\* out of it: what is left, and the predicates in order.
RECURSIVE Peel(_, _)
Peel(kind, e) ==
  IF e[1] = kind THEN <<None, <<e>>>>
  ELSE IF ~IsAnd(e) THEN <<Some(e), <<>>>>
  ELSE LET l == Peel(kind, e[3])  r == Peel(kind, e[4])
       IN << IF l[1] = None THEN r[1] ELSE IF r[1] = None THEN l[1]
             ELSE Some(AndOf(l[1][1], r[1][1])),
             l[2] \o r[2] >>
PeelOption(kind, where) == IF where = None THEN <<None, <<>>>> ELSE Peel(kind, where[1])

RECURSIVE FlattenAnd(_)
FlattenAnd(e) == IF IsAnd(e) THEN FlattenAnd(e[3]) \o FlattenAnd(e[4]) ELSE <<e>>

AndExprs(es) == IF es = <<>> THEN None ELSE Some(FoldLeft(AndOf, es[1], Tail(es)))

\* The names a FROM clause can be referred to by.
FromNames(f) == IF f[1] = "Table" THEN {f[2]} \cup Range(f[3]) ELSE {f[3]}
TableNames(q) ==
  UNION {FromNames(f) : f \in Range(q.from) \cup {j.table : j \in Range(q.joins)}}

\* is_correlation_eq: an equality between a column of the outer query and one
\* of the inner query, both qualified.
Correlates(e, outer, inner) ==
  /\ e[1] = "Binary" /\ e[2] = "=" /\ IsColumn(e[3]) /\ IsColumn(e[4])
  /\ \/ e[3][2] \in outer /\ e[4][2] \in inner
     \/ e[3][2] \in inner /\ e[4][2] \in outer

Correlations(where, outer, inner) ==
  IF where = None THEN <<>>
  ELSE SelectSeq(FlattenAnd(where[1]), LAMBDA e : Correlates(e, outer, inner))
Uncorrelated(where, outer, inner) ==
  IF where = None THEN None
  ELSE AndExprs(SelectSeq(FlattenAnd(where[1]), LAMBDA e : ~Correlates(e, outer, inner)))

\* subquery_column_name
KeyItem(q) ==
  LET item == q.items[1]
  IN IF IsColumn(item.e) THEN Some(<<item.e[3]>>)
     ELSE IF item.as # <<>> THEN Some(item.as) ELSE None

\* side_column looks among the outer names first.  The column names of the
\* correlation: <<outer, inner>>.
CorrelationKeys(e, outer, inner) ==
  LET side(c) == IF c[2] \in outer THEN "outer" ELSE IF c[2] \in inner THEN "inner" ELSE ""
  IN IF side(e[3]) = "outer" /\ side(e[4]) = "inner" THEN Some(<<<<e[3][3]>>, <<e[4][3]>>>>)
     ELSE IF side(e[3]) = "inner" /\ side(e[4]) = "outer"
     THEN Some(<<<<e[4][3]>>, <<e[3][3]>>>>)
     ELSE None

\* The first correlation that gives keys; if the subquery projects a column,
\* one whose inner side is that column.
ExistsKeys(corr, projected, outer, inner) ==
  LET keys == [i \in DOMAIN corr |-> CorrelationKeys(corr[i], outer, inner)]
      i == SelectInSeq(keys, LAMBDA k : k # None /\ (projected # None => k[1][2] = projected[1]))
  IN IF i = 0 THEN None ELSE keys[i]

-----------------------------------------------------------------------------
(* Aggregates, windows and stars. *)

AggNames == {"COUNT", "SUM", "AVG", "MIN", "MAX"}
IsPlainCall(e) == e[1] = "Function" /\ e[4] = None

RECURSIVE ColumnKey(_)
ColumnKey(e) ==
  CASE IsColumn(e) -> Some(NameOf(e))  [] e[1] = "Cast" -> ColumnKey(e[2])  [] OTHER -> None

\* agg_func_from_item: the function and the column it reads, if it is one.
AggOf(e) ==
  LET arg == e[3][1]  n == Len(e[3])
  IN IF ~IsPlainCall(e) \/ e[2] \notin AggNames THEN None
     ELSE IF e[2] = "COUNT" THEN
       IF n = 0 \/ (n = 1 /\ arg[1] \in {"Star", "Lit"}) THEN Some(<<"COUNT_STAR", <<>>>>)
       ELSE IF n = 1 /\ IsColumn(arg) THEN Some(<<"COUNT", NameOf(arg)>>) ELSE None
     ELSE IF n = 1 /\ ColumnKey(arg) # None THEN Some(<<e[2], ColumnKey(arg)[1]>>) ELSE None

\* contains_aggregate asks for the name only.
HasAggregate(items) == \E i \in DOMAIN items : IsPlainCall(items[i].e) /\ items[i].e[2] \in AggNames

\* Lower-case names of the functions.
LowerName(f) ==
  CASE f = "COUNT" -> "count" [] f = "SUM" -> "sum" [] f = "AVG" -> "avg" [] f = "MIN" -> "min"
    [] f = "MAX" -> "max" [] f = "RANK" -> "rank" [] f = "ROW_NUMBER" -> "row_number"
    [] f = "DENSE_RANK" -> "dense_rank" [] OTHER -> f

\* projection_name of aggregate.rs
OutputName(item) ==
  CASE item.as # <<>> -> item.as
    [] item.as = <<>> /\ item.e[1] = "Function" -> <<LowerName(item.e[2])>>
    [] item.as = <<>> /\ IsColumn(item.e) -> NameOf(item.e)
    [] OTHER -> <<"col">>

\* maybe_build_aggregate: every other item must be a grouping column.
BuildAggregate(in, q, items) ==
  LET calls == SelectSeq(items, LAMBDA it : AggOf(it.e) # None)
      keys == [i \in DOMAIN q.group |-> NameOf(q.group[i])]
      names == {k \in Range(keys) : TRUE} \cup {<<Bare(k)>> : k \in Range(keys)}
      grouped == /\ \A i \in DOMAIN q.group : IsColumn(q.group[i])
                 /\ q.group # <<>> =>
                      \A it \in Range(items) :
                         AggOf(it.e) = None => IsColumn(it.e) /\ NameOf(it.e) \in names
  IN IF calls = <<>> THEN in
     ELSE IF ~grouped THEN PlanError
     ELSE Aggregate(in, keys,
                    [i \in DOMAIN calls |-> <<OutputName(calls[i]), AggOf(calls[i].e)[1]>>])

\* rewrite_having_for_aggregate: a call of the select list is read by its name.
RECURSIVE RewriteHaving(_, _)
RewriteHaving(e, items) ==
  LET i == SelectInSeq(items, LAMBDA it : IsPlainCall(e) /\ it.e = e)
      re(x) == RewriteHaving(x, items)
  IN CASE e[1] = "Function" ->
            IF i = 0 THEN e ELSE Col("", Bare(OutputName(items[i])))
       [] e[1] = "Binary" -> Binary(e[2], re(e[3]), re(e[4]))
       [] e[1] = "Unary" -> Unary(e[2], re(e[3]))
       [] e[1] = "IsNull" -> IsNull(re(e[2]), e[3])
       [] e[1] = "Between" -> Between(re(e[2]), re(e[3]), re(e[4]), e[5])
       [] e[1] = "Paren" -> Paren(re(e[2]))
       [] OTHER -> e

\* split_window_items: the window a call computes, if it computes one.
WindowOf(item) ==
  LET e == item.e
      known == IF e[3] = <<>> THEN {"ROW_NUMBER", "RANK", "DENSE_RANK"}
               ELSE IF Len(e[3]) = 1 THEN {"SUM", "AVG"} ELSE {}
  IN IF e[1] # "Function" \/ e[4] = None \/ e[2] \notin known THEN None
     ELSE Some([fn |-> e[2], arg |-> e[3], spec |-> e[4][1],
                out |-> IF item.as = <<>> THEN <<LowerName(e[2])>> ELSE item.as])
Windows(items) ==
  FlattenSeq([i \in DOMAIN items |-> WindowOf(items[i])])
Projected(items) ==
  [i \in DOMAIN items |->
     IF WindowOf(items[i]) = None THEN items[i]
     ELSE SelectItem(Col("", Bare(WindowOf(items[i])[1].out)), items[i].as)]

\* star.rs: the columns a table or a subquery contributes.
ItemLabel(item) ==
  CASE item.as # <<>> -> Bare(item.as)
    [] item.as = <<>> /\ IsColumn(item.e) -> item.e[3]
    [] item.as = <<>> /\ item.e[1] = "Function" -> LowerName(item.e[2])
    [] OTHER -> "col"
StarItem(prefix, c) ==
  IF prefix = "" THEN SelectItem(Col("", c), <<>>) ELSE SelectItem(Col(prefix, c), <<prefix, c>>)
ExpandFrom(f, qualify) ==
  LET cols == IF f[1] = "Table" THEN Schema[f[2]]
              ELSE [i \in DOMAIN f[2].items |-> ItemLabel(f[2].items[i])]
      prefix == IF ~qualify THEN "" ELSE IF f[1] = "Table" THEN AliasOf(f) ELSE f[3]
  IN [i \in DOMAIN cols |-> StarItem(prefix, cols[i])]

\* The tables a star stands for.
StarSources(q, t) ==
  LET all == q.from \o [i \in DOMAIN q.joins |-> q.joins[i].table]
      i == SelectInSeq(all, LAMBDA f : t \in FromNames(f))
  IN IF t = "" THEN all ELSE IF i = 0 THEN <<>> ELSE <<all[i]>>
Resolved(f, catalog) == f[1] = "Subquery" \/ (catalog /\ f[2] \in DOMAIN Schema)
StarsResolve(q, catalog) ==
  \A i \in DOMAIN q.items : q.items[i].e[1] = "Star" =>
     LET src == StarSources(q, q.items[i].e[2])
     IN src # <<>> /\ \A f \in Range(src) : Resolved(f, catalog)
ExpandItems(q) ==
  LET expand(f) == ExpandFrom(f, q.joins # <<>>)
      one(it) == IF it.e[1] # "Star" THEN <<it>>
                 ELSE LET src == StarSources(q, it.e[2])
                      IN FlattenSeq([i \in DOMAIN src |-> expand(src[i])])
  IN FlattenSeq([i \in DOMAIN q.items |-> one(q.items[i])])

-----------------------------------------------------------------------------
(* ORDER BY. *)

\* projection_name of build.rs
ProjectionName(item) ==
  CASE item.as # <<>> -> item.as
    [] item.as = <<>> /\ IsColumn(item.e) -> NameOf(item.e)
    [] OTHER -> <<"col">>

\* resolve_sort_column: the output column a sort key names, if it is a column.
SortColumn(items, e) ==
  LET names(it) == \/ it.as = <<e[3]>>
                   \/ IsColumn(it.e) /\ it.e[2] = e[2] /\ it.e[3] = e[3]
      i == SelectInSeq(items, names)
  IN IF ~IsColumn(e) THEN None
     ELSE IF i = 0 THEN Some(NameOf(e))
     ELSE IF items[i].as = <<e[3]>> THEN Some(items[i].as) ELSE Some(ProjectionName(items[i]))

SortAlias(i) == <<"__sort__", ToString(i)>>
SortKeys(items, order) ==
  [i \in DOMAIN order |->
     LET c == SortColumn(items, order[i].e)
     IN <<IF c = None THEN SortAlias(i) ELSE c[1], order[i].asc>>]
SortExtra(items, order) ==
  LET needs == {i \in DOMAIN order : SortColumn(items, order[i].e) = None}
  IN [k \in 1..Cardinality(needs) |->
        LET i == SetToSortSeq(needs, <)[k] IN SelectItem(order[i].e, SortAlias(i))]

-----------------------------------------------------------------------------
(* The plan of a SELECT. *)

TableScan(t, scope, qualify) ==
  LET prefix == IF qualify THEN AliasOf(t) ELSE ""
  IN IF t[2] \in scope THEN CteScan(t[2], prefix) ELSE Scan(t[2], prefix)

\* HAVING, projection, DISTINCT, ORDER BY and LIMIT over the rows of a query.
HavingOf(in, q, items) ==
  IF q.having = None THEN in ELSE Filter(in, RewriteHaving(q.having[1], items))
ProjectOf(in, q, items) ==
  IF HasAggregate(items) \/ SortExtra(items, q.order) # <<>> THEN in ELSE Project(in, items)
DistinctOf(in, q) == IF q.distinct THEN Distinct(in) ELSE in
OutputItems(q, items) ==
  IF ~HasAggregate(items) THEN items
  ELSE [i \in DOMAIN q.group |-> SelectItem(q.group[i], <<>>)]
         \o SelectSeq(items, LAMBDA it : IsPlainCall(it.e) /\ it.e[2] \in AggNames)
WidenedBy(in, outputs, extra) == IF extra = <<>> THEN in ELSE Project(in, outputs \o extra)
SortOf(in, q, outputs) ==
  IF q.order = <<>> THEN in
  ELSE Sort(WidenedBy(in, outputs, SortExtra(outputs, q.order)), SortKeys(outputs, q.order))
LimitOf(in, q) ==
  IF q.limit = None /\ q.offset = None THEN in
  ELSE Limit(in, IF q.limit = None THEN NoLimit ELSE q.limit[1],
             IF q.offset = None THEN 0 ELSE q.offset[1])
BuildOutput(in, q, items) ==
  IF IsPlanError(in) THEN PlanError
  ELSE LimitOf(SortOf(DistinctOf(ProjectOf(HavingOf(in, q, items), q, items), q), q,
                      OutputItems(q, items)), q)

RECURSIVE Build(_, _, _)

\* decorrelate_one: `a IN (SELECT k ...)` becomes a semi-join on a and k.
InJoin(in, pred, key, corr, plan) ==
  IF IsPlanError(in) \/ ~IsColumn(pred[2]) \/ key = None \/ IsPlanError(plan) THEN PlanError
  ELSE SemiJoin(in, plan, <<pred[2][3]>>, key[1], AndExprs(corr), pred[4])
DecorrelateIn(in, pred, outer, scope) ==
  LET q == pred[3]  inner == TableNames(q)
  IN InJoin(in, pred, KeyItem(q), Correlations(q.where, outer, inner),
            Build([q EXCEPT !.where = Uncorrelated(@, outer, inner)], scope, FALSE))

\* decorrelate_exists: without a correlation the answer is fixed when the plan
\* is built, from the FROM clause alone.
ExistsKeyPair(key, found) ==
  IF key # None /\ found = None THEN Some(<<<<"__exists_outer__">>, key[1]>>) ELSE found
Keyed(q, key, keys) ==
  IF key # None \/ keys = None THEN q
  ELSE [q EXCEPT !.items = <<SelectItem(Col("", Bare(keys[1][2])), <<>>)>>]
ExistsJoin(in, neg, inner, corr, keys, plan) ==
  IF IsPlanError(in) \/ IsPlanError(plan) THEN PlanError
  ELSE IF corr = <<>> THEN IF neg = (inner # {}) THEN Filter(in, Lit(False)) ELSE in
  ELSE IF keys = None THEN PlanError
  ELSE SemiJoin(in, plan, keys[1][1], keys[1][2], AndExprs(corr), neg)
DecorrelateExists(in, pred, outer, scope) ==
  LET q == pred[2]
      inner == TableNames(q)
      corr == Correlations(q.where, outer, inner)
      own == [q EXCEPT !.where = Uncorrelated(@, outer, inner)]
      keys == ExistsKeyPair(KeyItem(q), ExistsKeys(corr, KeyItem(q), outer, inner))
  IN ExistsJoin(in, pred[3], inner, corr, keys, Build(Keyed(own, KeyItem(q), keys), scope, FALSE))

RECURSIVE Decorrelate(_, _, _, _)
Decorrelate(in, preds, outer, scope) ==
  IF preds = <<>> THEN in
  ELSE Decorrelate(IF preds[1][1] = "Exists" THEN DecorrelateExists(in, preds[1], outer, scope)
                   ELSE DecorrelateIn(in, preds[1], outer, scope), Tail(preds), outer, scope)

\* build_select_scoped.  scope holds the names of the CTEs; catalog says
\* whether the schema is at hand (it is not in a subquery).
SubqueryPlan(sub, alias) == IF IsPlanError(sub) THEN PlanError ELSE SubqueryScan(sub, alias)
BuildFrom(q, scope, catalog) ==
  IF q.from = None THEN Scan("", "")
  ELSE IF q.from[1][1] = "Table" THEN TableScan(q.from[1], scope, q.joins # <<>>)
  ELSE SubqueryPlan(Build(q.from[1][2], scope, catalog), q.from[1][3])
BuildJoins(from, q, scope) ==
  FoldLeft(LAMBDA p, j : Join(p, TableScan(j.table, scope, TRUE), j.on, j.kind = "LEFT"), from, q.joins)

\* WHERE, the subqueries of its conjunction taken out: ins then exs.
BuildWhere(in, q, ins, exs, scope) ==
  IF IsPlanError(in) THEN PlanError
  ELSE Decorrelate(IF exs[1] = None THEN in ELSE Filter(in, exs[1][1]),
                   ins[2] \o exs[2], TableNames(q), scope)
PeelWhere(in, q, ins, scope) == BuildWhere(in, q, ins, PeelOption("Exists", ins[1]), scope)
WindowOver(in, windows) == IF windows = <<>> THEN in ELSE Window(in, windows)
BuildItems(in, q, listed) ==
  IF IsPlanError(in) THEN PlanError
  ELSE BuildOutput(BuildAggregate(WindowOver(in, Windows(listed)), q, Projected(listed)), q,
                   Projected(listed))
BuildCompound(plan, right, q) ==
  IF IsPlanError(plan) \/ IsPlanError(right) THEN PlanError
  ELSE SetOp(plan, right, q.compound[1].op, q.compound[1].all)
BuildSelect(from, q, scope, catalog) ==
  IF IsPlanError(from) \/ ~StarsResolve(q, catalog) THEN PlanError
  ELSE BuildItems(PeelWhere(BuildJoins(from, q, scope), q, PeelOption("InSubquery", q.where), scope),
                  q, ExpandItems(q))
Build(q, scope, catalog) ==
  LET plan == BuildSelect(BuildFrom(q, scope, catalog), q, scope, catalog)
  IN IF q.compound = None THEN plan
     ELSE BuildCompound(plan, Build(q.compound[1].right, scope, catalog), q)

-----------------------------------------------------------------------------
(* Scalar subqueries: the tree walk of fold.rs. *)

\* The places of the expressions directly inside one; IN and EXISTS over a
\* subquery are left alone.
Parts(e) ==
  CASE e[1] = "Binary" -> {3, 4}
    [] e[1] = "Unary" -> {3}
    [] e[1] \in {"IsNull", "Cast", "Paren", "In"} -> {2}
    [] e[1] = "Between" -> {2, 3, 4}
    [] OTHER -> {}
Lists(e) == IF e[1] \in {"In", "Function"} THEN {3} ELSE {}

RECURSIVE Scalars(_)
Scalars(e) ==
  IF e[1] = "ScalarSubquery" THEN {e[2]}
  ELSE UNION {Scalars(e[i]) : i \in Parts(e)}
         \cup UNION {UNION {Scalars(x) : x \in Range(e[i])} : i \in Lists(e)}

\* The scalar subqueries replaced by their values.
RECURSIVE FoldExpr(_, _)
FoldExpr(e, values) ==
  IF e[1] = "ScalarSubquery" THEN Lit(values[e[2]])
  ELSE [i \in DOMAIN e |-> IF i \in Parts(e) THEN FoldExpr(e[i], values)
                           ELSE IF i \in Lists(e) THEN [k \in DOMAIN e[i] |-> FoldExpr(e[i][k], values)]
                           ELSE e[i]]

\* fold_select goes through every clause but FROM and WITH.
RECURSIVE ScalarsOf(_)
ScalarsOf(q) ==
  UNION {Scalars(e) : e \in {it.e : it \in Range(q.items) \cup Range(q.order)}
                            \cup Range(q.where) \cup Range(q.having) \cup Range(q.group)
                            \cup {j.on : j \in Range(q.joins)}}
    \cup UNION {ScalarsOf(c.right) : c \in Range(q.compound)}
RECURSIVE FoldSelect(_, _)
FoldSelect(q, values) ==
  LET each(es) == [i \in DOMAIN es |-> FoldExpr(es[i], values)]
      inner(rs) == [i \in DOMAIN rs |-> [rs[i] EXCEPT !.e = FoldExpr(@, values)]]
  IN [q EXCEPT !.items = inner(@), !.where = each(@), !.having = each(@), !.group = each(@),
        !.order = inner(@),
        !.joins = [i \in DOMAIN @ |-> [@[i] EXCEPT !.on = FoldExpr(@, values)]],
        !.compound = [i \in DOMAIN @ |-> [@[i] EXCEPT !.right = FoldSelect(@, values)]]]
=============================================================================
