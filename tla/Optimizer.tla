----------------------------- MODULE Optimizer -----------------------------
(***************************************************************************)
(* Logical to physical plan (noedb-planner: optimize.rs, cost.rs,          *)
(* lower.rs and the key orientation of join.rs).  A catalog is a record:   *)
(* pk and index say which column of a table bears the row id and which     *)
(* ones are indexed, stats holds the persisted statistics.                 *)
(***************************************************************************)
EXTENDS Planner

SeqScan(table, prefix, cols) == <<"SeqScan", table, prefix, cols>>
PkLookup(table, id, cols) == <<"PkLookup", table, id, cols>>
IndexScan(table, col, key, cols) == <<"IndexScan", table, col, key, cols>>
HashJoin(l, r, on, lk, rk, outer) == <<"HashJoin", l, r, on, lk, rk, outer>>
NestedLoopJoin(l, r, on) == <<"NestedLoopJoin", l, r, on>>
MergeJoin(l, r, on, lk, rk) == <<"MergeJoin", l, r, on, lk, rk>>

\* The operators with one and with two inputs; they come right after the name.
OneInput == {"Filter", "Project", "Aggregate", "Sort", "Limit", "Window", "Distinct", "Dedup",
             "SubqueryScan"}
TwoInputs == {"Join", "HashJoin", "NestedLoopJoin", "MergeJoin", "SemiJoin", "SetOp"}
Inputs(p) == IF p[1] \in OneInput THEN {2} ELSE IF p[1] \in TwoInputs THEN {2, 3} ELSE {}
MapInputs(p, F(_)) == [i \in DOMAIN p |-> IF i \in Inputs(p) THEN F(p[i]) ELSE p[i]]

-----------------------------------------------------------------------------
(* Join keys. *)

RECURSIVE TableAliases(_)
TableAliases(p) ==
  LET below == UNION {TableAliases(p[i]) : i \in Inputs(p)}
  IN CASE p[1] \in {"Scan", "CteScan"} -> {p[3]} \ {""}
       [] p[1] = "SubqueryScan" -> below \cup {p[3]}
       [] p[1] = "SemiJoin" -> TableAliases(p[2])
       [] OTHER -> below

\* orient_join_keys: the sides of `a = b` are swapped when b is on the left.
OrientJoinKeys(l, r, keys) ==
  LET from(k, p) == Len(k) > 1 /\ k[1] \in TableAliases(p)
      straight == from(keys[1], l) /\ from(keys[2], r)
      swapped == from(keys[2], l) /\ from(keys[1], r)
  IN IF ~straight /\ swapped THEN <<keys[2], keys[1]>> ELSE keys

\* Both keys are empty when ON is not an equality of two columns.
KeysOf(p) ==
  IF EquiJoin(p[4]) = None THEN <<<<>>, <<>>>>
  ELSE OrientJoinKeys(p[2], p[3], EquiJoin(p[4])[1])

-----------------------------------------------------------------------------
(* Costs, in twentieths of the cost of scanning a row. *)

UnknownTableRows == 1024

RowsFor(stats, t) ==
  IF t \in DOMAIN stats THEN Max({stats[t].rows, 1}) ELSE UnknownTableRows
EqRows(stats, t, c) ==
  IF t \notin DOMAIN stats THEN 1
  ELSE LET s == stats[t]
           ndv == IF c \in DOMAIN s.ndv THEN s.ndv[c] ELSE s.rows
       IN Max({s.rows \div Max({ndv, 1}), 1})

RECURSIVE EqualityColumn(_)
EqualityColumn(e) ==
  CASE e[1] = "Paren" -> EqualityColumn(e[2])
    [] e[1] = "Binary" /\ e[2] = "=" /\ IsColumn(e[3]) -> Some(e[3][3])
    [] e[1] = "Binary" /\ e[2] = "=" /\ ~IsColumn(e[3]) /\ IsColumn(e[4]) -> Some(e[4][3])
    [] OTHER -> None

RECURSIVE OutputRows(_, _)
OutputRows(p, stats) ==
  LET in == OutputRows(p[2], stats)
  IN CASE p[1] = "SeqScan" -> RowsFor(stats, p[2])
       [] p[1] = "IndexScan" -> EqRows(stats, p[2], p[3])
       [] p[1] = "PkLookup" -> 1
       [] p[1] = "Filter" /\ p[2][1] = "SeqScan" /\ EqualityColumn(p[3]) # None ->
            EqRows(stats, p[2][2], EqualityColumn(p[3])[1])
       [] p[1] = "Filter" /\ ~(p[2][1] = "SeqScan" /\ EqualityColumn(p[3]) # None) -> in
       [] p[1] = "Limit" -> Min({in, p[3]})
       [] p[1] \in {"Project", "Sort", "Dedup", "SemiJoin"} -> in
       [] p[1] \in {"HashJoin", "MergeJoin", "NestedLoopJoin"} -> Max({in, OutputRows(p[3], stats)})
       [] p[1] = "Aggregate" -> IF p[3] = <<>> THEN 1 ELSE Min({in, 1024})
       [] OTHER -> 0

RECURSIVE Estimate(_, _)
Estimate(p, stats) ==
  LET l == Estimate(p[2], stats)
      r == Estimate(p[3], stats)
      rows == OutputRows(p[2], stats)
  IN CASE p[1] = "SeqScan" -> 20 * RowsFor(stats, p[2])
       [] p[1] = "IndexScan" -> 80 + 20 * EqRows(stats, p[2], p[3])
       [] p[1] = "PkLookup" -> 80
       [] p[1] = "CteScan" -> 10
       [] p[1] = "Filter" -> l + OutputRows(p, stats)
       [] p[1] \in {"Project", "SubqueryScan"} -> l
       [] p[1] = "HashJoin" -> l + r + 24 * Max({rows, OutputRows(p[3], stats)})
       [] p[1] = "NestedLoopJoin" -> l + 2 * r * rows
       [] p[1] = "MergeJoin" -> l + r + 20 * rows
       [] p[1] = "Aggregate" -> l + 10 * rows
       [] p[1] = "Sort" -> l + 30 * rows
       [] p[1] = "Limit" -> Min({l, 20 * p[3]})
       [] p[1] = "Window" -> l + 16 * Len(p[3]) * rows
       [] p[1] = "SemiJoin" -> l + r + 40 * rows
       [] p[1] = "SetOp" -> l + r + 4 * rows
       [] p[1] = "Dedup" -> l + 2 * rows

PickJoin(hash, nested, merge, stats) ==
  LET h == Estimate(hash, stats)  n == Estimate(nested, stats)  m == Estimate(merge, stats)
  IN IF h <= n /\ h <= m THEN hash ELSE IF m <= n THEN merge ELSE nested

-----------------------------------------------------------------------------
(* Rewriting. *)

\* An equality of two columns over an inner join takes the place of its ON.
RECURSIVE PushdownPredicates(_)
PushdownPredicates(p) ==
  LET j == p[2]
  IN IF p[1] = "Filter" /\ j[1] = "Join" /\ ~j[5] /\ EquiJoin(p[3]) # None
     THEN PushdownPredicates(Join(PushdownPredicates(j[2]), PushdownPredicates(j[3]), p[3], FALSE))
     ELSE MapInputs(p, PushdownPredicates)

\* extract_equality_predicate: the column and the text of the literal.
LiteralText(v) ==
  CASE v = Null -> ""
    [] v[1] = "Int" -> ToString(v[2])
    [] v[1] = "Flt" -> IF v[3] = 1 THEN ToString(v[2]) ELSE "a fraction"
    [] v[1] = "Bool" -> "a control byte"
    [] v[1] = "Txt" -> v[2]
RECURSIVE EqualityPredicate(_)
EqualityOfAnyComparison(e) ==
  IF e[1] = "Binary" /\ IsColumn(e[3]) /\ e[4][1] = "Lit" THEN Some(<<e[3][3], LiteralText(e[4][2])>>)
  ELSE None

EqualityPredicate(e) ==
  LET pair(c, v) == Some(<<c[3], LiteralText(v[2])>>)
  IN IF e[1] = "Paren" THEN EqualityPredicate(e[2])
     ELSE IF e[1] # "Binary" \/ e[2] # "=" THEN None
     ELSE IF IsColumn(e[3]) /\ e[4][1] = "Lit" THEN pair(e[3], e[4])
     ELSE IF IsColumn(e[4]) /\ e[3][1] = "Lit" THEN pair(e[4], e[3])
     ELSE None

RECURSIVE ToPhysical(_, _)
ToPhysical(p, cat) ==
  LET eq == IF p[1] = "Filter" /\ p[2][1] = "Scan" THEN EqualityPredicate(p[3]) ELSE None
      t == p[2][2]
      below == MapInputs(p, LAMBDA q : ToPhysical(q, cat))
      k == KeysOf(p)
      hash == HashJoin(below[2], below[3], p[4], k[1], k[2], p[5])
  IN CASE p[1] = "Scan" -> SeqScan(p[2], p[3], None)
       [] p[1] = "CteScan" -> <<"CteScan", p[2], p[3], None>>
       [] p[1] = "SubqueryScan" -> <<"SubqueryScan", below[2], p[3], None>>
       [] p[1] = "Filter" ->
            IF eq # None /\ cat.pk[t] = eq[1][1] THEN PkLookup(t, eq[1][2], None)
            ELSE IF eq # None /\ eq[1][1] \in cat.index[t]
            THEN IndexScan(t, eq[1][1], eq[1][2], None)
            ELSE below
       [] p[1] = "Join" ->
            IF p[5] THEN hash
            ELSE PickJoin(hash, NestedLoopJoin(below[2], below[3], p[4]),
                          MergeJoin(below[2], below[3], p[4], k[1], k[2]), cat.stats)
       [] p[1] = "Sort" -> <<"Sort", below[2], p[3], None>>
       [] p[1] = "Distinct" -> <<"Dedup", below[2]>>
       [] OTHER -> below

\* lower: one to one, every join a hash join.
RECURSIVE Lower(_)
Lower(p) ==
  LET below == MapInputs(p, Lower)
      k == KeysOf(p)
  IN CASE p[1] = "Scan" -> SeqScan(p[2], p[3], None)
       [] p[1] = "CteScan" -> <<"CteScan", p[2], p[3], None>>
       [] p[1] = "SubqueryScan" -> <<"SubqueryScan", below[2], p[3], None>>
       [] p[1] = "Join" -> HashJoin(below[2], below[3], p[4], k[1], k[2], p[5])
       [] p[1] = "Sort" -> <<"Sort", below[2], p[3], None>>
       [] p[1] = "Distinct" -> <<"Dedup", below[2]>>
       [] OTHER -> below

-----------------------------------------------------------------------------
(* Projection pushdown and top-k. *)

\* columns_in_expr does not look into IN and BETWEEN.
RECURSIVE ColumnsInExpr(_)
ColumnsInExpr(e) ==
  CASE IsColumn(e) -> {NameOf(e)}
    [] e[1] = "Unary" -> ColumnsInExpr(e[3])
    [] e[1] \in {"IsNull", "Cast", "Paren"} -> ColumnsInExpr(e[2])
    [] e[1] = "Binary" -> ColumnsInExpr(e[3]) \cup ColumnsInExpr(e[4])
    [] e[1] = "Function" -> UNION {ColumnsInExpr(a) : a \in Range(e[3])}
    [] OTHER -> {}

WindowColumns(w) ==
  UNION {ColumnsInExpr(e) : e \in Range(w.arg) \cup Range(w.spec.parts)
                                  \cup {k.e : k \in Range(w.spec.order)}}

\* What the plan p needs when its inputs need sub; None means every column:
\* nothing above the scan names one.
NeededColumns(p, sub) ==
  LET unless(cols) == IF cols = {} THEN None ELSE Some(cols)
  IN CASE p[1] \in {"SeqScan", "IndexScan", "PkLookup", "CteScan"} -> None
       [] p[1] = "Filter" -> Some(sub \cup ColumnsInExpr(p[3]))
       [] p[1] = "Project" -> unless(sub \cup UNION {ColumnsInExpr(it.e) : it \in Range(p[3])})
       [] p[1] \in {"HashJoin", "MergeJoin"} -> Some(sub \cup {p[5], p[6]})
       [] p[1] = "NestedLoopJoin" -> Some(sub \cup ColumnsInExpr(p[4]))
       [] p[1] = "Aggregate" -> unless(sub \cup Range(p[3]) \cup ({a[2][2] : a \in Range(p[4])} \ {<<>>}))
       [] p[1] = "Sort" -> Some(sub \cup {k[1] : k \in Range(p[3])})
       [] p[1] = "Window" -> Some(sub \cup UNION {WindowColumns(w) : w \in Range(p[3])})
       [] p[1] = "SemiJoin" ->
            Some(sub \cup {p[4], p[5]} \cup UNION {ColumnsInExpr(e) : e \in Range(p[6])})
       [] p[1] = "SetOp" -> Some(sub)

RECURSIVE CollectColumns(_)
CollectForgetsWhere(p) ==
  LET sub == UNION {UNION Range(CollectColumns(p[i])) : i \in Inputs(p)}
  IN IF p[1] \in {"Limit", "Dedup", "SubqueryScan"} THEN CollectColumns(p[2])
     ELSE IF p[1] = "Filter" THEN Some(sub)
     ELSE NeededColumns(p, sub)

CollectColumns(p) ==
  LET sub == UNION {UNION Range(CollectColumns(p[i])) : i \in Inputs(p)}
  IN IF p[1] \in {"Limit", "Dedup", "SubqueryScan"} THEN CollectColumns(p[2])
     ELSE NeededColumns(p, sub)

\* One set for the whole plan: every scan gets the columns of all of it.
RECURSIVE ApplyColumns(_, _)
ApplyColumns(p, cols) ==
  LET below == MapInputs(p, LAMBDA q : ApplyColumns(q, cols))
  IN IF p[1] \in {"SeqScan", "PkLookup", "CteScan", "SubqueryScan"} THEN [below EXCEPT ![4] = cols]
     ELSE IF p[1] = "IndexScan" THEN [below EXCEPT ![5] = cols]
     ELSE below

MaxTopK == 256

RECURSIVE FuseTopKSort(_)
FuseTopKSort(p) ==
  IF /\ p[1] = "Limit" /\ p[4] = 0 /\ p[3] <= MaxTopK
     /\ p[2][1] = "Sort" /\ Len(p[2][3]) = 1 /\ p[2][4] = None
  THEN [p[2] EXCEPT ![4] = Some(p[3])]
  ELSE MapInputs(p, FuseTopKSort)

Optimize(p, cat) ==
  LET physical == ToPhysical(PushdownPredicates(p), cat)
  IN FuseTopKSort(ApplyColumns(physical, CollectColumns(physical)))
=============================================================================
