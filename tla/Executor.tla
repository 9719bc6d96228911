------------------------------ MODULE Executor -----------------------------
(***************************************************************************)
(* Execution of a physical plan (noedb-planner: executor.rs, parallel.rs,  *)
(* stream_agg.rs, window_exec.rs, setops.rs).  A store st is a record: the *)
(* entries of every table in key order, the catalog of Optimizer.tla, the  *)
(* index entries and the rows of the CTEs.  An entry [id, col, val] is the *)
(* packed record of a row (col = "", val its cells) or one legacy cell.    *)
(***************************************************************************)
EXTENDS Optimizer

CONSTANT Names   \* every output name of the instance, in byte order

\* What an operator yields: its rows up to the first error, and whether the
\* error comes while the operator is built or while rows are pulled from it.
Ok(rows) == [rows |-> rows, err |-> ""]
Fail == [rows |-> <<>>, err |-> "build"]
OkIf(cond, rows) == IF cond THEN Ok(rows) ELSE Fail

\* Pulls the rows of s one by one through F, which yields rows itself.
Pulled(outs, err) ==
  LET bad == SelectInSeq(outs, LAMBDA o : o.err # "")
  IN [rows |-> FlattenSeq([i \in 1..(IF bad = 0 THEN Len(outs) ELSE bad) |-> outs[i].rows]),
      err |-> IF bad = 0 THEN err ELSE "pull"]
Each(s, F(_)) == Pulled([i \in DOMAIN s.rows |-> F(s.rows[i])], s.err)

\* A row that passes the predicate, none, or an error.
KeptIf(v, row) ==
  [rows |-> IF v = True THEN <<row>> ELSE <<>>, err |-> IF IsError(v) THEN "pull" ELSE ""]
Kept(pred, row) == KeptIf(EvalPredicate(pred, row), row)

-----------------------------------------------------------------------------
(* Scans. *)

CellRow(cells) == [i \in DOMAIN cells |-> <<<<cells[i][1]>>, Txt(cells[i][2])>>]

\* set_row_column, upsert: the cells shadow the packed columns.
SetColumn(row, f) ==
  LET i == FieldIndex(row, LAMBDA n : n = f[1])
  IN IF i = 0 THEN Append(row, f) ELSE [row EXCEPT ![i] = f]
MergeRow(packed, cells) == IF packed = None THEN cells ELSE FoldLeft(SetColumn, packed[1], cells)

Wanted(cols, c) == cols = None \/ c \in cols[1]

\* collect_entries drops the cells nobody asked for, but no packed record.
CollectEntries(entries, cols) == SelectSeq(entries, LAMBDA e : e.col = "" \/ Wanted(cols, e.col))

\* Rows being put together: row id -> <<packed columns, cells>>.
Ingest(acc, e, cols) ==
  LET old == IF e.id \in DOMAIN acc THEN acc[e.id] ELSE <<None, <<>>>>
      new == IF e.col # "" THEN <<old[1], Append(old[2], <<<<e.col>>, Txt(e.val)>>)>>
             ELSE <<Some(CellRow(SelectSeq(e.val, LAMBDA c : Wanted(cols, c[1])))), old[2]>>
  IN (e.id :> new) @@ acc
Grouped(entries, cols) == FoldLeft(LAMBDA acc, e : Ingest(acc, e, cols), <<>>, entries)
MergeGrouped(l, r) ==
  [id \in DOMAIN l \cup DOMAIN r |->
     IF id \notin DOMAIN r THEN l[id]
     ELSE IF id \notin DOMAIN l THEN r[id]
     ELSE <<IF r[id][1] # None THEN r[id][1] ELSE l[id][1], l[id][2] \o r[id][2]>>]

\* load_table_rows, in the order of the row ids.
GroupedRows(acc) ==
  LET ids == SetToSortSeq(DOMAIN acc, LAMBDA a, b : TextRank(a) < TextRank(b))
  IN [i \in DOMAIN ids |-> MergeRow(acc[ids[i]][1], acc[ids[i]][2])]
LoadTableRows(st, t, cols) ==
  LET bare == IF cols = None THEN None ELSE Some({Bare(c) : c \in cols[1] \ {<<>>}})
  IN GroupedRows(Grouped(CollectEntries(st.tables[t], bare), bare))

PrefixRows(rows, prefix) ==
  IF prefix = "" THEN rows
  ELSE [i \in DOMAIN rows |-> [j \in DOMAIN rows[i] |-> <<<<prefix>> \o rows[i][j][1], rows[i][j][2]>>]]

\* prune_cte_rows: one field for every column asked for, in the order asked.
PruneRows(rows, cols) ==
  IF cols = None THEN rows
  ELSE LET order == SetToSeq(cols[1] \ {<<>>})
       IN [i \in DOMAIN rows |->
             LET found == SelectSeq(order, LAMBDA c : Matching(rows[i], c) # 0)
             IN [k \in DOMAIN found |-> rows[i][Matching(rows[i], found[k])]]]

\* load_row_by_id takes the columns as they are: a qualified one finds nothing.
LoadRowById(st, t, id, cols) ==
  LET want == IF cols = None THEN None ELSE Some({Bare(c) : c \in {d \in cols[1] : Len(d) = 1}})
      acc == Grouped(CollectEntries(SelectSeq(st.tables[t], LAMBDA e : e.id = id), want), want)
      row == MergeRow(acc[id][1], acc[id][2])
  IN IF acc = <<>> \/ row = <<>> THEN <<>> ELSE <<row>>

\* SecondaryIndex::lookup, in the order of the row ids.
Lookup(st, t, col, key) ==
  SetToSortSeq({e[3] : e \in {x \in st.entries[t] : x[1] = col /\ x[2] = key}},
               LAMBDA a, b : TextRank(a) < TextRank(b))

-----------------------------------------------------------------------------
(* Joins. *)

\* The rows of rs that have the key.
Partners(rs, rk, key) == SelectSeq(rs, LAMBDA r : key # None /\ JoinKey(r, rk) = key)
Padded(l, names) ==
  l \o SelectSeq([i \in DOMAIN names |-> <<names[i], Null>>],
                 LAMBDA f : FieldIndex(l, LAMBDA n : n = f[1]) = 0)
JoinedRow(l, matches, outer, names) ==
  IF matches # <<>> THEN [i \in DOMAIN matches |-> l \o matches[i]]
  ELSE IF outer THEN <<Padded(l, names)>> ELSE <<>>
FieldNames(rows) ==
  FoldLeft(LAMBDA ns, f : IF Contains(ns, f[1]) THEN ns ELSE Append(ns, f[1]), <<>>, FlattenSeq(rows))
HashJoinRows(ls, rs, lk, rk, outer) ==
  FlattenSeq([i \in DOMAIN ls |->
                JoinedRow(ls[i], Partners(rs, rk, JoinKey(ls[i], lk)), outer, FieldNames(rs))])

\* Keys are compared as options: no key is below every key.
KeyLt(a, b) ==
  CASE a = None -> b # None  [] a # None /\ b = None -> FALSE  [] OTHER -> BytesLt(a[1], b[1])

\* The merge loop: on equal keys only the right side moves on.
Then(pair, rest) == OkIf(pair.err = "" /\ rest.err = "", pair.rows \o rest.rows)
RECURSIVE MergePairs(_, _, _, _, _)
MergePairs(ls, rs, on, lk, rk) ==
  IF ls = <<>> \/ rs = <<>> THEN Ok(<<>>)
  ELSE LET a == JoinKey(ls[1], lk)  b == JoinKey(rs[1], rk)
       IN IF KeyLt(a, b) THEN MergePairs(Tail(ls), rs, on, lk, rk)
          ELSE IF KeyLt(b, a) THEN MergePairs(ls, Tail(rs), on, lk, rk)
          ELSE Then(Kept(on, ls[1] \o rs[1]), MergePairs(ls, Tail(rs), on, lk, rk))

MergeJoinRows(ls, rs, on, lk, rk) ==
  MergePairs(SortSeq(ls, LAMBDA x, y : KeyLt(JoinKey(x, lk), JoinKey(y, lk))),
             SortSeq(rs, LAMBDA x, y : KeyLt(JoinKey(x, rk), JoinKey(y, rk))), on, lk, rk)


\* The first test that is not false decides: found, or an error.
FirstHit(tests) == SelectSeq(tests, LAMBDA v : v # False)
SemiKept(l, key, hits, neg) ==
  [rows |-> IF key # None /\ (hits # <<>>) # neg THEN <<l>> ELSE <<>>,
   err |-> IF key # None /\ hits # <<>> /\ IsError(hits[1]) THEN "build" ELSE ""]
SemiTests(l, cands, corr) ==
  [i \in DOMAIN cands |-> IF corr = None THEN True ELSE EvalPredicate(corr[1], l \o cands[i])]
SemiJoinRows(ls, rs, lk, rk, corr, neg) ==
  LET s == Each(Ok(ls), LAMBDA l :
             SemiKept(l, JoinKey(l, lk),
                      FirstHit(SemiTests(l, Partners(rs, rk, JoinKey(l, lk)), corr)), neg))
  IN OkIf(s.err = "", s.rows)

-----------------------------------------------------------------------------
(* ORDER BY. *)

\* compare_sort_values: an absent field or NULL is above every value.
SortValueLt(a, b) == a # None /\ (b = None \/ BytesLt(a[1], b[1]))
SortValue(row, name) ==
  IF Matching(row, name) = 0 \/ RowValue(row, name) = Null THEN None
  ELSE Some(AsBytes(RowValue(row, name)))

\* compare_rows: DESC reverses the whole order of a key.
RowLt(a, b, keys) ==
  LET lt(x, y, k) == IF k[2] THEN SortValueLt(SortValue(x, k[1]), SortValue(y, k[1]))
                     ELSE SortValueLt(SortValue(y, k[1]), SortValue(x, k[1]))
  IN \E i \in DOMAIN keys :
        /\ lt(a, b, keys[i])
        /\ \A j \in 1..(i - 1) : ~lt(a, b, keys[j]) /\ ~lt(b, a, keys[j])
SortRows(rows, keys) == SortSeq(rows, LAMBDA a, b : RowLt(a, b, keys))

\* Top-k selection; which of the equal rows it keeps is left open by the code,
\* the first ones here.  k = 0 selects nothing and keeps everything.
TopK(rows, k) == IF k = None \/ k[1] = 0 \/ Len(rows) <= k[1] THEN rows ELSE SubSeq(rows, 1, k[1])

-----------------------------------------------------------------------------
(* Aggregates. *)

FracSum(fs) == FoldLeft(LAMBDA a, f : <<a[1] * f[2] + f[1] * a[2], a[2] * f[2]>>, <<0, 1>>, fs)
Least(fs, Lt(_, _)) == FoldLeft(LAMBDA a, f : IF Lt(f, a) THEN f ELSE a, fs[1], Tail(fs))

\* AggSlot::finish for fn after every row went through each function of fns.
Finish(fn, fns, rows) ==
  LET calls(kinds) == SelectSeq(fns, LAMBDA f : f[1] \in kinds)
      values(kinds) == FlattenSeq([i \in DOMAIN calls(kinds) |->
                         [j \in DOMAIN rows |-> RowValue(rows[j], calls(kinds)[i][2])]])
      numbers(kinds) == FlattenSeq([i \in DOMAIN values(kinds) |-> FracOf(values(kinds)[i])])
      given == Len(SelectSeq(values({"COUNT"}), LAMBDA v : v # Null))
      sums == numbers({"SUM", "AVG"})
      value(fs, f) == IF fs = <<>> THEN Null ELSE Flt(f[1], f[2])
  IN CASE fn[1] = "COUNT_STAR" -> Num(Len(rows) * Len(calls({"COUNT_STAR"})))
       [] fn[1] = "COUNT" -> Num(given)
       [] fn[1] = "SUM" -> Flt(FracSum(sums)[1], FracSum(sums)[2])
       [] fn[1] = "AVG" -> value(sums, <<FracSum(sums)[1], FracSum(sums)[2] * Len(sums)>>)
       [] fn[1] = "MIN" -> value(numbers({"MIN"}), Least(numbers({"MIN"}), FracLt))
       [] fn[1] = "MAX" -> value(numbers({"MAX"}), Least(numbers({"MAX"}), LAMBDA a, b : FracLt(b, a)))

\* The rows of each group, in the order their keys first come up (the code
\* leaves the order of the groups to a hash map).
GroupKey(row, by) == [i \in DOMAIN by |-> <<by[i], AsBytes(RowValue(row, by[i]))>>]
Groups(rows, by) ==
  LET keys == FoldLeft(LAMBDA ks, r : IF Contains(ks, GroupKey(r, by)) THEN ks
                                      ELSE Append(ks, GroupKey(r, by)), <<>>, rows)
      seen == IF keys = <<>> /\ by = <<>> THEN <<<<>>>> ELSE keys
  IN [i \in DOMAIN seen |-> <<seen[i], SelectSeq(rows, LAMBDA r : GroupKey(r, by) = seen[i])>>]

FinishGroups(gs, F(_)) == [g \in DOMAIN gs |-> F(gs[g])]

\* Calls with one output name share a slot, and the first of them names it.
AggregateRows(rows, by, aggs) ==
  LET fns(n) == LET mine == SelectSeq(aggs, LAMBDA a : a[1] = n) IN [i \in DOMAIN mine |-> mine[i][2]]
      slots(names, g) == [i \in DOMAIN names |-> <<names[i], Finish(fns(names[i])[1], fns(names[i]), g[2])>>]
  IN FinishGroups(Groups(rows, by), LAMBDA g : g[1] \o slots(FieldNames(<<aggs>>), g))

\* One pass over the entries of a table; every call has its own slot.
RECURSIVE Streamable(_)
Streamable(e) ==
  CASE e[1] \in {"Lit", "Col"} -> TRUE
    [] e[1] = "Binary" -> Streamable(e[3]) /\ Streamable(e[4])
    [] e[1] = "Unary" -> Streamable(e[3])
    [] e[1] \in {"IsNull", "Cast", "Paren"} -> Streamable(e[2])
    [] e[1] = "In" -> Streamable(e[2]) /\ \A v \in Range(e[3]) : Streamable(v)
    [] e[1] = "Between" -> Streamable(e[2]) /\ Streamable(e[3]) /\ Streamable(e[4])
    [] e[1] = "Function" -> e[4] = None /\ \A a \in Range(e[3]) : Streamable(a)
    [] OTHER -> FALSE
RECURSIVE PredicateColumns(_)
PredicateColumns(e) ==
  CASE e[1] = "In" -> PredicateColumns(e[2]) \cup UNION {PredicateColumns(v) : v \in Range(e[3])}
    [] e[1] = "Between" -> UNION {PredicateColumns(e[i]) : i \in 2..4}
    [] e[1] = "Unary" -> PredicateColumns(e[3])
    [] e[1] \in {"IsNull", "Cast", "Paren"} -> PredicateColumns(e[2])
    [] e[1] = "Binary" -> PredicateColumns(e[3]) \cup PredicateColumns(e[4])
    [] e[1] = "Function" -> UNION {PredicateColumns(a) : a \in Range(e[3])}
    [] OTHER -> ColumnsInExpr(e)

IsTableScan(p) == p[1] = "SeqScan" /\ p[2] # ""
IsStreamed(p) ==
  \/ IsTableScan(p)
  \/ p[1] = "Filter" /\ IsTableScan(p[2]) /\ Streamable(p[3])

\* Every row id has a row here, whether or not it has a column asked for.
StreamRows(st, t, cols) ==
  LET acc == Grouped(CollectEntries(st.tables[t], Some(cols)), Some(cols))
  IN GroupedRows(acc @@ [id \in {e.id : e \in Range(st.tables[t])} |-> <<None, <<>>>>])
StreamGroups(s, by, aggs) ==
  LET finish(g) == g[1] \o [i \in DOMAIN aggs |-> <<aggs[i][1], Finish(aggs[i][2], <<aggs[i][2]>>, g[2])>>]
  IN OkIf(s.err = "", FinishGroups(Groups(s.rows, by), finish))
StreamAggregate(st, p, by, aggs) ==
  LET filtered == p[1] = "Filter"
      t == IF filtered THEN p[2][2] ELSE p[2]
      cols == Range(by) \cup ({a[2][2] : a \in Range(aggs)} \ {<<>>})
              \cup (IF filtered THEN PredicateColumns(p[3]) ELSE {})
      rows == Ok(StreamRows(st, t, {Bare(c) : c \in cols}))
  IN StreamGroups(IF filtered THEN Each(rows, LAMBDA r : Kept(p[3], r)) ELSE rows, by, aggs)

-----------------------------------------------------------------------------
(* Window functions. *)

FrameOf(spec) ==
  IF spec.frame # None THEN spec.frame[1]
  ELSE Frame("ROWS", <<"UnboundedPreceding">>,
             IF spec.order = <<>> THEN <<"UnboundedFollowing">> ELSE <<"CurrentRow">>)

\* bound_to_index, from 1: RANGE counts rows too.
BoundIndex(bound, n, i) ==
  CASE bound[1] = "UnboundedPreceding" -> 1
    [] bound[1] = "Preceding" -> Max({1, i - bound[2]})
    [] bound[1] = "CurrentRow" -> i
    [] bound[1] = "Following" -> Min({i + bound[2], n})
    [] bound[1] = "UnboundedFollowing" -> n

\* A whole number is shown as an integer.
WindowNumber(f) == IF f[1] % f[2] = 0 THEN Num(f[1] \div f[2]) ELSE Flt(f[1], f[2])

\* The value of SUM or AVG at row i; a frame that ends before it starts makes
\* the slice panic.
FrameSum(fn, nums, sum) ==
  IF nums = <<>> THEN Null
  ELSE WindowNumber(IF fn = "SUM" THEN sum ELSE <<sum[1], sum[2] * Len(nums)>>)
FrameNumbers(fn, vals) ==
  LET nums == FlattenSeq([k \in DOMAIN vals |-> Numeric(vals[k])])
  IN IF Error \in Range(vals) THEN Error ELSE FrameSum(fn, nums, FracSum(nums))
FrameValue(part, i, win) ==
  LET a == BoundIndex(FrameOf(win.spec).start, Len(part), i)
      b == BoundIndex(FrameOf(win.spec).end, Len(part), i)
  IN IF a > b + 1 THEN Error
     ELSE FrameNumbers(win.fn, [k \in 1..(b - a + 1) |-> EvalExpr(win.arg[1], part[a + k - 1])])

\* assign_ranking_values
RankValue(part, i, fn, keys) ==
  LET breaks == {k \in 2..i : RowLt(part[k - 1], part[k], keys)}
  IN CASE fn = "ROW_NUMBER" -> i
       [] fn = "RANK" -> IF breaks = {} THEN 1 ELSE Max(breaks)
       [] fn = "DENSE_RANK" -> Cardinality(breaks) + 1

IsRanking(win) == win.fn \in {"ROW_NUMBER", "RANK", "DENSE_RANK"}

\* The rows of a partition get their values in order, each seeing the ones
\* before it already extended.
WindowCell(part, i, win, keys) ==
  IF IsRanking(win) THEN Num(RankValue(part, i, win.fn, keys)) ELSE FrameValue(part, i, win)
Extended(part, i, out, v) == IF IsError(v) THEN Fail ELSE Ok([part EXCEPT ![i] = Append(@, <<out, v>>)])
RECURSIVE ExtendFrom(_, _, _, _)
ExtendFrom(s, i, win, keys) ==
  IF s.err # "" \/ i > Len(s.rows) THEN s
  ELSE ExtendFrom(Extended(s.rows, i, win.out, WindowCell(s.rows, i, win, keys)), i + 1, win, keys)
WindowPartition(rows, win) ==
  LET cols == SelectSeq(win.spec.order, LAMBDA k : IsColumn(k.e))
      keys == [i \in DOMAIN cols |-> <<<<cols[i].e[3]>>, cols[i].asc>>]
  IN ExtendFrom(Ok(IF keys = <<>> THEN rows ELSE SortRows(rows, keys)), 1, win, keys)

\* partition_key
PartKey(v) == IF IsError(v) THEN v ELSE AsBytes(v)
PartitionKey(r, win) ==
  [i \in DOMAIN win.spec.parts |-> PartKey(EvalExpr(win.spec.parts[i], r))]

\* partition_rows: the rows of each key, keys in the order they first come up.
PartitionRows(rows, keys) ==
  LET seen == FoldLeft(LAMBDA ks, k : IF Contains(ks, k) THEN ks ELSE Append(ks, k), <<>>, keys)
      mine(k) == SelectSeq([i \in DOMAIN rows |-> i], LAMBDA i : keys[i] = k)
  IN [n \in DOMAIN seen |-> [i \in DOMAIN mine(seen[n]) |-> rows[mine(seen[n])[i]]]]
AllParts(parts, ok) ==
  OkIf(ok /\ \A i \in DOMAIN parts : parts[i].err = "", FlattenSeq([i \in DOMAIN parts |-> parts[i].rows]))
WindowRows(rows, keys, win) ==
  LET parts == PartitionRows(rows, keys)
  IN AllParts([i \in DOMAIN parts |-> WindowPartition(parts[i], win)],
              /\ ~(IsRanking(win) /\ win.spec.order = <<>>)
              /\ \A k \in Range(keys) : Error \notin Range(k))
RECURSIVE ApplyWindows(_, _)
ApplyWindows(s, wins) ==
  IF s.err # "" THEN Fail
  ELSE IF wins = <<>> THEN s
  ELSE ApplyWindows(WindowRows(s.rows, [i \in DOMAIN s.rows |-> PartitionKey(s.rows[i], wins[1])], wins[1]),
                    Tail(wins))

-----------------------------------------------------------------------------
(* Set operations and DISTINCT. *)

\* row_key: the cells by name; NULL and the empty text look alike.
RowKey(row) ==
  [n \in {f[1] : f \in Range(row)} |->
     LET mine == SelectSeq(row, LAMBDA f : f[1] = n) IN [i \in DOMAIN mine |-> AsBytes(mine[i][2])]]
KeysOfRows(rows) == {RowKey(r) : r \in Range(rows)}

DedupRows(rows) ==
  FoldLeft(LAMBDA out, r : IF RowKey(r) \in KeysOfRows(out) THEN out ELSE Append(out, r), <<>>, rows)

\* align_set_op_rows: the values of the right rows, in their order, under the
\* names of the first left row, sorted.
AlignRows(ls, rs) ==
  LET rank(n) == CHOOSE i \in DOMAIN Names : Names[i] = n
      names == SortSeq([i \in DOMAIN ls[1] |-> ls[1][i][1]], LAMBDA a, b : rank(a) < rank(b))
  IN IF ls = <<>> \/ rs = <<>> THEN rs
     ELSE [i \in DOMAIN rs |->
             [k \in 1..Min({Len(names), Len(rs[i])}) |-> <<names[k], rs[i][k][2]>>]]

\* INTERSECT ALL and EXCEPT ALL: left rows paired with an unused right row.
CountKey(rows, key) == Len(SelectSeq(rows, LAMBDA r : RowKey(r) = key))
Paired(ls, i, rs) == CountKey(SubSeq(ls, 1, i), RowKey(ls[i])) <= CountKey(rs, RowKey(ls[i]))

CombineSetOp(ls, right, op, all) ==
  LET rs == AlignRows(ls, right)
      pick(Test(_)) == LET idx == SelectSeq([i \in DOMAIN ls |-> i], Test)
                       IN [k \in DOMAIN idx |-> ls[idx[k]]]
      among(i) == RowKey(ls[i]) \in KeysOfRows(rs)
  IN CASE op = "UNION" -> IF all THEN ls \o rs ELSE DedupRows(ls \o rs)
       [] op = "INTERSECT" -> IF all THEN pick(LAMBDA i : Paired(ls, i, rs)) ELSE DedupRows(pick(among))
       [] op = "EXCEPT" -> IF all THEN pick(LAMBDA i : ~Paired(ls, i, rs))
                           ELSE DedupRows(pick(LAMBDA i : ~among(i)))

-----------------------------------------------------------------------------
(* Operators. *)

\* record_from_cells
CellName(item) ==
  IF item.as # <<>> THEN item.as ELSE IF IsColumn(item.e) THEN <<item.e[3]>> ELSE <<"col">>
RecordFromCells(items, cells) ==
  IF Error \in Range(cells) THEN [rows |-> <<>>, err |-> "pull"]
  ELSE Ok(<<[i \in DOMAIN items |-> <<CellName(items[i]), cells[i]>>]>>)
ProjectRow(items, row) == RecordFromCells(items, [i \in DOMAIN items |-> EvalExpr(items[i].e, row)])

\* OFFSET rows are pulled while the operator is built; LIMIT stops pulling.
LimitRows(s, limit, offset) ==
  LET rest == SubSeq(s.rows, offset + 1, Len(s.rows))
  IN IF s.err = "build" \/ (Len(s.rows) < offset /\ s.err # "") THEN Fail
     ELSE IF limit <= Len(rest) THEN Ok(SubSeq(rest, 1, limit))
     ELSE [rows |-> rest, err |-> s.err]

\* An inner join tests the whole ON on each pair.
NestedLoopRows(ls, rs, on) ==
  Each(Ok(ls), LAMBDA l : Each(Ok(rs), LAMBDA r : Kept(on, l \o r)))

RECURSIVE Exec(_, _)
Exec(p, st) ==
  LET s == Exec(p[2], st)
      t == Exec(p[3], st)
      both == s.err = "" /\ t.err = ""
  IN CASE p[1] = "SeqScan" ->
            Ok(IF p[2] = "" THEN <<<<>>>> ELSE PrefixRows(LoadTableRows(st, p[2], p[4]), p[3]))
       [] p[1] = "CteScan" ->
            Ok(PruneRows(PrefixRows(IF p[2] \in DOMAIN st.ctes THEN st.ctes[p[2]] ELSE <<>>, p[3]), p[4]))
       [] p[1] = "SubqueryScan" -> OkIf(s.err = "", PrefixRows(s.rows, p[3]))
       [] p[1] = "PkLookup" -> Ok(LoadRowById(st, p[2], p[3], p[4]))
       [] p[1] = "IndexScan" ->
            LET ids == Lookup(st, p[2], p[3], p[4])
            IN Ok(FlattenSeq([i \in DOMAIN ids |-> LoadRowById(st, p[2], ids[i], p[5])]))
       [] p[1] = "Filter" -> Each(s, LAMBDA r : Kept(p[3], r))
       [] p[1] = "Project" -> Each(s, LAMBDA r : ProjectRow(p[3], r))
       [] p[1] = "HashJoin" -> OkIf(both, HashJoinRows(s.rows, t.rows, p[5], p[6], p[7]))
       [] p[1] = "NestedLoopJoin" -> IF both THEN NestedLoopRows(s.rows, t.rows, p[4]) ELSE Fail
       [] p[1] = "MergeJoin" -> IF both THEN MergeJoinRows(s.rows, t.rows, p[4], p[5], p[6]) ELSE Fail
       [] p[1] = "Aggregate" ->
            IF IsStreamed(p[2]) THEN StreamAggregate(st, p[2], p[3], p[4])
            ELSE OkIf(s.err = "", AggregateRows(s.rows, p[3], p[4]))
       [] p[1] = "Sort" -> OkIf(s.err = "", TopK(SortRows(s.rows, p[3]), p[4]))
       [] p[1] = "Limit" -> LimitRows(s, p[3], p[4])
       [] p[1] = "Window" -> ApplyWindows(s, p[3])
       [] p[1] = "SemiJoin" ->
            IF both THEN SemiJoinRows(s.rows, t.rows, p[4], p[5], p[6], p[7]) ELSE Fail
       [] p[1] = "SetOp" -> OkIf(both, CombineSetOp(s.rows, t.rows, p[4], p[5]))
       [] p[1] = "Dedup" -> [s EXCEPT !.rows = DedupRows(@)]

\* execute: the rows, or nothing but the error.
Collected(s) == OkIf(s.err = "", s.rows)
Execute(p, st) == Collected(Exec(p, st))
=============================================================================
