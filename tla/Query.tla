------------------------------- MODULE Query -------------------------------
(***************************************************************************)
(* A statement from text to rows (noedb-parser, noedb-ast and              *)
(* noedb-planner: lib.rs, fold.rs, cte.rs), one action per stage, over a   *)
(* store that does not change while it runs (a snapshot).                  *)
(***************************************************************************)
EXTENDS Sql

CONSTANTS Sources,   \* the statements, as token sequences
          Stores,    \* the stores a query may run against
          Literals, Parameters, Quoted   \* the lexer's classes (Parser.tla)

Syntax == INSTANCE Display

VARIABLES source, text, stmt, again, store, query, stage, plan, result, naive, promise

vars == <<source, text, stmt, again, store, query, stage, plan, result, naive, promise>>

-----------------------------------------------------------------------------
(* Common table expressions and scalar subqueries. *)

CteNames(q) == IF q.with = None THEN {} ELSE {c.name : c \in Range(q.with[1].ctes)}

\* run_select of cte.rs
RunPlan(logical, st) ==
  IF IsPlanError(logical) THEN Fail ELSE Execute(Optimize(logical, st), st)
RunSelect(q, st) == RunPlan(Build(q, DOMAIN st.ctes \cup CteNames(q), TRUE), st)

\* materialize_recursive: after the anchor, the recursive part runs over all the
\* rows so far until it adds none; UNION ALL drops duplicates as UNION does.
Fresh(next, acc) == SelectSeq(DedupRows(next.rows), LAMBDA r : RowKey(r) \notin KeysOfRows(acc))
RECURSIVE Rounds(_, _, _, _)
Settle(acc, next, cte, recursive, st) ==
  IF next.err # "" THEN Fail
  ELSE IF acc = None
  THEN IF cte.rec = None THEN next
       ELSE IF recursive THEN Rounds(Some(next.rows), cte, recursive, st) ELSE Fail
  ELSE IF Fresh(next, acc[1]) = <<>> THEN Ok(acc[1])
  ELSE Rounds(Some(acc[1] \o Fresh(next, acc[1])), cte, recursive, st)
Rounds(acc, cte, recursive, st) ==
  Settle(acc, RunSelect(IF acc = None THEN cte.anchor ELSE cte.rec[1],
                        [st EXCEPT !.ctes = [n \in {cte.name : r \in Range(acc)} |-> acc[1]] @@ @]),
         cte, recursive, st)

\* materialize_with_clause: each CTE sees the ones before it.
RECURSIVE Materialize(_, _, _)
AddCte(ctes, r, recursive, st) ==
  IF r.err # "" THEN [st |-> st, err |-> r.err]
  ELSE Materialize(Tail(ctes), recursive, [st EXCEPT !.ctes = (ctes[1].name :> r.rows) @@ @])
Materialize(ctes, recursive, st) ==
  IF ctes = <<>> THEN [st |-> st, err |-> ""]
  ELSE AddCte(ctes, Rounds(None, ctes[1], recursive, st), recursive, st)

\* execute_sql_on_with_schema of a subquery: the CTEs and then the query itself,
\* as a last one without a name.
RECURSIVE RunQuery(_, _)
CtesOf(q) == IF q.with = None THEN <<>> ELSE q.with[1].ctes
Recursive(q) == q.with # None /\ q.with[1].recursive
OwnRows(ready) == IF ready.err # "" THEN Fail ELSE Ok(ready.st.ctes[""])
RunFolded(q, st) == OwnRows(Materialize(CtesOf(q) \o <<Cte("", q, FALSE, None)>>, Recursive(q), st))

\* eval_scalar and value_to_literal: the first field of the first row; no row,
\* or an empty text, is NULL.
Scalar(r) ==
  IF r.err # "" THEN Error
  ELSE IF r.rows = <<>> THEN Null
  ELSE IF r.rows[1] = <<>> \/ r.rows[1][1][2] = Txt("") THEN Null
  ELSE r.rows[1][1][2]
ScalarValues(q, st) == [s \in ScalarsOf(q) |-> Scalar(RunQuery(s, st))]
RunScalars(q, values, st) ==
  IF Error \in Range(values) THEN Fail ELSE RunFolded(FoldSelect(q, values), st)
RunQuery(q, st) == RunScalars(q, ScalarValues(q, st), st)

-----------------------------------------------------------------------------
(* What SQL promises of a query. *)

\* Rows compared as sets of named values, numbers in lowest terms.
Canon(v) ==
  IF v[1] # "Flt" THEN v
  ELSE LET g == Max({d \in 1..v[3] : v[3] % d = 0 /\ v[2] % d = 0})
       IN IF g = v[3] THEN Num(v[2] \div g) ELSE Flt(v[2] \div g, v[3] \div g)
Fields(row) == {<<f[1], Canon(f[2])>> : f \in Range(row)}
AllFields(rows) == [i \in DOMAIN rows |-> Fields(rows[i])]
Times(x, xs) == Cardinality({i \in DOMAIN xs : xs[i] = x})
Within(xs, ys) == \A x \in Range(xs) : Times(x, xs) <= Times(x, ys)

\* The rows are those promised or, under LIMIT and OFFSET, as many of them;
\* under ORDER BY they are the right ones, in order.
Matches(rows, q, full) ==
  LET skip == IF q.offset = None THEN 0 ELSE q.offset[1]
      left == Max({Len(full) - skip, 0})
      keys == [i \in DOMAIN q.order |-> <<<<q.order[i].e[3]>>, q.order[i].asc>>]
      key(r) == [i \in DOMAIN keys |-> SortValue(r, keys[i][1])]
      page == SubSeq(SortRows(full, keys), skip + 1, skip + Len(rows))
  IN /\ Len(rows) = IF q.limit = None THEN left ELSE Min({left, q.limit[1]})
     /\ Within(AllFields(rows), AllFields(full))
     /\ keys # <<>> => \A i \in DOMAIN rows : key(rows[i]) = key(page[i])

\* Where the planner is known not to keep to SQL; README.md has the list.
JoinLimit(j, ls, rs) ==
  UNION {{"condition" : e \in {x \in {j.on} : EquiJoin(x) = None}},
         {"repeated" : r \in {x \in Range(rs) :
            j.kind = "INNER" /\ Len(SelectSeq(ls, LAMBDA l : Truth(j.on, l \o x, <<>>) = True)) > 1}},
         {"padding" : k \in {x \in {j.kind} : x = "LEFT" /\ rs = <<>>}}}
JoinLimits(q, parts) ==
  {"fused" : e \in {w \in Range(q.where) : q.joins # <<>> /\ EquiJoin(w) # None}}
    \cup UNION {JoinLimit(q.joins[i], parts.left[i], parts.right[i]) : i \in DOMAIN q.joins}

SubqueryLimits(q) ==
  LET outer == TableNames(q)
      corr(s) == Correlations(s.where, outer, TableNames(s))
      keyless(s) == KeyItem(s) # None /\ ExistsKeys(corr(s), KeyItem(s), outer, TableNames(s)) = None
  IN UNION {{"correlated" : c \in {x \in Range(Conjuncts(q)) : x[1] = "InSubquery" /\ corr(x[3]) # <<>>}},
            {"exists" : c \in {x \in Range(Conjuncts(q)) : x[1] = "Exists" /\ keyless(x[2])}}}

ColumnLimits(q, st) ==
  LET items == {it.e : it \in Range(q.items)}
      seen == UNION {ColumnsInExpr(e) : e \in items \cup Range(q.where)}
      read == UNION {PredicateColumns(e) : e \in Range(q.where)}
      direct == {f[2] : f \in {g \in Range(q.from) :
                   /\ g[1] = "Table" /\ g[2] \in DOMAIN st.index
                   /\ q.where # None /\ EqualityPredicate(q.where[1]) # None}}
  IN UNION {{"collected" : n \in read \ seen},
            {"null key" : t \in {u \in direct : EqualityPredicate(q.where[1])[1][2] = ""}},
            {"qualified" : t \in {u \in direct : st.index[u] # {} /\ \E n \in seen : Len(n) = 2}}}

Limits(q, parts, st) ==
  LET sums == {i \in DOMAIN q.items : q.items[i].e[1] = "Function" /\ q.items[i].e[2] = "SUM"}
      names == [i \in DOMAIN q.items |-> CellName(q.items[i])]
      place(n) == CHOOSE i \in DOMAIN Names : Names[i] = n
  IN UNION {
       JoinLimits(q, parts), SubqueryLimits(q), ColumnLimits(q, st),
       {"sum" : i \in {k \in sums : \E r \in Range(parts.rows) : r[k][2] = Null}},
       {"limit zero" : n \in {m \in Range(q.limit) : m = 0 /\ Len(q.order) = 1}},
       {"positions" : c \in {d \in Range(q.compound) :
                               \E i, j \in DOMAIN names : i < j /\ place(names[i]) > place(names[j])}}}

\* A CTE is a union without being declared recursive, a table is not there or
\* a rank has no order.
Refused(q) ==
  \/ \E w \in Range(q.with) : ~w.recursive /\ \E c \in Range(w.ctes) : c.rec # None
  \/ \E it \in Range(q.items) :
       IsWindow(it.e) /\ it.e[2] \notin AggNames /\ it.e[4][1].order = <<>>
  \/ \E f \in Range(q.from) \cup {j.table : j \in Range(q.joins)} :
       f[1] = "Table" /\ f[2] \notin DOMAIN Schema \cup CteNames(q)

\* An expression has no value on some row.
Undefined(q, rows, from) ==
  \/ \E r \in Range(from), c \in Range(Conjuncts(q)) :
       c[1] \notin {"InSubquery", "Exists"} /\ IsError(Truth(c, r, <<>>))
  \/ \E r \in Range(rows) : \E f \in Range(r) : IsError(f[2])

Promised(q, parts, st) ==
  [rows |-> parts.rows, fails |-> Undefined(q, parts.rows, parts.from), limits |-> Limits(q, parts, st)]
Promise(q, st) ==
  IF Refused(q) THEN [rows |-> <<>>, fails |-> TRUE, limits |-> {}]
  ELSE Promised(q, Ask("parts", q, st, <<>>), st)

-----------------------------------------------------------------------------
(* The stages. *)

NoStore == [ctes |-> <<>>]

Init ==
  /\ source \in Sources
  /\ text = source
  /\ stmt = None
  /\ again = None
  /\ store = NoStore
  /\ query = SelectOf(<<>>)
  /\ stage = "parse"
  /\ plan = <<>>
  /\ result = None
  /\ naive = <<>>
  /\ promise = None

\* The statement ends with an error.
Abort ==
  /\ stage' = "done"
  /\ result' = Some(Fail)
  /\ UNCHANGED <<source, text, stmt, again, store, query, plan, naive, promise>>

\* Only a SELECT goes on to the planner, after a detour through Display: the
\* printed statement is parsed again.
ParseText ==
  /\ stage \in {"parse", "reparse"}
  /\ \E parsed \in {Syntax!Parse(text)} :
       \/ /\ stage = "parse"
          /\ stmt' = parsed
          /\ stage' = IF parsed = None THEN "done" ELSE "print"
          /\ UNCHANGED <<again, query>>
       \/ /\ stage = "reparse"
          /\ again' = parsed
          /\ IF stmt[1][1] = "Select" THEN stage' = "open" /\ query' = stmt[1][2]
             ELSE stage' = "done" /\ UNCHANGED query
          /\ UNCHANGED stmt
  /\ UNCHANGED <<source, text, store, plan, result, naive, promise>>

PrintStmt ==
  /\ stage = "print"
  /\ text' = Syntax!Printed(stmt[1])
  /\ stage' = "reparse"
  /\ UNCHANGED <<source, stmt, again, store, query, plan, result, naive, promise>>


\* The caller's snapshot.
OpenStore ==
  /\ stage = "open"
  /\ store' \in Stores
  /\ promise' = Some(Promise(query, store'))
  /\ stage' = "fold"
  /\ UNCHANGED <<source, text, stmt, again, query, plan, result, naive>>

Fold ==
  /\ stage = "fold"
  /\ \E values \in {ScalarValues(query, store)} :
       IF Error \in Range(values) THEN Abort
       ELSE /\ query' = FoldSelect(query, values)
            /\ stage' = "with"
            /\ UNCHANGED <<source, text, stmt, again, store, plan, result, naive, promise>>

MaterializeCtes ==
  /\ stage = "with"
  /\ \E ready \in {Materialize(CtesOf(query), Recursive(query), store)} :
       IF ready.err # "" THEN Abort
       ELSE /\ store' = ready.st
            /\ stage' = "plan"
            /\ UNCHANGED <<source, text, stmt, again, query, plan, result, naive, promise>>

BuildPlan ==
  /\ stage = "plan"
  /\ \E logical \in {Build(query, CteNames(query), TRUE)} :
       IF IsPlanError(logical) THEN Abort
       ELSE /\ plan' = logical
            /\ naive' = Lower(logical)
            /\ stage' = "optimize"
            /\ UNCHANGED <<source, text, stmt, again, store, query, result, promise>>

OptimizePlan ==
  /\ stage = "optimize"
  /\ plan' = Optimize(plan, store)
  /\ stage' = "run"
  /\ UNCHANGED <<source, text, stmt, again, store, query, result, naive, promise>>

\* The plan; beside it the one lower makes, without the optimizer.
ExecutePlan ==
  /\ stage = "run"
  /\ \E out \in {[p \in {plan, naive} |-> Execute(p, store)]} :
       result' = Some(out[plan]) /\ naive' = out[naive]
  /\ stage' = "done"
  /\ UNCHANGED <<source, text, stmt, again, store, query, plan, promise>>

Done == stage = "done" /\ UNCHANGED vars

Next ==
  ParseText \/ PrintStmt \/ OpenStore \/ Fold \/ MaterializeCtes \/ BuildPlan \/ OptimizePlan
    \/ ExecutePlan \/ Done

Spec == Init /\ [][Next]_vars

-----------------------------------------------------------------------------
(* Properties. *)

TypeOK ==
  /\ source \in Sources
  /\ stage \in {"parse", "print", "reparse", "open", "fold", "with", "plan", "optimize", "run", "done"}
  /\ stage \in {"fold", "with", "plan", "optimize", "run"}
       => stmt # None /\ store # NoStore /\ promise # None
  /\ stage = "done" /\ result # None => result[1].err \in {"", "build", "pull"}

Finished == stage = "done" /\ result # None


\* A SELECT that fails has an expression without a value: the rewriting of the
\* query and the pruning of its columns never make one fail.
OnlyRealErrors ==
  Finished /\ result[1].err # "" => promise[1].fails \/ promise[1].limits # {}

\* The optimizer's plan returns the rows of the plan that lower makes of the
\* same query, without access paths, join choice, pushdown, pruning or fusion,
\* when both succeed.
LoweredAgrees ==
  Finished /\ naive # <<>> /\ result[1].err = "" /\ naive.err = "" /\ promise[1].limits = {}
    => /\ Len(naive.rows) = Len(result[1].rows)
       /\ Within(AllFields(naive.rows), AllFields(result[1].rows))


\* Every statement that parses is printed as a statement that parses to the same
\* tree.
RoundTrip ==
  stage \in {"open", "done"} /\ result = None /\ stmt # None => again = stmt
=============================================================================
