-------------------------------- MODULE Ast --------------------------------
(***************************************************************************)
(* The typed syntax tree (noedb-ast).  A node is a tuple whose first       *)
(* element is its variant; spans are left out.  An optional part is a      *)
(* sequence of length 0 or 1.  A column name is the sequence of its        *)
(* dot-separated parts: <<"t", "a">> is t.a and <<"a">> is a.              *)
(***************************************************************************)
EXTENDS Integers, Sequences

\* The values a literal, a cell or an expression can have.  Numbers that the
\* code keeps as f64 are fractions; text is a member of a small set.
Null == <<"Null">>
Bool(b) == <<"Bool", b>>
Num(n) == <<"Int", n>>
Flt(p, q) == <<"Flt", p, q>>
Txt(s) == <<"Txt", s>>

Lit(v) == <<"Lit", v>>
Col(t, c) == <<"Col", t, c>>
Star(t) == <<"Star", t>>
Binary(op, l, r) == <<"Binary", op, l, r>>
Unary(op, e) == <<"Unary", op, e>>
IsNull(e, neg) == <<"IsNull", e, neg>>
In(e, vs, neg) == <<"In", e, vs, neg>>
InSubquery(e, q, neg) == <<"InSubquery", e, q, neg>>
Exists(q, neg) == <<"Exists", q, neg>>
ScalarSubquery(q) == <<"ScalarSubquery", q>>
Between(e, lo, hi, neg) == <<"Between", e, lo, hi, neg>>
Paren(e) == <<"Paren", e>>
Parameter(n) == <<"Parameter", n>>
CurrentUser == <<"CurrentUser">>
Cast(e, ty) == <<"Cast", e, ty>>
Function(name, args, over) == <<"Function", name, args, over>>

\* PARTITION BY, ORDER BY and the frame of OVER (...).
WindowSpec(parts, order, frame) == [parts |-> parts, order |-> order, frame |-> frame]
Frame(mode, start, end) == [mode |-> mode, start |-> start, end |-> end]

SelectItem(e, as) == [e |-> e, as |-> as]
OrderKey(e, asc) == [e |-> e, asc |-> asc]
TableRef(name, alias) == <<"Table", name, alias>>
FromSubquery(q, alias) == <<"Subquery", q, alias>>
JoinClause(kind, table, on) == [kind |-> kind, table |-> table, on |-> on]
Compound(op, all, right) == [op |-> op, all |-> all, right |-> right]

\* One CTE; rec is the part after UNION [ALL], if there is one.
Cte(name, anchor, all, rec) == [name |-> name, anchor |-> anchor, all |-> all, rec |-> rec]

\* A column of CREATE TABLE or ALTER TABLE.
ColumnDef(name, type, notNull, pk, unique) ==
  [name |-> name, type |-> type, notNull |-> notNull, pk |-> pk, unique |-> unique]

\* SELECT with nothing but a select list.
SelectOf(items) ==
  [with |-> <<>>, distinct |-> FALSE, items |-> items, from |-> <<>>, joins |-> <<>>,
   where |-> <<>>, group |-> <<>>, having |-> <<>>, order |-> <<>>, limit |-> <<>>,
   offset |-> <<>>, compound |-> <<>>]

Some(x) == <<x>>
None == <<>>

\* Table alias, or the name of the table.
AliasOf(t) == IF t[3] = None THEN t[2] ELSE t[3][1]

NameOf(col) == IF col[2] = "" THEN <<col[3]>> ELSE <<col[2], col[3]>>
Bare(name) == name[Len(name)]
IsColumn(e) == e[1] = "Col"
=============================================================================
