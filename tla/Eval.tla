-------------------------------- MODULE Eval -------------------------------
(***************************************************************************)
(* Expression evaluation over one row (noedb-planner: value.rs, eval.rs,   *)
(* cast.rs, and the name matching of join.rs).  A row is a sequence of     *)
(* <<name, value>> pairs.  An error is the value Error; a panic of the     *)
(* evaluator is an error too: both end the statement without rows.         *)
(***************************************************************************)
EXTENDS Ast, FiniteSets, SequencesExt, TLC

CONSTANTS Texts,          \* every text of the instance, in byte order
          NumberOf,       \* the numbers among them
          Chars,          \* the characters of a text
          StringFn(_, _)  \* UPPER, LOWER and TRIM on a text

Error == <<"Error">>
IsError(v) == v[1] = "Error"
True == Bool(TRUE)
False == Bool(FALSE)

-----------------------------------------------------------------------------
(* Values. *)

\* Index keys, join keys and fingerprints: NULL and the empty text have the
\* same bytes.  The other encodings are told apart by their lengths.
AsBytes(v) == IF v = Null THEN Txt("") ELSE v

\* Fractions stand for f64.
FracOf(v) ==
  CASE v[1] = "Int" -> Some(<<v[2], 1>>)
    [] v[1] = "Flt" -> Some(<<v[2], v[3]>>)
    [] v[1] = "Txt" /\ v[2] \in DOMAIN NumberOf -> Some(<<NumberOf[v[2]], 1>>)
    [] OTHER -> None
FracEq(a, b) == a[1] * b[2] = b[1] * a[2]
FracLt(a, b) == a[1] * b[2] < b[1] * a[2]

\* coerce_numeric also takes booleans.
Numeric(v) ==
  IF v[1] = "Bool" THEN Some(<<IF v[2] THEN 1 ELSE 0, 1>>) ELSE FracOf(v)

\* Value::sql_eq: True, False or Null.  A one-byte text compares with a boolean.
FracsEq(x, y) == IF x = None \/ y = None THEN Null ELSE Bool(FracEq(x[1], y[1]))
SqlEq(a, b) ==
  LET kinds == {a[1], b[1]}
      text == IF a[1] = "Txt" THEN a ELSE b
      bool == IF a[1] = "Bool" THEN a ELSE b
  IN CASE a = Null /\ b = Null -> True
       [] a # Null /\ b = Null -> Null
       [] a = Null /\ b # Null -> Null
       [] a[1] = b[1] /\ a[1] # "Null" ->
            IF a[1] = "Flt" THEN FracsEq(FracOf(a), FracOf(b)) ELSE Bool(a = b)
       [] kinds = {"Bool", "Txt"} /\ Len(Chars[text[2]]) = 1 -> bool
       [] kinds \subseteq {"Int", "Flt", "Txt"} /\ a[1] # b[1] ->
            FracsEq(FracOf(a), FracOf(b))
       [] OTHER -> False

\* Byte order of two encodings.  A column holds encodings of one kind, or
\* nothing; a negative integer is above the others in its two's complement.
TextRank(s) == CHOOSE i \in 1..Len(Texts) : Texts[i] = s
FracBytesLt(x, y) == IF (x[1] < 0) = (y[1] < 0) THEN FracLt(x, y) ELSE y[1] < 0
BytesLt(a, b) ==
  CASE a = b -> FALSE
    [] a = Txt("") -> TRUE
    [] b = Txt("") -> FALSE
    [] a[1] = "Txt" /\ b[1] = "Txt" -> TextRank(a[2]) < TextRank(b[2])
    [] a[1] # "Txt" /\ b[1] # "Txt" -> FracBytesLt(Numeric(a)[1], Numeric(b)[1])
    [] OTHER -> a[1] # "Txt"

-----------------------------------------------------------------------------
(* Names. *)

\* column_name_matches: exact, bare or qualified; the qualifiers never decide.
NameMatches(stored, wanted) == Bare(stored) = Bare(wanted)

\* The first field whose name passes the test, 0 if there is none.
FieldIndex(row, Test(_)) == SelectInSeq(row, LAMBDA f : Test(f[1]))
Matching(row, name) == FieldIndex(row, LAMBDA n : NameMatches(n, name))

\* executor.rs row_value
RowValue(row, name) ==
  IF Matching(row, name) = 0 THEN Null ELSE row[Matching(row, name)][2]

\* join_key_value: an optional key.
JoinKey(row, name) ==
  IF name = <<>> \/ Matching(row, name) = 0 THEN None
  ELSE Some(AsBytes(row[Matching(row, name)][2]))

EvalColumn(t, c, row) ==
  LET exact == FieldIndex(row, LAMBDA n : n = NameOf(Col(t, c)))
      plain == FieldIndex(row, LAMBDA n : n = <<c>>)
      tails == {i \in DOMAIN row : Len(row[i][1]) > 1 /\ Bare(row[i][1]) = c}
  IN CASE exact # 0 -> row[exact][2]
       [] exact = 0 /\ t # "" -> IF plain # 0 THEN row[plain][2] ELSE Error
       [] exact = 0 /\ t = "" ->
            IF Cardinality(tails) = 1 THEN row[CHOOSE i \in tails : TRUE][2] ELSE Error

-----------------------------------------------------------------------------
(* Operators. *)

EvalNot(v) ==
  CASE v[1] = "Bool" -> Bool(~v[2])  [] v = Null -> Null  [] OTHER -> Error

EvalMinus(v) ==
  CASE v[1] = "Int" -> Num(-v[2])
    [] v[1] = "Flt" -> Flt(-v[2], v[3])
    [] v = Null -> Null
    [] OTHER -> Error

\* cmp_values: NULL makes every ordering false, not unknown.
Holds(op, lt, eq) ==
  Bool(\/ op \in {"<", "<="} /\ lt
       \/ op \in {"<=", ">="} /\ eq
       \/ op \in {">", ">="} /\ ~lt /\ ~eq)
CompareNumbers(op, x, y) == Holds(op, FracLt(x, y), FracEq(x, y))
Compare(op, l, r) ==
  CASE l = Null \/ r = Null -> False
    [] l # Null /\ r # Null /\ None \notin {Numeric(l), Numeric(r)} ->
         CompareNumbers(op, Numeric(l)[1], Numeric(r)[1])
    [] l # Null /\ r # Null /\ None \in {Numeric(l), Numeric(r)} ->
         IF l[1] = "Txt" /\ r[1] = "Txt" THEN Holds(op, BytesLt(l, r), l = r) ELSE Error

\* Division towards zero, and the remainder that goes with it.
Trunc(p, q) == IF p >= 0 THEN p \div q ELSE -((-p) \div q)
Rem(p, q) == p - q * (IF q > 0 THEN Trunc(p, q) ELSE -Trunc(p, -q))

Calculate(op, x, y) ==
  CASE op = "+" -> Flt(x[1] * y[2] + y[1] * x[2], x[2] * y[2])
    [] op = "-" -> Flt(x[1] * y[2] - y[1] * x[2], x[2] * y[2])
    [] op = "*" -> Flt(x[1] * y[1], x[2] * y[2])
    [] op \in {"/", "%"} /\ y[1] = 0 -> Error
    [] op = "/" /\ y[1] > 0 -> Flt(x[1] * y[2], x[2] * y[1])
    [] op = "/" /\ y[1] < 0 -> Flt(-(x[1] * y[2]), -(x[2] * y[1]))
    [] op = "%" /\ y[1] # 0 -> Flt(Rem(x[1] * y[2], y[1] * x[2]), x[2] * y[2])
Arithmetic(op, l, r) ==
  IF l = Null \/ r = Null THEN Null
  ELSE IF None \in {Numeric(l), Numeric(r)} THEN Error
  ELSE Calculate(op, Numeric(l)[1], Numeric(r)[1])

\* sql_like: dp[i][j] says that the first i characters match the first j of the
\* pattern.
LikeTable(t, p) ==
  LET dp[i \in 0..Len(t), j \in 0..Len(p)] ==
        IF j = 0 THEN i = 0
        ELSE IF p[j] = "%" THEN dp[i, j - 1] \/ (i > 0 /\ dp[i - 1, j])
        ELSE i > 0 /\ p[j] \in {"_", t[i]} /\ dp[i - 1, j - 1]
  IN dp[Len(t), Len(p)]

LikeMatch(l, p) ==
  Bool(l[1] = "Txt" /\ p[1] = "Txt" /\ LikeTable(Chars[l[2]], Chars[p[2]]))

\* The spellings of parse_bool.
Truths == [true |-> TRUE, t |-> TRUE, yes |-> TRUE, false |-> FALSE, f |-> FALSE, no |-> FALSE]
CastText(v, n) ==
  CASE v[1] = "Txt" -> v
    [] v[1] = "Bool" -> Txt(IF v[2] THEN "true" ELSE "false")
    [] v[1] \in {"Int", "Flt"} ->
         IF n[1][1] % n[1][2] = 0 THEN Txt(ToString(n[1][1] \div n[1][2])) ELSE Error
CastBool(v) ==
  CASE v[1] = "Bool" -> v
    [] v[1] \in {"Int", "Flt"} -> Bool(v[2] # 0)
    [] v[1] = "Txt" /\ v[2] \in {"", "0", "1"} -> Bool(v[2] = "1")
    [] v[1] = "Txt" /\ v[2] \in DOMAIN Truths -> Bool(Truths[v[2]])
    [] OTHER -> Error
CastTo(v, ty, n) ==
  CASE v \in {Null, Error} -> v
    [] v \notin {Null, Error} /\ ty = "INT" -> IF n = None THEN Error ELSE Num(Trunc(n[1][1], n[1][2]))
    [] v \notin {Null, Error} /\ ty = "FLOAT" -> IF n = None THEN Error ELSE Flt(n[1][1], n[1][2])
    [] v \notin {Null, Error} /\ ty = "BOOLEAN" -> CastBool(v)
    [] v \notin {Null, Error} /\ ty \in {"TEXT", "VARCHAR"} -> CastText(v, n)
    [] OTHER -> Error
CastValue(v, ty) == CastTo(v, ty[1], Numeric(v))

\* eval_scalar_function
ScalarFunction(name, vals) ==
  LET v == vals[1]
      given == SelectInSeq(vals, LAMBDA w : w # Null)
  IN CASE name = "COALESCE" -> IF given = 0 THEN Null ELSE vals[given]
       [] name # "COALESCE" /\ vals = <<>> -> Error
       [] name # "COALESCE" /\ vals # <<>> ->
            CASE v = Null -> IF name \in {"UPPER", "LOWER", "TRIM", "LENGTH", "ABS", "ROUND"}
                             THEN Null ELSE Error
              [] name \in {"UPPER", "LOWER", "TRIM"} /\ v[1] = "Txt" ->
                   Txt(StringFn(name, v[2]))
              [] name = "LENGTH" /\ v[1] = "Txt" -> Num(Len(Chars[v[2]]))
              [] name = "ABS" /\ v[1] \in {"Int", "Flt"} ->
                   IF v[2] < 0 THEN EvalMinus(v) ELSE v
              [] name = "ROUND" /\ v[1] = "Int" -> v
              [] name = "ROUND" /\ v[1] \in {"Flt", "Txt"} ->
                   IF FracOf(v) = None THEN Error
                   ELSE LET p == FracOf(v)[1][1]  q == FracOf(v)[1][2]
                        IN Flt(Trunc(2 * p + (IF p < 0 THEN -q ELSE q), 2 * q), 1)
              [] OTHER -> Error

\* AND and OR: the right side is not evaluated when the left one decides.
Connective(op, l, r) ==
  LET decides == Bool(op = "OR")
  IN CASE l = decides -> l
       [] l = EvalNot(decides) -> r
       [] l = Null -> CASE IsError(r) -> Error [] r = decides -> r [] OTHER -> Null
       [] OTHER -> Error

BinaryValue(op, l, r) ==
  CASE op \in {"=", "<>"} -> IF op = "=" THEN SqlEq(l, r) ELSE EvalNot(SqlEq(l, r))
    [] op \in {"<", ">", "<=", ">="} -> Compare(op, l, r)
    [] op = "LIKE" -> LikeMatch(l, r)
    [] op \in {"+", "-", "*", "/", "%"} -> Arithmetic(op, l, r)
    [] OTHER -> Error

\* An error in the list counts when no value before it is the one looked for.
Found(hit, bad, neg) == IF bad # 0 /\ (hit = 0 \/ bad < hit) THEN Error ELSE Bool((hit # 0) # neg)
InValue(v, vs, neg) ==
  IF IsError(v) THEN Error
  ELSE Found(SelectInSeq(vs, LAMBDA w : SqlEq(v, w) = True), SelectInSeq(vs, IsError), neg)

Bounded(ge, le, neg) ==
  IF IsError(ge) \/ IsError(le) THEN Error ELSE Bool((ge = True /\ le = True) # neg)
BetweenValue(v, lo, hi, neg) ==
  IF Error \in {v, lo, hi} THEN Error
  ELSE IF Null \in {v, lo, hi} THEN False
  ELSE Bounded(Compare(">=", v, lo), Compare("<=", v, hi), neg)

RECURSIVE EvalExpr(_, _)
EvalExpr(e, row) ==
  LET at(i) == EvalExpr(e[i], row)
      all(es) == [i \in DOMAIN es |-> EvalExpr(es[i], row)]
  IN CASE e[1] = "Lit" -> e[2]
       [] e[1] = "Col" -> EvalColumn(e[2], e[3], row)
       [] e[1] = "Paren" -> at(2)
       [] e[1] = "Unary" -> IF e[2] = "NOT" THEN EvalNot(at(3)) ELSE EvalMinus(at(3))
       [] e[1] = "Binary" ->
            IF e[2] \in {"AND", "OR"} THEN Connective(e[2], at(3), at(4))
            ELSE IF IsError(at(3)) \/ IsError(at(4)) THEN Error
            ELSE BinaryValue(e[2], at(3), at(4))
       [] e[1] = "IsNull" ->
            IF IsError(at(2)) THEN Error ELSE Bool((at(2) \in {Null, Txt("")}) # e[3])
       [] e[1] = "In" -> InValue(at(2), all(e[3]), e[4])
       [] e[1] = "Between" -> BetweenValue(at(2), at(3), at(4), e[5])
       [] e[1] = "Cast" -> CastValue(at(2), e[3])
       [] e[1] = "Function" /\ e[4] = None -> ScalarFunction(e[2], all(e[3]))
       [] OTHER -> Error

\* WHERE keeps a row only on TRUE; NULL counts as false.
TruthValue(v) == CASE v \in {True, False} -> v  [] v = Null -> False  [] OTHER -> Error
EvalPredicate(e, row) == TruthValue(EvalExpr(e, row))
=============================================================================
