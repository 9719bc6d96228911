------------------------------- MODULE Parser ------------------------------
(***************************************************************************)
(* The recursive-descent parser (noedb-parser).  A token is its text; the  *)
(* lexer's classes are sets of texts, and words are in upper case where    *)
(* the code ignores case.  The parser is a record: the tokens not yet      *)
(* read, the values parsed so far (a stack), and whether all is well.  An  *)
(* operation takes and returns one; once it has failed nothing matches.    *)
(***************************************************************************)
EXTENDS Ast, SequencesExt

CONSTANTS Literals,     \* number and string tokens, with their values
          Parameters,   \* $n tokens, with n
          Quoted        \* quoted identifiers, with the name inside

Keywords ==
  {"SELECT", "FROM", "WHERE", "INSERT", "INTO", "VALUES", "UPDATE", "SET", "DELETE", "CREATE",
   "DROP", "TABLE", "INDEX", "ON", "JOIN", "INNER", "LEFT", "OUTER", "DISTINCT", "AS", "AND",
   "OR", "NOT", "NULL", "IS", "IN", "BETWEEN", "LIKE", "TRUE", "FALSE", "ALTER", "ADD",
   "COLUMN", "ENABLE", "EXECUTE", "PREPARE", "POLICY", "ROW", "LEVEL", "SECURITY", "ROLE",
   "USING", "CURRENT_USER", "OVER", "PARTITION", "RANGE", "RECURSIVE", "ROWS", "UNBOUNDED",
   "PRECEDING", "FOLLOWING", "ANALYZE", "CAST", "ALL", "UNION", "UNIQUE", "INTERSECT",
   "EXCEPT", "WITH", "BY", "GROUP", "HAVING", "ORDER", "LIMIT", "OFFSET", "ASC", "DESC",
   "EXISTS", "PRIMARY", "KEY", "IF", "BEGIN", "COMMIT", "ROLLBACK", "CURRENT"}
Comparisons == {"=", "<>", "!=", "<", ">", "<=", ">=", "<->"}
Arithmetics == {"+", "-", "/", "%", "*"}
Punctuation == {"(", ")", ",", ";", ".", "*"}

IsIdent(tok) ==
  tok \notin Keywords \cup Comparisons \cup Arithmetics \cup Punctuation \cup DOMAIN Literals
             \cup DOMAIN Parameters \cup {"end", "stop"}
IsWord(tok) == IsIdent(tok) \/ tok \in Keywords

-----------------------------------------------------------------------------
(* The token stream and the stack. *)

Start(tokens) == [in |-> tokens, out |-> <<>>, ok |-> TRUE]
Stop(s) == [s EXCEPT !.ok = FALSE]

Ahead(s, n) ==
  IF ~s.ok THEN "stop" ELSE IF n > Len(s.in) THEN "end" ELSE s.in[n]
Peek(s) == Ahead(s, 1)
Bump(s) == IF s.in = <<>> THEN s ELSE [s EXCEPT !.in = Tail(@)]

\* expect_keyword and expect_punct; match_keyword for its effect, and for its
\* answer; expect_eof.
Expect(tok, s) == IF s.ok /\ Peek(s) = tok THEN Bump(s) ELSE Stop(s)
Skip(tok, s) == IF Peek(s) = tok THEN Bump(s) ELSE s
Push(x, s) == [s EXCEPT !.out = Append(@, x)]
Flag(tok, s) == Push(Peek(s) = tok, Skip(tok, s))
ExpectEof(s) == IF Peek(s) = "end" THEN s ELSE Stop(s)

Top(s) == Last(s.out)

\* The `?` of the code: go on only if all is well.
Try(s, rest) == IF s.ok THEN rest ELSE s

\* Replace the last n values by F of them.
Reduce(n, F(_), s) ==
  LET k == Len(s.out) - n
  IN IF s.ok THEN [s EXCEPT !.out = Append(SubSeq(@, 1, k), F(SubSeq(@, k + 1, k + n)))] ELSE s
One(s) == Reduce(1, LAMBDA v : v, s)
Absent(s) == Push(None, s)

\* parse_ident takes keywords as well.
Ident(s) ==
  LET tok == Peek(s)
  IN IF IsWord(tok) THEN Push(IF tok \in DOMAIN Quoted THEN Quoted[tok] ELSE tok, Bump(s))
     ELSE Stop(s)

LiteralOf(tok) ==
  CASE tok = "NULL" -> Some(Null)  [] tok = "TRUE" -> Some(Bool(TRUE))
    [] tok = "FALSE" -> Some(Bool(FALSE))
    [] tok \in DOMAIN Literals -> Some(Literals[tok])
    [] OTHER -> None
Literal(s) ==
  IF LiteralOf(Peek(s)) = None THEN Stop(s) ELSE Push(LiteralOf(Peek(s))[1], Bump(s))

\* An integer that is not negative: a limit, a length, a frame offset.
Unsigned(s) ==
  LET lit == LiteralOf(Peek(s))
  IN IF lit # None /\ lit[1][1] = "Int" THEN Push(lit[1][2], Bump(s)) ELSE Stop(s)

-----------------------------------------------------------------------------
(* Expressions.  Precedences: 1 OR, 2 AND, 3 comparison, 4 arithmetic. *)

\* The rules that call one another, by name; Rule, at the end, has their bodies.
RECURSIVE Rule(_, _)
Expr(min, s) == Rule(<<"expr", min>>, s)
Infix(min, s) == Rule(<<"infix", min>>, s)
Items(kind, s) == Rule(<<"items", kind>>, s)
SelectInner(s) == Rule(<<"select">>, s)
Joins(s) == Rule(<<"joins">>, s)
CompoundChain(s) == Rule(<<"compound">>, s)
Subquery(s) == Rule(<<"subquery">>, s)
Constraints(s) == Rule(<<"constraints">>, s)
Statement(s) == Rule(<<"statement">>, s)

\* One or more of a kind, separated by commas, pushed as one sequence.
List(kind, s) == Items(kind, Push(<<>>, s))
Parenthesised(kind, s) == Expect(")", List(kind, Expect("(", s)))

SqlType(s) ==
  LET name == Ident(s)
      length == Expect(")", Unsigned(Expect("(", name)))
      as(ty) == Reduce(1, LAMBDA v : ty, name)
  IN CASE ~name.ok -> name
       [] Top(name) \in {"INT", "INTEGER", "BIGINT"} -> as(<<"INT">>)
       [] Top(name) \in {"BOOLEAN", "BOOL"} -> as(<<"BOOLEAN">>)
       [] Top(name) \in {"FLOAT", "REAL", "DOUBLE"} -> as(<<"FLOAT">>)
       [] Top(name) \in {"TEXT", "DATE"} -> as(<<Top(name)>>)
       [] Top(name) \in {"TIMESTAMP", "TIMESTAMPTZ"} -> as(<<"TIMESTAMP">>)
       [] Top(name) \in {"VARCHAR", "CHAR"} /\ Peek(name) # "(" -> as(<<"VARCHAR">>)
       [] Top(name) \in {"VARCHAR", "CHAR"} /\ Peek(name) = "(" ->
            Reduce(2, LAMBDA v : <<"VARCHAR", v[2]>>, length)
       [] Top(name) = "VECTOR" -> Reduce(2, LAMBDA v : <<"VECTOR", v[2]>>, length)
       [] OTHER -> Reduce(1, LAMBDA v : <<"NAMED", v[1]>>, name)

FrameBound(s) ==
  LET unbounded == Bump(s)
      n == Unsigned(s)
      is(bound, r) == Push(bound, r)
  IN CASE Peek(s) = "UNBOUNDED" ->
            IF Peek(unbounded) = "PRECEDING" THEN is(<<"UnboundedPreceding">>, Bump(unbounded))
            ELSE is(<<"UnboundedFollowing">>, Expect("FOLLOWING", unbounded))
       [] Peek(s) = "CURRENT" -> is(<<"CurrentRow">>, Expect("ROW", Bump(s)))
       [] OTHER ->
            IF Peek(n) = "PRECEDING" THEN Reduce(1, LAMBDA v : <<"Preceding", v[1]>>, Bump(n))
            ELSE Reduce(1, LAMBDA v : <<"Following", v[1]>>, Expect("FOLLOWING", n))

WindowFrame(s) ==
  IF Peek(s) \notin {"ROWS", "RANGE"} THEN Absent(s)
  ELSE Reduce(3, LAMBDA v : Some(Frame(v[1], v[2], v[3])),
              FrameBound(Expect("AND", FrameBound(Expect("BETWEEN", Push(Peek(s), Bump(s)))))))

\* <keyword> BY list, or nothing.
By(tok, kind, s) ==
  IF Peek(s) = tok THEN List(kind, Expect("BY", Bump(s))) ELSE Push(<<>>, s)

OverSpec(s) ==
  Reduce(3, LAMBDA v : WindowSpec(v[1], v[2], v[3]),
         Expect(")", WindowFrame(By("ORDER", "key", By("PARTITION", "expr", Expect("(", s))))))

\* What follows [NOT] IN and [NOT] BETWEEN.
InRhs(neg, s) ==
  LET open == Expect("(", s)
      values == IF Peek(open) = ")" THEN Push(<<>>, open) ELSE List("expr", open)
  IN IF Peek(open) = "SELECT"
     THEN Reduce(2, LAMBDA v : InSubquery(v[1], v[2], neg), Expect(")", Subquery(open)))
     ELSE Reduce(2, LAMBDA v : In(v[1], v[2], neg), Expect(")", values))
BetweenRhs(neg, s) ==
  Reduce(3, LAMBDA v : Between(v[1], v[2], v[3], neg), Expr(3, Expect("AND", Expr(3, s))))

OverRhs(s) ==
  IF Top(s)[1] # "Function" THEN Stop(s)
  ELSE Reduce(2, LAMBDA v : Function(v[1][2], v[1][3], Some(v[2])), OverSpec(s))

Operand(min, left) == Try(left, Infix(min, left))

\* One turn of the loop of parse_expr_prec.  A NOT that neither IN nor BETWEEN
\* follows is consumed all the same, and the turn goes on.
ParseInfix(min, s) ==
  LET r == IF Peek(s) = "NOT" /\ Ahead(s, 2) \notin {"IN", "BETWEEN"} THEN Bump(s) ELSE s
      tok == Peek(r)
      then == Bump(r)
      op(name, prec) ==
        LET right == Expr(prec, then)
        IN Try(right, Infix(min, Reduce(2, LAMBDA v : Binary(name, v[1], v[2]), right)))
  IN CASE tok = "IS" /\ r = s ->
            Infix(min, Reduce(2, LAMBDA v : IsNull(v[1], v[2]), Expect("NULL", Flag("NOT", then))))
       [] tok = "NOT" /\ r = s ->
            Infix(min, IF Ahead(r, 2) = "IN" THEN InRhs(TRUE, Bump(then))
                       ELSE BetweenRhs(TRUE, Bump(then)))
       [] tok = "IN" /\ r = s -> Infix(min, InRhs(FALSE, then))
       [] tok = "BETWEEN" -> Infix(min, BetweenRhs(FALSE, then))
       [] tok = "OVER" -> Infix(min, OverRhs(then))
       [] tok = "LIKE" -> op("LIKE", 3)
       [] tok = "OR" /\ min <= 1 -> op("OR", 2)
       [] tok = "AND" /\ min <= 2 -> op("AND", 3)
       [] tok \in Comparisons /\ min <= 3 -> op(IF tok = "!=" THEN "<>" ELSE tok, 3)
       [] tok \in Arithmetics /\ min <= 4 -> op(tok, 4)
       [] OTHER -> r

\* parse_ident_expr: a call, t.*, t.c or c.
IdentExpr(s) ==
  LET name == Ident(s)
      args == IF Ahead(name, 2) = ")" THEN Push(<<>>, Bump(name)) ELSE List("expr", Bump(name))
      dot == Bump(name)
  IN CASE Peek(name) = "(" ->
            Reduce(2, LAMBDA v : Function(v[1], v[2], None), Expect(")", args))
       [] Peek(name) = "." /\ Peek(dot) = "*" -> Reduce(1, LAMBDA v : Star(v[1]), Bump(dot))
       [] Peek(name) = "." /\ Peek(dot) # "*" ->
            Reduce(2, LAMBDA v : Col(v[1], v[2]), Ident(dot))
       [] OTHER -> Reduce(1, LAMBDA v : Col("", v[1]), name)

Prefix(s) ==
  LET tok == Peek(s)
      then == Bump(s)
      unary(op, prec) == Reduce(1, LAMBDA v : Unary(op, v[1]), Expr(prec, then))
      exists(neg, r) ==
        Reduce(1, LAMBDA v : Exists(v[1], neg), Expect(")", Subquery(Expect("(", r))))
  IN CASE tok = "CAST" ->
            Reduce(2, LAMBDA v : Cast(v[1], v[2]),
                   Expect(")", SqlType(Expect("AS", Expr(1, Expect("(", then))))))
       [] tok = "NOT" /\ Peek(then) = "EXISTS" -> exists(TRUE, Bump(then))
       [] tok = "NOT" /\ Peek(then) # "EXISTS" -> unary("NOT", 2)
       [] tok = "-" -> unary("-", 4)
       [] tok = "EXISTS" -> exists(FALSE, then)
       [] tok = "(" ->
            IF Peek(then) \in {"SELECT", "WITH"}
            THEN Reduce(1, LAMBDA v : ScalarSubquery(v[1]), Expect(")", Subquery(then)))
            ELSE Reduce(1, LAMBDA v : Paren(v[1]), Expect(")", Expr(1, then)))
       [] tok = "CURRENT_USER" -> Push(CurrentUser, then)
       [] tok \in DOMAIN Parameters -> Push(Parameter(Parameters[tok]), then)
       [] LiteralOf(tok) # None -> Reduce(1, LAMBDA v : Lit(v[1]), Literal(s))
       [] tok = "*" -> Push(Star(""), then)
       [] OTHER -> IdentExpr(s)

-----------------------------------------------------------------------------
(* SELECT. *)

\* A bare alias is taken only if what follows can end the item.
Alias(ends, s) ==
  IF Peek(s) = "AS" THEN One(Ident(Bump(s)))
  ELSE IF IsIdent(Peek(s)) /\ Ahead(s, 2) \in ends THEN One(Ident(s))
  ELSE Absent(s)
ItemEnds == {",", "FROM", "WHERE", "end"}
TableEnds ==
  {"INNER", "LEFT", "JOIN", "ORDER", "LIMIT", "GROUP", "WHERE", "ON", "UNION", "INTERSECT",
   "EXCEPT", "OFFSET", ")", ",", "end"}

Table(s) == Reduce(2, LAMBDA v : TableRef(v[1], v[2]), Alias(TableEnds, Ident(s)))
FromItem(s) ==
  IF Peek(s) = "("
  THEN Reduce(2, LAMBDA v : FromSubquery(v[1], v[2]),
              Ident(Skip("AS", Expect(")", SelectInner(Bump(s))))))
  ELSE Table(s)

\* The joins are pushed as one sequence.
ParseJoins(s) ==
  LET left == Peek(s) = "LEFT"
      kind == CASE Peek(s) = "INNER" -> Expect("JOIN", Bump(s))
                [] Peek(s) = "LEFT" -> Expect("JOIN", Skip("OUTER", Bump(s)))
                [] OTHER -> Expect("JOIN", s)
  IN IF Peek(s) \notin {"INNER", "LEFT", "JOIN"} THEN s
     ELSE Joins(Reduce(3, LAMBDA v :
                         Append(v[1], JoinClause(IF left THEN "LEFT" ELSE "INNER", v[2], v[3])),
                       Expr(1, Expect("ON", Table(kind)))))

\* At most one: an option.
Clause(tok, s) == IF Peek(s) = tok THEN One(Expr(1, Bump(s))) ELSE Absent(s)
Count(tok, s) == IF Peek(s) = tok THEN One(Unsigned(Bump(s))) ELSE Absent(s)

ParseSelectInner(s) ==
  LET items == List("item", Flag("DISTINCT", Expect("SELECT", s)))
      from == IF Peek(items) = "FROM" THEN One(FromItem(Bump(items))) ELSE Absent(items)
      where == Clause("WHERE", Joins(Push(<<>>, from)))
      having == Clause("HAVING", By("GROUP", "expr", where))
      offset == Count("OFFSET", Count("LIMIT", By("ORDER", "key", having)))
  IN Try(items, Try(from, Try(where, Try(having,
       Reduce(10, LAMBDA v :
                [SelectOf(v[2]) EXCEPT !.distinct = v[1], !.from = v[3], !.joins = v[4],
                   !.where = v[5], !.group = v[6], !.having = v[7], !.order = v[8],
                   !.limit = v[9], !.offset = v[10]],
              offset)))))

With(s) ==
  IF Peek(s) # "WITH" THEN Absent(s)
  ELSE Reduce(2, LAMBDA v : Some([recursive |-> v[1], ctes |-> v[2]]),
              List("cte", Flag("RECURSIVE", Bump(s))))
CteBody(s) ==
  LET anchor == SelectInner(Expect("(", Expect("AS", Ident(s))))
  IN IF Peek(anchor) = "UNION"
     THEN Reduce(4, LAMBDA v : Cte(v[1], v[2], v[3], Some(v[4])),
                 Expect(")", SelectInner(Flag("ALL", Bump(anchor)))))
     ELSE Reduce(2, LAMBDA v : Cte(v[1], v[2], FALSE, None), Expect(")", anchor))

ParseCompound(s) ==
  IF Peek(s) \notin {"UNION", "INTERSECT", "EXCEPT"} THEN Absent(s)
  ELSE Reduce(4, LAMBDA v : Some(Compound(v[1], v[2], [v[3] EXCEPT !.compound = v[4]])),
              CompoundChain(SelectInner(Flag("ALL", Push(Peek(s), Bump(s))))))

\* Inside another statement: no set operation.
ParseSubquery(s) == Reduce(2, LAMBDA v : [v[2] EXCEPT !.with = v[1]], SelectInner(With(s)))
Select(s) ==
  ExpectEof(Reduce(3, LAMBDA v : <<"Select", [v[2] EXCEPT !.with = v[1], !.compound = v[3]]>>,
                   CompoundChain(SelectInner(With(s)))))

-----------------------------------------------------------------------------
(* The other statements. *)

\* The loop over the constraints of a column.  A NOT or a PRIMARY that is not
\* followed by its second word is consumed all the same.
ParseConstraints(s) ==
  LET set(f, r) == Reduce(1, LAMBDA v : [x \in DOMAIN v[1] |-> v[1][x] \/ x \in f], r)
      not == Skip("NOT", s)
      primary == Skip("PRIMARY", not)
  IN CASE not # s /\ Peek(not) = "NULL" -> Constraints(set({"notNull"}, Bump(not)))
       [] ~(not # s /\ Peek(not) = "NULL") /\ primary # not /\ Peek(primary) = "KEY" ->
            Constraints(set({"notNull", "pk"}, Bump(primary)))
       [] ~(not # s /\ Peek(not) = "NULL") /\ ~(primary # not /\ Peek(primary) = "KEY") ->
            IF Peek(primary) = "UNIQUE" THEN Constraints(set({"unique"}, Bump(primary)))
            ELSE primary
Column(s) ==
  Reduce(3, LAMBDA v : ColumnDef(v[1], v[2], v[3].notNull, v[3].pk, v[3].unique),
         Constraints(Push([notNull |-> FALSE, pk |-> FALSE, unique |-> FALSE],
                          SqlType(Ident(s)))))

\* A column, or PRIMARY KEY (columns).
TableElement(s) ==
  IF Peek(s) = "PRIMARY"
  THEN Reduce(1, LAMBDA v : <<"Key", v[1]>>, Parenthesised("ident", Expect("KEY", Bump(s))))
  ELSE Reduce(1, LAMBDA v : <<"Column", v[1]>>, Column(s))

IfNotExists(s) ==
  IF Peek(s) = "IF" THEN Push(TRUE, Expect("EXISTS", Expect("NOT", Bump(s)))) ELSE Push(FALSE, s)

CreateTable(s) ==
  LET pick(es, kind) == SelectSeq(es, LAMBDA e : e[1] = kind)
      bodies(es) == [i \in DOMAIN es |-> es[i][2]]
  IN Reduce(3, LAMBDA v : <<"CreateTable", v[2], v[1], bodies(pick(v[3], "Column")),
                            FlattenSeq(bodies(pick(v[3], "Key")))>>,
            ExpectEof(Parenthesised("element", Ident(IfNotExists(s)))))
CreateIndex(s) ==
  Reduce(3, LAMBDA v : <<"CreateIndex", v[1], v[2], v[3]>>,
         ExpectEof(Parenthesised("ident", Ident(Expect("ON", Ident(s))))))
CreatePolicy(s) ==
  Reduce(3, LAMBDA v : <<"CreatePolicy", v[1], v[2], v[3]>>,
         ExpectEof(Expect(")", Expr(1, Expect("(", Expect("USING",
                   Ident(Expect("ON", Ident(s)))))))))
Create(s) ==
  CASE Peek(s) = "TABLE" -> CreateTable(Bump(s))
    [] Peek(s) = "INDEX" -> CreateIndex(Bump(s))
    [] Peek(s) = "POLICY" -> CreatePolicy(Bump(s))
    [] OTHER -> Stop(s)

AlterTable(s) ==
  LET table == Ident(Expect("TABLE", s))
      then == Bump(table)
  IN CASE Peek(table) = "ENABLE" ->
            Reduce(1, LAMBDA v : <<"EnableRls", v[1]>>,
                   ExpectEof(Expect("SECURITY", Expect("LEVEL", Expect("ROW", then)))))
       [] Peek(table) = "ADD" ->
            Reduce(2, LAMBDA v : <<"AddColumn", v[1], v[2]>>, ExpectEof(Column(Skip("COLUMN", then))))
       [] OTHER -> Stop(table)

Insert(s) ==
  LET table == Ident(Expect("INTO", s))
      columns == IF Peek(table) = "(" THEN One(Parenthesised("ident", table)) ELSE Absent(table)
  IN Reduce(3, LAMBDA v : <<"Insert", v[1], v[2], v[3]>>,
            ExpectEof(List("row", Expect("VALUES", columns))))
Assignment(s) == Reduce(2, LAMBDA v : v, Expr(1, Expect("=", Ident(s))))
Update(s) ==
  Reduce(3, LAMBDA v : <<"Update", v[1], v[2], v[3]>>,
         ExpectEof(Clause("WHERE", List("assignment", Expect("SET", Ident(s))))))
Delete(s) ==
  Reduce(2, LAMBDA v : <<"Delete", v[1], v[2]>>,
         ExpectEof(Clause("WHERE", Ident(Expect("FROM", s)))))

Prepare(s) ==
  Reduce(2, LAMBDA v : <<"Prepare", v[1], v[2]>>, ExpectEof(Statement(Expect("AS", Ident(s)))))
Execute(s) ==
  LET name == Ident(s)
      open == Bump(name)
  IN Reduce(2, LAMBDA v : <<"Execute", v[1], v[2]>>,
            ExpectEof(IF Peek(name) # "(" THEN Push(<<>>, name)
                      ELSE Expect(")", IF Peek(open) = ")" THEN Push(<<>>, open)
                                       ELSE List("literal", open))))
\* A string, or a name that is not a keyword.
SetRole(s) ==
  LET role == Expect("ROLE", s)
      lit == LiteralOf(Peek(role))
  IN Reduce(1, LAMBDA v : <<"SetRole", v[1]>>,
            ExpectEof(IF lit # None /\ lit[1][1] = "Txt" THEN Push(lit[1][2], Bump(role))
                      ELSE IF IsIdent(Peek(role)) THEN Ident(role) ELSE Stop(role)))

\* dispatch_statement
Dispatch(s) ==
  LET tok == Peek(s)
      then == Bump(s)
  IN CASE tok \in {"SELECT", "WITH"} -> Select(s)
       [] tok = "INSERT" -> Insert(then)
       [] tok = "UPDATE" -> Update(then)
       [] tok = "DELETE" -> Delete(then)
       [] tok = "CREATE" -> Create(then)
       [] tok = "DROP" ->
            Reduce(1, LAMBDA v : <<"DropTable", v[1]>>, ExpectEof(Ident(Expect("TABLE", then))))
       [] tok = "ALTER" -> AlterTable(then)
       [] tok = "ANALYZE" ->
            Reduce(1, LAMBDA v : <<"Analyze", v[1]>>, ExpectEof(Ident(Expect("TABLE", then))))
       [] tok = "PREPARE" -> Prepare(then)
       [] tok = "EXECUTE" -> Execute(then)
       [] tok = "SET" -> SetRole(then)
       [] tok \in {"BEGIN", "COMMIT", "ROLLBACK"} -> ExpectEof(Push(<<tok>>, then))
       [] OTHER -> Stop(s)

\* The kinds of list items.
Item(kind, s) ==
  CASE kind = "expr" -> Expr(1, s)
    [] kind = "ident" -> Ident(s)
    [] kind = "literal" -> Literal(s)
    [] kind = "item" -> Reduce(2, LAMBDA v : SelectItem(v[1], v[2]), Alias(ItemEnds, Expr(1, s)))
    [] kind = "key" ->
         LET e == Expr(1, s)
             desc == Peek(e) = "DESC"
         IN Reduce(1, LAMBDA v : OrderKey(v[1], ~desc), IF desc THEN Bump(e) ELSE Skip("ASC", e))
    [] kind = "cte" -> CteBody(s)
    [] kind = "row" -> Parenthesised("expr", s)
    [] kind = "assignment" -> Assignment(s)
    [] kind = "element" -> TableElement(s)
ParseItems(kind, s) ==
  LET one == Reduce(2, LAMBDA v : Append(v[1], v[2]), Item(kind, s))
  IN IF Peek(one) = "," THEN Items(kind, Bump(one)) ELSE one

Rule(sym, s) ==
  CASE sym[1] = "expr" -> Operand(sym[2], Prefix(s))
    [] sym[1] = "infix" -> ParseInfix(sym[2], s)
    [] sym[1] = "items" -> ParseItems(sym[2], s)
    [] sym[1] = "select" -> ParseSelectInner(s)
    [] sym[1] = "joins" -> ParseJoins(s)
    [] sym[1] = "compound" -> ParseCompound(s)
    [] sym[1] = "subquery" -> ParseSubquery(s)
    [] sym[1] = "constraints" -> ParseConstraints(s)
    [] sym[1] = "statement" -> Dispatch(s)

\* The statement, if the tokens are one.
Parsed(s) == IF s.ok THEN Some(Top(s)) ELSE None
Parse(tokens) == Parsed(Statement(Start(tokens)))
=============================================================================
