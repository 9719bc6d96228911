------------------------------- MODULE Display -----------------------------
(***************************************************************************)
(* The Display implementations of the syntax tree (noedb-ast/display.rs).  *)
(* The printed text is a sequence of tokens, as the lexer would read it    *)
(* back: two words printed without a space between them are one            *)
(* identifier, and "--" starts a comment that hides the rest.              *)
(***************************************************************************)
EXTENDS Parser, FiniteSetsExt

\* keyword_display knows these; every other keyword is printed as KEYWORD.
Unprinted ==
  {"BY", "GROUP", "HAVING", "ORDER", "LIMIT", "OFFSET", "ASC", "DESC", "EXISTS", "PRIMARY",
   "KEY", "IF", "BEGIN", "COMMIT", "ROLLBACK", "CURRENT"}
Word(kw) == IF kw \in Unprinted THEN "KEYWORD" ELSE kw
Words(kws) == [i \in DOMAIN kws |-> Word(kws[i])]

\* Two adjacent words become a new identifier.
Fused == "fused"
Glue(s, t) ==
  IF IsWord(Last(s)) /\ IsWord(Head(t)) THEN Front(s) \o <<Fused>> \o Tail(t) ELSE s \o t

Separated(parts) ==
  FlattenSeq([i \in DOMAIN parts |-> IF i = 1 THEN parts[i] ELSE <<",">> \o parts[i]])
Enclosed(s) == <<"(">> \o s \o <<")">>
When(c, s) == IF c THEN s ELSE <<>>

\* write_ident quotes a name only for the characters in it.
PrintIdent(name) ==
  LET quoted == {q \in DOMAIN Quoted : Quoted[q] = name}
  IN IF quoted = {} \/ name \in Keywords THEN <<name>> ELSE <<CHOOSE q \in quoted : TRUE>>
Idents(names) == Separated([i \in DOMAIN names |-> PrintIdent(names[i])])

\* The token of a value; a float without a fraction prints as an integer.
Numeral(v) == CHOOSE tok \in DOMAIN Literals : Literals[tok] = v
PrintLiteral(v) ==
  CASE v = Null -> <<Word("NULL")>>
    [] v[1] = "Bool" -> <<Word(IF v[2] THEN "TRUE" ELSE "FALSE")>>
    [] v[1] = "Flt" /\ v[3] = 1 -> <<Numeral(Num(v[2]))>>
    [] OTHER -> <<Numeral(v)>>
PrintCount(n) == <<Numeral(Num(n))>>

PrintType(ty) ==
  CASE ty[1] = "NAMED" -> <<ty[2]>>
    [] ty[1] # "NAMED" -> <<ty[1]>> \o When(Len(ty) = 2, Enclosed(PrintCount(ty[2])))

PrintBound(bound) ==
  CASE bound[1] = "UnboundedPreceding" -> Words(<<"UNBOUNDED", "PRECEDING">>)
    [] bound[1] = "UnboundedFollowing" -> Words(<<"UNBOUNDED", "FOLLOWING">>)
    [] bound[1] = "CurrentRow" -> Words(<<"CURRENT", "ROW">>)
    [] bound[1] = "Preceding" -> PrintCount(bound[2]) \o Words(<<"PRECEDING">>)
    [] bound[1] = "Following" -> PrintCount(bound[2]) \o Words(<<"FOLLOWING">>)
PrintFrame(frame) ==
  Glue(<<Word(frame.mode)>>, Words(<<"BETWEEN">>))
    \o Glue(PrintBound(frame.start), Words(<<"AND">>)) \o PrintBound(frame.end)

-----------------------------------------------------------------------------
RECURSIVE TextOf(_, _)
PrintExpr(e) == TextOf("expr", e)
PrintSelect(q) == TextOf("select", q)
PrintStatement(t) == TextOf("statement", t)

PrintExprs(es) == Separated([i \in DOMAIN es |-> PrintExpr(es[i])])
Not(neg) == When(neg, Words(<<"NOT">>))

PrintWindow(spec) ==
  LET key(k) == PrintExpr(k.e) \o Words(<<IF k.asc THEN "ASC" ELSE "DESC">>)
      keys == [i \in DOMAIN spec.order |-> key(spec.order[i])]
  IN Words(<<"OVER">>)
       \o Enclosed(When(spec.parts # <<>>, Glue(Words(<<"PARTITION">>), Words(<<"BY">>))
                                             \o PrintExprs(spec.parts))
                   \o When(keys # <<>>, Glue(Words(<<"ORDER">>), Words(<<"BY">>)) \o Separated(keys))
                   \o FlattenSeq([i \in DOMAIN spec.frame |-> PrintFrame(spec.frame[i])]))

ExprText(e) ==
  LET at(i) == PrintExpr(e[i])
  IN CASE e[1] = "Lit" -> PrintLiteral(e[2])
       [] e[1] = "Star" -> When(e[2] # "", PrintIdent(e[2]) \o <<".">>) \o <<"*">>
       [] e[1] = "Col" -> When(e[2] # "", PrintIdent(e[2]) \o <<".">>) \o PrintIdent(e[3])
       [] e[1] = "Binary" -> at(3) \o <<e[2]>> \o at(4)
       [] e[1] = "Unary" /\ e[2] = "NOT" -> Words(<<"NOT">>) \o at(3)
       [] e[1] = "Unary" /\ e[2] = "-" ->
            IF Head(at(3)) = "-" THEN <<"--">> \o Tail(at(3)) ELSE <<"-">> \o at(3)
       [] e[1] = "IsNull" -> at(2) \o Words(<<"IS">>) \o Not(e[3]) \o Words(<<"NULL">>)
       [] e[1] = "In" -> at(2) \o Not(e[4]) \o Words(<<"IN">>) \o Enclosed(PrintExprs(e[3]))
       [] e[1] = "InSubquery" ->
            at(2) \o Not(e[4]) \o Words(<<"IN">>) \o Enclosed(PrintSelect(e[3]))
       [] e[1] = "Exists" -> Not(e[3]) \o Words(<<"EXISTS">>) \o Enclosed(PrintSelect(e[2]))
       [] e[1] = "ScalarSubquery" -> Enclosed(PrintSelect(e[2]))
       [] e[1] = "Between" ->
            at(2) \o Not(e[5]) \o Words(<<"BETWEEN">>) \o at(3) \o Words(<<"AND">>) \o at(4)
       [] e[1] = "Paren" -> Enclosed(at(2))
       [] e[1] = "Parameter" -> <<CHOOSE p \in DOMAIN Parameters : Parameters[p] = e[2]>>
       [] e[1] = "CurrentUser" -> Words(<<"CURRENT_USER">>)
       [] e[1] = "Cast" ->
            Words(<<"CAST">>) \o Enclosed(at(2) \o Words(<<"AS">>) \o PrintType(e[3]))
       [] e[1] = "Function" ->
            PrintIdent(e[2]) \o Enclosed(PrintExprs(e[3]))
              \o FlattenSeq([i \in DOMAIN e[4] |-> PrintWindow(e[4][i])])

PrintAlias(as) == When(as # None, Words(<<"AS">>) \o PrintIdent(as[1]))
PrintTable(t) == PrintIdent(t[2]) \o PrintAlias(t[3])
PrintFrom(f) ==
  IF f[1] = "Table" THEN PrintTable(f) ELSE Enclosed(PrintSelect(f[2])) \o PrintIdent(f[3])
PrintJoin(j) ==
  Words(<<j.kind, "JOIN">>) \o PrintTable(j.table) \o Words(<<"ON">>) \o PrintExpr(j.on)
PrintCte(c) ==
  PrintIdent(c.name) \o Words(<<"AS">>)
    \o Enclosed(PrintSelect(c.anchor)
                \o When(c.rec # None, Words(<<"UNION">>) \o When(c.all, Words(<<"ALL">>)))
                \o FlattenSeq([i \in DOMAIN c.rec |-> PrintSelect(c.rec[i])]))
PrintWith(w) ==
  Words(<<"WITH">>) \o When(w.recursive, Words(<<"RECURSIVE">>))
    \o Separated([i \in DOMAIN w.ctes |-> PrintCte(w.ctes[i])])

PrintCompound(c) ==
  Words(<<c.op>>) \o When(c.all, Words(<<"ALL">>)) \o PrintSelect(c.right)

\* GROUP BY and ORDER BY print no space after BY.
SelectText(q) ==
  LET each(s, F(_)) == FlattenSeq([i \in DOMAIN s |-> F(s[i])])
      item(it) == PrintExpr(it.e) \o PrintAlias(it.as)
      key(k) == PrintExpr(k.e) \o When(~k.asc, Words(<<"DESC">>))
      by(kw, parts) == When(parts # <<>>, Words(<<kw>>) \o Glue(Words(<<"BY">>), Separated(parts)))
  IN each(q.with, PrintWith)
       \o Words(<<"SELECT">>) \o When(q.distinct, Words(<<"DISTINCT">>))
       \o Separated([i \in DOMAIN q.items |-> item(q.items[i])])
       \o each(q.from, LAMBDA f : Words(<<"FROM">>) \o PrintFrom(f))
       \o each(q.joins, PrintJoin)
       \o each(q.where, LAMBDA e : Words(<<"WHERE">>) \o PrintExpr(e))
       \o by("GROUP", [i \in DOMAIN q.group |-> PrintExpr(q.group[i])])
       \o each(q.having, LAMBDA e : Words(<<"HAVING">>) \o PrintExpr(e))
       \o by("ORDER", [i \in DOMAIN q.order |-> key(q.order[i])])
       \o each(q.limit, LAMBDA n : Words(<<"LIMIT">>) \o PrintCount(n))
       \o each(q.offset, LAMBDA n : Words(<<"OFFSET">>) \o PrintCount(n))
       \o each(q.compound, PrintCompound)

PrintColumn(c) ==
  PrintIdent(c.name) \o PrintType(c.type) \o When(c.notNull, Words(<<"NOT", "NULL">>))
PrintColumnDef(c) ==
  PrintColumn(c) \o When(c.pk, Words(<<"PRIMARY", "KEY">>)) \o When(c.unique, Words(<<"UNIQUE">>))
PrintWhere(w) == FlattenSeq([i \in DOMAIN w |-> Words(<<"WHERE">>) \o PrintExpr(w[i])])

PrintInsert(t) ==
  Words(<<"INSERT", "INTO">>) \o PrintIdent(t[2])
    \o FlattenSeq([i \in DOMAIN t[3] |-> Enclosed(Idents(t[3][i]))])
    \o Words(<<"VALUES">>)
    \o Separated([i \in DOMAIN t[4] |-> Enclosed(PrintExprs(t[4][i]))])
PrintUpdate(t) ==
  Words(<<"UPDATE">>) \o PrintIdent(t[2]) \o Words(<<"SET">>)
    \o Separated([i \in DOMAIN t[3] |-> PrintIdent(t[3][i][1]) \o <<"=">> \o PrintExpr(t[3][i][2])])
    \o PrintWhere(t[4])

\* IF NOT EXISTS is not printed.
PrintCreateTable(t) ==
  LET key == Words(<<"PRIMARY", "KEY">>) \o Enclosed(Idents(t[5]))
      columns == [i \in DOMAIN t[4] |-> PrintColumnDef(t[4][i])]
  IN Words(<<"CREATE", "TABLE">>) \o PrintIdent(t[2])
       \o Enclosed(Separated(columns \o When(t[5] # <<>>, <<key>>)))

\* The keys of an added column are not printed.
StatementText(t) ==
  LET id(i) == PrintIdent(t[i])
  IN CASE t[1] = "Select" -> PrintSelect(t[2])
       [] t[1] = "Insert" -> PrintInsert(t)
       [] t[1] = "Update" -> PrintUpdate(t)
       [] t[1] = "Delete" -> Words(<<"DELETE", "FROM">>) \o id(2) \o PrintWhere(t[3])
       [] t[1] = "CreateTable" -> PrintCreateTable(t)
       [] t[1] = "DropTable" -> Words(<<"DROP", "TABLE">>) \o id(2)
       [] t[1] = "CreateIndex" ->
            Words(<<"CREATE", "INDEX">>) \o id(2) \o Words(<<"ON">>) \o id(3) \o Enclosed(Idents(t[4]))
       [] t[1] = "Prepare" -> Words(<<"PREPARE">>) \o id(2) \o Words(<<"AS">>) \o PrintStatement(t[3])
       [] t[1] = "Execute" ->
            Words(<<"EXECUTE">>) \o id(2)
              \o When(t[3] # <<>>,
                      Enclosed(Separated([i \in DOMAIN t[3] |-> PrintLiteral(t[3][i])])))
       [] t[1] = "SetRole" -> Words(<<"SET", "ROLE">>) \o PrintLiteral(Txt(t[2]))
       [] t[1] = "EnableRls" ->
            Words(<<"ALTER", "TABLE">>) \o id(2) \o Words(<<"ENABLE", "ROW", "LEVEL", "SECURITY">>)
       [] t[1] = "AddColumn" ->
            Words(<<"ALTER", "TABLE">>) \o id(2) \o Words(<<"ADD", "COLUMN">>) \o PrintColumn(t[3])
       [] t[1] = "CreatePolicy" ->
            Words(<<"CREATE", "POLICY">>) \o id(2) \o Words(<<"ON">>) \o id(3)
              \o Words(<<"USING">>) \o Enclosed(PrintExpr(t[4]))
       [] t[1] = "Analyze" -> Words(<<"ANALYZE", "TABLE">>) \o id(2)
       [] OTHER -> Words(t)

TextOf(kind, x) ==
  CASE kind = "expr" -> ExprText(x)
    [] kind = "select" -> SelectText(x)
    [] kind = "statement" -> StatementText(x)

\* What the lexer makes of the printed text.
Uncommented(s) ==
  IF \E i \in DOMAIN s : s[i] = "--" THEN SubSeq(s, 1, SelectInSeq(s, LAMBDA tok : tok = "--") - 1)
  ELSE s
Printed(t) == Uncommented(PrintStatement(t))
=============================================================================
