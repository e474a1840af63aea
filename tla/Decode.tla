------------------------------- MODULE Decode -------------------------------
(***************************************************************************)
(* The decompiler (src/decode.c): the parse tree is recovered from a       *)
(* method's opcodes, and written as lines of text; count_lines() finds the *)
(* line of an opcode from the opcodes alone.                               *)
(*                                                                         *)
(* A line is a sequence of tokens, and a blank line the empty sequence.    *)
(* Spaces are left out.  `env' has the_object and the_method; functions    *)
(* that move a position return it with their value as [val, pos].          *)
(***************************************************************************)
EXTENDS Codegen

At(val, pos) == [val |-> val, pos |-> pos]

---------------------------------------------------------------------------
(* Expressions                                                             *)

Code(env, pos) == env.method.opcodes[pos]
IdentAt(env, pos) == env.object.idents[Code(env, pos)].item
StringAt(env, pos) == env.object.strings[Code(env, pos)].item

\* Arguments and variables are numbered as find_local_var() does.
Varname(env, ind) ==
  LET m == env.method
      more == IF m.rest = NoRest THEN <<>> ELSE <<m.rest>>
  IN  env.object.idents[(Reverse(m.argnames) \o more \o m.varnames)[ind + 1]].item

\* The stack with its last n expressions replaced by one
Reduce(stack, n, expr) == Append(SubSeq(stack, 1, Len(stack) - n), expr)
Top(stack) == stack[Len(stack)]
Second(stack) == stack[Len(stack) - 1]

Unbounded == -1
RECURSIVE Expressions(_, _, _, _)

DecompileExpressions(env, pos) == Expressions(env, pos, Unbounded, <<>>)
Bounded(env, pos, end) == Top(Expressions(env, pos, end, <<>>).val)

\* An argument list, and the opcode that takes it off the stack
ArgumentsTaken(env, pos, stack) ==
  LET args == DecompileExpressions(env, pos)
      op == Code(env, args.pos)
      Then(s, n) == At(s, args.pos + n)
  IN
  CASE op = "PASS" -> Then(Append(stack, PassExpr(args.val)), 1)
    [] op = "MESSAGE" ->
         Then(Reduce(stack, 1, MessageExpr(Top(stack),
                                           IdentAt(env, args.pos + 1), args.val)), 2)
    [] op = "EXPR_MESSAGE" ->
         Then(Reduce(stack, 2, ExprMessageExpr(Second(stack), Top(stack),
                                               args.val)), 1)
    [] op = "LIST" -> Then(Append(stack, ListExpr(args.val)), 1)
    [] op = "DICT" -> Then(Append(stack, DictExpr(args.val)), 1)
    [] op = "BUFFER" -> Then(Append(stack, BufferExpr(args.val)), 1)
    [] OTHER -> Then(Append(stack, FunctionCallExpr(op, args.val)), 1)

\* DBREF falls through to SYMBOL, which reads the two cells after it.
DbrefThenSymbol(env, pos, stack) ==
  Append(Append(stack, DbrefExpr(Code(env, pos + 1))),
         SymbolExpr(IdentAt(env, pos + 3)))

\* The left side of `and' and `or', and the condition, are on the stack.
ShortCircuit(env, pos, stack) ==
  LET end == Code(env, pos + 1)
      rhs == Bounded(env, pos + 2, end)
      expr == IF Code(env, pos) = "AND" THEN AndExpr(Top(stack), rhs)
                                        ELSE OrExpr(Top(stack), rhs)
  IN  At(Reduce(stack, 1, expr), end)

Conditional(env, pos, stack) ==
  LET false == Code(env, pos + 1)
      end == Code(env, false - 1)
      expr == CondExpr(Top(stack), Bounded(env, pos + 2, false - 2),
                       Bounded(env, false, end))
  IN  At(Reduce(stack, 1, expr), end)

\* A spliced expression goes to the front of the list that follows it, which is
\* the end of the decompiler's reversed list.
SpliceAdd(stack) ==
  Reduce(stack, 2,
         ListExpr(<<SpliceExpr(Second(stack))>> \o Top(stack).args))

ExprOpcodes ==
  BinaryOpcodes \cup UnaryOpcodes \cup
  {"ZERO", "ONE", "INTEGER", "STRING", "DBREF", "SYMBOL", "ERROR", "NAME",
   "GET_LOCAL", "GET_OBJ_VAR", "START_ARGS", "FROB", "INDEX", "AND", "OR",
   "CONDITIONAL", "CRITICAL", "CRITICAL_END", "PROPAGATE", "PROPAGATE_END",
   "SPLICE_ADD", "SPLICE"}

\* What one opcode does to the stack of expressions
Expression(env, pos, stack) ==
  LET op == Code(env, pos)
      Push(n, expr) == At(Append(stack, expr), pos + n)
      Wrap(n, expr) == At(Reduce(stack, n, expr), pos + 1)
  IN
  CASE op = "ZERO" -> Push(1, IntegerExpr(0))
    [] op = "ONE" -> Push(1, IntegerExpr(1))
    [] op = "INTEGER" -> Push(2, IntegerExpr(Code(env, pos + 1)))
    [] op = "STRING" -> Push(2, StringExpr(StringAt(env, pos + 1)))
    [] op = "DBREF" -> At(DbrefThenSymbol(env, pos, stack), pos + 4)
    [] op = "SYMBOL" -> Push(2, SymbolExpr(IdentAt(env, pos + 1)))
    [] op = "ERROR" -> Push(2, ErrorExpr(IdentAt(env, pos + 1)))
    [] op = "NAME" -> Push(2, NameExpr(IdentAt(env, pos + 1)))
    [] op = "GET_LOCAL" -> Push(2, VarExpr(Varname(env, Code(env, pos + 1))))
    [] op = "GET_OBJ_VAR" -> Push(2, VarExpr(IdentAt(env, pos + 1)))
    [] op = "START_ARGS" -> ArgumentsTaken(env, pos + 1, stack)
    [] op = "FROB" -> Wrap(2, FrobExpr(Second(stack), Top(stack)))
    [] op = "INDEX" -> Wrap(2, IndexExpr(Second(stack), Top(stack)))
    [] op \in {"AND", "OR"} -> ShortCircuit(env, pos, stack)
    [] op = "CONDITIONAL" -> Conditional(env, pos, stack)
    [] op \in {"CRITICAL", "PROPAGATE"} -> At(stack, pos + 2)
    [] op = "CRITICAL_END" -> Wrap(1, CriticalExpr(Top(stack)))
    [] op = "PROPAGATE_END" -> Wrap(1, PropagateExpr(Top(stack)))
    [] op \in UnaryOpcodes -> Wrap(1, UnaryExpr(op, Top(stack)))
    [] op \in BinaryOpcodes -> Wrap(2, BinaryExpr(op, Second(stack), Top(stack)))
    [] op = "SPLICE_ADD" -> At(SpliceAdd(stack), pos + 1)
    [] op = "SPLICE" -> Wrap(1, SpliceExpr(Top(stack)))

\* decompile_expressions_bounded()
Expressions(env, pos, end, stack) ==
  IF (end # Unbounded /\ pos >= end) \/ Code(env, pos) \notin ExprOpcodes
  THEN At(stack, pos)
  ELSE LET next == Expression(env, pos, stack) IN
         Expressions(env, next.pos, end, next.val)

---------------------------------------------------------------------------
(* Statements                                                              *)

RECURSIVE DecompileStmt(_, _), StmtsUntil(_, _, _, _), Cases(_, _, _, _)

\* Statements from pos until End(pos) holds: decompile_stmt_list() goes to an
\* end, decompile_until() to a marker.
StmtsUntil(env, pos, End(_), stmts) ==
  IF End(pos) THEN At(stmts, pos)
  ELSE LET next == DecompileStmt(env, pos) IN
         StmtsUntil(env, next.pos, End, Append(stmts, next.val))

DecompileStmtList(env, pos, end) ==
  StmtsUntil(env, pos, LAMBDA p : p >= end, <<>>).val

BodyFromStmtList(stmts) ==
  CASE stmts = <<>> -> NoopStmt
    [] Len(stmts) = 1 -> stmts[1]
    [] OTHER -> CompoundStmt(stmts)

DecompileBody(env, pos, end) == BodyFromStmtList(DecompileStmtList(env, pos, end))

\* The values of a case; its last opcode has the end of the body.
RECURSIVE CaseValues(_, _, _)
CaseValues(env, pos, values) ==
  LET exprs == DecompileExpressions(env, pos)
      op == Code(env, exprs.pos)
      value == IF op \in {"CASE_RANGE", "LAST_CASE_RANGE"}
               THEN RangeExpr(Second(exprs.val), Top(exprs.val))
               ELSE Top(exprs.val)
  IN  IF op \in {"CASE_VALUE", "CASE_RANGE"}
      THEN CaseValues(env, exprs.pos + 2, Append(values, value))
      ELSE [values |-> Append(values, value), pos |-> exprs.pos + 2,
            end |-> Code(env, exprs.pos + 1)]

\* decompile_cases(): a default without statements is dropped.
Cases(env, pos, end, cases) ==
  IF Code(env, pos) = "DEFAULT"
  THEN LET stmts == DecompileStmtList(env, pos + 1, end) IN
         IF stmts = <<>> THEN cases ELSE Append(cases, CaseEntry(<<>>, stmts))
  ELSE LET case == CaseValues(env, pos, <<>>) IN
         Cases(env, case.end, end,
               Append(cases, CaseEntry(case.values,
                 DecompileStmtList(env, case.pos, case.end - 2))))

DecompileIfElse(env, pos, cond) ==
  LET false == Code(env, pos + 1)
      end == Code(env, false - 1)
      if == IfStmt(cond, DecompileBody(env, pos + 2, false - 2))
  IN  At(IfElseStmt(if, DecompileBody(env, false, end)), end)

MakeErrorIdList(env, which) ==
  IF which = NoError THEN <<>> ELSE env.method.error_lists[which]

DecompileCatch(env, pos) ==
  LET errors == MakeErrorIdList(env, Code(env, pos + 2))
      end == Code(env, pos + 1)
      body == DecompileBody(env, pos + 3, end - 2)
      handler == StmtsUntil(env, end, LAMBDA p : Code(env, p) = "HANDLER_END",
                            <<>>)
  IN  At(CatchStmt(errors, body,
           IF handler.val = <<>> THEN NoStmt ELSE BodyFromStmtList(handler.val)),
         handler.pos + 1)

DecompileStmt(env, start) ==
  LET exprs == DecompileExpressions(env, start)
      pos == exprs.pos
      op == Code(env, pos)
      expr == Top(exprs.val)
      end == Code(env, pos + 1)
  IN
  CASE op = "COMMENT" -> At(CommentStmt(StringAt(env, pos + 1)), pos + 2)
    [] op = "POP" -> At(ExprStmt(expr), pos + 1)
    [] op = "SET_LOCAL" ->
         At(AssignStmt(Varname(env, Code(env, pos + 1)), expr), pos + 2)
    [] op = "SET_OBJ_VAR" -> At(AssignStmt(IdentAt(env, pos + 1), expr), pos + 2)
    [] op = "IF" -> At(IfStmt(expr, DecompileBody(env, pos + 2, end)), end)
    [] op = "IF_ELSE" -> DecompileIfElse(env, pos, expr)
    [] op = "FOR_RANGE" ->
         At(ForRangeStmt(Varname(env, Code(env, pos + 2)), Second(exprs.val),
                         expr, DecompileBody(env, pos + 3, end - 2)), end)
    [] op = "FOR_LIST" ->
         At(ForListStmt(Varname(env, Code(env, pos + 2)), Second(exprs.val),
                        DecompileBody(env, pos + 3, end - 2)), end)
    [] op = "WHILE" ->
         At(WhileStmt(expr, DecompileBody(env, pos + 3, end - 2)), end)
    [] op = "SWITCH" -> At(SwitchStmt(expr, Cases(env, pos + 2, end, <<>>)), end)
    [] op = "BREAK" -> At(BreakStmt, pos + 3)
    [] op = "CONTINUE" -> At(ContinueStmt, pos + 3)
    [] op = "RETURN" -> At(ReturnStmt, pos + 1)
    [] op = "RETURN_EXPR" -> At(ReturnExprStmt(expr), pos + 1)
    [] op = "CATCH" -> DecompileCatch(env, pos)

---------------------------------------------------------------------------
(* Text.  Tokens are tuples whose first element tells their kind.          *)

Tok(kind) == <<kind>>
Ident(name) == <<"IDENT", name>>

CommaList(seqs) ==
  FoldLeft(LAMBDA text, s : IF text = <<>> THEN s ELSE text \o <<Tok(",")>> \o s,
           <<>>, seqs)

Precedence(op) ==
  CASE op = "CONDITIONAL" -> 2
    [] op = "OR" -> 3
    [] op = "AND" -> 4
    [] op = "IN" -> 5
    [] op \in {"EQ", "NE", ">", ">=", "<", "<="} -> 6
    [] op \in {"+", "-"} -> 7
    [] op \in {"*", "/", "%"} -> 8
    [] op \in UnaryOpcodes -> 9
    [] op = "MESSAGE" -> 10
    [] op = "INDEX" -> 11
    [] OTHER -> -1

TypeOf(expr) ==
  IF expr.type \in {"BINARY", "UNARY"} THEN expr.opcode ELSE expr.type

RECURSIVE UnparseExpr(_, _)

Parens(text) == <<Tok("(")>> \o text \o <<Tok(")")>>

\* Mutant: an operand of the same precedence gets no parentheses.
UnparseExprPrecNoAssoc(parens, expr, caller, assoc) ==
  LET prec == Precedence(TypeOf(expr)) IN
    IF prec >= 0 /\ (parens \/ Precedence(caller) > prec)
    THEN Parens(UnparseExpr(parens, expr)) ELSE UnparseExpr(parens, expr)

\* unparse_expr_prec(): parentheses where the caller binds tighter, or as tight
\* on the side where `assoc' is 1, or everywhere (the_parens_flag)
UnparseExprPrec(parens, expr, caller, assoc) ==
  LET prec == Precedence(TypeOf(expr)) IN
    IF prec >= 0 /\ (parens \/ Precedence(caller) + assoc > prec)
    THEN Parens(UnparseExpr(parens, expr)) ELSE UnparseExpr(parens, expr)

UnparseArgs(parens, args) ==
  CommaList([i \in DOMAIN args |-> UnparseExpr(parens, args[i])])

\* A target that is this() is left out.
Target(parens, to) ==
  IF to = This THEN <<>> ELSE UnparseExprPrec(parens, to, "MESSAGE", 0)

InfixToken(op) == CASE op = "AND" -> "&&" [] op = "OR" -> "||" [] OTHER -> op

Infix(parens, op, left, right, leftAssoc) ==
  UnparseExprPrec(parens, left, op, IF leftAssoc THEN 0 ELSE 1)
    \o <<Tok(InfixToken(op))>>
    \o UnparseExprPrec(parens, right, op, IF leftAssoc THEN 1 ELSE 0)

\* Only a binary expression is parenthesized after @.
Spliced(parens, expr) ==
  <<Tok("@")>> \o IF expr.type = "BINARY" THEN Parens(UnparseExpr(parens, expr))
                                          ELSE UnparseExpr(parens, expr)

UnparseExpr(parens, expr) ==
  LET U(e) == UnparseExpr(parens, e)
      Args(open, close) ==
        <<Tok(open)>> \o UnparseArgs(parens, expr.args) \o <<Tok(close)>>
  IN
  CASE expr.type = "INTEGER" -> << <<"INTEGER", expr.num>> >>
    [] expr.type = "STRING" -> << <<"STRING", expr.str>> >>
    [] expr.type = "DBREF" -> << <<"DBREF", expr.dbref>> >>
    [] expr.type = "SYMBOL" -> << <<"SYMBOL", expr.symbol>> >>
    [] expr.type = "ERROR" -> << <<"ERROR", expr.error>> >>
    [] expr.type = "NAME" -> << <<"NAME", expr.name>> >>
    [] expr.type = "VAR" -> <<Ident(expr.name)>>
    [] expr.type = "FUNCTION_CALL" -> <<Ident(expr.name)>> \o Args("(", ")")
    [] expr.type = "PASS" -> <<Tok("pass")>> \o Args("(", ")")
    [] expr.type = "MESSAGE" ->
         Target(parens, expr.to) \o <<Tok("."), Ident(expr.name)>> \o Args("(", ")")
    [] expr.type = "EXPR_MESSAGE" ->
         Target(parens, expr.to) \o <<Tok(".")>> \o Parens(U(expr.message))
           \o Args("(", ")")
    [] expr.type = "LIST" -> Args("[", "]")
    [] expr.type = "DICT" -> Args("START_DICT", "]")
    [] expr.type = "BUFFER" -> Args("START_BUFFER", "]")
    [] expr.type = "FROB" ->
         <<Tok("<")>> \o U(expr.class) \o <<Tok(",")>> \o U(expr.rep) \o <<Tok(">")>>
    [] expr.type = "INDEX" ->
         UnparseExprPrec(parens, expr.list, "INDEX", 0)
           \o <<Tok("[")>> \o U(expr.offset) \o <<Tok("]")>>
    [] expr.type = "UNARY" ->
         <<Tok(IF expr.opcode = "NEG" THEN "-" ELSE "!")>>
           \o UnparseExprPrec(parens, expr.expr, expr.opcode, 0)
    [] expr.type = "BINARY" ->
         Infix(parens, expr.opcode, expr.left, expr.right, TRUE)
    [] expr.type \in {"AND", "OR"} ->
         Infix(parens, expr.type, expr.left, expr.right, FALSE)
    [] expr.type = "CONDITIONAL" ->
         UnparseExprPrec(parens, expr.cond, "CONDITIONAL", 1) \o <<Tok("?")>>
           \o U(expr.true) \o <<Tok("|")>>
           \o UnparseExprPrec(parens, expr.false, "CONDITIONAL", 0)
    [] expr.type = "CRITICAL" -> <<Tok("(|")>> \o U(expr.expr) \o <<Tok("|)")>>
    [] expr.type = "PROPAGATE" -> <<Tok("(>")>> \o U(expr.expr) \o <<Tok("<)")>>
    [] expr.type = "SPLICE" -> Spliced(parens, expr.expr)
    [] expr.type = "RANGE" -> U(expr.lower) \o <<Tok("..")>> \o U(expr.upper)

---------------------------------------------------------------------------
(* Lines of statements.  unparse_stmt() adds to the lines `out'; `last' is *)
(* the statement before, or NoStmt.                                        *)

RECURSIVE UnparseStmt(_, _, _, _)

Toks(kinds) == [i \in DOMAIN kinds |-> Tok(kinds[i])]

UnparseStmtList(parens, out, stmts) ==
  LET Unparse(o, i) ==
        UnparseStmt(parens, o, stmts[i], IF i = 1 THEN NoStmt ELSE stmts[i - 1])
  IN  FoldLeft(Unparse, out, [i \in DOMAIN stmts |-> i])

IsComplexType(type) ==
  type \notin {"NOOP", "EXPR", "ASSIGN", "BREAK", "CONTINUE", "RETURN",
               "RETURN_EXPR"}

RECURSIVE IsComplexIfElseStmt(_)
IsComplexIfElseStmt(stmt) ==
  \/ IsComplexType(stmt.body.type)
  \/ CASE stmt.false.type = "IF_ELSE" -> IsComplexIfElseStmt(stmt.false)
       [] stmt.false.type = "IF" -> IsComplexType(stmt.false.body.type)
       [] OTHER -> IsComplexType(stmt.false.type)

Braced(parens, out, head, stmt) ==
  Append(UnparseStmt(parens, Append(out, Append(head, Tok("{"))), stmt, NoStmt),
         <<Tok("}")>>)

Unbraced(parens, out, head, stmt) ==
  UnparseStmt(parens, Append(out, head), stmt, NoStmt)

UnparseBody(parens, out, body, head) ==
  IF IsComplexType(body.type) THEN Braced(parens, out, head, body)
                              ELSE Unbraced(parens, out, head, body)

\* The head of an if statement continues the line `str'.
IfHead(parens, str, stmt) ==
  str \o <<Tok("if")>> \o Parens(UnparseExpr(parens, stmt.cond))

\* A chain of else-ifs: each condition is on the line of the else before it,
\* and all bodies have braces if one of them is complex.
RECURSIVE UnparseIfElse(_, _, _, _, _)
UnparseIfElse(parens, out, str, stmt, complex) ==
  LET head == IfHead(parens, str, stmt)
      final == IF stmt.type = "IF" THEN stmt.body ELSE stmt
      line == IF stmt.type = "IF" THEN head ELSE str
  IN
  CASE stmt.type = "IF_ELSE" /\ complex ->
         LET lines == Braced(parens, out, head, stmt.body) IN
           UnparseIfElse(parens, Front(lines), Toks(<<"}", "else">>), stmt.false,
                         complex)
    [] stmt.type = "IF_ELSE" /\ ~complex ->
         UnparseIfElse(parens, Unbraced(parens, out, head, stmt.body),
                       <<Tok("else")>>, stmt.false, complex)
    [] stmt.type # "IF_ELSE" /\ final.type = "NOOP" ->
         Append(out, Append(line, Tok(";")))
    [] OTHER -> IF complex THEN Braced(parens, out, line, final)
                           ELSE Unbraced(parens, out, line, final)

UnparseCase(parens, out, case) ==
  LET head == IF case.values = <<>> THEN <<Tok("default")>>
              ELSE <<Tok("case")>> \o UnparseArgs(parens, case.values)
  IN  UnparseStmtList(parens, Append(out, Append(head, Tok(":"))), case.stmts)

UnparseSwitch(parens, out, stmt) ==
  LET head == <<Tok("switch")>> \o Parens(UnparseExpr(parens, stmt.expr))
      Case(o, case) == UnparseCase(parens, o, case)
  IN  Append(FoldLeft(Case, Append(out, Append(head, Tok("{"))), stmt.cases),
             <<Tok("}")>>)

UnparseCatch(parens, out, stmt) ==
  LET errors == IF stmt.errors = <<>> THEN <<Tok("any")>>
                ELSE CommaList([i \in DOMAIN stmt.errors |->
                                  << <<"ERROR", stmt.errors[i]>> >>])
      body == Braced(parens, out, <<Tok("catch")>> \o errors, stmt.body)
  IN  IF stmt.handler = NoStmt THEN body
      ELSE Braced(parens, Front(body), Toks(<<"}", "with", "handler">>),
                  stmt.handler)

UnparseStmt(parens, out, stmt, last) ==
  LET U(e) == UnparseExpr(parens, e)
      Line(text) == Append(out, Append(text, Tok(";")))
      For == Toks(<<"for">>) \o <<Ident(stmt.var), Tok("in")>>
  IN
  CASE stmt.type = "COMMENT" ->
         (IF last.type \in {"NULL", "COMMENT"} THEN out ELSE Append(out, <<>>))
           \o << << <<"COMMENT", stmt.comment>> >> >>
    [] stmt.type = "NOOP" -> out
    [] stmt.type = "EXPR" -> Line(U(stmt.expr))
    [] stmt.type = "COMPOUND" -> UnparseStmtList(parens, out, stmt.stmts)
    [] stmt.type = "ASSIGN" -> Line(<<Ident(stmt.var), Tok("=")>> \o U(stmt.value))
    [] stmt.type = "IF" ->
         UnparseBody(parens, out, stmt.body, IfHead(parens, <<>>, stmt))
    [] stmt.type = "IF_ELSE" ->
         UnparseIfElse(parens, out, <<>>, stmt, IsComplexIfElseStmt(stmt))
    [] stmt.type = "FOR_RANGE" ->
         UnparseBody(parens, out, stmt.body,
                     For \o <<Tok("[")>> \o U(stmt.lower) \o <<Tok("..")>>
                       \o U(stmt.upper) \o <<Tok("]")>>)
    [] stmt.type = "FOR_LIST" ->
         UnparseBody(parens, out, stmt.body, For \o Parens(U(stmt.list)))
    [] stmt.type = "WHILE" ->
         UnparseBody(parens, out, stmt.body, <<Tok("while")>> \o Parens(U(stmt.cond)))
    [] stmt.type = "SWITCH" -> UnparseSwitch(parens, out, stmt)
    [] stmt.type = "BREAK" -> Line(<<Tok("break")>>)
    [] stmt.type = "CONTINUE" -> Line(<<Tok("continue")>>)
    [] stmt.type = "RETURN" -> Line(<<Tok("return")>>)
    [] stmt.type = "RETURN_EXPR" -> Line(<<Tok("return")>> \o U(stmt.expr))
    [] stmt.type = "CATCH" -> UnparseCatch(parens, out, stmt)

\* The declarations, the first one first, and a blank line after them
Declarations(env) ==
  LET m == env.method
      Names(inds) == [i \in DOMAIN inds |->
                        <<Ident(env.object.idents[Reverse(inds)[i]].item)>>]
      rest == IF m.rest = NoRest THEN <<>>
              ELSE << <<Tok("["), Ident(env.object.idents[m.rest].item), Tok("]")>> >>
      Decl(word, names) ==
        IF names = <<>> THEN <<>>
        ELSE << <<Tok(word)>> \o CommaList(names) \o <<Tok(";")>> >>
      lines == (IF m.overridable THEN <<>> ELSE <<Toks(<<"disallow_overrides", ";">>)>>)
                 \o Decl("arg", Names(m.argnames) \o rest)
                 \o Decl("var", Names(m.varnames))
  IN  IF lines = <<>> THEN <<>> ELSE Append(lines, <<>>)

\* The return that ends every method is left out.
Decompile(object, method, parens) ==
  LET env == [object |-> object, method |-> method]
      stmts == DecompileStmtList(env, 1, Len(method.opcodes) + 1)
  IN  UnparseStmtList(parens, Declarations(env), Front(stmts))

---------------------------------------------------------------------------
(* line_number().  A count has the lines so far, the last statement's      *)
(* opcode, and the flags that tell the caller where braces will be.        *)

NoLines == [count |-> 0, last |-> NoIdent, flags |-> {}]

RECURSIVE CountFrom(_, _, _, _)

\* count_lines()
CountLines(code, start, end) == CountFrom(code, start, end, NoLines)

\* One more statement that is not an if: flags are of the block it is in.
Counted(acc, n, op) ==
  [count |-> acc.count + n, last |-> op,
   flags |-> (acc.flags \ {"SPANNING_IF"})
               \cup IF acc.last = NoIdent THEN {} ELSE {"COMPLEX"}]

\* The end is inside a body that starts at `start'.
Inside(code, start, end, acc, n) ==
  [acc EXCEPT !.count = @ + n + CountLines(code, start, end).count]

\* Mutant: the brace that ends an else part is not counted.
CountIfElseNoBrace(code, start, end, acc) ==
  LET false == code[start + 1]
      done == code[false - 1]
      body == CountLines(code, start + 2, false - 2)
      else == CountLines(code, false, done)
      spanning == IF "SPANNING_IF" \in else.flags THEN 1 ELSE 0
      n == body.count + 2 - spanning
  IN
  CASE end < false - 2 -> Inside(code, start + 2, end, acc, 1)
    [] end >= false - 2 /\ end < done -> Inside(code, false, end, acc, n)
    [] OTHER ->
         CountFrom(code, done, end,
           [count |-> acc.count + n + else.count, last |-> "IF_ELSE",
            flags |-> acc.flags \cup {"COMPLEX"}
                        \cup (IF acc.last = NoIdent THEN {"SPANNING_IF"} ELSE {})])

\* The else line is the line of the if statement it begins with, which leaves
\* its closing brace to the outermost one.
CountIfElse(code, start, end, acc) ==
  LET false == code[start + 1]
      done == code[false - 1]
      body == CountLines(code, start + 2, false - 2)
      else == CountLines(code, false, done)
      spans == "SPANNING_IF" \in else.flags
      braceInElse == spans /\ "COMPLEX_IF" \in else.flags
      braces == \/ "COMPLEX" \in body.flags
                \/ "COMPLEX" \in else.flags /\ ~spans
                \/ braceInElse
      One(b) == IF b THEN 1 ELSE 0
      n == body.count + 2 - One(spans)
  IN
  CASE end < false - 2 -> Inside(code, start + 2, end, acc, 1)
    [] end >= false - 2 /\ end < done -> Inside(code, false, end, acc, n)
    [] OTHER ->
         CountFrom(code, done, end,
           [count |-> acc.count + n + else.count - One(braceInElse) + One(braces),
            last |-> "IF_ELSE",
            flags |-> acc.flags \cup {"COMPLEX"}
                        \cup (IF braces THEN {"COMPLEX_IF"} ELSE {})
                        \cup (IF acc.last = NoIdent THEN {"SPANNING_IF"} ELSE {})])

\* if, for, while, and a case, which has no brace of its own
CountBody(code, start, end, acc) ==
  LET op == code[start]
      first == start + 1 + Len(OpArgs(op))
      case == op \in {"LAST_CASE_VALUE", "LAST_CASE_RANGE"}
      done == IF case THEN code[start + 1] - 2 ELSE code[start + 1]
      body == CountLines(code, first, done)
      complex == "COMPLEX" \in body.flags
      flags == IF op # "IF" THEN acc.flags \ {"SPANNING_IF"}
               ELSE acc.flags \cup (IF complex THEN {"COMPLEX_IF"} ELSE {})
                      \cup (IF acc.last = NoIdent THEN {"SPANNING_IF"} ELSE {})
  IN  IF end < done THEN Inside(code, first, end, acc, 1)
      ELSE CountFrom(code, done, end,
             [count |-> acc.count + 1 + body.count
                          + IF complex /\ ~case THEN 1 ELSE 0,
              last |-> op, flags |-> flags \cup {"COMPLEX"}])

CountSwitch(code, start, end, acc) ==
  LET done == code[start + 1]
      body == CountLines(code, start + 2, done)
  IN  IF end < done THEN Inside(code, start + 2, end, acc, 1)
      ELSE CountFrom(code, done, end,
             [count |-> acc.count + 2 + body.count, last |-> "SWITCH",
              flags |-> (acc.flags \ {"SPANNING_IF"}) \cup {"COMPLEX"}])

\* The end of the handler is not known: its lines are counted with the lines
\* after it, and its closing brace at the HANDLER_END.
CountCatch(code, start, end, acc) ==
  LET handler == code[start + 1]
      body == CountLines(code, start + 3, handler)
      none == code[handler] = "HANDLER_END"
  IN  IF end < handler THEN Inside(code, start + 3, end, acc, 1)
      ELSE CountFrom(code, IF none THEN handler + 1 ELSE handler, end,
             [count |-> acc.count + 2 + body.count,
              last |-> IF none THEN "CATCH" ELSE NoIdent,
              flags |-> (acc.flags \ {"SPANNING_IF"}) \cup {"COMPLEX"}])

CountFrom(code, start, end, acc) ==
  LET op == code[start]
      next == start + 1 + Len(OpArgs(op))
  IN
  CASE start >= end -> acc
    [] start < end /\ op \in {"POP", "SET_LOCAL", "SET_OBJ_VAR", "BREAK",
                              "CONTINUE", "RETURN", "RETURN_EXPR"} ->
         CountFrom(code, next, end, Counted(acc, 1, op))
    [] start < end /\ op = "COMMENT" ->
         CountFrom(code, next, end,
           Counted(acc, IF acc.last \in {NoIdent, op} THEN 1 ELSE 2, op))
    [] start < end /\ op = "IF_ELSE" -> CountIfElse(code, start, end, acc)
    [] start < end /\ op \in {"IF", "FOR_RANGE", "FOR_LIST", "WHILE",
                              "LAST_CASE_VALUE", "LAST_CASE_RANGE"} ->
         CountBody(code, start, end, acc)
    [] start < end /\ op = "SWITCH" -> CountSwitch(code, start, end, acc)
    [] start < end /\ op = "DEFAULT" ->
         [acc EXCEPT !.count = @ + 1 + CountLines(code, next, end).count]
    [] start < end /\ op = "CATCH" -> CountCatch(code, start, end, acc)
    [] start < end /\ op = "HANDLER_END" ->
         CountFrom(code, next, end, [acc EXCEPT !.count = @ + 1, !.last = "CATCH"])
    [] OTHER -> CountFrom(code, next, end, acc)

LineNumber(method, pc) ==
  LET One(b) == IF b THEN 1 ELSE 0
      declared == One(~method.overridable)
                    + One(method.argnames # <<>> \/ method.rest # NoRest)
                    + One(method.varnames # <<>>)
  IN  1 + declared + One(declared > 0)
        + CountLines(method.opcodes, 1, pc).count
=============================================================================
