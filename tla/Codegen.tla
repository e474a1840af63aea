------------------------------- MODULE Codegen -------------------------------
(***************************************************************************)
(* The code generator (src/codegen.c): a parse tree becomes a sequence of  *)
(* opcodes and arguments, with jumps to destinations that are known later. *)
(* Assemble makes a method of it.                                          *)
(*                                                                         *)
(* The generator's globals are a record that the operators pass along.     *)
(* Positions count from 1.  An opcode is its name in the table of          *)
(* src/opcodes.c, an argument a number, a name, or a list of errors.       *)
(***************************************************************************)
EXTENDS Syntax, Assemble

\* The functions of op_table that the interpreter of this project has
Function == {"this", "error", "traceback", "throw", "rethrow", "listlen",
             "del_method"}

---------------------------------------------------------------------------
(* The instruction buffer and the jump table                               *)

Start(prog) ==
  [the_prog |-> prog, instr_buf |-> <<>>, jump_table |-> <<>>,
   num_error_lists |-> 0, no_errors |-> TRUE]

g ++ cells == [g EXCEPT !.instr_buf = @ \o cells]

\* The number of the next destination, and a generator with n more of them
Dest(g) == Len(g.jump_table) + 1
NewJumpDests(g, n) == [g EXCEPT !.jump_table = @ \o [i \in 1 .. n |-> 0]]
SetJumpDestHere(g, dest) ==
  [g EXCEPT !.jump_table[dest] = Len(g.instr_buf) + 1]

CompilerError(g) == [g EXCEPT !.no_errors = FALSE]

\* Arguments are numbered first, then the rest, then the variables, backwards.
\* Of two equal names in a declaration the last is found.
NotFound == -1
FindLocalVar(g, id) ==
  LET args == g.the_prog.args
      more == IF args.rest = NoName THEN <<>> ELSE <<args.rest>>
      arg == SelectLastInSeq(args.ids, LAMBDA x : x = id)
      var == SelectInSeq(more \o Reverse(g.the_prog.vars), LAMBDA x : x = id)
  IN  CASE arg # 0 -> arg - 1
        [] arg = 0 /\ var # 0 -> Len(args.ids) + var - 1
        [] OTHER -> NotFound

---------------------------------------------------------------------------
(* compile_expr()                                                          *)

RECURSIVE CompileExpr(_, _)

CompileExprs(g, exprs) ==
  FoldLeft(LAMBDA gen, expr : CompileExpr(gen, expr), g, exprs)

\* Zero and one have opcodes of their own.
CompileInteger(g, num) ==
  CASE num = 0 -> g ++ <<"ZERO">>
    [] num = 1 -> g ++ <<"ONE">>
    [] OTHER -> g ++ <<"INTEGER", num>>

CompileVar(g, name) ==
  LET n == FindLocalVar(g, name) IN
    IF n # NotFound THEN g ++ <<"GET_LOCAL", n>>
                    ELSE g ++ <<"GET_OBJ_VAR", name>>

CompileFunctionCall(g, expr) ==
  LET args == CompileExprs(g ++ <<"START_ARGS">>, expr.args) IN
    IF expr.name \in Function THEN args ++ <<expr.name>>
                              ELSE CompilerError(args)

\* [@foo, ...] is foo and the list of the other elements, which SPLICE_ADD puts
\* after it.  The parser's lists begin with the last element; here they are in
\* the order of the text.
CompileList(g, args) ==
  IF args # <<>> /\ Head(args).type = "SPLICE"
  THEN CompileExprs(CompileExpr(g, Head(args).expr) ++ <<"START_ARGS">>,
                    Tail(args)) ++ <<"LIST", "SPLICE_ADD">>
  ELSE CompileExprs(g ++ <<"START_ARGS">>, args) ++ <<"LIST">>

\* The right side is skipped when the left side decides.
CompileShortCircuit(g, op, expr) ==
  LET end == Dest(g)
      left == CompileExpr(NewJumpDests(g, 1), expr.left) ++ <<op, end>>
  IN  SetJumpDestHere(CompileExpr(left, expr.right), end)

\* Mutant: the jump over the false expression goes to its beginning.
CompileConditionalElse(g, expr) ==
  LET false == Dest(g)
      end == false + 1
      cond == CompileExpr(NewJumpDests(g, 2), expr.cond)
      true == CompileExpr(cond ++ <<"CONDITIONAL", false>>, expr.true)
      here == SetJumpDestHere(true ++ <<"ELSE", end>>, false)
  IN  CompileExpr(SetJumpDestHere(here, end), expr.false)

CompileConditional(g, expr) ==
  LET false == Dest(g)
      end == false + 1
      cond == CompileExpr(NewJumpDests(g, 2), expr.cond)
      true == CompileExpr(cond ++ <<"CONDITIONAL", false>>, expr.true)
      here == SetJumpDestHere(true ++ <<"ELSE", end>>, false)
  IN  SetJumpDestHere(CompileExpr(here, expr.false), end)

\* critical and propagate expressions
CompileGuarded(g, begin, end_op, expr) ==
  LET end == Dest(g)
      body == CompileExpr(NewJumpDests(g, 1) ++ <<begin, end>>, expr)
  IN  SetJumpDestHere(body ++ <<end_op>>, end)

\* After an error the rest is left out: no method is made (generate_method()).
CompileExpr(g, expr) ==
  CASE ~g.no_errors -> g
    [] expr.type = "INTEGER" -> CompileInteger(g, expr.num)
    [] expr.type = "STRING" -> g ++ <<"STRING", expr.str>>
    [] expr.type = "DBREF" -> g ++ <<"DBREF", expr.dbref>>
    [] expr.type = "SYMBOL" -> g ++ <<"SYMBOL", expr.symbol>>
    [] expr.type = "ERROR" -> g ++ <<"ERROR", expr.error>>
    [] expr.type = "NAME" -> g ++ <<"NAME", expr.name>>
    [] expr.type = "VAR" -> CompileVar(g, expr.name)
    [] expr.type = "FUNCTION_CALL" -> CompileFunctionCall(g, expr)
    [] expr.type = "PASS" ->
         CompileExprs(g ++ <<"START_ARGS">>, expr.args) ++ <<"PASS">>
    [] expr.type = "MESSAGE" ->
         CompileExprs(CompileExpr(g, expr.to) ++ <<"START_ARGS">>, expr.args)
           ++ <<"MESSAGE", expr.name>>
    [] expr.type = "EXPR_MESSAGE" ->
         CompileExprs(CompileExprs(g, <<expr.to, expr.message>>)
                        ++ <<"START_ARGS">>, expr.args) ++ <<"EXPR_MESSAGE">>
    [] expr.type = "LIST" -> CompileList(g, expr.args)
    [] expr.type \in {"DICT", "BUFFER"} ->
         CompileExprs(g ++ <<"START_ARGS">>, expr.args) ++ <<expr.type>>
    [] expr.type = "FROB" ->
         CompileExprs(g, <<expr.class, expr.rep>>) ++ <<"FROB">>
    [] expr.type = "INDEX" ->
         CompileExprs(g, <<expr.list, expr.offset>>) ++ <<"INDEX">>
    [] expr.type = "UNARY" -> CompileExpr(g, expr.expr) ++ <<expr.opcode>>
    [] expr.type = "BINARY" ->
         CompileExprs(g, <<expr.left, expr.right>>) ++ <<expr.opcode>>
    [] expr.type \in {"AND", "OR"} -> CompileShortCircuit(g, expr.type, expr)
    [] expr.type = "CONDITIONAL" -> CompileConditional(g, expr)
    [] expr.type = "CRITICAL" ->
         CompileGuarded(g, "CRITICAL", "CRITICAL_END", expr.expr)
    [] expr.type = "PROPAGATE" ->
         CompileGuarded(g, "PROPAGATE", "PROPAGATE_END", expr.expr)
    [] expr.type = "SPLICE" -> CompileExpr(g, expr.expr) ++ <<"SPLICE">>
    [] expr.type = "RANGE" -> CompileExprs(g, <<expr.lower, expr.upper>>)

---------------------------------------------------------------------------
(* compile_stmt().  `loop' is the destination of the loop instruction, or  *)
(* NoLoop; `level' counts the catch statements inside it.                  *)

NoLoop == -1

RECURSIVE CompileStmt(_, _, _, _)

CompileStmts(g, stmts, loop, level) ==
  FoldLeft(LAMBDA gen, s : CompileStmt(gen, s, loop, level), g, stmts)

CompileAssign(g, stmt) ==
  LET n == FindLocalVar(g, stmt.var)
      value == CompileExpr(g, stmt.value)
  IN  IF n # NotFound THEN value ++ <<"SET_LOCAL", n>>
                      ELSE value ++ <<"SET_OBJ_VAR", stmt.var>>

CompileIf(g, stmt, loop, level) ==
  LET end == Dest(g)
      cond == CompileExpr(NewJumpDests(g, 1), stmt.cond)
  IN  SetJumpDestHere(CompileStmt(cond ++ <<"IF", end>>, stmt.body, loop, level),
                      end)

CompileIfElse(g, stmt, loop, level) ==
  LET false == Dest(g)
      end == false + 1
      cond == CompileExpr(NewJumpDests(g, 2), stmt.cond)
      body == CompileStmt(cond ++ <<"IF_ELSE", false>>, stmt.body, loop, level)
      here == SetJumpDestHere(body ++ <<"ELSE", end>>, false)
  IN  SetJumpDestHere(CompileStmt(here, stmt.false, loop, level), end)

\* The bounds of a range, or a list and a zero to count with, stay on the stack
\* while the loop runs.  `head' has the code for them.
CompileLoop(g, head, op, var, body) ==
  LET begin == Dest(g)
      end == begin + 1
      here == SetJumpDestHere(head, begin) ++ <<op, end, FindLocalVar(g, var)>>
  IN  SetJumpDestHere(CompileStmt(here, body, begin, 0) ++ <<"END", begin>>, end)

CompileForRange(g, stmt) ==
  IF FindLocalVar(g, stmt.var) = NotFound THEN CompilerError(NewJumpDests(g, 2))
  ELSE CompileLoop(g, CompileExprs(NewJumpDests(g, 2), <<stmt.lower, stmt.upper>>),
                   "FOR_RANGE", stmt.var, stmt.body)

CompileForList(g, stmt) ==
  IF FindLocalVar(g, stmt.var) = NotFound THEN CompilerError(NewJumpDests(g, 2))
  ELSE CompileLoop(g, CompileExpr(NewJumpDests(g, 2), stmt.list) ++ <<"ZERO">>,
                   "FOR_LIST", stmt.var, stmt.body)

CompileWhile(g, stmt) ==
  LET cond == Dest(g)
      begin == cond + 1
      end == cond + 2
      test == CompileExpr(SetJumpDestHere(NewJumpDests(g, 3), cond), stmt.cond)
      here == SetJumpDestHere(test, begin) ++ <<"WHILE", end, cond>>
  IN  SetJumpDestHere(CompileStmt(here, stmt.body, begin, 0) ++ <<"END", cond>>,
                      end)

CaseOpcode(value, last) ==
  LET op == IF value.type = "RANGE" THEN "CASE_RANGE" ELSE "CASE_VALUE"
  IN  IF ~last THEN op
      ELSE IF op = "CASE_RANGE" THEN "LAST_CASE_RANGE" ELSE "LAST_CASE_VALUE"

\* All values but the last jump to the body, the last one past it.
CompileCase(g, entry, loop, level, end) ==
  LET body == Dest(g)
      next == body + 1
      Value(gen, value) ==
        CompileExpr(gen, value) ++ <<CaseOpcode(value, FALSE), body>>
      values == FoldLeft(Value, NewJumpDests(g, 2), Front(entry.values))
      last == CompileExpr(values, Last(entry.values))
                ++ <<CaseOpcode(Last(entry.values), TRUE), next>>
      stmts == CompileStmts(SetJumpDestHere(last, body), entry.stmts, loop, level)
  IN  SetJumpDestHere(stmts ++ <<"END_CASE", end>>, next)

\* A default that is not the last case is an error.
CompileCases(g, cases, loop, level, end) ==
  IF \E i \in DOMAIN cases : cases[i].values = <<>> THEN CompilerError(g)
  ELSE FoldLeft(LAMBDA gen, entry : CompileCase(gen, entry, loop, level, end),
                g, cases)

CompileSwitch(g, stmt, loop, level) ==
  LET end == Dest(g)
      expr == CompileExpr(NewJumpDests(g, 1), stmt.expr) ++ <<"SWITCH", end>>
      hasDefault == stmt.cases # <<>> /\ Last(stmt.cases).values = <<>>
      cases == CompileCases(expr,
                 IF hasDefault THEN Front(stmt.cases) ELSE stmt.cases,
                 loop, level, end) ++ <<"DEFAULT">>
      default == IF hasDefault THEN Last(stmt.cases).stmts ELSE <<>>
  IN  SetJumpDestHere(CompileStmts(cases, default, loop, level), end)

\* break and continue
CompileJump(g, op, loop, level) ==
  IF loop = NoLoop THEN CompilerError(g) ELSE g ++ <<op, loop, level>>

CompileCatch(g, stmt, loop, level) ==
  LET handler == Dest(g)
      end == handler + 1
      begin == [NewJumpDests(g, 2) EXCEPT
                  !.num_error_lists = @ + IF stmt.errors = <<>> THEN 0 ELSE 1]
                 ++ <<"CATCH", handler, stmt.errors>>
      body == CompileStmt(begin, stmt.body, loop, level + 1)
                ++ <<"CATCH_END", end>>
      here == SetJumpDestHere(body, handler)
      done == IF stmt.handler = NoStmt THEN here
              ELSE CompileStmt(here, stmt.handler, loop, level)
  IN  SetJumpDestHere(done ++ <<"HANDLER_END">>, end)

CompileStmt(g, stmt, loop, level) ==
  CASE ~g.no_errors -> g
    [] stmt.type = "COMMENT" -> g ++ <<"COMMENT", stmt.comment>>
    [] stmt.type = "NOOP" -> g
    [] stmt.type = "EXPR" -> CompileExpr(g, stmt.expr) ++ <<"POP">>
    [] stmt.type = "COMPOUND" -> CompileStmts(g, stmt.stmts, loop, level)
    [] stmt.type = "ASSIGN" -> CompileAssign(g, stmt)
    [] stmt.type = "IF" -> CompileIf(g, stmt, loop, level)
    [] stmt.type = "IF_ELSE" -> CompileIfElse(g, stmt, loop, level)
    [] stmt.type = "FOR_RANGE" -> CompileForRange(g, stmt)
    [] stmt.type = "FOR_LIST" -> CompileForList(g, stmt)
    [] stmt.type = "WHILE" -> CompileWhile(g, stmt)
    [] stmt.type = "SWITCH" -> CompileSwitch(g, stmt, loop, level)
    [] stmt.type \in {"BREAK", "CONTINUE"} ->
         CompileJump(g, stmt.type, loop, level)
    [] stmt.type = "RETURN" -> g ++ <<"RETURN">>
    [] stmt.type = "RETURN_EXPR" ->
         CompileExpr(g, stmt.expr) ++ <<"RETURN_EXPR">>
    [] stmt.type = "CATCH" -> CompileCatch(g, stmt, loop, level)

---------------------------------------------------------------------------
(* generate_method()                                                       *)

Compiled(prog) == CompileStmts(Start(prog), prog.stmts, NoLoop, 0)

\* A program with errors has no method.
NoErrors(prog) == Compiled(prog).no_errors
Generated(prog) == Compiled(prog) ++ <<"RETURN">>
=============================================================================
