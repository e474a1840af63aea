------------------------------ MODULE Grammar ------------------------------
(***************************************************************************)
(* The grammar of program text (src/grammar.y), as the parser that its     *)
(* rules and precedences define: from a sequence of tokens to a parse      *)
(* tree.  A text that is not a program is parsed as something else, or     *)
(* gives a SYNTAX_ERROR node.                                              *)
(*                                                                         *)
(* Each function takes the tokens `t' and a position, and returns what it  *)
(* parsed with the position after it, as [val, pos].                       *)
(***************************************************************************)
EXTENDS Syntax

LOCAL Parsed(val, pos) == [val |-> val, pos |-> pos]
LOCAL Kind(t, pos) == IF pos > Len(t) THEN "EOF" ELSE t[pos][1]

SyntaxError == [type |-> "SYNTAX_ERROR"]

\* Operators with two operands, and the levels of the %left and %right lines
InfixLevel(kind) ==
  CASE kind = "?" -> 2
    [] kind = "||" -> 3
    [] kind = "&&" -> 4
    [] kind = "IN" -> 5
    [] kind \in {"EQ", "NE", ">", ">=", "<", "<="} -> 6
    [] kind \in {"+", "-"} -> 7
    [] kind \in {"*", "/", "%"} -> 8
    [] kind \in {"[", "."} -> 10
    [] OTHER -> 0
UnaryLevel == 9
ComparisonLevel == 6

RECURSIVE Expr(_, _, _), InfixExpr(_, _, _, _), CommaExprs(_, _, _, _)

AnyExpr(t, pos) == Expr(t, pos, 1)

SExpr(t, pos) ==
  IF Kind(t, pos) # "@" THEN AnyExpr(t, pos)
  ELSE LET expr == AnyExpr(t, pos + 1) IN Parsed(SpliceExpr(expr.val), expr.pos)

RExpr(t, pos) ==
  LET lower == AnyExpr(t, pos) IN
    IF Kind(t, lower.pos) # ".." THEN lower
    ELSE LET upper == AnyExpr(t, lower.pos + 1) IN
           Parsed(RangeExpr(lower.val, upper.val), upper.pos)

\* One or more of what Element parses, with commas between
CommaExprs(t, pos, Element(_, _), exprs) ==
  LET expr == Element(t, pos) IN
    IF Kind(t, expr.pos) # "," THEN Parsed(Append(exprs, expr.val), expr.pos)
    ELSE CommaExprs(t, expr.pos + 1, Element, Append(exprs, expr.val))

\* Arguments after the token that opens them, with the token that closes them
Args(t, pos) ==
  IF Kind(t, pos) \in {")", "]"} THEN Parsed(<<>>, pos + 1)
  ELSE LET args == CommaExprs(t, pos, SExpr, <<>>) IN
         Parsed(args.val, args.pos + 1)

\* .name(args) and .(expr)(args), after the dot
Message(t, pos, to) ==
  IF Kind(t, pos) = "IDENT"
  THEN LET args == Args(t, pos + 2) IN
         Parsed(MessageExpr(to, t[pos][2], args.val), args.pos)
  ELSE LET message == AnyExpr(t, pos + 1)
           args == Args(t, message.pos + 2)
       IN  Parsed(ExprMessageExpr(to, message.val, args.val), args.pos)

\* < class, rep >: the > after rep ends the frob, so that rep binds tighter.
Frob(t, pos) ==
  LET class == AnyExpr(t, pos)
      rep == Expr(t, class.pos + 1, ComparisonLevel + 1)
  IN  Parsed(FrobExpr(class.val, rep.val), rep.pos + 1)

Primary(t, pos) ==
  LET kind == Kind(t, pos)
      Leaf(expr) == Parsed(expr, pos + 1)
      inner == AnyExpr(t, pos + 1)
      args == Args(t, pos + 1)
      operand == Expr(t, pos + 1, UnaryLevel)
      call == Args(t, pos + 2)
  IN
  CASE kind = "INTEGER" -> Leaf(IntegerExpr(t[pos][2]))
    [] kind = "STRING" -> Leaf(StringExpr(t[pos][2]))
    [] kind = "DBREF" -> Leaf(DbrefExpr(t[pos][2]))
    [] kind = "SYMBOL" -> Leaf(SymbolExpr(t[pos][2]))
    [] kind = "ERROR" -> Leaf(ErrorExpr(t[pos][2]))
    [] kind = "NAME" -> Leaf(NameExpr(t[pos][2]))
    [] kind = "IDENT" /\ Kind(t, pos + 1) # "(" -> Leaf(VarExpr(t[pos][2]))
    [] kind = "IDENT" /\ Kind(t, pos + 1) = "(" ->
         Parsed(FunctionCallExpr(t[pos][2], call.val), call.pos)
    [] kind = "pass" -> Parsed(PassExpr(call.val), call.pos)
    [] kind = "." -> Message(t, pos + 1, This)
    [] kind = "[" -> Parsed(ListExpr(args.val), args.pos)
    [] kind = "START_DICT" -> Parsed(DictExpr(args.val), args.pos)
    [] kind = "START_BUFFER" -> Parsed(BufferExpr(args.val), args.pos)
    [] kind = "<" -> Frob(t, pos + 1)
    [] kind = "!" -> Parsed(UnaryExpr("!", operand.val), operand.pos)
    [] kind = "-" -> Parsed(UnaryExpr("NEG", operand.val), operand.pos)
    [] kind = "+" -> operand
    [] kind = "(" -> Parsed(inner.val, inner.pos + 1)
    [] kind = "(|" -> Parsed(CriticalExpr(inner.val), inner.pos + 1)
    [] kind = "(>" -> Parsed(PropagateExpr(inner.val), inner.pos + 1)
    [] OTHER -> Leaf(SyntaxError)

\* An expression whose operators bind at least as tight as `min'
Expr(t, pos, min) ==
  LET left == Primary(t, pos) IN InfixExpr(t, left.pos, min, left.val)

\* Right associative operators parse their right side at their own level.
InfixExpr(t, pos, min, left) ==
  LET kind == Kind(t, pos)
      level == InfixLevel(kind)
      right == Expr(t, pos + 1, level + 1)
      same == Expr(t, pos + 1, level)
      offset == AnyExpr(t, pos + 1)
      false == Expr(t, offset.pos + 1, level)
      message == Message(t, pos + 1, left)
      Next(p, expr) == InfixExpr(t, p, min, expr)
  IN
  CASE level = 0 \/ level < min -> Parsed(left, pos)
    [] level >= min /\ kind = "?" ->
         Next(false.pos, CondExpr(left, offset.val, false.val))
    [] level >= min /\ kind = "||" -> Next(same.pos, OrExpr(left, same.val))
    [] level >= min /\ kind = "&&" -> Next(same.pos, AndExpr(left, same.val))
    [] level >= min /\ kind = "[" ->
         Next(offset.pos + 1, IndexExpr(left, offset.val))
    [] level >= min /\ kind = "." -> Next(message.pos, message.val)
    [] OTHER -> Next(right.pos, BinaryExpr(kind, left, right.val))

---------------------------------------------------------------------------
(* Statements                                                              *)

RECURSIVE Stmt(_, _), StmtList(_, _, _), CaseList(_, _, _)

\* Up to a closing brace, the next case, or the end of the text
StmtList(t, pos, stmts) ==
  IF Kind(t, pos) \in {"}", "case", "default", "EOF"} THEN Parsed(stmts, pos)
  ELSE LET stmt == Stmt(t, pos) IN StmtList(t, stmt.pos, Append(stmts, stmt.val))

\* An else belongs to the nearest if.
If(t, pos) ==
  LET cond == AnyExpr(t, pos + 2)
      body == Stmt(t, cond.pos + 1)
      if == IfStmt(cond.val, body.val)
      false == Stmt(t, body.pos + 1)
  IN  IF Kind(t, body.pos) = "else" THEN Parsed(IfElseStmt(if, false.val), false.pos)
                                    ELSE Parsed(if, body.pos)

\* for id in [lower .. upper] and for id in (list)
For(t, pos) ==
  LET id == t[pos + 1][2]
      first == AnyExpr(t, pos + 4)
      upper == AnyExpr(t, first.pos + 1)
      range == Stmt(t, upper.pos + 1)
      body == Stmt(t, first.pos + 1)
  IN  IF Kind(t, pos + 3) = "["
      THEN Parsed(ForRangeStmt(id, first.val, upper.val, range.val), range.pos)
      ELSE Parsed(ForListStmt(id, first.val, body.val), body.pos)

While(t, pos) ==
  LET cond == AnyExpr(t, pos + 2)
      body == Stmt(t, cond.pos + 1)
  IN  Parsed(WhileStmt(cond.val, body.val), body.pos)

CaseList(t, pos, cases) ==
  LET default == Kind(t, pos) = "default"
      values == IF default THEN Parsed(<<>>, pos + 1)
                ELSE CommaExprs(t, pos + 1, RExpr, <<>>)
      stmts == StmtList(t, values.pos + 1, <<>>)
  IN  IF Kind(t, pos) \notin {"case", "default"} THEN Parsed(cases, pos + 1)
      ELSE CaseList(t, stmts.pos, Append(cases, CaseEntry(values.val, stmts.val)))

Switch(t, pos) ==
  LET expr == AnyExpr(t, pos + 2)
      cases == CaseList(t, expr.pos + 2, <<>>)
  IN  Parsed(SwitchStmt(expr.val, cases.val), cases.pos)

ErrorToken(t, pos) == Parsed(t[pos][2], pos + 1)

\* A handler belongs to the nearest catch.
Catch(t, pos) ==
  LET errors == IF Kind(t, pos + 1) = "any" THEN Parsed(<<>>, pos + 2)
                ELSE CommaExprs(t, pos + 1, ErrorToken, <<>>)
      body == Stmt(t, errors.pos)
      handler == Stmt(t, body.pos + 2)
  IN  IF Kind(t, body.pos) = "with"
      THEN Parsed(CatchStmt(errors.val, body.val, handler.val), handler.pos)
      ELSE Parsed(CatchStmt(errors.val, body.val, NoStmt), body.pos)

Stmt(t, pos) ==
  LET kind == Kind(t, pos)
      block == StmtList(t, pos + 1, <<>>)
      value == AnyExpr(t, pos + 2)
      result == AnyExpr(t, pos + 1)
      expr == AnyExpr(t, pos)
  IN
  CASE kind = "COMMENT" -> Parsed(CommentStmt(t[pos][2]), pos + 1)
    [] kind = ";" -> Parsed(NoopStmt, pos + 1)
    [] kind = "{" -> Parsed(CompoundStmt(block.val), block.pos + 1)
    [] kind = "IDENT" /\ Kind(t, pos + 1) = "=" ->
         Parsed(AssignStmt(t[pos][2], value.val), value.pos + 1)
    [] kind = "if" -> If(t, pos)
    [] kind = "for" -> For(t, pos)
    [] kind = "while" -> While(t, pos)
    [] kind = "switch" -> Switch(t, pos)
    [] kind = "break" -> Parsed(BreakStmt, pos + 2)
    [] kind = "continue" -> Parsed(ContinueStmt, pos + 2)
    [] kind = "return" /\ Kind(t, pos + 1) = ";" -> Parsed(ReturnStmt, pos + 2)
    [] kind = "return" /\ Kind(t, pos + 1) # ";" ->
         Parsed(ReturnExprStmt(result.val), result.pos + 1)
    [] kind = "catch" -> Catch(t, pos)
    [] OTHER -> Parsed(ExprStmt(expr.val), expr.pos + 1)

---------------------------------------------------------------------------
(* Declarations                                                            *)

IdentToken(t, pos) == Parsed(t[pos][2], pos + 1)

\* Names up to a semicolon, or up to [rest]
RECURSIVE ArgNames(_, _, _)
ArgNames(t, pos, ids) ==
  CASE Kind(t, pos) = "[" -> Parsed(Arguments(ids, t[pos + 1][2]), pos + 4)
    [] Kind(t, pos) = "," -> ArgNames(t, pos + 1, ids)
    [] Kind(t, pos) = "IDENT" -> ArgNames(t, pos + 1, Append(ids, t[pos][2]))
    [] OTHER -> Parsed(Arguments(ids, NoName), pos + 1)

\* The program that the tokens are the text of
Parse(t) ==
  LET closed == Kind(t, 1) = "disallow_overrides"
      first == IF closed THEN 3 ELSE 1
      args == IF Kind(t, first) = "arg" THEN ArgNames(t, first + 1, <<>>)
              ELSE Parsed(Arguments(<<>>, NoName), first)
      names == CommaExprs(t, args.pos + 1, IdentToken, <<>>)
      vars == IF Kind(t, args.pos) = "var" THEN Parsed(names.val, names.pos + 1)
              ELSE Parsed(<<>>, args.pos)
  IN  Prog(~closed, args.val, vars.val, StmtList(t, vars.pos, <<>>).val)
=============================================================================
