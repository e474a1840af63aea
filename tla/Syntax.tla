------------------------------- MODULE Syntax -------------------------------
(***************************************************************************)
(* The parse tree of a method: the constructors that grammar.y calls when  *)
(* it reads program text, and decode.c when it recovers a tree from        *)
(* opcodes (src/codegen.c, src/code_prv.h).                                *)
(*                                                                         *)
(* A node is a record whose `type' names it; no two types share a field of *)
(* different kinds.  The lists of the C code are built backwards and read  *)
(* backwards; here they are sequences in the order of the text.  Line      *)
(* numbers, which the nodes keep for error messages, are left out.         *)
(***************************************************************************)
EXTENDS Integers, Sequences, SequencesExt

Prog(overridable, args, vars, stmts) ==
  [overridable |-> overridable, args |-> args, vars |-> vars, stmts |-> stmts]

\* No name, and no statement: the null pointers of the C code
NoName == ""
NoStmt == [type |-> "NULL"]

\* `rest' takes the arguments that `ids' leave over; it may be NoName.
Arguments(ids, rest) == [ids |-> ids, rest |-> rest]

---------------------------------------------------------------------------
(* Statements                                                              *)

CommentStmt(comment) == [type |-> "COMMENT", comment |-> comment]
NoopStmt == [type |-> "NOOP"]
ExprStmt(expr) == [type |-> "EXPR", expr |-> expr]
CompoundStmt(stmts) == [type |-> "COMPOUND", stmts |-> stmts]
AssignStmt(var, value) == [type |-> "ASSIGN", var |-> var, value |-> value]

IfStmt(cond, body) ==
  [type |-> "IF", cond |-> cond, body |-> body]

\* The else part is added to an if statement.
IfElseStmt(if, false) ==
  [type |-> "IF_ELSE", cond |-> if.cond, body |-> if.body, false |-> false]

ForRangeStmt(id, lower, upper, body) ==
  [type |-> "FOR_RANGE", var |-> id, lower |-> lower, upper |-> upper,
   body |-> body]

ForListStmt(id, list, body) ==
  [type |-> "FOR_LIST", var |-> id, list |-> list, body |-> body]

WhileStmt(cond, body) == [type |-> "WHILE", cond |-> cond, body |-> body]

SwitchStmt(expr, cases) == [type |-> "SWITCH", expr |-> expr, cases |-> cases]
\* A case without values is the default.
CaseEntry(values, stmts) == [values |-> values, stmts |-> stmts]

BreakStmt == [type |-> "BREAK"]
ContinueStmt == [type |-> "CONTINUE"]
ReturnStmt == [type |-> "RETURN"]
ReturnExprStmt(expr) == [type |-> "RETURN_EXPR", expr |-> expr]

\* Without errors it is `catch any'; the handler may be NoStmt.
CatchStmt(errors, body, handler) ==
  [type |-> "CATCH", errors |-> errors, body |-> body, handler |-> handler]

---------------------------------------------------------------------------
(* Expressions                                                             *)

IntegerExpr(num) == [type |-> "INTEGER", num |-> num]
StringExpr(str) == [type |-> "STRING", str |-> str]
DbrefExpr(dbref) == [type |-> "DBREF", dbref |-> dbref]
SymbolExpr(symbol) == [type |-> "SYMBOL", symbol |-> symbol]
ErrorExpr(error) == [type |-> "ERROR", error |-> error]
NameExpr(name) == [type |-> "NAME", name |-> name]
VarExpr(name) == [type |-> "VAR", name |-> name]

FunctionCallExpr(name, args) ==
  [type |-> "FUNCTION_CALL", name |-> name, args |-> args]
PassExpr(args) == [type |-> "PASS", args |-> args]

\* A message without a target goes to this().
This == FunctionCallExpr("this", <<>>)
MessageExpr(to, message, args) ==
  [type |-> "MESSAGE", to |-> to, name |-> message, args |-> args]
ExprMessageExpr(to, message, args) ==
  [type |-> "EXPR_MESSAGE", to |-> to, message |-> message, args |-> args]

ListExpr(args) == [type |-> "LIST", args |-> args]
DictExpr(args) == [type |-> "DICT", args |-> args]
BufferExpr(args) == [type |-> "BUFFER", args |-> args]
FrobExpr(class, rep) == [type |-> "FROB", class |-> class, rep |-> rep]
IndexExpr(list, offset) == [type |-> "INDEX", list |-> list, offset |-> offset]

UnaryExpr(opcode, expr) == [type |-> "UNARY", opcode |-> opcode, expr |-> expr]
BinaryExpr(opcode, left, right) ==
  [type |-> "BINARY", opcode |-> opcode, left |-> left, right |-> right]
AndExpr(left, right) == [type |-> "AND", left |-> left, right |-> right]
OrExpr(left, right) == [type |-> "OR", left |-> left, right |-> right]
CondExpr(cond, true, false) ==
  [type |-> "CONDITIONAL", cond |-> cond, true |-> true, false |-> false]

CriticalExpr(expr) == [type |-> "CRITICAL", expr |-> expr]
PropagateExpr(expr) == [type |-> "PROPAGATE", expr |-> expr]
SpliceExpr(expr) == [type |-> "SPLICE", expr |-> expr]
RangeExpr(lower, upper) == [type |-> "RANGE", lower |-> lower, upper |-> upper]

\* The operators with two operands that have an opcode of their own
BinaryOpcodes ==
  {"IN", "EQ", "NE", ">", ">=", "<", "<=", "+", "-", "*", "/", "%"}
UnaryOpcodes == {"!", "NEG"}
=============================================================================
