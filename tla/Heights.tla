------------------------------ MODULE Heights ------------------------------
(***************************************************************************)
(* What is on the stacks at each opcode of a method, computed from the     *)
(* code alone: the discipline that the compiler relies on and that the     *)
(* interpreter never checks.                                               *)
(*                                                                         *)
(* A shape has the number of data above the local variables, the heights   *)
(* at which arguments in progress start, and the numbers of error action   *)
(* specifiers and of handlers.  Jumps to earlier opcodes are loops, which  *)
(* begin with a shape that is already known.                               *)
(***************************************************************************)
EXTENDS Tables

Shape(height, args, specs, handlers) ==
  [height |-> height, args |-> args, specs |-> specs, handlers |-> handlers]
Empty == Shape(0, <<>>, 0, 0)
Unknown == Shape(-1, <<>>, 0, 0)

\* What the opcode at pos adds to the data when it is not a jump; SPLICE, which
\* adds as many as its list has, only counts in methods that do not run.
Pushes ==
  {"ZERO", "ONE", "INTEGER", "STRING", "DBREF", "SYMBOL", "ERROR", "NAME",
   "GET_LOCAL", "GET_OBJ_VAR"}
Keeps ==
  {"COMMENT", "SWITCH", "NEG", "!", "SPLICE", "START_ARGS", "FOR_RANGE",
   "FOR_LIST", "CATCH", "CRITICAL", "PROPAGATE", "CRITICAL_END",
   "PROPAGATE_END", "HANDLER_END"}
\* Opcodes that take the arguments in progress, with what is below them
Takes(op) ==
  CASE op = "MESSAGE" -> 1
    [] op = "EXPR_MESSAGE" -> 2
    [] OTHER -> 0
ArgOpcodes ==
  {"PASS", "MESSAGE", "EXPR_MESSAGE", "LIST", "DICT", "BUFFER", "this", "error",
   "traceback", "throw", "rethrow", "listlen", "del_method"}

Grows(op) ==
  CASE op \in Pushes -> 1
    [] op \in Keeps -> 0
    [] op \in {"CASE_RANGE", "LAST_CASE_VALUE"} -> -2
    [] op = "LAST_CASE_RANGE" -> -3
    [] OTHER -> -1

Ends == {"ELSE", "END", "END_CASE", "BREAK", "CONTINUE", "RETURN", "RETURN_EXPR",
         "CATCH_END"}

\* The shape after the opcode at pos
After(code, pos, s) ==
  LET op == code[pos] IN
  CASE op \in ArgOpcodes ->
         [s EXCEPT !.height = Last(s.args) - Takes(op) + 1, !.args = Front(@)]
    [] op = "START_ARGS" -> [s EXCEPT !.args = Append(@, s.height)]
    [] op \in {"CATCH", "CRITICAL", "PROPAGATE"} -> [s EXCEPT !.specs = @ + 1]
    [] op \in {"CRITICAL_END", "PROPAGATE_END"} -> [s EXCEPT !.specs = @ - 1]
    [] op = "HANDLER_END" -> [s EXCEPT !.handlers = @ - 1]
    [] op \in Ends -> Unknown
    [] OTHER -> [s EXCEPT !.height = @ + Grows(op)]

\* Where the opcode at pos jumps to, with the shape it has there; an error in a
\* guarded part is such a jump.
Jumps(code, pos, s) ==
  LET op == code[pos]
      to == code[pos + 1]
      loop == IF code[to] = "WHILE" THEN 0 ELSE 2
      Up(n) == << <<to, [s EXCEPT !.height = @ + n]>> >>
  IN
  CASE op \in {"IF", "IF_ELSE", "CONDITIONAL", "WHILE", "LAST_CASE_VALUE"} -> Up(-1)
    [] op \in {"ELSE", "END_CASE", "AND", "OR"} -> Up(0)
    [] op \in {"FOR_RANGE", "FOR_LIST", "CASE_VALUE", "LAST_CASE_RANGE"} -> Up(-2)
    [] op = "CASE_RANGE" -> Up(-3)
    [] op = "CRITICAL" -> Up(1)
    [] op = "BREAK" -> << <<code[to + 1], [s EXCEPT !.height = @ - loop]>> >>
    [] op = "CATCH" -> << <<to, [s EXCEPT !.handlers = @ + 1]>> >>
    [] op = "CATCH_END" -> << <<to, [s EXCEPT !.specs = @ - 1]>> >>
    [] OTHER -> <<>>

\* The shape at each position where an opcode begins and may be reached.  Ten
\* opcodes at a time, if one may be reached, keep the recursion flat.
Shapes(code) ==
  LET Put(shapes, pos, s) == IF pos > Len(code) \/ s = Unknown THEN shapes
                             ELSE [shapes EXCEPT ![pos] = s]
      Step(shapes, pos) ==
        LET s == shapes[pos]
            next == pos + 1 + Len(OpArgs(code[pos]))
            jumped == FoldLeft(LAMBDA to, j : Put(to, j[1], j[2]), shapes,
                               Jumps(code, pos, s))
        IN  IF s = Unknown THEN shapes ELSE Put(jumped, next, After(code, pos, s))
      at == OpPositions(code)
      Ten(shapes, i) ==
        LET ten == SubSeq(at, i, IF i + 9 < Len(at) THEN i + 9 ELSE Len(at)) IN
          IF \A pos \in ToSet(ten) : shapes[pos] = Unknown THEN shapes
          ELSE FoldLeft(Step, shapes, ten)
      start == [[pos \in DOMAIN code |-> Unknown] EXCEPT ![1] = Empty]
  IN  FoldLeft(Ten, start, [k \in 1 .. (Len(at) + 9) \div 10 |-> 10 * k - 9])
=============================================================================
