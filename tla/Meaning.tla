------------------------------ MODULE Meaning -------------------------------
(***************************************************************************)
(* What a program means, defined on its parse tree: the abstract           *)
(* specification that compiling, storing and interpreting it implement.    *)
(* Ticks are unlimited, and tracebacks are empty.                          *)
(*                                                                         *)
(* A state has the methods, the object's variables, the local variables,   *)
(* the errors of the handlers that are running, and the number of frames.  *)
(* `exit' tells how evaluation ended: NORMAL, with a value; RETURN; BREAK  *)
(* or CONTINUE; ERROR; or ABORT, an error that the caller has.  `keep' is  *)
(* set when the error passed a propagate expression.                       *)
(***************************************************************************)
EXTENDS Interp, Syntax

Started(methods, params) ==
  [methods |-> methods, params |-> params, locals |-> <<>>, errors |-> <<>>,
   depth |-> 0, exit |-> "NORMAL", val |-> Zero, keep |-> FALSE]

Yields(s, val) == [s EXCEPT !.val = val]
Exits(s, exit, val) == [s EXCEPT !.exit = exit, !.val = val, !.keep = FALSE]
Raises(s, error) == Exits(s, "ERROR", error)
Checked(s, ok, val, error) == IF ok THEN Yields(s, val) ELSE Raises(s, error)

\* F goes on with a state that has not ended.
Then(s, F(_)) == IF s.exit = "NORMAL" THEN F(s) ELSE s

RECURSIVE Eval(_, _), Exec(_, _)

\* All of a sequence, in order: its values, or its effect
EvalAll(exprs, s) ==
  LET One(acc, e) ==
        Then(acc, LAMBDA a :
          Then(Eval(e, a), LAMBDA r : Yields(r, Append(a.val, r.val))))
  IN  FoldLeft(One, Yields(s, <<>>), exprs)

ExecAll(stmts, s) ==
  FoldLeft(LAMBDA acc, stmt : Then(acc, LAMBDA a : Exec(stmt, a)), s, stmts)

---------------------------------------------------------------------------
(* Variables                                                               *)

Fetch(s, name) ==
  CASE name \in DOMAIN s.locals -> Yields(s, s.locals[name])
    [] name \notin DOMAIN s.locals /\ name \in DOMAIN s.params ->
         Yields(s, s.params[name])
    [] OTHER -> Raises(s, "paramnf")

Assign(s, name, d) ==
  CASE name \in DOMAIN s.locals -> [s EXCEPT !.locals[name] = d]
    [] name \notin DOMAIN s.locals /\ name \in DOMAIN s.params ->
         [s EXCEPT !.params[name] = d]
    [] OTHER -> Raises(s, "paramnf")

---------------------------------------------------------------------------
(* Operators                                                               *)

Integers(a, b) == {Type(a), Type(b)} = {"INTEGER"}
CanJoin(a, b) == Type(a) = Type(b) /\ Type(a) \in {"STRING", "LIST"}

Binary(s, op, a, b) ==
  LET x == Val(a)  y == Val(b)
      Num(n) == Checked(s, Integers(a, b), Integer(n), "type")
  IN
  CASE op = "EQ" -> Yields(s, Bool(a = b))
    [] op = "NE" -> Yields(s, Bool(a # b))
    [] op = "+" /\ CanJoin(a, b) -> Yields(s, <<Type(a), x \o y>>)
    [] op = "+" /\ ~CanJoin(a, b) -> Num(x + y)
    [] op = "-" -> Num(x - y)
    [] op = "*" -> Num(x * y)
    [] op \in {"/", "%"} /\ ~Integers(a, b) -> Raises(s, "type")
    [] op \in {"/", "%"} /\ Integers(a, b) ->
         Checked(s, y # 0, Integer(IF op = "/" THEN Quotient(x, y)
                                               ELSE x - y * Quotient(x, y)), "div")
    [] op \in {">", ">=", "<", "<="} ->
         Checked(s, Comparable(a, b), Bool(Compared(op, DataCmp(a, b))), "type")
    [] op = "IN" ->
         Checked(s, Type(b) = "LIST",
                 Integer(SelectInSeq(y, LAMBDA d : d = a)), "type")

Unary(s, op, d) ==
  IF op = "!" THEN Yields(s, Bool(~DataTrue(d)))
  ELSE Checked(s, Type(d) = "INTEGER", Integer(-Val(d)), "type")

Element(s, list, i) ==
  IF Type(list) \notin {"LIST", "STRING"} \/ Type(i) # "INTEGER"
  THEN Raises(s, "type")
  ELSE Checked(s, Val(i) \in 1 .. Len(Val(list)),
               IF Type(list) = "LIST" THEN Val(list)[Val(i)]
               ELSE String(SubSeq(Val(list), Val(i), Val(i))), "range")

---------------------------------------------------------------------------
(* Methods and functions                                                   *)

\* A frame's error is `methoderr' to its caller unless it was propagated.
CallMethod(s, name, args) ==
  LET prog == s.methods[name]
      ids == prog.args.ids
      rest == prog.args.rest
      extra == SubSeq(args, Len(ids) + 1, Len(args))
      Given(x) == SelectInSeq(ids, LAMBDA id : id = x)
      locals == [x \in ToSet(ids) \cup ToSet(prog.vars)
                       \cup (IF rest = NoName THEN {} ELSE {rest}) |->
                   CASE Given(x) # 0 -> args[Given(x)]
                     [] Given(x) = 0 /\ x = rest -> List(extra)
                     [] OTHER -> Zero]
      end == ExecAll(prog.stmts, [s EXCEPT !.locals = locals, !.errors = <<>>,
                                           !.depth = @ + 1])
      Back(exit, val) == [Exits(end, exit, val) EXCEPT
                            !.locals = s.locals, !.errors = s.errors,
                            !.depth = s.depth]
  IN
  CASE name \notin DOMAIN s.methods -> Raises(s, "methodnf")
    [] name \in DOMAIN s.methods
         /\ (Len(args) < Len(ids) \/ (extra # <<>> /\ rest = NoName)) ->
         Raises(s, "numargs")
    [] OTHER ->
         CASE s.depth > MAX_CALL_DEPTH -> Raises(s, "maxdepth")
           [] s.depth <= MAX_CALL_DEPTH /\ end.exit = "RETURN" ->
                Back("NORMAL", end.val)
           [] s.depth <= MAX_CALL_DEPTH /\ end.exit = "NORMAL" ->
                Back("NORMAL", Dbref(THIS))
           [] s.depth <= MAX_CALL_DEPTH /\ end.exit = "ABORT" ->
                Back("ERROR", end.val)
           [] OTHER -> Back("ERROR", IF end.keep THEN end.val ELSE "methoderr")

Send(s, target, name, args) ==
  IF Type(target) # "DBREF" THEN Raises(s, "type")
  ELSE IF Val(target) # THIS THEN Raises(s, "objnf")
       ELSE CallMethod(s, name, args)

\* The types of a function's arguments, without the optional ones
Signature(name) ==
  CASE name = "throw" -> <<"ERROR", "STRING">>
    [] name = "rethrow" -> <<"ERROR">>
    [] name = "listlen" -> <<"LIST">>
    [] name = "del_method" -> <<"SYMBOL">>
    [] OTHER -> <<>>

CallFunction(s, name, args) ==
  LET types == Signature(name)
      n == Len(types)
      optional == IF name = "throw" THEN 1 ELSE 0
      first == Val(args[1])
  IN
  CASE Len(args) \notin n .. n + optional -> Raises(s, "numargs")
    [] Len(args) \in n .. n + optional
         /\ \E i \in 1 .. n : Type(args[i]) # types[i] -> Raises(s, "type")
    [] OTHER ->
         CASE name = "this" -> Yields(s, Dbref(THIS))
           [] name = "traceback" ->
                Checked(s, s.errors # <<>>, List(<<>>), "error")
           [] name = "throw" -> Exits(s, "ABORT", first)
           [] name = "listlen" -> Yields(s, Integer(Len(first)))
           [] name = "error" ->
                Checked(s, s.errors # <<>>, Err(Head(s.errors)), "error")
           [] name = "rethrow" ->
                IF s.errors = <<>> THEN Raises(s, "error")
                                   ELSE Exits(s, "ABORT", first)
           [] name = "del_method" ->
                IF first \notin DOMAIN s.methods THEN Raises(s, "methodnf")
                ELSE [Yields(s, Integer(1)) EXCEPT
                        !.methods = [m \in DOMAIN @ \ {first} |-> @[m]]]

---------------------------------------------------------------------------
(* Expressions                                                             *)

\* A list that begins with a splice: the elements are evaluated in order, and
\* only then must the first be a list.  Splices elsewhere are not evaluated: what
\* op_splice() does with them is undefined.
EvalList(exprs, s) ==
  IF exprs # <<>> /\ Head(exprs).type = "SPLICE"
  THEN Then(Eval(Head(exprs).expr, s), LAMBDA r :
         Then(EvalAll(Tail(exprs), r), LAMBDA rest :
           Checked(rest, Type(r.val) = "LIST", List(Val(r.val) \o rest.val), "type")))
  ELSE Then(EvalAll(exprs, s), LAMBDA r : Yields(r, List(r.val)))

Eval(e, s) ==
  CASE e.type = "INTEGER" -> Yields(s, Integer(e.num))
    [] e.type = "STRING" -> Yields(s, String(e.str))
    [] e.type = "DBREF" -> Yields(s, Dbref(e.dbref))
    [] e.type = "SYMBOL" -> Yields(s, Sym(e.symbol))
    [] e.type = "ERROR" -> Yields(s, Err(e.error))
    [] e.type = "NAME" ->
         Checked(s, e.name \in DOMAIN Lookup, Dbref(Lookup[e.name]), "namenf")
    [] e.type = "VAR" -> Fetch(s, e.name)
    [] e.type = "FUNCTION_CALL" ->
         Then(EvalAll(e.args, s), LAMBDA r : CallFunction(r, e.name, r.val))
    [] e.type = "PASS" ->
         Then(EvalAll(e.args, s), LAMBDA r : Raises(r, "methodnf"))
    [] e.type = "MESSAGE" ->
         Then(EvalAll(<<e.to>> \o e.args, s), LAMBDA r :
           Send(r, r.val[1], e.name, Tail(r.val)))
    [] e.type = "EXPR_MESSAGE" ->
         Then(EvalAll(<<e.to, e.message>> \o e.args, s), LAMBDA r :
           IF Type(r.val[2]) # "SYMBOL" THEN Raises(r, "type")
           ELSE Send(r, r.val[1], Val(r.val[2]), Tail(Tail(r.val))))
    [] e.type = "LIST" -> EvalList(e.args, s)
    [] e.type = "FROB" ->
         Then(EvalAll(<<e.class, e.rep>>, s), LAMBDA r :
           Checked(r, Type(r.val[1]) = "DBREF" /\ Type(r.val[2]) = "LIST",
                   <<"FROB", <<Val(r.val[1]), r.val[2]>>>>, "type"))
    [] e.type = "INDEX" ->
         Then(EvalAll(<<e.list, e.offset>>, s), LAMBDA r :
           Element(r, r.val[1], r.val[2]))
    [] e.type = "UNARY" ->
         Then(Eval(e.expr, s), LAMBDA r : Unary(r, e.opcode, r.val))
    [] e.type = "BINARY" ->
         Then(EvalAll(<<e.left, e.right>>, s), LAMBDA r :
           Binary(r, e.opcode, r.val[1], r.val[2]))
    [] e.type \in {"AND", "OR"} ->
         Then(Eval(e.left, s), LAMBDA r :
           IF DataTrue(r.val) = (e.type = "OR") THEN r ELSE Eval(e.right, r))
    [] e.type = "CONDITIONAL" ->
         Then(Eval(e.cond, s), LAMBDA r :
           Eval(IF DataTrue(r.val) THEN e.true ELSE e.false, r))
    [] e.type = "CRITICAL" ->
         LET r == Eval(e.expr, s) IN
           IF r.exit = "ERROR" THEN Exits(r, "NORMAL", Err(r.val)) ELSE r
    [] e.type = "PROPAGATE" ->
         LET r == Eval(e.expr, s) IN
           IF r.exit = "ERROR" THEN [r EXCEPT !.keep = TRUE] ELSE r

---------------------------------------------------------------------------
(* Statements                                                              *)

Iterate(var, elems, body, s) ==
  LET One(acc, d) ==
        Then(acc, LAMBDA a :
          LET r == Exec(body, Assign(a, var, d)) IN
            IF r.exit = "CONTINUE" THEN Exits(r, "NORMAL", Zero) ELSE r)
      end == FoldLeft(One, s, elems)
  IN  IF end.exit = "BREAK" THEN Exits(end, "NORMAL", Zero) ELSE end

RECURSIVE ExecWhile(_, _)
ExecWhile(stmt, s) ==
  Then(Eval(stmt.cond, s), LAMBDA r :
    IF ~DataTrue(r.val) THEN r
    ELSE LET b == Exec(stmt.body, r) IN
           CASE b.exit = "BREAK" -> Exits(b, "NORMAL", Zero)
             [] b.exit \in {"NORMAL", "CONTINUE"} ->
                  ExecWhile(stmt, Exits(b, "NORMAL", Zero))
             [] OTHER -> b)

\* Whether d is one of the values of a case, as the state's value
InRange(s, d, lower, upper) ==
  Checked(s, Comparable(lower, upper),
          /\ Type(d) = Type(lower)
          /\ DataCmp(d, lower) >= 0 /\ DataCmp(d, upper) <= 0, "type")

Matches(values, d, s) ==
  LET One(acc, e) ==
        Then(acc, LAMBDA a :
          CASE a.val -> a
            [] ~a.val /\ e.type = "RANGE" ->
                 Then(EvalAll(<<e.lower, e.upper>>, a), LAMBDA r :
                   InRange(r, d, r.val[1], r.val[2]))
            [] OTHER -> Then(Eval(e, a), LAMBDA r : Yields(r, r.val = d)))
  IN  FoldLeft(One, Yields(s, FALSE), values)

RECURSIVE ExecCases(_, _, _)
ExecCases(cases, d, s) ==
  CASE cases = <<>> -> s
    [] cases # <<>> /\ Head(cases).values = <<>> -> ExecAll(Head(cases).stmts, s)
    [] OTHER ->
         Then(Matches(Head(cases).values, d, s), LAMBDA r :
           IF r.val THEN ExecAll(Head(cases).stmts, r)
                    ELSE ExecCases(Tail(cases), d, r))

ExecCatch(stmt, s) ==
  LET r == Exec(stmt.body, s)
      handled == [Exits(r, "NORMAL", Zero) EXCEPT !.errors = <<r.val>> \o @]
      end == IF stmt.handler = NoStmt THEN handled ELSE Exec(stmt.handler, handled)
  IN  IF r.exit = "ERROR" /\ (stmt.errors = <<>> \/ r.val \in ToSet(stmt.errors))
      THEN [end EXCEPT !.errors = s.errors] ELSE r

ExecForRange(stmt, s) ==
  Then(EvalAll(<<stmt.lower, stmt.upper>>, s), LAMBDA r :
    IF ~Integers(r.val[1], r.val[2]) THEN Raises(r, "type")
    ELSE Iterate(stmt.var, [i \in 1 .. Val(r.val[2]) - Val(r.val[1]) + 1 |->
                              Integer(Val(r.val[1]) + i - 1)], stmt.body, r))

Exec(stmt, s) ==
  CASE stmt.type \in {"COMMENT", "NOOP"} -> s
    [] stmt.type = "EXPR" -> Eval(stmt.expr, s)
    [] stmt.type = "COMPOUND" -> ExecAll(stmt.stmts, s)
    [] stmt.type = "ASSIGN" ->
         Then(Eval(stmt.value, s), LAMBDA r : Assign(r, stmt.var, r.val))
    [] stmt.type = "IF" ->
         Then(Eval(stmt.cond, s), LAMBDA r :
           IF DataTrue(r.val) THEN Exec(stmt.body, r) ELSE r)
    [] stmt.type = "IF_ELSE" ->
         Then(Eval(stmt.cond, s), LAMBDA r :
           Exec(IF DataTrue(r.val) THEN stmt.body ELSE stmt.false, r))
    [] stmt.type = "FOR_RANGE" -> ExecForRange(stmt, s)
    [] stmt.type = "FOR_LIST" ->
         Then(Eval(stmt.list, s), LAMBDA r :
           IF Type(r.val) # "LIST" THEN Raises(r, "type")
           ELSE Iterate(stmt.var, Val(r.val), stmt.body, r))
    [] stmt.type = "WHILE" -> ExecWhile(stmt, s)
    [] stmt.type = "SWITCH" ->
         Then(Eval(stmt.expr, s), LAMBDA r : ExecCases(stmt.cases, r.val, r))
    [] stmt.type \in {"BREAK", "CONTINUE"} -> Exits(s, stmt.type, Zero)
    [] stmt.type = "RETURN" -> Exits(s, "RETURN", Dbref(THIS))
    [] stmt.type = "RETURN_EXPR" ->
         Then(Eval(stmt.expr, s), LAMBDA r : Exits(r, "RETURN", r.val))
    [] stmt.type = "CATCH" -> ExecCatch(stmt, s)

\* The object's variables after a task that sends `main' to the object
Outcome(methods, params) ==
  CallMethod(Started(methods, params), "main", <<>>).params
=============================================================================
