------------------------------- MODULE Interp -------------------------------
(***************************************************************************)
(* The interpreter (src/execute.c, src/syntaxop.c, src/arithop.c,          *)
(* src/errorop.c): frames, the data stack, the stack of argument starts,   *)
(* error action specifiers and handlers, one action an opcode.             *)
(*                                                                         *)
(* There is one object, THIS, without parents.  A datum is <<type, value>>.*)
(* The current frame is the first of `frames', and the latest specifier    *)
(* and handler the first of theirs.  Positions of opcodes count from 1; an *)
(* index of the C stack is the number of data below it.                    *)
(***************************************************************************)
EXTENDS Tables

CONSTANTS
  METHOD_TICKS,           (* the ticks a frame starts with                 *)
  MAX_CALL_DEPTH,
  THIS,                   (* the dbref of the object                       *)
  Lookup,                 (* the names that have an object, with its dbref *)
  CLASS_READ,             (* what op_frob reads as the class of a frob     *)
  Order(_),               (* the place of a string in strccmp()'s order    *)
  NotRaised          (* no error is being propagated                  *)

ASSUME LimitsAssumption ==
  /\ METHOD_TICKS \in Nat \ {0}
  /\ MAX_CALL_DEPTH \in Nat

VARIABLES
  object,                 (* the object and its methods, see Tables        *)
  frames,
  stack,
  arg_starts,
  raised                  (* the error that propagate_error() passes on    *)

execVars == <<frames, stack, arg_starts, raised>>
vars == <<object, execVars>>

---------------------------------------------------------------------------
(* Data                                                                    *)

Integer(n) == <<"INTEGER", n>>
Bool(b) == Integer(IF b THEN 1 ELSE 0)
String(s) == <<"STRING", s>>
Dbref(d) == <<"DBREF", d>>
Sym(s) == <<"SYMBOL", s>>
Err(e) == <<"ERROR", e>>
List(elems) == <<"LIST", elems>>

Type(d) == d[1]
Val(d) == d[2]

\* data_true()
DataTrue(d) ==
  CASE Type(d) = "INTEGER" -> Val(d) # 0
    [] Type(d) = "STRING" -> Val(d) # ""
    [] Type(d) = "LIST" -> Val(d) # <<>>
    [] OTHER -> Type(d) # "ERROR"

\* data_cmp() of integers or strings.  Strings that differ only in case are left
\* out, so that equality of data is equality.
DataCmp(d1, d2) ==
  IF Type(d1) = "INTEGER" THEN Val(d1) - Val(d2)
                          ELSE Order(Val(d1)) - Order(Val(d2))

Comparable(d1, d2) == Type(d1) = Type(d2) /\ Type(d1) \in {"INTEGER", "STRING"}

\* Division truncates.
Abs(n) == IF n < 0 THEN -n ELSE n
Quotient(a, b) ==
  LET q == Abs(a) \div Abs(b) IN IF (a < 0) # (b < 0) THEN -q ELSE q

---------------------------------------------------------------------------
(* The current frame                                                       *)

cur_frame == Head(frames)
Opcode == cur_frame.method.opcodes[cur_frame.pc]
Arg(n) == cur_frame.method.opcodes[cur_frame.pc + n]
IdentArg == object.idents[Arg(1)].item
StringArg == object.strings[Arg(1)].item

\* The place of a local variable in the stack
Local(n) == cur_frame.var_start + n + 1

Executes(op) ==
  /\ frames # <<>>
  /\ raised = NotRaised
  /\ cur_frame.ticks > 1
  /\ Opcode = op

Top == stack[Len(stack)]
Second == stack[Len(stack) - 1]
Third == stack[Len(stack) - 2]
Dropped(n) == SubSeq(stack, 1, Len(stack) - n)

\* pop(), push_int() and its like; Replace is a pop of n and a push.
Pop(n) == stack' = Dropped(n)
Push(d) == stack' = Append(stack, d)
Replace(n, d) == stack' = Append(Dropped(n), d)

\* Mutant: ticks are not counted.
SpentNothing == frames

\* The current frame with a tick less, and at another position
Spent == [frames EXCEPT ![1].ticks = @ - 1]
AtPc(pc) == [Spent EXCEPT ![1].pc = pc]
NextPc == cur_frame.pc + 1 + Len(OpArgs(Opcode))

Goto(pc) == frames' = AtPc(pc)
Advance == Goto(NextPc)

---------------------------------------------------------------------------
(* Errors                                                                  *)

\* start_error(): the error condition and the location begin the traceback.
\* Explanations and locations are left out.
Condition(error, arg) == <<List(<<Err(error), String(""), arg>>), List(<<>>)>>
Raised(error, arg) == [error |-> error, traceback |-> Condition(error, arg)]

\* throw() and interp_error(): the operands stay on the stack.  The position
\* that the frame is left at only counts for the line in the traceback.
Throw(error) ==
  /\ raised' = Raised(error, Zero)
  /\ frames' = Spent

\* The object once the current frame has let go of its method: the method goes
\* if it is no longer in the table and no other frame has it.
Held(fs) == {fs[i].method : i \in DOMAIN fs}
LetGo ==
  LET m == cur_frame.method
      installed == \E i \in DOMAIN object.methods.tab : MethodAt(object, i) = m
  IN  IF installed THEN object ELSE MethodDiscard(object, m, Held(Tail(frames)))

\* frame_return(), which leaves `left' on the caller's stack
FrameReturn(left) ==
  /\ object' = LetGo
  /\ frames' = Tail(frames)
  /\ stack' = SubSeq(stack, 1, cur_frame.stack_start)
                \o IF Tail(frames) = <<>> THEN <<>> ELSE left

\* An error without a frame is dropped.
InCaller(r) == IF Tail(frames) = <<>> THEN NotRaised ELSE r

\* out_of_ticks_error()
OutOfTicks ==
  /\ frames # <<>>
  /\ raised = NotRaised
  /\ cur_frame.ticks = 1
  /\ FrameReturn(<<>>)
  /\ raised' = InCaller(Raised("methoderr", Zero))
  /\ UNCHANGED arg_starts

Handles(spec, error) ==
  \/ spec.type = "CRITICAL"
  \/ /\ spec.type = "CATCH"
     /\ \/ spec.error_list = NoError
        \/ error \in ToSet(cur_frame.method.error_lists[spec.error_list])

\* Mutant: the data of what was going on stay on the stack.
HandleErrorAbove(spec, rest, traceback) ==
  LET f == [cur_frame EXCEPT !.pc = spec.pc, !.specifiers = rest]
      below == stack
  IN
  /\ raised' = NotRaised
  /\ UNCHANGED object
  /\ IF spec.type = "CRITICAL"
     THEN /\ stack' = Append(below, Err(raised.error))
          /\ frames' = <<f>> \o Tail(frames)
     ELSE /\ stack' = below
          /\ frames' = << [f EXCEPT !.handler_info =
                             <<[error |-> raised.error, traceback |-> traceback]>>
                               \o @] >> \o Tail(frames)

\* propagate_error(), one frame a step: nothing else happens between the steps.
\* The data above the specifier's stack position are popped.
HandleError(spec, rest, traceback) ==
  LET f == [cur_frame EXCEPT !.pc = spec.pc, !.specifiers = rest]
      below == SubSeq(stack, 1, spec.stack_pos)
  IN
  /\ raised' = NotRaised
  /\ UNCHANGED object
  /\ IF spec.type = "CRITICAL"
     THEN /\ stack' = Append(below, Err(raised.error))
          /\ frames' = <<f>> \o Tail(frames)
     ELSE /\ stack' = below
          /\ frames' = << [f EXCEPT !.handler_info =
                             <<[error |-> raised.error, traceback |-> traceback]>>
                               \o @] >> \o Tail(frames)

PropagateError ==
  LET specs == cur_frame.specifiers
      at == SelectInSeq(specs, LAMBDA s : Handles(s, raised.error))
      keep == \E s \in ToSet(specs) : s.type = "PROPAGATE"
      error == IF keep THEN raised.error ELSE "methoderr"
      traceback == Append(raised.traceback, List(<<Err(raised.error)>>))
  IN
  /\ raised # NotRaised
  /\ UNCHANGED arg_starts
  /\ IF at # 0
     THEN HandleError(specs[at], SubSeq(specs, at + 1, Len(specs)), traceback)
     ELSE /\ FrameReturn(<<>>)
          /\ raised' = InCaller([error |-> error, traceback |-> traceback])

---------------------------------------------------------------------------
(* Frames                                                                  *)

\* Mutant: a frame too many.
DepthExceededLate == Len(frames) > MAX_CALL_DEPTH + 1

\* The test lets one frame more than MAX_CALL_DEPTH in.
DepthExceeded == Len(frames) > MAX_CALL_DEPTH

WrongNumber(method, n) ==
  LET required == Len(method.argnames) IN
    n < required \/ (n > required /\ method.rest = NoRest)

\* The arguments above arg_start, the list of the rest, and variables at zero
WithLocals(method, s, arg_start) ==
  LET required == arg_start + Len(method.argnames)
      given == IF method.rest = NoRest THEN s
               ELSE Append(SubSeq(s, 1, required),
                           List(SubSeq(s, required + 1, Len(s))))
  IN  given \o [i \in DOMAIN method.varnames |-> Zero]

Frame(method, stack_start, arg_start) ==
  [method |-> method, pc |-> 1, ticks |-> METHOD_TICKS,
   stack_start |-> stack_start, var_start |-> arg_start,
   specifiers |-> <<>>, handler_info |-> <<>>]

\* send_message() and frame_start(), on a stack `s' whose arguments begin at
\* arg_start: what the opcode does about their errors is included.
SendMessage(dbref, message, s, stack_start, arg_start) ==
  LET i == FindMethodLocal(object, message)
      method == MethodAt(object, i)
      Fails(error) == Throw(error) /\ stack' = s
  IN
  /\ UNCHANGED object
  /\ CASE dbref # THIS -> Fails("objnf")
       [] dbref = THIS /\ i = 0 -> Fails("methodnf")
       [] OTHER ->
            CASE WrongNumber(method, Len(s) - arg_start) -> Fails("numargs")
              [] ~WrongNumber(method, Len(s) - arg_start) /\ DepthExceeded ->
                   Fails("maxdepth")
              [] OTHER ->
                   /\ frames' = <<Frame(method, stack_start, arg_start)>>
                                  \o AtPc(NextPc)
                   /\ stack' = WithLocals(method, s, arg_start)
                   /\ UNCHANGED raised

\* task(), for a message without arguments to a method that takes none
Task(message) ==
  LET i == FindMethodLocal(object, message) IN
  /\ frames = <<>> /\ raised = NotRaised
  /\ i # 0 /\ ~WrongNumber(MethodAt(object, i), 0)
  /\ frames' = <<Frame(MethodAt(object, i), 0, 0)>>
  /\ stack' = WithLocals(MethodAt(object, i), <<>>, 0)
  /\ UNCHANGED <<object, arg_starts, raised>>

---------------------------------------------------------------------------
(* Opcodes of statements (syntaxop.c)                                      *)

Quiet == UNCHANGED <<object, arg_starts, raised>>

Comment == Executes("COMMENT") /\ Advance /\ Quiet /\ UNCHANGED stack
PopOp == Executes("POP") /\ Advance /\ Quiet /\ Pop(1)

SetLocal ==
  /\ Executes("SET_LOCAL")
  /\ Advance /\ Quiet
  /\ stack' = [Dropped(1) EXCEPT ![Local(Arg(1))] = Top]

SetObjVar ==
  /\ Executes("SET_OBJ_VAR")
  /\ UNCHANGED arg_starts
  /\ IF HasVar(object, IdentArg)
     THEN /\ object' = AssignVar(object, IdentArg, Top)
          /\ Pop(1) /\ Advance /\ UNCHANGED raised
     ELSE Throw("paramnf") /\ UNCHANGED <<object, stack>>

\* op_if(), op_while(): the condition is popped.
Branch ==
  /\ \E op \in {"IF", "IF_ELSE", "CONDITIONAL", "WHILE"} : Executes(op)
  /\ Pop(1) /\ Quiet
  /\ IF DataTrue(Top) THEN Advance ELSE Goto(Arg(1))

Jump ==
  /\ \E op \in {"ELSE", "END", "END_CASE"} : Executes(op)
  /\ Goto(Arg(1)) /\ Quiet /\ UNCHANGED stack

\* The loop variable takes the lower bound, which is counted up on the stack.
ForRange ==
  /\ Executes("FOR_RANGE")
  /\ UNCHANGED <<object, arg_starts>>
  /\ IF {Type(Second), Type(Top)} # {"INTEGER"}
     THEN Throw("type") /\ UNCHANGED stack
     ELSE /\ UNCHANGED raised
          /\ IF Val(Second) > Val(Top) THEN Pop(2) /\ Goto(Arg(1))
             ELSE /\ Advance
                  /\ stack' = [stack EXCEPT
                                 ![Local(Arg(2))] = Second,
                                 ![Len(stack) - 1] = Integer(Val(Second) + 1)]

ForList ==
  /\ Executes("FOR_LIST")
  /\ UNCHANGED <<object, arg_starts>>
  /\ IF Type(Second) # "LIST"
     THEN Throw("type") /\ UNCHANGED stack
     ELSE /\ UNCHANGED raised
          /\ IF Val(Top) >= Len(Val(Second)) THEN Pop(2) /\ Goto(Arg(1))
             ELSE /\ Advance
                  /\ stack' = [stack EXCEPT
                                 ![Local(Arg(2))] = Val(Second)[Val(Top) + 1],
                                 ![Len(stack)] = Integer(Val(Top) + 1)]

Switch == Executes("SWITCH") /\ Advance /\ Quiet /\ UNCHANGED stack
Default == Executes("DEFAULT") /\ Advance /\ Quiet /\ Pop(1)

\* A case that matches pops the controlling value too.  The values of a case
\* jump to its body when they match, the last one past it when it does not.
CaseJump(matches, operands) ==
  /\ Pop(IF matches THEN operands + 1 ELSE operands)
  /\ IF matches = (Opcode \in {"CASE_VALUE", "CASE_RANGE"})
     THEN Goto(Arg(1)) ELSE Advance

CaseValue ==
  /\ \E op \in {"CASE_VALUE", "LAST_CASE_VALUE"} : Executes(op)
  /\ CaseJump(Second = Top, 1)
  /\ Quiet

CaseRange ==
  /\ \E op \in {"CASE_RANGE", "LAST_CASE_RANGE"} : Executes(op)
  /\ UNCHANGED <<object, arg_starts>>
  /\ IF Comparable(Second, Top)
     THEN /\ CaseJump(/\ Type(Third) = Type(Second)
                      /\ DataCmp(Third, Second) >= 0
                      /\ DataCmp(Third, Top) <= 0, 2)
          /\ UNCHANGED raised
     ELSE Throw("type") /\ UNCHANGED stack

\* The argument is the position of the loop instruction.
Break ==
  LET op == cur_frame.method.opcodes[Arg(1)] IN
  /\ Executes("BREAK")
  /\ Pop(IF op \in {"FOR_RANGE", "FOR_LIST"} THEN 2 ELSE 0)
  /\ Goto(cur_frame.method.opcodes[Arg(1) + 1])
  /\ Quiet

Continue ==
  LET code == cur_frame.method.opcodes IN
  /\ Executes("CONTINUE")
  /\ Goto(IF code[Arg(1)] = "WHILE" THEN code[Arg(1) + 2] ELSE Arg(1))
  /\ Quiet /\ UNCHANGED stack

Return ==
  /\ Executes("RETURN")
  /\ FrameReturn(<<Dbref(THIS)>>)
  /\ UNCHANGED <<arg_starts, raised>>

ReturnExpr ==
  /\ Executes("RETURN_EXPR")
  /\ FrameReturn(<<Top>>)
  /\ UNCHANGED <<arg_starts, raised>>

\* A specifier has the position that an error it handles goes on at.
PushSpecifier(type, error_list) ==
  LET spec == [type |-> type, stack_pos |-> Len(stack), pc |-> Arg(1),
               error_list |-> error_list]
  IN  frames' = [AtPc(NextPc) EXCEPT ![1].specifiers = <<spec>> \o @]

Catch ==
  /\ Executes("CATCH")
  /\ PushSpecifier("CATCH", Arg(2))
  /\ Quiet /\ UNCHANGED stack

\* CRITICAL and PROPAGATE
Guard ==
  /\ \E op \in {"CRITICAL", "PROPAGATE"} : Executes(op) /\ PushSpecifier(op, NoError)
  /\ Quiet /\ UNCHANGED stack

PopSpecifier ==
  /\ \E op \in {"CATCH_END", "CRITICAL_END", "PROPAGATE_END"} : Executes(op)
  /\ frames' = [AtPc(IF Opcode = "CATCH_END" THEN Arg(1) ELSE NextPc)
                  EXCEPT ![1].specifiers = Tail(@)]
  /\ Quiet /\ UNCHANGED stack

HandlerEnd ==
  /\ Executes("HANDLER_END")
  /\ frames' = [AtPc(NextPc) EXCEPT ![1].handler_info = Tail(@)]
  /\ Quiet /\ UNCHANGED stack

---------------------------------------------------------------------------
(* Opcodes of expressions (syntaxop.c)                                     *)

Literal ==
  /\ \/ Executes("ZERO") /\ Push(Zero)
     \/ Executes("ONE") /\ Push(Integer(1))
     \/ Executes("INTEGER") /\ Push(Integer(Arg(1)))
     \/ Executes("STRING") /\ Push(String(StringArg))
     \/ Executes("DBREF") /\ Push(Dbref(Arg(1)))
     \/ Executes("SYMBOL") /\ Push(Sym(IdentArg))
     \/ Executes("ERROR") /\ Push(Err(IdentArg))
  /\ Advance /\ Quiet

Name ==
  /\ Executes("NAME")
  /\ UNCHANGED <<object, arg_starts>>
  /\ IF IdentArg \in DOMAIN Lookup
     THEN Push(Dbref(Lookup[IdentArg])) /\ Advance /\ UNCHANGED raised
     ELSE Throw("namenf") /\ UNCHANGED stack

GetLocal ==
  /\ Executes("GET_LOCAL")
  /\ Push(stack[Local(Arg(1))]) /\ Advance /\ Quiet

GetObjVar ==
  /\ Executes("GET_OBJ_VAR")
  /\ UNCHANGED <<object, arg_starts>>
  /\ IF HasVar(object, IdentArg)
     THEN Push(VarValue(object, IdentArg)) /\ Advance /\ UNCHANGED raised
     ELSE Throw("paramnf") /\ UNCHANGED stack

StartArgs ==
  /\ Executes("START_ARGS")
  /\ arg_starts' = Append(arg_starts, Len(stack))
  /\ Advance /\ UNCHANGED <<object, stack, raised>>

\* The opcodes that take arguments take their start first.
TakesArgs(op) == Executes(op) /\ arg_starts' = Front(arg_starts)
ArgStart == Last(arg_starts)
Args == SubSeq(stack, ArgStart + 1, Len(stack))

\* Without parents there is no next method to pass to.
Pass ==
  /\ TakesArgs("PASS")
  /\ Throw("methodnf") /\ UNCHANGED <<object, stack>>

\* A frob gets the message at its class, with its rep as first argument, in the
\* place of the frob or of the message.
Message ==
  LET target == stack[ArgStart] IN
  /\ TakesArgs("MESSAGE")
  /\ CASE Type(target) = "DBREF" ->
            SendMessage(Val(target), IdentArg, stack, ArgStart - 1, ArgStart)
       [] Type(target) = "FROB" ->
            SendMessage(Val(target)[1], IdentArg,
                        [stack EXCEPT ![ArgStart] = Val(target)[2]],
                        ArgStart - 1, ArgStart - 1)
       [] OTHER -> Throw("type") /\ UNCHANGED <<object, stack>>

ExprMessage ==
  LET target == stack[ArgStart - 1]
      message == stack[ArgStart]
      sent == [stack EXCEPT ![ArgStart - 1] = Zero, ![ArgStart] = Val(target)[2]]
  IN
  /\ TakesArgs("EXPR_MESSAGE")
  /\ CASE Type(message) = "SYMBOL" /\ Type(target) = "DBREF" ->
            SendMessage(Val(target), Val(message), stack, ArgStart - 2, ArgStart)
       [] Type(message) = "SYMBOL" /\ Type(target) = "FROB" ->
            SendMessage(Val(target)[1], Val(message), sent, ArgStart - 2,
                        ArgStart - 1)
       [] OTHER -> Throw("type") /\ UNCHANGED <<object, stack>>

ListOp ==
  /\ TakesArgs("LIST")
  /\ stack' = Append(SubSeq(stack, 1, ArgStart), List(Args))
  /\ Advance /\ UNCHANGED <<object, raised>>

\* The class is read after the frob has been written over it.
FrobOp ==
  /\ Executes("FROB")
  /\ UNCHANGED <<object, arg_starts>>
  /\ IF Type(Second) = "DBREF" /\ Type(Top) = "LIST"
     THEN /\ Replace(2, <<"FROB", <<CLASS_READ, Top>>>>)
          /\ Advance /\ UNCHANGED raised
     ELSE Throw("type") /\ UNCHANGED stack

Index ==
  LET string == Type(Second) = "STRING"
      i == Val(Top)
  IN
  /\ Executes("INDEX")
  /\ UNCHANGED <<object, arg_starts>>
  /\ CASE Type(Second) \notin {"LIST", "STRING"} \/ Type(Top) # "INTEGER" ->
            Throw("type") /\ UNCHANGED stack
       [] OTHER ->
            IF i \notin 1 .. Len(Val(Second)) THEN Throw("range") /\ UNCHANGED stack
            ELSE /\ Replace(2, IF string THEN String(SubSeq(Val(Second), i, i))
                                         ELSE Val(Second)[i])
                 /\ Advance /\ UNCHANGED raised

\* AND and OR: the left side stays when it decides.
ShortCircuitOp ==
  /\ Executes("AND") \/ Executes("OR")
  /\ Quiet
  /\ IF DataTrue(Top) = (Opcode = "OR") THEN Goto(Arg(1)) /\ UNCHANGED stack
                                        ELSE Advance /\ Pop(1)
---------------------------------------------------------------------------
(* Arithmetic and relational operators (arithop.c)                         *)

\* An operator that pops n data and pushes `result', or throws
Operator(n, ok, result, error) ==
  /\ UNCHANGED <<object, arg_starts>>
  /\ IF ok THEN Replace(n, result) /\ Advance /\ UNCHANGED raised
           ELSE Throw(error) /\ UNCHANGED stack

Not == Executes("!") /\ Operator(1, TRUE, Bool(~DataTrue(Top)), "type")
Negate ==
  Executes("NEG") /\ Operator(1, Type(Top) = "INTEGER", Integer(-Val(Top)), "type")

Integers2 == {Type(Second), Type(Top)} = {"INTEGER"}

Multiply ==
  Executes("*") /\ Operator(2, Integers2, Integer(Val(Second) * Val(Top)), "type")
Subtract ==
  Executes("-") /\ Operator(2, Integers2, Integer(Val(Second) - Val(Top)), "type")

Divide ==
  LET a == Val(Second)  b == Val(Top)
      result == IF Opcode = "/" THEN Quotient(a, b) ELSE a - b * Quotient(a, b)
  IN
  /\ Executes("/") \/ Executes("%")
  /\ Operator(2, Integers2 /\ b # 0, Integer(result),
              IF Integers2 THEN "div" ELSE "type")

\* anticipate_assignment(): a variable that the result is about to be assigned
\* to is zero from now on.
Anticipated(s) ==
  IF cur_frame.method.opcodes[NextPc] = "SET_LOCAL"
  THEN [s EXCEPT ![Local(cur_frame.method.opcodes[NextPc + 1])] = Zero] ELSE s

AnticipateObjVar ==
  LET name == object.idents[cur_frame.method.opcodes[NextPc + 1]].item IN
    IF cur_frame.method.opcodes[NextPc] = "SET_OBJ_VAR" /\ HasVar(object, name)
    THEN AssignVar(object, name, Zero) ELSE object

\* Strings and lists are put together, in the place of the first.
Joined == Append(Dropped(2), <<Type(Top), Val(Second) \o Val(Top)>>)
Join ==
  /\ stack' = Anticipated(Joined)
  /\ object' = AnticipateObjVar
  /\ Advance /\ UNCHANGED <<arg_starts, raised>>

Add ==
  /\ Executes("+")
  /\ IF Type(Second) = Type(Top) /\ Type(Top) \in {"STRING", "LIST"} THEN Join
     ELSE Operator(2, Integers2, Integer(Val(Second) + Val(Top)), "type")

SpliceAdd ==
  /\ Executes("SPLICE_ADD")
  /\ IF Type(Second) = "LIST" THEN Join
     ELSE Throw("type") /\ UNCHANGED <<object, stack, arg_starts>>

Equal ==
  \/ Executes("EQ") /\ Operator(2, TRUE, Bool(Second = Top), "type")
  \/ Executes("NE") /\ Operator(2, TRUE, Bool(Second # Top), "type")

Compared(op, d) ==
  CASE op = ">" -> d > 0 [] op = ">=" -> d >= 0
    [] op = "<" -> d < 0 [] OTHER -> d <= 0

Compare ==
  \E op \in {">", ">=", "<", "<="} :
    /\ Executes(op)
    /\ Operator(2, Comparable(Second, Top),
                Bool(Compared(op, DataCmp(Second, Top))), "type")

\* The first place of a datum in a list, or of the second string in the first
Found ==
  LET part == Val(Top)
      places == {i \in 1 .. Len(Val(Second)) - Len(part) + 1 :
                   SubSeq(Val(Second), i, i + Len(part) - 1) = part}
  IN  CASE Type(Top) = "LIST" -> SelectInSeq(part, LAMBDA d : d = Second)
        [] part = "" \/ places = {} -> 0
        [] OTHER -> CHOOSE i \in places : \A j \in places : i <= j

In ==
  /\ Executes("IN")
  /\ Operator(2, Type(Top) = "LIST" \/ {Type(Second), Type(Top)} = {"STRING"},
              Integer(Found), "type")

---------------------------------------------------------------------------
(* Functions.  func_init_0() and its like check the number and the types   *)
(* of the arguments, which stay on the stack when they are wrong.          *)

NumArgs == Len(stack) - ArgStart
Bad(error) == Throw(error) /\ UNCHANGED <<object, stack>>
Gives(d) ==
  /\ stack' = Append(SubSeq(stack, 1, ArgStart), d)
  /\ Advance /\ UNCHANGED raised

ThisOp ==
  /\ TakesArgs("this")
  /\ IF NumArgs = 0 THEN Gives(Dbref(THIS)) /\ UNCHANGED object ELSE Bad("numargs")

\* error() and traceback(), inside a handler
HandlerOp ==
  LET info == Head(cur_frame.handler_info) IN
  /\ TakesArgs("error") \/ TakesArgs("traceback")
  /\ CASE NumArgs # 0 -> Bad("numargs")
       [] NumArgs = 0 /\ cur_frame.handler_info = <<>> -> Bad("error")
       [] OTHER -> /\ Gives(IF Opcode = "error" THEN Err(info.error)
                                                ELSE List(info.traceback))
                   /\ UNCHANGED object

\* The method returns, and its caller has the error.
ThrowOp ==
  /\ TakesArgs("throw")
  /\ CASE NumArgs \notin 2 .. 3 -> Bad("numargs")
       [] NumArgs \in 2 .. 3 /\ (Type(Args[1]) # "ERROR" \/ Type(Args[2]) # "STRING")
            -> Bad("type")
       [] OTHER ->
            /\ FrameReturn(<<>>)
            /\ raised' = InCaller(Raised(Val(Args[1]),
                                         IF NumArgs = 3 THEN Args[3] ELSE Zero))

Rethrow ==
  /\ TakesArgs("rethrow")
  /\ CASE NumArgs # 1 -> Bad("numargs")
       [] NumArgs = 1 /\ Type(Args[1]) # "ERROR" -> Bad("type")
       [] NumArgs = 1 /\ Type(Args[1]) = "ERROR" /\ cur_frame.handler_info = <<>>
            -> Bad("error")
       [] OTHER ->
            /\ FrameReturn(<<>>)
            /\ raised' = InCaller([error |-> Val(Args[1]),
                 traceback |-> Head(cur_frame.handler_info).traceback])

Listlen ==
  /\ TakesArgs("listlen")
  /\ CASE NumArgs # 1 -> Bad("numargs")
       [] NumArgs = 1 /\ Type(Args[1]) # "LIST" -> Bad("type")
       [] OTHER -> Gives(Integer(Len(Val(Args[1])))) /\ UNCHANGED object

\* The method may be running.
DelMethod ==
  /\ TakesArgs("del_method")
  /\ CASE NumArgs # 1 -> Bad("numargs")
       [] NumArgs = 1 /\ Type(Args[1]) # "SYMBOL" -> Bad("type")
       [] OTHER ->
            IF FindMethodLocal(object, Val(Args[1])) = 0 THEN Bad("methodnf")
            ELSE /\ Gives(Integer(1))
                 /\ object' = ObjectDelMethod(object, Val(Args[1]), Held(frames))

---------------------------------------------------------------------------
(* execute()                                                               *)

Statement ==
  \/ Comment \/ PopOp \/ SetLocal \/ SetObjVar \/ Branch \/ Jump
  \/ ForRange \/ ForList \/ Switch \/ Default \/ CaseValue \/ CaseRange
  \/ Break \/ Continue \/ Return \/ ReturnExpr
  \/ Catch \/ Guard \/ PopSpecifier \/ HandlerEnd

Expr ==
  \/ Literal \/ Name \/ GetLocal \/ GetObjVar \/ StartArgs
  \/ Pass \/ Message \/ ExprMessage \/ ListOp \/ FrobOp \/ Index \/ ShortCircuitOp

Operation ==
  \/ Not \/ Negate \/ Multiply \/ Subtract \/ Divide \/ Add \/ SpliceAdd
  \/ Equal \/ Compare \/ In

Call ==
  \/ ThisOp \/ HandlerOp \/ ThrowOp \/ Rethrow \/ Listlen \/ DelMethod

Execute == Statement \/ Expr \/ Operation \/ Call \/ OutOfTicks \/ PropagateError

InitExecute ==
  /\ frames = <<>>
  /\ stack = <<>>
  /\ arg_starts = <<>>
  /\ raised = NotRaised

\* Between tasks the object may become any other.
Next ==
  \/ Execute
  \/ \E i \in DOMAIN object.methods.tab : Task(object.methods.tab[i].name)
  \/ frames = <<>> /\ UNCHANGED execVars

Spec == InitExecute /\ [][Next]_vars

---------------------------------------------------------------------------

\* No task has more than MAX_CALL_DEPTH + 1 frames, whatever its methods call,
\* and none has fewer ticks than one: frame_start() and execute().
DepthBounded ==
  /\ Len(frames) <= MAX_CALL_DEPTH + 1
  /\ \A i \in DOMAIN frames : frames[i].ticks \in 1 .. METHOD_TICKS
=============================================================================
