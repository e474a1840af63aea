----------------------------- MODULE MCProgram -----------------------------
(***************************************************************************)
(* Programs for TLC.  The constructors are those of grammar.y: what is     *)
(* written here as a tree is what a programmer writes as text.             *)
(***************************************************************************)
EXTENDS Program, Syntax

CONSTANTS Bytes, Opcodes, Types, CLASS, POINTER       \* of Pack

D == INSTANCE Decode
G == INSTANCE Grammar
P == INSTANCE Pack
M == INSTANCE Meaning

MCGlobals(source) == LET g == D!Generated(source) IN g
MCDecompile(o, method, parens) ==
  LET lines == D!Decompile(o, method, parens) IN lines
MCLineNumber(method, pos) == LET line == D!LineNumber(method, pos) IN line
MCParse(tokens) == LET source == G!Parse(tokens) IN source
MCPackObject(o) == LET bytes == P!PackObject(o) IN bytes
MCSizeObject(o) == LET size == P!SizeObject(o) IN size
MCUnpackObject(bytes) == LET o == P!UnpackObject(bytes) IN o
MCOutcome(methods, params) == LET after == M!Outcome(methods, params) IN after

MCHash(name) == Len(name)
MCLookup == [root |-> 1, other |-> 5]
Strings == <<"", "b", "ab", "abb", "boom">>
MCOrder(s) == SelectInSeq(Strings, LAMBDA x : x = s)
MCParams == <<"o", "p">>

Names == Strings \o
  <<"o", "p", "i", "x", "y", "rest", "nosuch", "main", "f", "g", "h", "name",
    "root", "other", "type", "div", "range", "methoderr", "methodnf", "numargs",
    "maxdepth", "mine", "a comment", "class", "error", "objnf", "namenf",
    "paramnf">>
MCBytes ==
  [name \in ToSet(Names) |->
     [i \in 1 .. Len(name) |->
        IF i = 1 THEN SelectInSeq(Names, LAMBDA x : x = name) ELSE i]]
MCTypes == <<"INTEGER", "STRING", "DBREF", "LIST", "SYMBOL", "ERROR", "FROB">>
MCOpcodes ==
  <<"COMMENT", "POP", "SET_LOCAL", "SET_OBJ_VAR", "IF", "IF_ELSE", "ELSE",
    "FOR_RANGE", "FOR_LIST", "WHILE", "SWITCH", "CASE_VALUE", "CASE_RANGE",
    "LAST_CASE_VALUE", "LAST_CASE_RANGE", "END_CASE", "DEFAULT", "END", "BREAK",
    "CONTINUE", "RETURN", "RETURN_EXPR", "CATCH", "CATCH_END", "HANDLER_END",
    "ZERO", "ONE", "INTEGER", "STRING", "DBREF", "SYMBOL", "ERROR", "NAME",
    "GET_LOCAL", "GET_OBJ_VAR", "START_ARGS", "PASS", "MESSAGE", "EXPR_MESSAGE",
    "LIST", "DICT", "BUFFER", "FROB", "INDEX", "AND", "OR", "CONDITIONAL",
    "SPLICE", "CRITICAL", "CRITICAL_END", "PROPAGATE", "PROPAGATE_END", "!",
    "NEG", "*", "/", "%", "+", "SPLICE_ADD", "-", "EQ", "NE", ">", ">=", "<",
    "<=", "IN", "this", "error", "traceback", "throw", "rethrow", "listlen",
    "del_method">>

---------------------------------------------------------------------------
(* Short forms                                                             *)

N(n) == IntegerExpr(n)
V(name) == VarExpr(name)
Set(name, expr) == AssignStmt(name, expr)
Count(n) == Set("o", BinaryExpr("+", V("o"), N(n)))
Block(stmts) == CompoundStmt(stmts)
Fn(name, args) == FunctionCallExpr(name, args)
CallThis(name, args) == MessageExpr(This, name, args)
Div(n) == BinaryExpr("/", N(n), N(0))

Method(name, ids, rest, locals, stmts) ==
  <<name, Prog(name # "mine", Arguments(ids, rest), locals, stmts)>>
Main(stmts) == Method("main", <<>>, NoName, <<"i", "x">>, stmts)
With(methods) == [methods |-> methods, compared |-> TRUE]
Runs(stmts) == With(<<Main(stmts)>>)
Beyond(methods) == [methods |-> methods, compared |-> FALSE]

---------------------------------------------------------------------------
(* Two operators in an expression, nested on the left and on the right     *)

Operators ==
  <<"+", "-", "*", "/", "EQ", "<", "IN", "AND", "OR", "NEG", "COND", "INDEX",
    "LIST", "SPLICE_ADD", "SPLICE", "CRITICAL", "PROPAGATE">>

Apply(op, a, b) ==
  CASE op = "AND" -> AndExpr(a, b)
    [] op = "OR" -> OrExpr(a, b)
    [] op = "NEG" -> UnaryExpr(op, b)
    [] op = "COND" -> CondExpr(a, b, N(6))
    [] op = "INDEX" -> IndexExpr(a, b)
    [] op = "LIST" -> ListExpr(<<a, b>>)
    [] op = "SPLICE_ADD" -> ListExpr(<<SpliceExpr(a), b>>)
    [] op = "SPLICE" -> ListExpr(<<a, SpliceExpr(b)>>)
    [] op = "CRITICAL" -> CriticalExpr(b)
    [] op = "PROPAGATE" -> PropagateExpr(b)
    [] OTHER -> BinaryExpr(op, a, b)

\* A method that nobody calls: what its SPLICE would do is undefined.
Uncalled(stmts) == With(<<Method("g", <<"x">>, "rest", <<"i">>, stmts), Main(<<>>)>>)

Nested(i, j) ==
  LET stmts ==
        <<Set("o", CriticalExpr(Apply(Operators[i], Apply(Operators[j], N(7), N(2)),
                                      N(3)))),
          Set("p", CriticalExpr(Apply(Operators[i], N(9),
                                      Apply(Operators[j], N(5), N(4)))))>>
  IN  IF "SPLICE" \in {Operators[i], Operators[j]} THEN Uncalled(stmts) ELSE Runs(stmts)

ExprPrograms ==
  LET n == Len(Operators) IN
    [k \in 1 .. n * n |-> Nested(1 + ((k - 1) \div n), 1 + ((k - 1) % n))]

---------------------------------------------------------------------------
(* One statement inside another                                            *)

Two == BinaryExpr("<", V("o"), N(20))
Inner ==
  <<Count(2),
    IfStmt(V("o"), Count(3)),
    IfElseStmt(IfStmt(V("i"), Count(2)), Count(3)),
    IfElseStmt(IfStmt(V("i"), Block(<<Count(2), Count(3)>>)),
               IfStmt(V("x"), Count(4))),
    IfElseStmt(IfStmt(V("x"), Count(2)),
               IfElseStmt(IfStmt(V("o"), Count(3)), Block(<<Count(4), Count(5)>>))),
    ForRangeStmt("x", N(1), N(2), Count(2)),
    ForListStmt("x", ListExpr(<<N(3), N(4)>>), Set("o", V("x"))),
    WhileStmt(Two, Block(<<Count(8), Count(9)>>)),
    SwitchStmt(V("i"), <<CaseEntry(<<N(1), RangeExpr(N(2), N(4))>>, <<Count(3)>>),
                         CaseEntry(<<RangeExpr(N(5), N(6)), N(7)>>, <<Count(2)>>),
                         CaseEntry(<<>>, <<Count(4)>>)>>),
    CatchStmt(<<"div">>, Set("o", Div(2)), Count(3)),
    CatchStmt(<<>>, Block(<<Count(2), Set("nosuch", N(3))>>), NoStmt),
    Block(<<Count(2), CommentStmt("a comment"), CommentStmt("name"), Count(3)>>)>>

Outer(k, s) ==
  CASE k = 1 -> IfStmt(N(1), Block(<<s, Count(7)>>))
    [] k = 2 -> IfElseStmt(IfStmt(N(0), s), Count(7))
    [] k = 3 -> IfElseStmt(IfStmt(N(0), Count(7)), Block(<<Count(6), s>>))
    [] k = 4 -> ForRangeStmt("i", N(1), N(2), Block(<<s, Count(7)>>))
    [] k = 5 -> ForListStmt("i", ListExpr(<<N(5), N(8)>>),
                  Block(<<IfStmt(V("x"), ContinueStmt), s, BreakStmt>>))
    [] k = 6 -> WhileStmt(BinaryExpr("<", V("i"), N(2)),
                  Block(<<Set("i", BinaryExpr("+", V("i"), N(1))),
                          IfStmt(V("x"), BreakStmt), s, ContinueStmt>>))
    [] k = 7 -> SwitchStmt(N(4), <<CaseEntry(<<N(3), N(4)>>, <<s>>),
                                   CaseEntry(<<>>, <<Count(7), s>>)>>)
    [] k = 8 -> CatchStmt(<<"div", "type">>, Block(<<s, ExprStmt(Div(6)), Count(7)>>),
                          Block(<<s, Count(5)>>))
    [] k = 9 -> Block(<<s, CommentStmt("a comment"), Count(7)>>)

StmtPrograms ==
  LET n == Len(Inner) IN
    [k \in 1 .. 9 * n |->
       Runs(<<Outer(1 + ((k - 1) \div n), Inner[1 + ((k - 1) % n)]), Count(11),
              Set("p", V("i"))>>)]

---------------------------------------------------------------------------
(* Methods, errors and limits                                              *)

CallPrograms ==
  <<\* Arguments, a rest list, results
    With(<<Method("f", <<"x", "y">>, "rest", <<"i">>,
              <<Set("i", ListExpr(<<SpliceExpr(V("rest")), V("y"), V("x")>>)),
                ReturnExprStmt(V("i"))>>),
            Main(<<Set("o", CallThis("f", <<N(2), N(3), N(4), N(5)>>)),
                   Set("p", CriticalExpr(CallThis("f", <<N(2)>>)))>>)>>),
    \* A method that returns nothing returns the object.
    With(<<Method("mine", <<>>, "rest", <<>>, <<ReturnStmt>>),
            Main(<<Set("o", ExprMessageExpr(NameExpr("root"), SymbolExpr("mine"),
                                            <<N(2)>>)),
                   Set("p", BinaryExpr("EQ", V("o"), This))>>)>>),
    \* Messages that nobody understands
    Runs(<<Set("o", CriticalExpr(CallThis("nosuch", <<N(2)>>))),
           Set("p", CriticalExpr(MessageExpr(NameExpr("other"), "f", <<>>)))>>),
    Runs(<<Set("o", CriticalExpr(NameExpr("nosuch"))),
           Set("p", CriticalExpr(PassExpr(<<N(2)>>)))>>),
    Runs(<<Set("o", CriticalExpr(ExprMessageExpr(N(2), SymbolExpr("f"), <<>>))),
           Set("p", CriticalExpr(ExprMessageExpr(This, N(3), <<>>))),
           Set("p", CriticalExpr(MessageExpr(V("p"), "f", <<>>)))>>),
    \* An error in a callee, in a list in progress
    With(<<Method("f", <<"x">>, NoName, <<>>, <<ReturnExprStmt(Div(2))>>),
            Main(<<Set("o", CriticalExpr(CallThis("f", <<N(3)>>))),
                   Set("p", ListExpr(<<CriticalExpr(CallThis("f", <<N(4)>>)),
                                       N(5)>>))>>)>>),
    \* Arguments that an error abandons
    Runs(<<Set("o", CriticalExpr(ListExpr(<<N(2), Div(3)>>))), Set("p", N(4))>>),
    \* A propagated error keeps its name; one that is not becomes methoderr.
    With(<<Method("f", <<>>, NoName, <<>>,
              <<Set("o", PropagateExpr(IndexExpr(ListExpr(<<>>), N(2))))>>),
            Method("g", <<>>, NoName, <<>>, <<ExprStmt(CallThis("f", <<>>))>>),
            Main(<<CatchStmt(<<"range">>, ExprStmt(CallThis("f", <<>>)),
                             Set("o", Fn("error", <<>>))),
                   CatchStmt(<<"methoderr">>, ExprStmt(CallThis("g", <<>>)),
                             Set("p", Fn("error", <<>>)))>>)>>),
    \* throw and rethrow leave their method.
    With(<<Method("f", <<"x">>, NoName, <<>>,
              <<CatchStmt(<<>>, ExprStmt(Fn("throw", <<ErrorExpr("mine"),
                                  StringExpr("boom"), V("x")>>)), Count(2))>>),
            Method("g", <<>>, NoName, <<>>,
              <<CatchStmt(<<"mine">>, ExprStmt(CallThis("f", <<N(3)>>)),
                  Block(<<ExprStmt(Fn("traceback", <<>>)),
                          ExprStmt(Fn("rethrow", <<Fn("error", <<>>)>>))>>))>>),
            Main(<<CatchStmt(<<"div", "mine">>, ExprStmt(CallThis("g", <<>>)),
                             Count(4)),
                   Set("p", CriticalExpr(Fn("error", <<>>)))>>)>>),
    Runs(<<Set("o", CriticalExpr(Fn("rethrow", <<ErrorExpr("mine")>>))),
           Set("p", CriticalExpr(Fn("rethrow", <<N(2)>>)))>>),
    Runs(<<Set("o", CriticalExpr(Fn("throw", <<N(2), N(3)>>))),
           ExprStmt(Fn("throw", <<ErrorExpr("mine"), StringExpr("boom")>>)),
           Set("p", N(4))>>),
    Runs(<<Set("o", CriticalExpr(Fn("throw", <<>>))),
           Set("p", CriticalExpr(Fn("rethrow", <<>>)))>>),
    Runs(<<Set("o", CriticalExpr(Fn("this", <<N(2)>>))),
           Set("p", CriticalExpr(Fn("traceback", <<N(3)>>)))>>),
    \* An error in a handler goes to the catch statement around it.
    Runs(<<CatchStmt(<<>>,
             CatchStmt(<<"div">>, Set("o", Div(2)), Set("o", V("nosuch"))),
             Count(3)),
           Set("p", Fn("listlen", <<ListExpr(<<N(2), N(3)>>)>>))>>),
    Runs(<<Set("o", CriticalExpr(Fn("listlen", <<N(2)>>))),
           Set("p", CriticalExpr(Fn("listlen", <<>>)))>>),
    \* Strings and lists
    Runs(<<Set("x", BinaryExpr("+", StringExpr("ab"), StringExpr("b"))),
           Set("o", IndexExpr(V("x"), N(2))),
           Set("p", BinaryExpr("<=", StringExpr("ab"), StringExpr("b")))>>),
    Runs(<<Set("x", ListExpr(<<N(2), StringExpr("b")>>)),
           Set("x", BinaryExpr("+", V("x"), ListExpr(<<SymbolExpr("f")>>))),
           Set("o", ListExpr(<<SpliceExpr(V("x")), N(4)>>)),
           Set("o", BinaryExpr("+", V("o"), V("x"))),
           Set("p", BinaryExpr("IN", N(2), V("x")))>>),
    Runs(<<Set("o", BinaryExpr("NE", ErrorExpr("div"), ErrorExpr("type"))),
           Set("p", UnaryExpr("!", ErrorExpr("div"))),
           IfStmt(StringExpr(""), Count(2)), IfStmt(ListExpr(<<>>), Count(3))>>),
    Runs(<<Set("x", BinaryExpr("%", UnaryExpr("NEG", N(7)), N(3))),
           Set("o", BinaryExpr("-", BinaryExpr("%", N(7), V("x")), V("x"))),
           Set("p", CriticalExpr(BinaryExpr("%", V("o"), N(0))))>>),
    Runs(<<Set("o", BinaryExpr(">", N(3), N(2))),
           Set("p", BinaryExpr(">=", N(2), N(3)))>>),
    \* Splices: the elements after the first are evaluated before it is looked at.
    Runs(<<Set("x", ListExpr(<<SpliceExpr(ListExpr(<<N(2)>>)),
                               ListExpr(<<SpliceExpr(ListExpr(<<>>)), N(3)>>)>>)),
           Set("o", CriticalExpr(ListExpr(<<SpliceExpr(N(4)), V("nosuch")>>))),
           Set("p", ListExpr(<<SpliceExpr(V("x"))>>))>>),
    Uncalled(
      <<Set("i", ListExpr(<<SpliceExpr(V("rest")), SpliceExpr(V("x")), N(2)>>)),
        Set("i", ListExpr(<<N(3), SpliceExpr(V("rest")), N(4), SpliceExpr(V("x"))>>)),
        Set("o", CallThis("f", <<SpliceExpr(V("rest"))>>)),
        Set("p", PassExpr(<<N(5), SpliceExpr(BinaryExpr("+", V("rest"), V("i")))>>)),
        ReturnExprStmt(Fn("listlen", <<SpliceExpr(CondExpr(V("o"), V("i"), V("x")))>>))>>),
    \* Ranges and lists that are none
    Runs(<<CatchStmt(<<"type">>, ForRangeStmt("i", N(2), StringExpr("b"), Count(3)),
                     Count(4)),
           CatchStmt(<<>>, ForListStmt("i", N(5), Count(6)), Count(7))>>),
    Runs(<<CatchStmt(<<"type">>,
             SwitchStmt(N(2), <<CaseEntry(<<RangeExpr(N(3), StringExpr("b"))>>,
                                          <<Count(4)>>),
                                CaseEntry(<<>>, <<Count(3)>>)>>),
             Count(5)),
           SwitchStmt(StringExpr("ab"),
             <<CaseEntry(<<RangeExpr(StringExpr("b"), StringExpr("abb"))>>, <<>>),
               CaseEntry(<<>>, <<Count(6)>>)>>)>>),
    \* A literal dbref, and frobs
    Runs(<<Set("o", MessageExpr(DbrefExpr(1), "nosuch", <<>>)), Set("p", N(2))>>),
    With(<<Method("f", <<>>, NoName, <<>>, <<ReturnExprStmt(DbrefExpr(1))>>),
           Main(<<Set("o", MessageExpr(CallThis("f", <<>>), "f", <<>>))>>)>>),
    Runs(<<ExprStmt(FrobExpr(This, ListExpr(<<N(2)>>))),
           Set("p", CriticalExpr(FrobExpr(This, N(3))))>>),
    Beyond(<<Main(<<Set("x", FrobExpr(This, ListExpr(<<N(2)>>))),
                    Set("o", CriticalExpr(MessageExpr(V("x"), "f", <<N(3)>>))),
                    Set("p", CriticalExpr(ExprMessageExpr(V("x"), SymbolExpr("f"),
                                                          <<N(4)>>)))>>)>>),
    \* A method that deletes itself while it runs, and its caller's
    With(<<Method("f", <<"y">>, NoName, <<"x">>,
              <<Set("x", Fn("del_method", <<SymbolExpr("f")>>)),
                Set("x", CriticalExpr(CallThis("f", <<N(2)>>))),
                ExprStmt(Fn("del_method", <<SymbolExpr("main")>>)),
                ReturnExprStmt(V("x"))>>),
            Main(<<Set("o", CallThis("f", <<N(3)>>)),
                   Set("p", CriticalExpr(Fn("del_method", <<SymbolExpr("f")>>)))>>)>>),
    Runs(<<Set("o", CriticalExpr(Fn("del_method", <<N(2)>>))),
           Set("p", CriticalExpr(Fn("del_method", <<>>)))>>),
    \* Recursion too deep, which the deepest caller sees
    With(<<Method("f", <<"x">>, NoName, <<>>,
              <<Count(2),
                CatchStmt(<<"maxdepth">>, ExprStmt(CallThis("f", <<V("x")>>)),
                          Set("p", N(3)))>>),
            Main(<<ExprStmt(CallThis("f", <<N(2)>>))>>)>>),
    \* Ticks: in the task's only frame, and in a callee
    Beyond(<<Main(<<WhileStmt(N(1), Set("i", N(2)))>>)>>),
    Beyond(<<Method("f", <<>>, NoName, <<>>, <<WhileStmt(N(1), Set("o", N(2)))>>),
              Main(<<Set("p", CriticalExpr(CallThis("f", <<>>)))>>)>>),
    \* Programs with errors, and a method compiled anew
    With(<<Main(<<Set("o", N(2))>>), Main(<<BreakStmt>>)>>),
    With(<<Main(<<Set("p", N(2))>>),
            Main(<<ForRangeStmt("nosuch", N(2), N(3), Count(4))>>),
            Main(<<SwitchStmt(N(2), <<CaseEntry(<<>>, <<Count(3)>>),
                                      CaseEntry(<<N(4)>>, <<>>)>>)>>),
            Main(<<ForListStmt("nosuch", N(2), ContinueStmt)>>),
            Main(<<ExprStmt(Fn("nosuch", <<>>))>>),
            Method("g", <<"x">>, "rest", <<"y">>, <<Set("y", StringExpr("boom"))>>),
            Main(<<Set("o", N(3))>>)>>),
    With(<<Method("f", <<>>, NoName, <<"x">>, <<Set("x", StringExpr("boom"))>>),
            Method("g", <<>>, NoName, <<"x">>, <<Set("x", StringExpr("boom"))>>),
            Method("h", <<>>, NoName, <<>>, <<>>),
            Main(<<Set("o", N(2))>>),
            Method("f", <<>>, NoName, <<"y">>, <<Set("y", N(2))>>)>>)>>

MCPrograms == ExprPrograms \o StmtPrograms \o CallPrograms
=============================================================================
