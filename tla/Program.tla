------------------------------ MODULE Program -------------------------------
(***************************************************************************)
(* The life of an object's methods: they are compiled one after the other  *)
(* (op_compile), stored and read back with the object (src/dbpack.c), run  *)
(* in a task, and deleted in any order.  What runs is compared with what   *)
(* the programs mean, and what is listed with what was compiled.           *)
(*                                                                         *)
(* The algorithms are parameters.  MCProgram gives them the definitions of *)
(* Codegen, Decode, Grammar, Pack and Meaning; this keeps what TLC reports *)
(* of the actions to the actions, and recursive operators out of here.     *)
(***************************************************************************)
EXTENDS Interp, Assemble

CONSTANTS
  Programs,               (* a sequence of [methods, compared]: methods   *)
                          (* as <<name, program>>, in the order they are   *)
                          (* compiled in, `main' among them; whether what  *)
                          (* they do is compared with what they mean: not  *)
                          (* when ticks run out, or a frob gets a message  *)
  PARAMS,                 (* the object's variables                        *)
  Globals(_),             (* Codegen: the code generator's globals         *)
  ListMethod(_, _, _),    (* Decode: Decompile                             *)
  LineOf(_, _),           (* Decode: LineNumber                            *)
  ParseText(_),           (* Grammar: Parse                                *)
  Packed(_), SizeOf(_), Unpacked(_), (* Pack: PackObject and its like      *)
  Expected(_, _)          (* Meaning: Outcome                              *)

VARIABLES
  prog,                   (* the program, as its place in Programs         *)
  phase,
  todo                    (* the methods that are still to be compiled     *)

progVars == <<prog, phase, todo>>
allVars == <<vars, progVars>>

H == INSTANCE Heights

\* A program with errors has no method.
Compiles(source) == Globals(source).no_errors
Generate(source, o) == FinalPass(Globals(source), o)

\* The code generator writes whole instructions.
ASSUME GlobalsAssumption ==
  \A i \in DOMAIN Programs :
    LET methods == Programs[i].methods IN
      /\ IsSequence(methods)
      /\ \A k \in DOMAIN methods :
           Compiles(methods[k][2]) => Complete(Globals(methods[k][2]))

ASSUME ParamsAssumption == IsSequence(PARAMS)

---------------------------------------------------------------------------

Init ==
  /\ prog \in DOMAIN Programs
  /\ phase = "compile"
  /\ todo = Programs[prog].methods
  /\ object = AddParams(NewObject, PARAMS)
  /\ InitExecute

\* op_compile(): a program with errors leaves the method there was.
Compile ==
  LET name == todo[1][1]
      source == todo[1][2]
      new == Generate(source, object)
  IN
  /\ phase = "compile" /\ todo # <<>>
  /\ object' = IF Compiles(source)
               THEN ObjectAddMethod(new.object, name, new.method, {}) ELSE object
  /\ todo' = Tail(todo)
  /\ UNCHANGED <<prog, phase, execVars>>

\* The object is written to disk and read again.
Store ==
  /\ phase = "compile" /\ todo = <<>>
  /\ object' = Unpacked(Packed(object))
  /\ phase' = "stored"
  /\ UNCHANGED <<prog, todo, execVars>>

Run ==
  /\ phase = "stored"
  /\ Task("main")
  /\ phase' = "running"
  /\ UNCHANGED <<prog, todo>>

Running ==
  /\ phase = "running"
  /\ Execute
  /\ UNCHANGED progVars

Installed == {i \in DOMAIN object.methods.tab : object.methods.tab[i].item # NoItem}

Delete ==
  /\ phase \in {"running", "ran"} /\ frames = <<>>
  /\ \E i \in Installed :
       object' = ObjectDelMethod(object, object.methods.tab[i].name, {})
  /\ phase' = "ran"
  /\ UNCHANGED <<prog, todo, execVars>>

\* The end: anything else that cannot go on is a deadlock.
Done ==
  /\ phase \in {"running", "ran"} /\ frames = <<>> /\ Installed = {}
  /\ UNCHANGED allVars

NextProgram == Compile \/ Store \/ Run \/ Running \/ Delete \/ Done

\* execute() goes on until there is no frame: WF_allVars(Running), with the
\* states that enable it written out, for TLC finds them too slowly.
Fairness ==
  <>[](phase = "running" /\ frames # <<>>) => []<><<Running>>_allVars

ProgramSpec == Init /\ [][NextProgram]_allVars /\ Fairness

---------------------------------------------------------------------------
(* What holds                                                              *)

Methods == {MethodAt(object, i) : i \in Installed}
Listing(m, parens) == ListMethod(object, m, parens)

\* Literal dbrefs are not listed as they are.
Listed(m) == \A pos \in ToSet(OpPositions(m.opcodes)) : m.opcodes[pos] # "DBREF"

\* The listing of a method is a program that compiles to the method itself,
\* with every parenthesis that its precedences need (decode.c, grammar.y).
ListingIsSource ==
  phase = "stored" =>
    \A m \in {x \in Methods : Listed(x)}, parens \in BOOLEAN :
      LET again == Generate(ParseText(FlattenSeq(Listing(m, parens))), object)
      IN  [again.method EXCEPT !.name = m.name] = m

\* The line that line_number() computes from the opcodes, for errors and
\* tracebacks, is the line of the listing that the code is on: that of each
\* literal number.
LinesAgree ==
  phase = "stored" =>
    \A m \in {x \in Methods : Listed(x)} :
      LET lines == Listing(m, FALSE)
          code == m.opcodes
      IN  \A pos \in ToSet(OpPositions(code)) :
            (code[pos] = "INTEGER" /\ code[pos + 1] > 1) =>
              LET line == LineOf(m, pos + 2) IN
                /\ line \in DOMAIN lines
                /\ <<"INTEGER", code[pos + 1]>> \in ToSet(lines[line])

\* What is read back is what was written, and it takes the room that was asked
\* for (dbpack.c).  Strings as values of variables are left out: they are
\* written with a number too many.
NoStringValues ==
  \A i \in DOMAIN object.vars.tab :
    LET slot == object.vars.tab[i] IN
      slot.item # NoItem => Type(slot.item.val) \notin {"STRING", "LIST", "FROB"}

PackRoundTrip ==
  (frames = <<>> /\ NoStringValues) =>
    LET bytes == Packed(object) IN
      /\ Unpacked(bytes) = object
      /\ Len(bytes) = SizeOf(object)

\* Strings and identifiers are counted once for each use by a method that is in
\* the table or running; each slot of a table is on one thread, the one of its
\* name or the one of the blanks, and when all methods are gone so are their
\* strings and identifiers (object.c).
LiveMethods == Methods \cup Held(frames)

UsesOf(i, places) ==
  UNION {{m} \X {k \in DOMAIN places[m] : places[m][k] = i} : m \in LiveMethods}

Counts(table, places) ==
  \A i \in DOMAIN table : table[i].refs = Cardinality(UsesOf(i, places))

Threads(table) ==
  LET Slots(first) == ToSet(Thread(table, first)) \ {0}
      Home(slot) == IF slot.item = NoItem THEN table.blanks
                    ELSE table.hashtab[Bucket(table, slot.name)]
      Once(i, thread) == Cardinality({n \in DOMAIN thread : thread[n] = i}) = 1
  IN
  /\ \A b \in DOMAIN table.hashtab : \A i \in Slots(table.hashtab[b]) :
       table.tab[i].item # NoItem /\ Bucket(table, table.tab[i].name) = b
  /\ \A i \in Slots(table.blanks) : table.tab[i].item = NoItem
  /\ \A i \in DOMAIN table.tab : Once(i, Thread(table, Home(table.tab[i])))

TablesExact ==
  /\ Counts(object.strings, [m \in LiveMethods |-> StringsOf(m)])
  /\ Counts(object.idents, [m \in LiveMethods |-> IdentsOf(m)])
  /\ Threads(object.methods)
  /\ Threads(object.vars)

\* After the task the object's variables are what the programs say, unless the
\* task had no more ticks, or arguments that an error abandoned were left on
\* the stack of argument starts: the compiler, the stored form, the interpreter
\* and the propagation of errors together.
Zeros == [name \in ToSet(PARAMS) |-> Zero]
Meant ==
  LET methods == Programs[prog].methods
      good == SelectSeq(methods, LAMBDA m : Compiles(m[2]))
      names == {good[i][1] : i \in DOMAIN good}
      Latest(name) == good[SelectLastInSeq(good, LAMBDA m : m[1] = name)][2]
  IN  Expected([name \in names |-> Latest(name)], Zeros)

RunsAsWritten ==
  (phase = "running" /\ frames = <<>> /\ arg_starts = <<>>
     /\ Programs[prog].compared) =>
    [name \in ToSet(PARAMS) |-> VarValue(object, name)] = Meant

\* Whatever is called, thrown and caught, each frame's part of the stack is as
\* high as its code says, and it has the specifiers and handlers of the guarded
\* parts it is in: syntaxop.c, execute.c and codegen.c agree.  Heights count
\* while no error has left an argument start behind; of handlers there may be
\* more, when an error in one is handled by a catch statement around it.
ShapeOf(f) == H!Shapes(f.method.opcodes)[f.pc]
Locals(m) ==
  Len(m.argnames) + Len(m.varnames) + IF m.rest = NoRest THEN 0 ELSE 1
HeightOf(i) ==
  IF i = 1 THEN Len(stack) ELSE frames[i - 1].stack_start + 1

StackAsCompiled ==
  raised = NotRaised =>
    LET shapes == [i \in DOMAIN frames |-> ShapeOf(frames[i])]
        args == FoldLeft(LAMBDA n, s : n + Len(s.args), 0, shapes)
    IN  \A i \in DOMAIN frames :
          LET f == frames[i] IN
          /\ shapes[i] # H!Unknown
          /\ Len(f.specifiers) = shapes[i].specs
          /\ Len(f.handler_info) >= shapes[i].handlers
          /\ Len(arg_starts) = args =>
               HeightOf(i) = f.var_start + Locals(f.method) + shapes[i].height

\* Every task comes to its end, for ticks run out and calls do not go deeper for
\* ever (execute(), frame_start()).
TaskEnds == (frames # <<>>) ~> (frames = <<>>)
=============================================================================
