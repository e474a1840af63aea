------------------------------- MODULE Tables -------------------------------
(***************************************************************************)
(* The tables of one object (src/object.c): counted strings and            *)
(* identifiers, which opcodes name by index, and the tables of methods and *)
(* variables, whose slots are threaded: each is on the thread of its       *)
(* name's hash value or on the thread of blanks.                           *)
(*                                                                         *)
(* Indices count from 1, and 0 ends a thread.  The sizes that tables of    *)
(* strings and identifiers reserve are left out.                           *)
(***************************************************************************)
EXTENDS Integers, Sequences, FiniteSets, SequencesExt

CONSTANTS
  Hash(_),                (* the hash value of a name, a natural number    *)
  STARTING_SIZE,          (* METHOD_ and VAR_STARTING_SIZE                 *)
  MALLOC_DELTA            (* what a full table grows by, beyond doubling   *)

ASSUME SizesAssumption ==
  /\ STARTING_SIZE \in Nat \ {0}
  /\ MALLOC_DELTA \in Nat

NoIdent == ""
NoError == -1             \* the index of a `catch any'
NoRest == -1

---------------------------------------------------------------------------
(* Counted strings and identifiers                                         *)

Entry(item) == [item |-> item, refs |-> 1]
Blank == [item |-> NoIdent, refs |-> 0]

\* object_add_string() and object_add_ident(): the index of an equal entry, or
\* of the last blank one, or of a new one at the end
IndexFor(table, item) ==
  LET same == SelectInSeq(table, LAMBDA e : e.refs > 0 /\ e.item = item)
      blank == SelectLastInSeq(table, LAMBDA e : e.refs = 0)
  IN  IF same # 0 THEN same
      ELSE IF blank # 0 THEN blank ELSE Len(table) + 1

Added(table, item) ==
  LET i == IndexFor(table, item) IN
    IF i > Len(table) THEN Append(table, Entry(item))
    ELSE IF table[i].refs > 0 THEN [table EXCEPT ![i].refs = @ + 1]
    ELSE [table EXCEPT ![i] = Entry(item)]

\* The table with all items added, one after the other
AddAll(table, items) ==
  LET after[n \in 0 .. Len(items)] ==
        IF n = 0 THEN table ELSE Added(after[n - 1], items[n])
  IN  after[Len(items)]

\* object_discard_string() and object_discard_ident(), for each use
DiscardAll(table, uses) ==
  [i \in DOMAIN table |->
     LET left == table[i].refs - Cardinality({k \in DOMAIN uses : uses[k] = i})
     IN  IF left = 0 THEN Blank ELSE [table[i] EXCEPT !.refs = left]]

---------------------------------------------------------------------------
(* Threaded tables.  A slot has the name and the item it holds, and the    *)
(* index of the next slot on its thread.                                   *)

NoItem == [kind |-> "none"]
BlankSlot(next) == [name |-> NoIdent, item |-> NoItem, next |-> next]

\* Slots first .. last, all blank, on one thread
BlankSlots(first, last) ==
  [i \in 1 .. last - first + 1 |->
     BlankSlot(IF first + i - 1 = last THEN 0 ELSE first + i)]

NewTable ==
  [blanks |-> 1, hashtab |-> [i \in 1 .. STARTING_SIZE |-> 0],
   tab |-> BlankSlots(1, STARTING_SIZE)]

Bucket(table, name) == 1 + (Hash(name) % Len(table.hashtab))

\* The slots on the thread that begins at `first', in order, and zeros after
\* its end
Thread(table, first) ==
  LET at[n \in 1 .. Len(table.tab) + 1] ==
        IF n = 1 THEN first
        ELSE IF at[n - 1] = 0 THEN 0 ELSE table.tab[at[n - 1]].next
  IN  at

\* The first slot on the name's thread that has the name, or 0
Find(table, name) ==
  LET thread == Thread(table, table.hashtab[Bucket(table, name)])
      at == SelectInSeq(thread, LAMBDA i : i # 0 /\ table.tab[i].name = name)
  IN  IF at = 0 THEN 0 ELSE thread[at]

\* Slot i goes to the front of the thread of its name.
Threaded(table, i) ==
  LET b == Bucket(table, table.tab[i].name) IN
    [table EXCEPT !.tab[i].next = table.hashtab[b], !.hashtab[b] = i]

\* A table without blanks is made larger, and its names hashed again.
Grown(table) ==
  LET size == Len(table.tab)
      larger == size * 2 + MALLOC_DELTA + 1
      empty == [blanks |-> size + 1, hashtab |-> [i \in 1 .. larger |-> 0],
                tab |-> table.tab \o BlankSlots(size + 1, larger)]
      rehashed[i \in 0 .. size] ==
        IF i = 0 THEN empty ELSE Threaded(rehashed[i - 1], i)
  IN  rehashed[size]

AddSlot(table, name, item) ==
  LET room == IF table.blanks = 0 THEN Grown(table) ELSE table
      i == room.blanks
  IN  Threaded([room EXCEPT !.blanks = room.tab[i].next,
                            !.tab[i].name = name, !.tab[i].item = item], i)

FreeSlot(table, name) ==
  LET i == Find(table, name)
      b == Bucket(table, name)
      next == table.tab[i].next
      out == IF table.hashtab[b] = i THEN [table EXCEPT !.hashtab[b] = next]
             ELSE [table EXCEPT
                     !.tab[CHOOSE j \in ToSet(Thread(table, table.hashtab[b])) \ {0} :
                             table.tab[j].next = i].next = next]
  IN  [out EXCEPT !.tab[i] = BlankSlot(table.blanks), !.blanks = i]

---------------------------------------------------------------------------
(* Variables of the object itself: the class of each is the object.        *)

Var(val) == [kind |-> "var", val |-> val]
Zero == <<"INTEGER", 0>>

HasVar(object, name) == Find(object.vars, name) # 0
VarValue(object, name) == object.vars.tab[Find(object.vars, name)].item.val

\* object_assign_var(), for a variable that exists
AssignVar(object, name, val) ==
  [object EXCEPT !.vars.tab[Find(object.vars, name)].item = Var(val)]

AddParam(object, name) ==
  IF HasVar(object, name) THEN object
  ELSE [object EXCEPT !.vars = AddSlot(@, name, Var(Zero))]

AddParams(object, names) ==
  LET after[n \in 0 .. Len(names)] ==
        IF n = 0 THEN object ELSE AddParam(after[n - 1], names[n])
  IN  after[Len(names)]

---------------------------------------------------------------------------
(* Methods.  A method is [kind, name, overridable, argnames, rest,         *)
(* varnames, opcodes, error_lists].                                        *)

NewObject ==
  [strings |-> <<>>, idents |-> <<>>, methods |-> NewTable, vars |-> NewTable]

\* Kinds of arguments that follow an opcode (opcodes.c)
OpArgs(op) ==
  CASE op \in {"COMMENT", "STRING"} -> <<"STRING">>
    [] op \in {"SET_LOCAL", "GET_LOCAL"} -> <<"VAR">>
    [] op \in {"SET_OBJ_VAR", "SYMBOL", "ERROR", "NAME", "GET_OBJ_VAR",
               "MESSAGE"} -> <<"IDENT">>
    [] op \in {"INTEGER", "DBREF"} -> <<"INTEGER">>
    [] op \in {"IF", "IF_ELSE", "ELSE", "SWITCH", "CASE_VALUE", "CASE_RANGE",
               "LAST_CASE_VALUE", "LAST_CASE_RANGE", "END_CASE", "END",
               "CATCH_END", "AND", "OR", "CONDITIONAL", "CRITICAL",
               "PROPAGATE"} -> <<"JUMP">>
    [] op \in {"FOR_RANGE", "FOR_LIST", "BREAK", "CONTINUE"} ->
         <<"JUMP", "INTEGER">>
    [] op = "WHILE" -> <<"JUMP", "JUMP">>
    [] op = "CATCH" -> <<"JUMP", "ERROR">>
    [] OTHER -> <<>>

\* The places in the code that hold opcodes, not arguments
OpPositions(code) ==
  LET from[i \in 1 .. Len(code) + 3] ==
        IF i > Len(code) THEN <<>>
        ELSE <<i>> \o from[i + 1 + Len(OpArgs(code[i]))]
  IN from[1]

\* The arguments of one kind in code.  Opcodes that take a string or an
\* identifier take nothing else.
ArgsOf(code, kind) ==
  LET from[i \in 1 .. Len(code) + 3] ==
        IF i > Len(code) THEN <<>>
        ELSE (IF OpArgs(code[i]) = <<kind>> THEN <<code[i + 1]>> ELSE <<>>)
               \o from[i + 1 + Len(OpArgs(code[i]))]
  IN from[1]

\* The names that a method declares
Declared(method) ==
  method.argnames
    \o (IF method.rest = NoRest THEN <<>> ELSE <<method.rest>>)
    \o method.varnames

\* The places in the tables of strings and of identifiers that a method uses
StringsOf(method) == ArgsOf(method.opcodes, "STRING")
IdentsOf(method) == Declared(method) \o ArgsOf(method.opcodes, "IDENT")

\* Mutant: the names of the variables are kept.
MethodDeleteCodeRefsNoVars(object, method) ==
  [object EXCEPT
     !.idents = DiscardAll(@, IdentsOf([method EXCEPT !.varnames = <<>>])),
     !.strings = DiscardAll(@, StringsOf(method))]

MethodDeleteCodeRefs(object, method) ==
  [object EXCEPT
     !.idents = DiscardAll(@, IdentsOf(method)),
     !.strings = DiscardAll(@, StringsOf(method))]

FindMethodLocal(object, name) == Find(object.methods, name)
MethodAt(object, i) == object.methods.tab[i].item

\* A method is discarded when neither the table nor a frame holds it; `held' are
\* the methods that frames have.
MethodDiscard(object, method, held) ==
  IF method \in held THEN object ELSE MethodDeleteCodeRefs(object, method)

ObjectDelMethod(object, name, held) ==
  LET i == FindMethodLocal(object, name) IN
    IF i = 0 THEN object
    ELSE MethodDiscard([object EXCEPT !.methods = FreeSlot(@, name)],
                       MethodAt(object, i), held)

ObjectAddMethod(object, name, method, held) ==
  [ObjectDelMethod(object, name, held) EXCEPT
     !.methods = AddSlot(@, name, [method EXCEPT !.name = name])]
=============================================================================
