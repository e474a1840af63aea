------------------------------ MODULE Assemble ------------------------------
(***************************************************************************)
(* final_pass() of the code generator (src/codegen.c): what Codegen left   *)
(* in its globals becomes a method, whose strings and identifiers are in   *)
(* the counted tables of the object.                                       *)
(***************************************************************************)
EXTENDS Syntax, Tables

\* The names that the program declares, in the order they are added in
DeclaredNames(prog) ==
  Reverse(prog.args.ids)
    \o (IF prog.args.rest = NoName THEN <<>> ELSE <<prog.args.rest>>)
    \o Reverse(prog.vars)

Indices(table, items) == [k \in DOMAIN items |-> IndexFor(table, items[k])]

\* The position of the opcode that cell i is an argument of
OpcodeOf(buf, at, i) == CHOOSE p \in at : i - p \in 1 .. Len(OpArgs(buf[p]))

\* An argument translated: strings and identifiers to places in the object's
\* tables, jumps to places in the code, error lists to places in the method's
\* own table
Operand(g, object, lists, kind, i) ==
  LET cell == g.instr_buf[i] IN
    CASE kind \in {"INTEGER", "VAR"} -> cell
      [] kind = "STRING" -> IndexFor(object.strings, cell)
      [] kind = "IDENT" -> IndexFor(object.idents, cell)
      [] kind = "JUMP" -> g.jump_table[cell]
      [] kind = "ERROR" -> IF cell = <<>> THEN NoError
                           ELSE SelectInSeq(lists, LAMBDA j : j = i)

Translate(g, object, lists, at) ==
  LET buf == g.instr_buf
      Cell(i, p) == IF i \in at THEN buf[i]
                    ELSE Operand(g, object, lists, OpArgs(buf[p])[i - p], i)
  IN  [i \in DOMAIN buf |-> Cell(i, OpcodeOf(buf, at, i))]

FinalPass(g, object) ==
  LET prog == g.the_prog
      buf == g.instr_buf
      at == OpPositions(buf)
      catches == SelectSeq(at, LAMBDA i : buf[i] = "CATCH" /\ buf[i + 2] # <<>>)
      lists == [j \in DOMAIN catches |-> catches[j] + 2]
      new == [object EXCEPT
                !.idents = AddAll(@, DeclaredNames(prog) \o ArgsOf(buf, "IDENT")),
                !.strings = AddAll(@, ArgsOf(buf, "STRING"))]
      Places(names) == Indices(new.idents, names)
      method ==
        [kind |-> "method", name |-> NoIdent,
         overridable |-> prog.overridable,
         argnames |-> Places(Reverse(prog.args.ids)),
         rest |-> IF prog.args.rest = NoName THEN NoRest
                  ELSE IndexFor(new.idents, prog.args.rest),
         varnames |-> Places(Reverse(prog.vars)),
         opcodes |-> Translate(g, new, lists, ToSet(at)),
         error_lists |-> [j \in DOMAIN lists |-> buf[lists[j]]]]
  IN  [object |-> new, method |-> method]

IsSequence(s) == Len(s) \in Nat /\ s = [i \in 1 .. Len(s) |-> s[i]]

\* Each opcode has its arguments, and names are in sequences.
Complete(g) ==
  /\ IsSequence(g.instr_buf)
  /\ IsSequence(g.the_prog.args.ids) /\ IsSequence(g.the_prog.vars)
  /\ \A p \in ToSet(OpPositions(g.instr_buf)) :
       p + Len(OpArgs(g.instr_buf[p])) <= Len(g.instr_buf)
=============================================================================
