-------------------------------- MODULE Pack --------------------------------
(***************************************************************************)
(* An object as the bytes that the disk database keeps of it, and the size *)
(* that the database is asked for (src/dbpack.c).                          *)
(*                                                                         *)
(* pack_object() and size_object() walk the same fields in the same order; *)
(* a field is a number, an identifier or a string.  Indices count from 0   *)
(* in the bytes, and -1 is none.  The object has no parents or children,   *)
(* and the sizes that its tables of strings and identifiers reserve are    *)
(* left out.                                                               *)
(***************************************************************************)
EXTENDS Tables

CONSTANTS
  Bytes,                  (* the bytes of each string and identifier       *)
  Opcodes,                (* the opcodes, in the order of their numbers    *)
  Types,                  (* the data types, in the order of their numbers *)
  CLASS,                  (* the object's dbref as an identifier           *)
  POINTER                 (* the address of a string                       *)

Found(val, pos) == [val |-> val, pos |-> pos]
Number(names, name) == SelectInSeq(names, LAMBDA x : x = name)

\* seq's elements combined, where halves keep the recursion flat
Combined(Op(_, _), none, seq) ==
  LET RECURSIVE Part(_, _)
      Part(first, n) ==
        CASE n = 0 -> none
          [] n = 1 -> seq[first]
          [] OTHER -> Op(Part(first, n \div 2),
                         Part(first + n \div 2, n - n \div 2))
  IN  Part(1, Len(seq))

Concat(seqs) == Combined(LAMBDA s, t : s \o t, <<>>, seqs)

---------------------------------------------------------------------------
(* Numbers: a sign, the value modulo 32, then digits of base 64, and an    *)
(* end mark.                                                               *)

END_MARK == 96

RECURSIVE Digits(_)
Digits(n) == IF n = 0 THEN <<>> ELSE <<32 + (n % 64)>> \o Digits(n \div 64)

\* Mutant: zero is written like the other numbers.
WriteLongNoZero(n) ==
  <<IF n >= 0 THEN 64 + (n % 32) ELSE 32 + ((-n) % 32)>>
    \o Digits(IF n > 0 THEN n \div 32 ELSE (-n) \div 32) \o <<END_MARK>>

WriteLong(n) ==
  IF n = 0 THEN <<END_MARK>>
  ELSE <<IF n > 0 THEN 64 + (n % 32) ELSE 32 + ((-n) % 32)>>
         \o Digits(IF n > 0 THEN n \div 32 ELSE (-n) \div 32) \o <<END_MARK>>

RECURSIVE ReadDigits(_, _, _, _)
ReadDigits(b, pos, n, place) ==
  IF b[pos] = END_MARK THEN Found(n, pos + 1)
  ELSE ReadDigits(b, pos + 1, n + place * (b[pos] - 32), place * 64)

ReadLong(b, pos) ==
  LET c == b[pos] IN
    CASE c = END_MARK -> Found(0, pos + 1)
      [] c < 64 -> ReadDigits(b, pos + 1, -((c - 32) % 32), -32)
      [] OTHER -> ReadDigits(b, pos + 1, (c - 64) % 32, 32)

SizeLong(n) ==
  IF n = 0 THEN 1
  ELSE 2 + Len(Digits((IF n > 0 THEN n ELSE -n) \div 32))

---------------------------------------------------------------------------
(* Fields                                                                  *)

Long(n) == << <<"long", n>> >>
Index(i) == Long(i - 1)
Ident(id) == << <<"ident", id>> >>
BlankIdent == Long(-1)
Text(s) == << <<"string", s>> >>

Counted(seq, Field(_)) ==
  Long(Len(seq)) \o Concat([i \in DOMAIN seq |-> Field(seq[i])])

\* pack_data() falls from STRING through to DBREF, size_data() does not.
RECURSIVE DataFields(_, _)
DataFields(d, packing) ==
  LET val == d[2] IN
  Long(Number(Types, d[1])) \o
  CASE d[1] \in {"INTEGER", "DBREF"} -> Long(val)
    [] d[1] = "STRING" -> Text(val) \o IF packing THEN Long(POINTER) ELSE <<>>
    [] d[1] = "LIST" -> Counted(val, LAMBDA x : DataFields(x, packing))
    [] d[1] \in {"SYMBOL", "ERROR"} -> Ident(val)
    [] d[1] = "FROB" -> Long(val[1]) \o DataFields(val[2], packing)

\* A threaded table, where Item(slot) is what there is of a slot in use
TableFields(table, Item(_)) ==
  LET Slot(i) ==
        Index(table.hashtab[i])
          \o (IF table.tab[i].item.kind = "none" THEN BlankIdent
              ELSE Ident(table.tab[i].name) \o Item(table.tab[i]))
          \o Index(table.tab[i].next)
  IN  Long(Len(table.tab)) \o Index(table.blanks)
        \o Concat([i \in DOMAIN table.tab |-> Slot(i)])

\* The class of a variable, a dbref, is written as an identifier.
VarFields(slot, packing) == Ident(CLASS) \o DataFields(slot.item.val, packing)

\* The numbers of the opcodes and of what follows them
CellFields(code) ==
  LET Cell(kind, arg) ==
        IF kind \in {"INTEGER", "VAR"} \/ arg = NoError THEN Long(arg)
                                                       ELSE Index(arg)
      Op(pos) ==
        LET kinds == OpArgs(code[pos]) IN
          Long(Number(Opcodes, code[pos]))
            \o Concat([j \in DOMAIN kinds |-> Cell(kinds[j], code[pos + j])])
      at == OpPositions(code)
  IN  Concat([i \in DOMAIN at |-> Op(at[i])])

MethodFields(slot) ==
  LET m == slot.item IN
    Counted(m.argnames, Index)
      \o (IF m.rest = NoRest THEN Long(NoRest) ELSE Index(m.rest))
      \o Counted(m.varnames, Index)
      \o Long(Len(m.opcodes)) \o CellFields(m.opcodes)
      \o Counted(m.error_lists, LAMBDA errors : Counted(errors, Ident))
      \o Long(IF m.overridable THEN 1 ELSE 0)

StringFields(e) == IF e.refs = 0 THEN Long(-1) ELSE Text(e.item) \o Long(e.refs)
IdentFields(e) == IF e.refs = 0 THEN BlankIdent ELSE Ident(e.item) \o Long(e.refs)

\* The fields of an object, between two empty lists and object_search's mark
Fields(object, packing) ==
  Long(0) \o Long(0)
    \o TableFields(object.vars, LAMBDA slot : VarFields(slot, packing))
    \o TableFields(object.methods, MethodFields)
    \o Counted(object.strings, StringFields)
    \o Counted(object.idents, IdentFields)
    \o Long(0)

\* write_ident() and string_pack() write a length and the characters.
Written(field) ==
  IF field[1] = "long" THEN WriteLong(field[2])
  ELSE WriteLong(Len(Bytes[field[2]])) \o Bytes[field[2]]

FieldSize(field) ==
  IF field[1] = "long" THEN SizeLong(field[2])
  ELSE SizeLong(Len(Bytes[field[2]])) + Len(Bytes[field[2]])

PackObject(object) ==
  LET fields == Fields(object, TRUE) IN
    Concat([i \in DOMAIN fields |-> Written(fields[i])])

SizeObject(object) ==
  LET fields == Fields(object, FALSE) IN
    Combined(LAMBDA m, n : m + n, 0,
             [i \in DOMAIN fields |-> FieldSize(fields[i])])

---------------------------------------------------------------------------
(* Reading.  Each function takes the bytes and a position.                 *)

ReadIndex(b, pos) ==
  LET n == ReadLong(b, pos) IN Found(n.val + 1, n.pos)

\* string_unpack() and read_ident(); a length of -1 is none.
NoText == "none"
ReadText(b, pos) ==
  LET n == ReadLong(b, pos)
      chars == SubSeq(b, n.pos, n.pos + n.val - 1)
  IN  IF n.val = -1 THEN Found(NoText, n.pos)
      ELSE Found(CHOOSE s \in DOMAIN Bytes : Bytes[s] = chars, n.pos + n.val)

ReadMany(b, pos, n, Read(_, _)) ==
  LET RECURSIVE Part(_, _)
      Part(p, k) ==
        LET one == Read(b, p)
            left == Part(p, k \div 2)
            right == Part(left.pos, k - k \div 2)
        IN  CASE k = 0 -> Found(<<>>, p)
              [] k = 1 -> Found(<<one.val>>, one.pos)
              [] OTHER -> Found(left.val \o right.val, right.pos)
  IN  Part(pos, n)

ReadCounted(b, pos, Read(_, _)) ==
  LET n == ReadLong(b, pos) IN ReadMany(b, n.pos, n.val, Read)

RECURSIVE ReadData(_, _)
ReadData(b, pos) ==
  LET type == ReadLong(b, pos)
      name == Types[type.val]
      As(r) == Found(<<name, r.val>>, r.pos)
      class == ReadLong(b, type.pos)
      rep == ReadData(b, class.pos)
  IN
  CASE name \in {"INTEGER", "DBREF"} -> As(ReadLong(b, type.pos))
    [] name \in {"STRING", "SYMBOL", "ERROR"} -> As(ReadText(b, type.pos))
    [] name = "LIST" -> As(ReadCounted(b, type.pos, ReadData))
    [] name = "FROB" -> As(Found(<<class.val, rep.val>>, rep.pos))

\* A slot of a threaded table, with its hash table entry; Item(b, pos, name)
\* reads what follows the name.
ReadSlot(b, pos, Item(_, _, _)) ==
  LET head == ReadIndex(b, pos)
      name == ReadText(b, head.pos)
      item == IF name.val = NoText THEN Found(NoItem, name.pos)
              ELSE Item(b, name.pos, name.val)
      next == ReadIndex(b, item.pos)
      id == IF name.val = NoText THEN NoIdent ELSE name.val
  IN  Found([head |-> head.val,
             slot |-> [name |-> id, item |-> item.val, next |-> next.val]],
            next.pos)

ReadTable(b, pos, Item(_, _, _)) ==
  LET size == ReadLong(b, pos)
      blanks == ReadIndex(b, size.pos)
      slots == ReadMany(b, blanks.pos, size.val,
                        LAMBDA bytes, p : ReadSlot(bytes, p, Item))
  IN  Found([blanks |-> blanks.val,
             hashtab |-> [i \in DOMAIN slots.val |-> slots.val[i].head],
             tab |-> [i \in DOMAIN slots.val |-> slots.val[i].slot]],
            slots.pos)

ReadVar(b, pos, name) ==
  LET class == ReadText(b, pos)
      val == ReadData(b, class.pos)
  IN  Found(Var(val.val), val.pos)

\* The opcodes of a method, from the numbers in the file
Decoded(cells) ==
  LET Cell(kind, n) ==
        IF kind \in {"INTEGER", "VAR"} \/ (kind = "ERROR" /\ n = NoError)
        THEN n ELSE n + 1
      from[i \in 1 .. Len(cells) + 1] ==
        IF i > Len(cells) THEN <<>>
        ELSE LET op == Opcodes[cells[i]]
                 kinds == OpArgs(op)
             IN  <<op>> \o [j \in DOMAIN kinds |-> Cell(kinds[j], cells[i + j])]
                   \o from[i + 1 + Len(kinds)]
  IN  from[1]

ReadMethod(b, pos, name) ==
  LET args == ReadCounted(b, pos, ReadIndex)
      rest == ReadLong(b, args.pos)
      varnames == ReadCounted(b, rest.pos, ReadIndex)
      cells == ReadCounted(b, varnames.pos, ReadLong)
      errors == ReadCounted(b, cells.pos,
                            LAMBDA bytes, p : ReadCounted(bytes, p, ReadText))
      overridable == ReadLong(b, errors.pos)
  IN  Found([kind |-> "method", name |-> name,
             overridable |-> overridable.val = 1, argnames |-> args.val,
             rest |-> IF rest.val = NoRest THEN NoRest ELSE rest.val + 1,
             varnames |-> varnames.val, opcodes |-> Decoded(cells.val),
             error_lists |-> errors.val],
            overridable.pos)

ReadEntry(b, pos) ==
  LET item == ReadText(b, pos)
      refs == ReadLong(b, item.pos)
  IN  IF item.val = NoText THEN Found(Blank, item.pos)
      ELSE Found([item |-> item.val, refs |-> refs.val], refs.pos)

UnpackObject(b) ==
  LET parents == ReadCounted(b, 1, ReadData)
      children == ReadCounted(b, parents.pos, ReadData)
      vars == ReadTable(b, children.pos, ReadVar)
      methods == ReadTable(b, vars.pos, ReadMethod)
      strings == ReadCounted(b, methods.pos, ReadEntry)
      idents == ReadCounted(b, strings.pos, ReadEntry)
  IN  [strings |-> strings.val, idents |-> idents.val,
       methods |-> methods.val, vars |-> vars.val]
=============================================================================
