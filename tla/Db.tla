-------------------------------- MODULE Db --------------------------------
(***************************************************************************)
(* The binary database (db.c, and the dbrefs of lookup.c): objects in runs *)
(* of blocks of the file binary/objects, an ndbm index from dbrefs to      *)
(* runs, a bitmap of used blocks in memory, and the file binary/clean,     *)
(* which tells the next start whether to trust the others.                 *)
(*                                                                         *)
(* The process can end between any two changes of the files.  A db.c       *)
(* function that makes several is therefore a sequence of steps, kept in   *)
(* op, one per change; what it only does to memory belongs to the step     *)
(* before it is lost with.  ndbm may keep a change of the index in memory  *)
(* until the index is closed, or write it out at any time before.          *)
(*                                                                         *)
(* Mutants are marked as in ObjectStore.                                   *)
(***************************************************************************)
EXTENDS Integers, FiniteSets, FiniteSetsExt

CONSTANTS
  Dbref,
  Contents,      \* what an object can be
  Size,          \* NEEDED(size_object()): the blocks an object takes
  DB_BITBLOCK,   \* growth of the bitmap in blocks
  BYTE,          \* the bitmap's size is a multiple of this
  TextDumps,     \* whether there is a text dump to start with
  MaxBlocks,     \* bound: the largest block number in use, plus one
  NoObject, NoEntry, NoPiece, Delobj

ASSUME DbAssumption ==
  /\ Size \in [Contents -> Nat \ {0}]
  /\ BYTE \in Nat \ {0}
  /\ DB_BITBLOCK \in Nat \ {0}
  /\ DB_BITBLOCK % BYTE = 0
  /\ MaxBlocks \in Nat
  /\ TextDumps \subseteq BOOLEAN
  /\ NoObject \notin Contents

Block == 0 .. MaxBlocks - 1
Sizes == {Size[c] : c \in Contents}

\* An entry of the index, and the blocks it stands for.
Entry == [start: Nat, size: Sizes]
Run(e) == e.start .. e.start + e.size - 1

\* A block of the file holds the i-th part of an object, or the word "delobj"
\* db_del() leaves, or was never written.
Piece == [dbref: Dbref, contents: Contents, part: Nat]

ASSUME SentinelAssumption ==
  /\ NoEntry \notin Entry
  /\ NoPiece \notin Piece
  /\ Delobj \notin Piece
  /\ NoPiece # Delobj

VARIABLES
  \* The files.
  clean,         \* binary/clean exists and has the right version
  file,          \* binary/objects
  indexDisk,     \* what binary/index holds
  textDump,      \* there is a file textdump
  \* The process.
  phase,         \* not there, starting anew, reading the text dump, or in service
  index,         \* what ndbm answers
  marked,        \* the blocks set in bitmap
  bitmap_blocks,
  last_free,
  db_clean,
  op             \* the function of db.c that is under way, or text_dump()

files == <<clean, file, indexDisk, textDump>>
memory == <<marked, bitmap_blocks, last_free>>
vars == <<files, phase, index, memory, db_clean, op>>

Phase == {"down", "opening", "loading", "running"}
Idle == [pc |-> "idle"]
Ops ==
  {Idle}
    \cup [pc: {"store"}, dbref: Dbref, contents: Contents]
    \cup [pc: {"write"}, dbref: Dbref, contents: Contents, at: Block, part: Nat]
    \cup [pc: {"dirty"}, dbref: Dbref, entry: Entry]
    \cup [pc: {"kill"}, at: Block]
    \cup [pc: {"rename"}]

(***************************************************************************)
(* db_get(): the index tells where the object starts, and the object is    *)
(* read from there on.  Garbage is not an object.                          *)
(***************************************************************************)
Garbage == [garbage |-> TRUE]

Holds(f, d, start, c) ==
  \A i \in 0 .. Size[c] - 1 :
    start + i \in Block /\ f[start + i] = [dbref |-> d, contents |-> c, part |-> i]

Get(idx, f, d) ==
  CASE idx[d] = NoEntry -> NoObject
    [] idx[d] # NoEntry /\ (\E c \in Contents : Holds(f, d, idx[d].start, c)) ->
         CHOOSE c \in Contents : Holds(f, d, idx[d].start, c)
    [] OTHER -> Garbage

-----------------------------------------------------------------------------
(***************************************************************************)
(* db_alloc(): the first run of n free blocks that starts at last_free or  *)
(* later, else the first one from the start.  A run may reach beyond the   *)
(* bitmap, which then grows; a new block is free.                          *)
(***************************************************************************)
Free(m, s, n) == \A b \in s .. s + n - 1 : b \notin m

FirstFit(m, last, blocks, n) ==
  LET fits(from, to) == {s \in from .. to : Free(m, s, n)}
  IN  IF fits(last, blocks - 1) # {} THEN Min(fits(last, blocks - 1)) ELSE Min(fits(0, blocks))

\* grow_bitmap(blocks + DB_BITBLOCK) until block b is inside.
Grown(blocks, b) ==
  IF b < blocks THEN blocks ELSE blocks + DB_BITBLOCK * ((b - blocks) \div DB_BITBLOCK + 1)

(***************************************************************************)
(* The start of a process: init_db() trusts the files only if the clean    *)
(* file is there, and marks the blocks of every object in the index.       *)
(***************************************************************************)
ROUND_UP(a, m) == (a - 1) + m - ((a - 1) % m)

Written == {b \in Block : file[b] # NoPiece}
Extent == IF Written = {} THEN 0 ELSE Max(Written) + 1

Indexed(idx) == {d \in Dbref : idx[d] # NoEntry}
Used(idx) == UNION {Run(idx[d]) : d \in Indexed(idx)}

NoIndex == [d \in Dbref |-> NoEntry]

Init ==
  /\ clean = FALSE
  /\ file = [b \in Block |-> NoPiece]
  /\ indexDisk = NoIndex
  /\ textDump \in TextDumps
  /\ phase = "down"
  /\ index = NoIndex
  /\ marked = {} /\ bitmap_blocks = 0 /\ last_free = 0
  /\ db_clean = FALSE
  /\ op = Idle

\* Mutant: the objects' blocks are not marked.
StartUnmarked ==
  /\ phase = "down"
  /\ clean
  /\ index' = indexDisk
  /\ bitmap_blocks' = ROUND_UP(Extent + DB_BITBLOCK, BYTE)
  /\ db_clean' = TRUE
  /\ phase' = "running"
  /\ UNCHANGED <<files, marked, last_free, op>>

StartTrusting ==
  /\ phase = "down"
  /\ clean
  /\ \E full \in {Extent, Extent - 1} \cap Nat :
       LET blocks == ROUND_UP(full + DB_BITBLOCK, BYTE)
       IN  bitmap_blocks' =
             IF Used(indexDisk) = {} THEN blocks ELSE Grown(blocks, Max(Used(indexDisk)))
  /\ index' = indexDisk
  /\ marked' = Used(indexDisk)
  /\ db_clean' = TRUE
  /\ phase' = "running"
  /\ UNCHANGED <<files, last_free, op>>

\* Without a clean file both files are truncated, and declared clean at once;
\* initialize() then turns to the text dump.
StartAnew ==
  /\ phase = "down"
  /\ ~clean
  /\ file' = [b \in Block |-> NoPiece]
  /\ indexDisk' = NoIndex
  /\ index' = NoIndex
  /\ bitmap_blocks' = ROUND_UP(DB_BITBLOCK, BYTE)
  /\ clean' = TRUE
  /\ db_clean' = TRUE
  /\ phase' = "opening"
  /\ UNCHANGED <<textDump, marked, last_free, op>>

\* The process ends, and with it everything in memory.
End ==
  /\ phase' = "down"
  /\ index' = NoIndex
  /\ marked' = {} /\ bitmap_blocks' = 0 /\ last_free' = 0
  /\ db_clean' = FALSE
  /\ op' = Idle

\* fail_to_start("Couldn't open text dump file.")
FailToStart ==
  /\ phase = "opening"
  /\ ~textDump
  /\ End
  /\ UNCHANGED files

OpenTextDump ==
  /\ phase = "opening"
  /\ textDump
  /\ phase' = "loading"
  /\ UNCHANGED <<files, index, memory, db_clean, op>>

TextDumpRead ==
  /\ phase = "loading"
  /\ op = Idle
  /\ phase' = "running"
  /\ UNCHANGED <<files, index, memory, db_clean, op>>

Crash ==
  /\ phase # "down"
  /\ End
  /\ UNCHANGED files

\* ndbm writes what it has kept in memory, of its own accord.
WriteIndex(d) ==
  /\ phase # "down"
  /\ indexDisk[d] # index[d]
  /\ indexDisk' = [indexDisk EXCEPT ![d] = index[d]]
  /\ UNCHANGED <<clean, file, textDump, phase, index, memory, db_clean, op>>

-----------------------------------------------------------------------------
\* The cache may call db.c: nothing of it is under way.
Ready == op = Idle /\ phase \in {"loading", "running"}

(***************************************************************************)
(* db_put(): the clean file goes first.  Then the object gets its blocks,  *)
(* the old ones if they suffice, and the index the new entry; the blocks   *)
(* are written one after the other.                                        *)
(***************************************************************************)
db_is_clean == clean' = TRUE /\ db_clean' = TRUE
db_is_dirty == clean' = (clean /\ ~db_clean) /\ db_clean' = FALSE

Put(d, c) ==
  /\ Ready
  /\ db_is_dirty
  /\ op' = [pc |-> "store", dbref |-> d, contents |-> c]
  /\ UNCHANGED <<file, indexDisk, textDump, phase, index, memory>>

\* Mutant: the last block is not marked.
AllocateShort(given, n, start) ==
  LET m == marked \ given
      last == IF given = {} THEN last_free ELSE Min(given)
  IN  /\ start = FirstFit(m, last, bitmap_blocks, n)
      /\ start + n <= MaxBlocks
      /\ marked' = m \cup start .. start + n - 2
      /\ bitmap_blocks' = Grown(bitmap_blocks, start + n)
      /\ last_free' = start + n

\* With the given blocks unmarked (db_unmark), n blocks are allocated.
Allocate(given, n, start) ==
  LET m == marked \ given
      last == IF given = {} THEN last_free ELSE Min(given)
  IN  /\ start = FirstFit(m, last, bitmap_blocks, n)
      /\ start + n <= MaxBlocks
      /\ marked' = m \cup start .. start + n - 1
      /\ bitmap_blocks' = Grown(bitmap_blocks, start + n)
      /\ last_free' = start + n

PutStores ==
  LET d == op.dbref
      n == Size[op.contents]
      fits == index[d] # NoEntry /\ n <= index[d].size
  IN  /\ op.pc = "store"
      /\ \E start \in Block :
           /\ IF fits
              THEN start = index[d].start /\ UNCHANGED memory
              ELSE Allocate(IF index[d] = NoEntry THEN {} ELSE Run(index[d]), n, start)
           /\ index' = [index EXCEPT ![d] = [start |-> start, size |-> n]]
           /\ op' = [pc |-> "write", dbref |-> d, contents |-> op.contents,
                     at |-> start, part |-> 0]
      /\ UNCHANGED <<files, phase, db_clean>>

\* Mutant: one block too many is written.
PutOvershoots ==
  /\ op.pc = "write"
  /\ file' = [file EXCEPT ![op.at + op.part] =
                [dbref |-> op.dbref, contents |-> op.contents, part |-> op.part]]
  /\ op' = IF op.part = Size[op.contents] THEN Idle ELSE [op EXCEPT !.part = @ + 1]
  /\ UNCHANGED <<clean, indexDisk, textDump, phase, index, memory, db_clean>>

PutWrites ==
  /\ op.pc = "write"
  /\ file' = [file EXCEPT ![op.at + op.part] =
                [dbref |-> op.dbref, contents |-> op.contents, part |-> op.part]]
  /\ op' = IF op.part + 1 = Size[op.contents] THEN Idle ELSE [op EXCEPT !.part = @ + 1]
  /\ UNCHANGED <<clean, indexDisk, textDump, phase, index, memory, db_clean>>

(***************************************************************************)
(* db_del(): the index entry goes first, then the clean file; the blocks   *)
(* are given back and the first one is overwritten.                        *)
(***************************************************************************)
Delete(d) ==
  /\ Ready
  /\ index[d] # NoEntry
  /\ index' = [index EXCEPT ![d] = NoEntry]
  /\ op' = [pc |-> "dirty", dbref |-> d, entry |-> index[d]]
  /\ UNCHANGED <<files, phase, memory, db_clean>>

DeleteDirties ==
  /\ op.pc = "dirty"
  /\ db_is_dirty
  /\ marked' = marked \ Run(op.entry)
  /\ last_free' = op.entry.start
  /\ op' = [pc |-> "kill", at |-> op.entry.start]
  /\ UNCHANGED <<file, indexDisk, textDump, phase, index, bitmap_blocks>>

DeleteKills ==
  /\ op.pc = "kill"
  /\ file' = [file EXCEPT ![op.at] = Delobj]
  /\ op' = Idle
  /\ UNCHANGED <<clean, indexDisk, textDump, phase, index, memory, db_clean>>

\* Mutant: the database is declared clean, but the index not written out.
FlushUnsynced ==
  /\ Ready
  /\ db_is_clean
  /\ UNCHANGED <<file, indexDisk, textDump, phase, index, memory, op>>

(***************************************************************************)
(* db_flush(), after cache_sync() has put every dirty object: the index is *)
(* written out, and then the database is clean.                            *)
(***************************************************************************)
Flush ==
  /\ Ready
  /\ indexDisk' = index
  /\ db_is_clean
  /\ UNCHANGED <<file, textDump, phase, index, memory, op>>

(***************************************************************************)
(* text_dump(): the objects are flushed and written to another file; then  *)
(* the old text dump goes, and the new one gets its name.                  *)
(***************************************************************************)
TextDump ==
  /\ Ready
  /\ indexDisk' = index
  /\ db_is_clean
  /\ textDump' = FALSE
  /\ op' = [pc |-> "rename"]
  /\ UNCHANGED <<file, phase, index, memory>>

TextDumpRenames ==
  /\ op.pc = "rename"
  /\ textDump' = TRUE
  /\ op' = Idle
  /\ UNCHANGED <<clean, file, indexDisk, phase, index, memory, db_clean>>

-----------------------------------------------------------------------------
Next ==
  \/ StartTrusting
  \/ StartAnew
  \/ FailToStart
  \/ OpenTextDump
  \/ TextDumpRead
  \/ Crash
  \/ \E d \in Dbref : WriteIndex(d)
  \/ \E d \in Dbref, c \in Contents : Put(d, c)
  \/ PutStores
  \/ PutWrites
  \/ \E d \in Dbref : Delete(d)
  \/ DeleteDirties
  \/ DeleteKills
  \/ Flush
  \/ TextDump
  \/ TextDumpRenames

Spec == Init /\ [][Next]_vars

-----------------------------------------------------------------------------
(***************************************************************************)
(* Properties.                                                             *)
(***************************************************************************)

\* The variables have the values the C types allow.
TypeOK ==
  /\ clean \in BOOLEAN
  /\ file \in [Block -> Piece \cup {Delobj, NoPiece}]
  /\ indexDisk \in [Dbref -> Entry \cup {NoEntry}]
  /\ textDump \in BOOLEAN
  /\ phase \in Phase
  /\ index \in [Dbref -> Entry \cup {NoEntry}]
  /\ marked \subseteq Block
  /\ bitmap_blocks \in Nat
  /\ last_free \in Nat
  /\ db_clean \in BOOLEAN
  /\ op \in Ops
  /\ op.pc = "write" => op.part < Size[op.contents]

(***************************************************************************)
(* No two objects share a block: db_alloc() never hands out a block of an  *)
(* object that is not the one being put.                                   *)
(***************************************************************************)
BlocksDisjoint ==
  \A d, e \in Indexed(index) : d # e => Run(index[d]) \cap Run(index[e]) = {}

(***************************************************************************)
(* The bitmap covers every block it is asked about, and every block of     *)
(* every object is marked in it.                                           *)
(***************************************************************************)
BitmapCovers ==
  phase # "down" =>
    /\ Used(index) \subseteq marked
    /\ \A b \in marked : b < bitmap_blocks
    /\ last_free < bitmap_blocks
    /\ bitmap_blocks % BYTE = 0

(***************************************************************************)
(* The database implements the map it promises (ObjectMap).                *)
(***************************************************************************)
Nothing == [d \in Dbref |-> NoObject]

Safe == IF clean THEN [d \in Dbref |-> Get(indexDisk, file, d)] ELSE Nothing

Live ==
  CASE phase = "down" -> Safe
    [] phase # "down" /\ op.pc = "write" ->
         [d \in Dbref |-> IF d = op.dbref THEN op.contents ELSE Get(index, file, d)]
    [] OTHER -> [d \in Dbref |-> Get(index, file, d)]

Map == INSTANCE ObjectMap WITH live <- Live, safe <- Safe

KeepsItsPromise == Map!Spec

(***************************************************************************)
(* What the manual says of the start: it fails without a consistent binary *)
(* database or a text dump.  Hence a server in service without a text dump *)
(* has objects on disk, for the root and system objects cannot be          *)
(* destroyed.                                                              *)
(***************************************************************************)
ServesADatabase == phase = "running" /\ op.pc # "rename" => textDump \/ Indexed(index) # {}

(***************************************************************************)
(* What the manual says of text_dump(): a server that stops in the middle  *)
(* leaves the old text dump as it was.  So where there was one to start    *)
(* with (TextDumps = {TRUE}), every process leaves one.                    *)
(***************************************************************************)
TextDumpSurvives == phase = "down" => textDump
=============================================================================
