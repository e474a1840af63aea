# A verification model of the ColdMUD server

ColdMUD 0.11 is a programmable multi-user server: persistent objects in an
inheritance hierarchy, written in the language C--, live in a disk database and
pass through a small cache; methods run in interpreter frames, called by
network connections, a heartbeat, and each other. This directory holds TLA+
modules of its parts, configurations that check them with TLC, and proofs that
the TLAPS proof system checks.

1. [The system](#1-the-system)
2. [Modules](#2-modules)
3. [The object cache and the hierarchy](#3-the-object-cache-and-the-hierarchy)
4. [The disk database](#4-the-disk-database)
5. [Connections and the main loop](#5-connections-and-the-main-loop)
6. [Methods: compiler, interpreter, decompiler](#6-methods-compiler-interpreter-decompiler)
7. [Runs](#7-runs)
8. [Proofs](#8-proofs)
9. [What the runs found](#9-what-the-runs-found)
10. [Divergences without a run](#10-divergences-without-a-run)
11. [What is not modelled](#11-what-is-not-modelled)

## 1. The system

The server is one process with one thread. `main_loop()` (main.c) alternates
between freeing dead connections, checking that no object is in use, the
heartbeat, and `select()`. Everything else happens inside calls that the main
loop makes: an event sends a message to an object, `task()` runs the method
until its frame stack is empty, and operators of the interpreter change objects,
connections and files.

| component | state | operations | interacts with |
|---|---|---|---|
| object cache (`cache.c`) | per bucket an active and an inactive chain of holders; reference counts; dirty and dead flags | get a holder, retrieve, grab, discard, check, sync, sanity check | reads and writes the disk database; its `discard` calls back into `object.c` to destroy a dead object |
| objects (`object.c`) | parents and children lists, method table, variables, search stamp; `db_top`, `cur_search` | create, destroy, change parents, ancestor search, method search and cache, define and delete methods and variables | retrieves other objects through the cache at every turn of its loops |
| administrative operators (`adminop.c`) | none of their own | create, chparents, destroy, dumps, shutdown, connection and heartbeat settings | all of the above |
| interpreter (`execute.c`, `*op.c`) | frame stack, argument stack, error handlers, ticks | send and pass messages, return, throw, handle and propagate errors | frames own references to cached objects and methods |
| disk database (`db.c`) | block file, block bitmap, `last_free`, clean file | start, get, put, delete, flush, close | index of `lookup.c` |
| index and name cache (`lookup.c`) | an ndbm file from dbrefs to runs of blocks and from names to dbrefs; a write-back cache of names | retrieve, store, remove, sync, iterate | called by `db.c`, dumps, name operators |
| dumps (`dump.c`) | the file `textdump` | binary dump, text dump, reading a text dump | cache, database, compiler |
| connections (`io.c`, `net.c`, `ioop.c`) | connections with input and output buffers, listening servers, pending connects | accept, read, write, close, connect, flush defunct ones | send messages to the system object, whose methods change the same lists |
| values (`list.c`, `dict.c`, `string.c`, `buffer.c`, `ident.c`, `data.c`) | reference-counted, copy-on-write values; the identifier table | constructors, element and slice operations | everything |
| compiler and decompiler (`grammar.y`, `codegen.c`, `decode.c`) | none that outlives a call | compile, list, find the line of an opcode | methods |
| object files (`dbpack.c`) | none | pack, unpack and size an object | `db.c` calls it to write, read and make room |
| tables of an object (`object.c`) | counted strings and identifiers; methods and variables on threads by hash value | add, discard, look up, grow | the compiler adds, `method_discard()` gives back |

What is hard here is not parallelism, for there is none, but

- **call-backs**: a loop over an object's children retrieves and discards other
  objects; each retrieval may evict or save an object, and a discard may start
  the destruction of one, in the middle of the loop;
- **counting**: a C function, a frame or a loop that holds an object must hold
  exactly one reference to it per pointer, on every path, early returns
  included; the only test is the panic of `cache_sanity_check()`;
- **persistence**: a change lives only if somebody set the dirty flag, and an
  object survives a crash only if several files change in the right order;
- **two-sided data**: parents and children lists must agree, across objects
  of which some are in memory and some on disk;
- **lists walked while they change**: `handle_io_events()` runs tasks from
  inside its walks over connections, servers and pending connections, and the
  tasks mark, add to and reassign what is being walked, with descriptors that
  the kernel hands out again;
- **two readings of one program**: the compiler, the interpreter, the stored
  form, the decompiler and the counting of lines each walk the same opcodes
  with tables of their own; they have to agree on every opcode, and on how high
  the stacks are when an error unwinds them.

PROJECT.json lists these as hazards, each at its line, with the properties that
would catch it going wrong.

## 2. Modules

| module | what it is |
|---|---|
| `ObjectStore` | cache.c as a data structure: each function is an operator from a store to a store |
| `ObjectCache` | EXTENDS ObjectStore: the state machine of frames, operators and loops that use the cache |
| `MCObjectCache` | instances for TLC |
| `ObjectCacheProofs` | what retrieve and discard do to any store; the inductive invariant of ObjectCache and its consequences; destroyed objects go, clean holders agree with what was saved, a restart keeps it |
| `ObjectMap` | abstract specification: a map from dbrefs to objects that survives crashes as of the last dump |
| `Db` | db.c and the dbref half of lookup.c, one step per change of a file; refines ObjectMap |
| `MCDb` | instances for TLC |
| `DbProofs` | the inductive invariant of Db and its consequences; Db implements ObjectMap |
| `Names` | the names half of lookup.c: a write-back cache over the index, with the files of Db |
| `MCNames` | instance for TLC |
| `NamesProofs` | the inductive invariant of Names and its consequences |
| `HierarchyGraphProofs` | EXTENDS ObjectCacheProofs: the hierarchy as a graph, and what each turn of the loops does to it |
| `HierarchyProofs` | EXTENDS HierarchyGraphProofs: parents and children agree, no cycle, no orphan, the loops over them find their objects |
| `Io` | io.c, net.c, ioop.c and main_loop(): descriptors, connections, servers, pending connects, the tasks inside the walks |
| `MCIo` | instance for TLC |
| `IoProofs` | the inductive invariant of Io and its consequences |
| `Syntax` | the parse tree: the constructors the grammar and the decompiler call |
| `Tables` | the tables of an object: strings, identifiers, methods, variables |
| `Codegen` | EXTENDS Syntax, Tables: codegen.c, from a tree to opcodes in the instruction buffer |
| `Assemble` | EXTENDS Syntax, Tables: `final_pass()` of codegen.c, from the buffer to a method of an object |
| `Decode` | EXTENDS Codegen: decode.c, from opcodes to a tree, to tokens, and to line numbers |
| `Grammar` | EXTENDS Syntax: grammar.y, from tokens to a tree |
| `Interp` | EXTENDS Tables: the interpreter, one action an opcode |
| `Pack` | EXTENDS Tables: dbpack.c, an object as bytes, its size, and back |
| `Meaning` | EXTENDS Interp, Syntax: what a program means, read off its tree: the abstract specification of compiling, storing and interpreting |
| `Heights` | EXTENDS Tables: how high the stacks are at each opcode, computed from the code alone |
| `Program` | EXTENDS Interp, Assemble: the life of an object's methods: compile, store, run, delete |
| `MCProgram` | EXTENDS Program, Syntax: the programs, and INSTANCEs of Decode, Grammar, Pack and Meaning |
| `TablesProofs` | what each operation on an object's tables does to them, and what `final_pass()` makes |
| `ProgramProofs` | what the interpreter's limits bound; the tables are exact |

`ObjectCache` and `Db` meet at `db_get()`, `db_put()`, `db_del()` and
`db_flush()`. `ObjectCache` sees the database as the function `store.disk`;
that `Db` provides such a function is what its refinement of `ObjectMap` says.
`Db` and `Names` share the index file and the clean file: what `Db` does to the
clean file when it puts or deletes an object is `ObjectWritten` in `Names`, and
their `Flush` is the same.
`Interp` has one object and no cache: what a frame does to the objects it holds
is `ObjectCache`'s `SendMessage`, `PassMessage` and `FrameReturn`, and what it
does to the data stack is `Interp`'s. `Io` sees a task as a sequence of the
calls that touch connections; that every task ends is `TaskEnds` of `Program`.

A definition whose comment begins with "Mutant" is no part of a specification:
it is the definition that follows it with one plausible mistake in it.
PROJECT.json names, for every property of every passing run, a mutant that the
property catches.

## 3. The object cache and the hierarchy

### State

`store` is a record: `obj[h]` the structure a holder contains, `active[b]` and
`inactive[b]` the chains of bucket b, `heap` the holders allocated, `disk` the
image of each object the database has. The inactive chain is a sequence,
because its order decides who is evicted; the active chain is a set, because
nothing in cache.c depends on its order. An object's parents and children are
sequences of dbrefs; its method and variable tables are opaque values of which
only equality matters.

`frames` holds, per interpreter frame, what `cur_frame->object` and
`cur_frame->method->object` point to. `pending` holds the references a C
function has still to give back. `call` is the loop that is under way.

### Steps

An operator that makes several cache calls without a loop in between is one
action and composes the store operators in the order of the code (`Create`,
`Destroy`, `SendMessage`, ...). A loop whose turns retrieve and discard other
objects is a state machine, one action per turn:

| `call.pc` | loop | actions |
|---|---|---|
| `method` | `object_find_method()` visiting ancestors | `VisitAncestor`, `MethodFound`, `SearchEnds` |
| `check` | `object_change_parents()` testing the new parents | `CheckParent`, `Reject`, `ParentsChecked` |
| `search` | `object_has_ancestor_aux()` | `SearchAncestor`, `AncestorAbsent` |
| `leave`, `adopt` | `object_update_parents()`, taking the subject off or putting it on children lists | `TellParent`, `SetParents`, `LeftParents`, `Adopted` |
| `kids` | `object_destroy()` telling the children | `TellKid`, `Buried` |

`cache_discard()` with the last reference to a dead object (`Dies`) unlinks it,
deletes it on disk and calls `object_destroy()`, so that every discard of a
dead object starts the loops of `leave` and `kids` (`Die`, `DropReference`), and
only then does the holder go back to the inactive chain as an empty one
(`Bury`). The references the caller was about to give back wait in `pending`.

Which method a message finds depends on method tables and the method cache;
here the search may find it at any ancestor it visits, or not at all.
`VisitAncestor` may even visit any object at all: `list_last()` of the root's
empty parents list points in front of its elements, and the search reads a
dbref from there.

`crashed` stands for the undefined behaviour after a NULL object or a list
index of -1 is passed on. `LoopsFindTheirObjects` says that does not come to
pass, and `HierarchySymmetric` why.

### Faithfulness notes

- `list_new()` never sets `list->start`, which every access adds. The model
  takes it to be 0, as do all lists' users.
- The reference counts of lists are not modelled, so that one suspicious place
  is out of its reach: `search_object()` discards the object's own parents list
  where it means its copy. The counts of methods are in `Tables` and `Interp`.
- `db_top` is computed anew at a restart from the objects on disk.
- `AssignVar` does not set the dirty flag, nor does `SetParents` for the
  object itself, nor `NewObject`: so does the code.

### Fairness

`OperationsFinish` is the only liveness property, checked under `FairSpec`: weak
fairness of `Continue`, the next turn of the loop under way. A C function that
is running goes on running: the thread does not wait for anything inside these
loops. No fairness is assumed of operations, of method searches finding
something, or of restarts.

`Fairness` writes the condition out instead of using `WF_vars`, whose `ENABLED`
dominates the time TLC takes. `Busy` is where `Continue` is enabled: its actions
all need a loop or a pending reference, no operation begins while there is one,
and the run finds no deadlock.

## 4. The disk database

`Db` models the files (`clean`, `file`, `indexDisk`, `textDump`) and the
process (`phase`, `index`, `marked`, `bitmap_blocks`, `last_free`, `db_clean`,
`op`). The process can end after any change of a file, hence `db_put()` is
`Put` (the clean file goes), `PutStores` (blocks are chosen, the index gets the
entry), `PutWrites` (one block at a time); `db_del()` is `Delete`,
`DeleteDirties`, `DeleteKills`; `text_dump()` is `TextDump` and
`TextDumpRenames`. What a function only does in memory belongs to the step
before the next change of a file.

ndbm keeps changes in memory: `index` is what it answers, `indexDisk` what a
new process would find, and `WriteIndex` copies one entry at any time. Closing
the index, which `lookup_sync()` does, copies all.

A block holds the i-th part of an object. An object read back is right only if
all its parts are there in order; anything else is `Garbage`, which is not an
object, so that the refinement fails if `db_get()` could ever meet it.

`ObjectMap` is what the cache relies on. `live` is what `db_get()` answers and
`safe` what the next start finds. Changes require that `safe` was given up
before; a dump makes `safe` equal to `live`; the end of the process makes
`live` equal to `safe`. Deletion alone is allowed to reach `safe` (`Forget`),
because `db_del()` removes the entry before the clean file: the manual does not
say what a crash there leaves, the code does, and the abstract specification
says it openly. What it still excludes is that a crash loses or corrupts any
other object. The mapping: `Safe` is the database read through `indexDisk` if the clean
file exists, and nothing otherwise; `Live` is read through `index`, except that
an object being put counts as there from `PutStores` on.

Assumptions about the environment: the end of the process is not the end of the
machine (what `write()` was given stays), a single block is written at once,
and so is the clean file. The last block of the file may be partial, so that
`Extent` may come out one less (`StartTrusting` takes both).

### Names

`Names` has the other half of lookup.c. `cache` has an entry or `Empty` in each
slot; `index` and `indexDisk` are as in `Db`, restricted to names.

| action | code |
|---|---|
| `StartTrusting`, `StartAnew` | `lookup_open()`, called by `init_db()` |
| `Retrieve` | `lookup_retrieve_name()` where it changes anything: a name in the index that takes its slot |
| `Store` | `lookup_store_name()`: `SetCached`, or `SetUncached` that takes the slot |
| `Remove` | `lookup_remove_name()` where it finds the name |
| `DumpNames` | the walk over the names in `text_dump()` |
| `SyncNames`, `Flush` | `lookup_sync()` or `lookup_close()`, then the clean file |
| `ObjectWritten` | an object is put or deleted: the clean file goes |
| `WriteName`, `Crash` | ndbm writes of its own accord; the process ends |

Setting a name never removes the clean file. What a start may then find has to
be said carefully: `kept` collects, for each name, what it was at the last flush
and everything it was set to since. `StartFindsNames` says a trusting start
finds one of these, and so never what had been given up before the flush.

`meant` is what a name was last set to. `NamesAgree` says that this is what is
found, with one exception that the code makes. `lookup_store_name()` marks a new
entry as not on disk (lookup.c:198) although the index may have the name, from
before it lost its slot. If the name is then removed before the entry is
written, the index keeps it (213), and the name comes back with its old dbref.
The history variables `shadowed` and `returned` follow such names by what
happened to them and not by what their entry says; `NamesAgree` holds for all
others.

## 5. Connections and the main loop

`Io` is one process: `main_loop()`, the walks it makes, and the tasks that run
from inside them. The kernel and the peers are the nondeterminism.

`connections`, `servers` and `pendings` are the three lists of io.c, `conn`,
`server` and `pend` the records in them. A connection and a server are known by
their descriptor, which is theirs alone (`DescriptorsOwned`); a pending
connect outlives its descriptor and has a record number. `open` is the set of
descriptors the kernel has given out: the next one is always the lowest free
one, so that a descriptor closed in one list soon turns up in another.

`pc` says where the loop is, `todo` what the walk has still to visit. New
records go to the head of a list and only `flush_defunct()` takes any out, so
that a walk is a suffix of its list as it was when the walk began.

| `pc` | code | actions |
|---|---|---|
| `top` | `while (running)`, and the output written after it | `LoopTop` |
| `flush` | `flush_defunct()`: dead connections without output | `FlushConnection`, `FlushSockets` |
| `close` | the end of `connection_discard()`, after the disconnect task | `CloseConnection` |
| `wait` | `io_event_wait()` with `select()`, `accept()`, `getsockopt()` | `NoEvent`, `SomeEvents` |
| `conns`, `write` | `connection_read()`, `connection_write()` | `Read`, `Write`, `ConnectionsDone` |
| `servers` | a connect task per client | `Accept`, `ServersDone` |
| `pends` | a connect or failed task per attempt that is over | `Answer`, `PendingsDone` |
| `beat` | the heartbeat | `Heartbeat` |
| `task` | `task()`: at most `MaxCalls` calls of `echo`, `boot`, `conn_assign`, `bind`, `unbind`, `connect`, `set_heartbeat_freq`, `shutdown`, then back | `Echo` ... `Shutdown`, `TaskEnds` |

Output is a number of units, not bytes: what matters is whether any is left.
`echo()` is not called when a connection's buffer is at its bound; that bound
is the model's, the code's buffer grows. `owed` is a history variable: what
`echo()` accepted for a connection and `write()` has not taken.

`ClosedOwesNothing` is about the order of output and the end of a connection:
what was accepted was written before the record goes, or the peer was lost.
`ConnectAnswered` is the promise of `connect()` in the manual: a message in
the end, whatever happened. It is stated with its exception, an attempt that
failed at once (section 10).

### Fairness

`FairSpec` assumes weak fairness of `Loop`: the thread goes on, a task ends,
`select()` with a timeout returns. A `select()` without a heartbeat may wait for
ever and is not assumed to return; hence `DeadReported` and `ShutdownEnds` are
stated with a heartbeat, and without one they are false. Of the peers it assumes
that each connection with output is writable again and again (`Writable`, else
it fails, which is the third disjunct of `Write`), and that an attempt to
connect is over in the end (`AttemptOver`): the kernel times it out. Both are
strong fairness because `pc = "wait"`, where the kernel speaks, comes and goes.

## 6. Methods: compiler, interpreter, decompiler

A method's text becomes tokens (not modelled), a tree (`Grammar`, `Syntax`),
opcodes with entries in the object's tables (`Codegen`, `Assemble`, `Tables`),
bytes in the
database (`Pack`), a tree and a text again when it is listed, and a line number
when an error is reported (`Decode`). In between it runs (`Interp`). `Program`
puts these together as the life of one object's methods:

    compile each method, in order      Compile     op_compile()
    write the object and read it back  Store       pack_object(), unpack_object()
    run main in a task                 Run, Running
    delete the methods, in any order   Delete      op_del_method()

`Codegen`, `Decode`, `Grammar`, `Pack` and `Meaning` are recursive, as the code is;
`Program` takes what it needs of them as constant operators, to which `MCProgram`
gives the definitions. The theorems about `Program` hold for any such operators;
of the code generator they assume that what is in its buffer is whole
instructions (`GlobalsAssumption`, which TLC evaluates for every program of
the run). Of the tables, what the code does with a `while` over slots or opcodes
is a recursive function, about which proofs are possible: `Thread` lists the slots
of a thread and then zeros, `OpPositions` and `ArgsOf` go from opcode to opcode.

### The interpreter

A frame has its method, position, ticks, the height of the caller's stack
(`stack_start`), its arguments and variables (`var_start`), error action
specifiers and handlers. The data stack, the stack of argument starts and the
error under way are global, as in the code. One action is one opcode with all
its checks and errors; `Throw` leaves the operands where they are and sets
`raised`.

`propagate_error()` is a loop over frames. `PropagateError` is one turn of it: it
cuts the specifiers up to the one that handles the error, or returns from the
frame and goes on in the caller. Nothing else happens between the turns, since
every opcode requires that no error is under way.

What an opcode does to numbers, strings and lists is done to TLA+ values; the
order of strings is given by `Order`, and strings that differ in case only are
left out.

### The properties

- `RunsAsWritten` compares the object's variables after the task with `Meaning`:
  a second, direct reading of the tree in which `exit` says how a part ended.
  It shares no jump, stack or specifier with the code generator and the
  interpreter, so that compiler, storage, interpreter and error propagation have
  to be right together.
- `StackAsCompiled` compares the stack, at every step, with `Heights`, which
  finds the heights from the opcodes alone. The compiler relies on this
  discipline and the interpreter never checks it; an error that unwinds to the
  wrong height shows here first.
- `ListingIsSource`: the listing, parsed and compiled, is the method again;
  with the least parentheses and with all of them.
- `LinesAgree`: the line computed from opcodes is the line of the listing.
- `TablesExact`: strings and identifiers are counted once for each use by a
  method in the table or running; every slot is on exactly one thread.
- `PackRoundTrip`: what is read back is what was written, and the size asked
  for is the size written.
- `TaskEnds`: each task ends, under the fairness that `execute()` goes on.

## 7. Runs

TLC, on these instances:

| run | instance | states | checks |
|---|---|---|---|
| `evict` | one bucket, one empty holder, dbrefs 0..2, four holders, one frame | 123125 | chains, reference counts, the sanity check, dirty flags, the delayed destruction |
| `save` | one bucket, dbrefs 0..1, two method tables, two values of variables, two frames, one restart | 245760 | pointers of nested frames, what a restart keeps |
| `hierarchy` | four buckets, dbrefs 0..3, parent lists (0), (1), (3), (2,3), (2,2), fairness | 260680 | symmetry, acyclicity, no orphans, loops find their objects and end |
| `crash` | two dbrefs, objects of one or two blocks, four blocks, bitmap growing by two | 1199471 | blocks never shared, bitmap, refinement of ObjectMap through crashes and restarts |
| `names` | three names, two of them in one slot, two dbrefs | 289748 | names are found as set and deleted, at once, after a restart and in a text dump |
| `io` | two descriptors, one port, one handler, one unit of output, two calls a task, fairness | 58134 | who owns a descriptor, walks, the current connection, ports, output, answers, and that dead connections, attempts and the server end |
| `code` | 433 programs, fairness | 10759 | the properties of section 6 |
| `leak`, `dump`, `assign`, `start`, `textdump` | small instances | | one violated property each, see section 9 |

### Bounds

The names of the bounds are `MaxDbref`, `MaxFrames`, `MaxRestarts`, the number
of holders, and `MaxBlocks`; `MaxFd`, `MaxOutput` and `MaxCalls`; and the
programs of `MCProgram`. In `evict` and `save` every object shares one
bucket, so that every discard makes its object the next victim; a second
bucket would only relieve the pressure. Four holders are enough for every
object to be active at once while a destroyed one is still held. `hierarchy`
has four objects because a cycle of three besides the root, and a child with
two parents of which one is destroyed, need four; each bucket has one object,
since eviction is the matter of `evict`. `MaxFrames` is one where the
properties do not speak of frames that call each other. In `crash` four blocks
hold two large objects; a move then has to reuse what a deletion or another
move gave back, and the bitmap grows while a run is being counted. `BYTE` is 2
where the code has 8, so that growing by whole bytes still takes several steps.
`names` needs two names in one slot, for one to displace the other, and two
dbrefs, for a name to be set again; the third name is alone in its slot.

`HolderSymmetry`, `DbrefSymmetry` and `NameSymmetry` are sound: holders are told apart by
nothing before they are handed out, and `CHOOSE` among them picks one of
several that no property distinguishes; dbrefs of `Db` are keys of the index
and nothing else; `NameSymmetry` permutes the names that share a slot, and dbrefs. The `hierarchy` run does without symmetry.

Two action constraints leave out steps that cannot matter in their runs.
`NoDump` (hierarchy): where every object has a bucket of its own, no
object is evicted while its dbref lives, and a dump only refreshes copies that
nobody reads. `NoIdleWrites` (crash): without a clean file no start reads the
index, so the partial states of `indexDisk` are irrelevant until a flush
rewrites it whole.

`CHECK_DEADLOCK` stays on in all runs but one; the end of a crashed server in
`ObjectCache` is an explicit stuttering step (`Halted`), that of a program's life
is `Done`, so that a frame that could not go on would be found as a deadlock.
Only `io` switches it off: a server that has been shut down has exited.

`io` has two descriptors because every conflict over one needs a holder and a
taker; with two, a connection, a server and a pending connect already compete,
and one closed by one list is opened by another. Two calls a task are enough for
`unbind` and `bind`, `boot` and `connect`, `shutdown` and anything. The safety
properties hold for every number of descriptors, ports and calls by section 8;
the bounds matter to liveness only. `NoFd`, -1 and NULL in the code, is no
descriptor.

The programs of `code` are every pair of 17 expressions, one nested in the other
on the left and on the right (289), every pair of 12 inner and 9 outer
statements (108), and 36 programs with calls, errors, limits, splices and errors
of compilation. A pair is where two constructs meet: a precedence that is
wrong between two operators, a jump out of one construct into another, a
specifier that survives the statement it belongs to. `STARTING_SIZE` is 1 and
`MALLOC_DELTA` 0, so that tables grow with nearly every entry; `METHOD_TICKS` is
160, more than any program takes but two that are there to run out;
`MAX_CALL_DEPTH` is 2. `Hash` is the length of a name, so that names collide.
`CLASS_READ` and `POINTER` stand for what the code reads or writes where it has
an undefined value (section 10).

## 8. Proofs

All theorems hold, under the hypotheses named here, for every value of the
constants that the ASSUMEs of the modules allow: any cache geometry, any number
of objects, frames, restarts, any set of parent lists, any sizes and any growth
of the bitmap.

### ObjectStore

`RetrieveFound`, `RetrieveMissing`, `DiscardEffect`, `DeathEffect` say what the
two basic operations do to a store whose chains are intact (`ChainsOK`): a
retrieval adds exactly one reference, to the right object, whether it was
active, inactive or on disk, and whatever it had to evict; a discard takes
exactly one away; the last discard of a dead object removes it everywhere. The
state-machine proofs rest on these and never open the chains again.

### ObjectCache

The inductive invariant is

    IInv == TypeOK /\ CallShape /\ ChainsOK(store) /\ RefsEnough /\ VictimGone
              /\ DeadHeld /\ DbTopUnused /\ RootsSafe

- `CallShape`: which fields of `call` a loop uses; without it a step cannot
  know that it holds the object it discards.
- `RefsEnough`: every holder has at least as many references as there are
  pointers to it. "At least", because `chparents(x, [])` leaks one
  (section 9); equality is then proved under the assumption that the empty list
  is not among `ParentLists`. "At least" is already what safety needs: what a
  pointer denotes is active and cannot be evicted.
- `DeadHeld`: a dead object that a loop holds is held by someone else too. This
  keeps `object_destroy()` from being entered inside itself. It is inductive
  because only `op_destroy()` marks an object dead, when a frame holds it.
- `VictimGone`, `DbTopUnused`, `RootsSafe`: the object being destroyed is in no
  chain and not on disk; new dbrefs are unused; the two objects a start needs
  are never destroyed.

From it: `TypeCorrect`, `ChainsStayConsistent`, `VictimStaysUnlinked`,
`DestroyNeverNested`, `FramesKeepTheirObjects`, and, unless the empty parents
list is used, `ReferencesExact` and `SanityChecked`.

The same module goes on with three more results.

`DestroyTakesEffect`: an object marked dead is in the cache only while
something points to it, from `RefsExact` and so under its assumption.

`SavedObjectsCurrent`: an object that is on disk stays there until it is
destroyed (`DiskKept`, of every step), and whenever its holder is clean the disk
has its current children and methods (`CleanIsSaved`), so that
`cache_get_holder()` may reuse the holder without a write. An object that was
never saved is outside of it: `object_new()` makes a clean holder with nothing
on disk, which is what the run `dump` shows. `AllSaved` is inductive together
with `IInv`. What the proof shows of the code is one fact for each
operator of the store: none changes these two fields, or the disk image of an
object other than the one it evicts or deletes, without setting the dirty flag.

`RestartKeeps`: an orderly restart keeps the methods and children of every
object the new process has. It is a statement about one step: `cache_sync()`
writes what `AllSaved` leaves to write, and the boot that follows changes
nothing, since a cache without dirty objects evicts without writing.

### The hierarchy of ObjectCache

Here the theorems have two hypotheses. `Roomy`: every bucket has at least as many
holders as there are dbrefs that hash to it. And they speak of the states before
the first restart (`restarts = 0`). Without these the statements are false, of
the code as of the model: `object_new()` and `object_change_parents()` do not mark
the object dirty (section 9, `dump`), so an eviction or a restart brings back an
object without the parents that count it among their children, or none at all.
`Roomy` is a condition on three constants, and the run `hierarchy` meets it.

    HInv == IInv /\ Neat(store, call.victim)
              /\ (FirstRun => Ordered(Hierarchy, TheLoop))
              /\ (FirstRun /\ <<>> \notin ParentLists => Rooted(Hierarchy))

- `Neat` is why nothing is evicted: no holder leaves the bucket that
  `init_cache()` put it in, except for that of the object being destroyed, and
  the holders without an object are last in their chain, where
  `cache_get_holder()` takes from. `RoomLeft` counts: a dbref without a holder
  finds an empty one.
- `Hierarchy` is the two lists of every object, wherever it is, the one being
  destroyed included; `TheLoop` is `call` in dbrefs. So the argument has two
  halves: what each turn of a loop does to a graph, without the cache
  (`...Ordered`, in `HierarchyGraphProofs`), and that each action, with its
  retrievals and discards, is one such turn or changes no list (`...Holds`).
- `Ordered` holds at every turn of every loop. `Named` and `Listed` count an edge
  from its two ends and take account of what the running loop has still to tell:
  the parents lists and the children lists agree once that is added or
  subtracted. `CastOK`, `TellsOK`, `WantedOK` and `SearchOK` say who takes part
  in a loop, that whoever is still to be told exists, and that the new parents
  checked so far are not below the object.
- `Acyclic` is stated without paths: p is not below d if there is a set that has
  p, has the parents of each of its elements, and does not have d. When
  `object_has_ancestor()` ends, what it has seen is such a set. `Rooted` says
  that the root is in each such set that has an object.
- `Ancestry`, with which the properties are stated, is a recursive function. A
  function with that definition exists (`AncExists`), stays inside each such
  set, and is one after as many steps as there are dbrefs (`AncClosed`), because
  each step that adds nothing is the last.

From it: `HierarchyStaysSymmetric`, `HierarchyStaysAcyclic`, `LoopsFindObjects`,
`LoopsNeverFatal` (no turn of these loops passes on a NULL object or an index of
-1) and, for non-empty parent lists, `NobodyOrphaned`.

### Db

    IInv == TypeOK /\ Separate(index) /\ Bitmap /\ Flags /\ DiskGood /\ Lag
              /\ Resting /\ Removed /\ Dirtied

`Separate` and `Bitmap` are the properties; the rest carries them over crashes.
A start trusts `indexDisk`, so that must be as good as `index` whenever the
clean file exists (`DiskGood`); ndbm may write an entry at any time, which is
harmless then because the two copies differ only in a deletion that has begun
(`Lag`), because whoever changes an entry has removed the clean file before
(`Flags`, `Dirtied`). A deletion unmarks blocks one step after the entry is
gone; `Removed` says they are still nobody else's.

From it: `TypeCorrect`, `BlocksNeverShared`, `BitmapAlwaysCovers`. The proofs
use the library's well-founded order on Nat to show that `Min` and `Max` of a
set of numbers, with which first fit and the bitmap's size are written, are
what their names say.

The proof of `PromiseKept` adds where `IInv` says "these are its blocks" that the object is
in them (`LiveGood` for the index in memory, `SafeGood` for the one on disk
while there is a clean file), and that the writes of `db_put()` and `db_del()`
hit no other object and nothing that is safe (`Writing`, `Killing`). With that,
each action is shown to be one step of `ObjectMap` or none, under the mapping
`Live`, `Safe`: `PromiseKept`. That no two objects share a block is what makes
a write harmless to the others, and that `db_get()` reads the right object back
is part of the theorem, since the map holds objects and not garbage.

### Names

    IInv == TypeOK /\ CacheOK /\ SyncingOK /\ KeptOK /\ FoundOK /\ DownOK

`CacheOK` is what an entry means: a clean one is on disk and is what the index
has, `on_disk` is never set without reason, and an entry that denies being on
disk while the index has its name is shadowed. `KeptOK` carries
`StartFindsNames` through ndbm's own writes: it says of `index` and of what is
found what the property says of `indexDisk`. `SyncingOK`: nothing is dirty when
the index is closed, so that what the clean file vouches for is what is found.
From it, for any sets of names, dbrefs and slots: `NamesAlwaysAgree`,
`StartAlwaysFindsNames`, `DumpAlwaysListsNames`.

### Io

    IInv == types /\ TodoOK /\ Owned /\ CurOK /\ PortServedOnce /\ OwedOK
              /\ PendingsOK

- `TodoOK`: what a walk has still to visit is in its list, each record once,
  wherever the walk was interrupted by a task. It holds because a task only
  adds to the head of a list.
- `Owned` is `DescriptorsOwned` without the connection that is being closed;
  `CurOK` says that this one alone may be current and out of the list.
- `OwedOK`: what is owed to a connection is what its buffer holds. With it a
  connection that is flushed, and so has an empty buffer, is owed nothing.
- `PendingsOK`: how far a pending connect has come at each place of the loop. A
  record that is finished when `flush_defunct()` comes was finished in the
  `select()` before, and the walk over pendings has been in between, unless the
  server is shutting down or the attempt failed at once.

From it: `IoTypeCorrect`, `SocketsOwned`, `WalksSafe`, `CurConnSafe`,
`PortsUnique`, and the action properties `NothingOwed` and `ConnectsAnswered`.
`Kept`, the list without some of its records, is a recursive function; that it
keeps order and drops nothing else is shown by taking the least counterexample.

### The interpreter's limits

`InterpreterBounded` and `ProgramBounded`: whatever the methods are and
whatever a compiler makes of them, no task has more than `MAX_CALL_DEPTH + 1`
frames or a frame without a tick. Each step does one of four things to the
frames (see the module's head). The strengthening `Limited` adds that no error
is under way without a frame: `PropagateError` works on the current frame.

### The tables of an object

`TablesStayExact`: for every hash, starting size, growth and program, whatever is
compiled, stored, run, interrupted by errors and deleted, each string and each
identifier of the object is counted once for each use of it by a method that is
installed or in a frame, and each slot of the method and variable tables is on
exactly one thread, the right one. So nothing that a method still uses is
discarded, nothing that no method uses is kept, and a name that is in a table is
found. Two hypotheses: `HashOK`, that the hash of a name is a number, and
`[]PackRoundTrip`, that an object that is written comes back as it was. `Pack` is
recursive, and what it does is left to TLC.

The inductive invariant is

    Kept == Limited /\ Holding /\ ToCompile(todo)
              /\ (phase = "compile" => no frame, and fresh variables)
    Holding == Right(object, Held(frames), <<>>, <<>>), and no frame lacks a method
    Right(o, held, strings, idents) ==
        IsObject(o) /\ MethodTable(o.methods) /\ TableLinked(o.vars)
          /\ KeptWith(o, InstalledIn(o.methods) \cup held, strings, idents)

- Threads. `Chained` sees a table as lists of which each begins at the head of a
  bucket or at the blanks, in terms of ranks that fall along a list; so that a
  slot is on one list only, and a list ends, without a word about how
  long it is. Pushing a slot (`Pushed`), taking the first (`HeadUnlinked`) or
  another (`CellUnlinked`) leaves the other lists alone, which gives
  `AddSlotLinks`, `FreeSlotLinks`, and by one induction over the slots `GrownLinks`
  for the table that is made larger and hashed again. `LinkedThreads` goes from
  ranks to what the property says of threads, by walking along them (`ThreadWalks`).
- Contents. `AddSlotKeeps`, `FreeSlotKeeps`: a pair of name and item comes or goes,
  and nothing else. No name is in the method table twice (`Unique`), so that a
  name is gone with its slot, and the method that is compiled next is the only
  one of that name.
- Counts. `CountedWith` is the count of an entry in the middle of an operation:
  the uses by methods, and by what is pending, the strings and identifiers that
  `final_pass()` has added for a method that is not yet in the table, while the
  old method of that name is discarded (`MadeKeeps`, `DelKeeps`, `AddKeeps`).
  `FinalPassIs` says that what the new method is going to discard some day is
  what was added for it, in number and place: the names it declares and the
  arguments in its code, read back from the opcodes with the indices in place of
  names (`TranslateIs`, `ArgsTranslate`).
- Holders. A method is discarded when the last of table and frames lets it go:
  `Held` loses a method in `frame_return()`, the table in `object_del_method()`.
  Each opcode assigns variables only (`Reassigned`), starts or ends a frame, or
  deletes a method.

The induction over n is over sets: a set of numbers with 0 and with the
successor of each of its elements has them all (`Induct`), which needs no operator.
That the recursive functions of `Tables` have values is `StepsExist` and
`GathersExist`.

### Only model-checked

Liveness, which is out of the prover's reach: `OperationsFinish`,
`DeadReported`, `AttemptsEnd`, `ShutdownEnds`, `TaskEnds`. Of the properties of
`code`, those about recursive definitions, for which the prover has no induction:
`RunsAsWritten` (`Codegen`, `Meaning`), `PackRoundTrip` (`Pack`), `ListingIsSource` and
`LinesAgree` (`Decode`, `Grammar`); and `StackAsCompiled`, which holds of code that
the compiler generates and not of any code whatever.

## 9. What the runs found

- **`leak`**: `op_chparents()` with an empty list returns without giving back
  its reference. The next turn of the main loop panics in
  `cache_sanity_check()`.
- **`dump`**: a new object, or one whose parents were changed, is not dirty
  itself; `binary_dump()`, which "writes out all modified objects", leaves it out.
- **`assign`**: assigning to an object variable that has a slot does not set
  the dirty flag; the value is lost with the next eviction.
- **`start`**: `init_db()` declares the files it has just emptied clean before
  the text dump is opened. A server that fails to start for want of a text
  dump starts the next time, with nothing in its database.
- **`textdump`**: `text_dump()` unlinks the old dump before it renames the new
  one, although the manual promises that a crash leaves the old one.

## 10. Divergences without a run

Reading the code for the model showed more that is wrong, or looks so. These
places are modelled as they are where the model reaches them, and kept out of
the instances by a named condition where a property would only repeat them.

Interpreter:

- An error between `START_ARGS` and the opcode that takes the arguments leaves
  its argument start behind: `[1, (| [2, 1 / 0] |)]` builds the wrong list.
  `RunsAsWritten` and `StackAsCompiled` look at tasks without one left
  (`arg_starts`).
- `break` and `continue` inside a `catch` leave its specifier on the frame, for
  the compiler never sets `catch_level`; a handler entered from a handler leaves
  the inner one's information behind. No program of the run does the first;
  `StackAsCompiled` allows for the second.
- `op_frob()` reads the class after the union that holds it was overwritten
  (`CLASS_READ`); `op_message()` frees a frob that may be shared;
  `op_throw()` and `op_rethrow()` use arguments after `frame_return()` has
  discarded them (errorop.c:55).
- `op_splice()` (syntaxop.c:755) copies the elements of its list to a place on
  the stack that depends on a variable it never sets, and never counts it up.
  Only a splice at the front of a list escapes it (`SPLICE_ADD`,
  codegen.c:1135): the manual's own example, `['foo, @a, 'quux]`
  (doc/coldmud.texi:1967), and every splice among the arguments of a call are
  undefined. No program of the run executes one.
- `frame_depth` is tested before it is incremented and with `>`: one frame more
  than the limit. `for` over a range increments past the largest integer.
- `op_in()` (arithop.c:303) looks for the second string in the first.
- When ticks run out after `anticipate_assignment()` (execute.c:232), the object
  variable that was to be assigned is left 0.
- Errors of a statement's own opcode are reported one line late.

Decompiler: an empty statement as the body of `if`, `for` or `while`; literal
dbrefs (a missing `break`, decode.c:767; the predicate `Listed`); a frob as an
operand; a `switch` without a default, counted as if it had one; a block with
only a comment. None of these is among the programs, apart from the dbref.

Object files: `pack_data()` lacks a `break` after strings and writes the
string's address as well (dbpack.c:79), which is neither read nor counted
(`NoStringValues`); `unpack_data()` writes a frob through a pointer it has not
set.

Connections:

- A `connect()` that fails at once is finished without an event. If `select()`
  then reports nothing, `flush_defunct()` frees it unreported (net.c:115,
  io.c:90), against doc/coldmud.texi:3924, and its descriptor is never closed.
- `get_server_socket()` does not close the socket when `bind()` fails (net.c:55).
- `op_connect()` goes on after an error (adminop.c:427); `op_bind()`,
  `op_unbind()` and `op_set_heartbeat_freq()` leave the stack one too high or
  too low; `conn_assign()` without a connection answers 0.

Names: a deleted name can come back with its old dbref (section 4, Names),
although doc/coldmud.texi:1296 says that `del_name()` deletes the association.
`NamesAgree` says exactly when.

## 11. What is not modelled

- The scanner (`token.c`), the contents of a text dump, formatting and the text
  of errors: sequential translations without state that outlives the call.
- `DICT`, `BUFFER` and `SPLICE` in `Interp` and `Meaning`. `SPLICE`, a splice
  that is not at the front of a list, is compiled, stored and listed in methods
  that nobody calls (section 10); a front splice also runs.
  Nor are dictionaries, buffers and the functions on strings and lists modelled,
  which check their arguments and call a function on values. Values are TLA+
  values: the shared,
  copy-on-write representations of `list.c` and `dict.c`, and the identifier
  table, are not modelled.
- The order of a method search over several parents, and the method cache
  (`object.c`): `ObjectCache` leaves open what a search finds, `Interp` has one
  object.
- `cur_search`, the search stamp that the clean file stores: the visited set of a
  search (`call.seen`) stands for it.
- Failing system calls of the database: every one ends in `panic()` or
  `fail_to_start()`, and `Crash` covers the end, but not the binary dump that
  `panic()` makes on its way.
- The bytes of input and output, telnet line editing, the host name lookup;
  signals.
- `match.c` is string processing and `regexp.c` third-party code; memory
  allocation and logging have no state the rest depends on.

PROJECT.json says for each component which of its operations are modelled, and
for each hazard that no property covers why.
