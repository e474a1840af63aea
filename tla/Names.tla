------------------------------- MODULE Names -------------------------------
(***************************************************************************)
(* The names of objects (lookup.c): an association from names to dbrefs,   *)
(* kept in the ndbm index under a write-back cache.  A name has one slot   *)
(* of the cache; the name that takes a slot writes the one it finds there  *)
(* to the index if it is dirty.  on_disk says that the index has the name, *)
(* so that deleting it must delete it there too.                           *)
(*                                                                         *)
(* The files are those of Db: ndbm may keep a change of the index in       *)
(* memory until it is closed, or write it out at any time before, and the  *)
(* clean file tells the next start whether to trust the index.  Names do   *)
(* not touch the clean file: it goes when an object is written, and comes  *)
(* back when the database is flushed.                                      *)
(*                                                                         *)
(* Mutants are marked as in ObjectStore.                                   *)
(***************************************************************************)
EXTENDS FiniteSets

CONSTANTS
  Name,
  Dbref,
  Slot,      \* 0 .. NAME_CACHE_SIZE - 1
  SlotOf,    \* name % NAME_CACHE_SIZE
  Empty,     \* NOT_AN_IDENT: nobody has the slot
  NoDbref    \* the index does not have the name

ASSUME NamesAssumption ==
  /\ SlotOf \in [Name -> Slot]
  /\ NoDbref \notin Dbref

Entry == [name: Name, dbref: Dbref, dirty: BOOLEAN, on_disk: BOOLEAN]

ASSUME EmptyAssumption == Empty \notin Entry

VARIABLES
  \* The files.
  clean,      \* binary/clean exists and has the right version
  indexDisk,  \* what binary/index holds
  \* The process.
  phase,      \* not there, in service, or where in text_dump() or db_flush()
  index,      \* what ndbm answers
  cache,      \* name_cache
  \* History.
  meant,      \* what each name was last set to, or that it was deleted
  shadowed,   \* names set while the index had them and the cache did not, and
              \* not written since
  returned,   \* names deleted while shadowed
  kept        \* what each name has been to the server since the last flush

files == <<clean, indexDisk>>
history == <<meant, shadowed, returned, kept>>
vars == <<files, phase, index, cache, history>>

Association == [Name -> Dbref \cup {NoDbref}]
NoNames == [n \in Name |-> NoDbref]
NoCache == [s \in Slot |-> Empty]

Cached(n) == cache[SlotOf[n]] # Empty /\ cache[SlotOf[n]].name = n
Dirty(s) == cache[s] # Empty /\ cache[s].dirty

\* What a name expression, or get_name(), makes of a name.
Found(n) == IF Cached(n) THEN cache[SlotOf[n]].dbref ELSE index[n]

\* What a process that trusts its index takes the names to be.
Only(assoc) == [n \in Name |-> {assoc[n]}]

Init ==
  /\ clean = FALSE
  /\ indexDisk = NoNames
  /\ phase = "down"
  /\ index = NoNames
  /\ cache = NoCache
  /\ meant = NoNames
  /\ shadowed = {}
  /\ returned = {}
  /\ kept = Only(NoNames)

(***************************************************************************)
(* The start of a process: init_db() has lookup_open() open the index, or  *)
(* truncate it where there is no clean file, which is then made.           *)
(***************************************************************************)
LookupOpen(contents) ==
  /\ phase = "down"
  /\ indexDisk' = contents
  /\ index' = contents
  /\ clean' = TRUE
  /\ phase' = "running"
  /\ meant' = contents
  /\ kept' = Only(contents)
  /\ cache' = NoCache
  /\ UNCHANGED <<shadowed, returned>>

StartTrusting == clean /\ LookupOpen(indexDisk)
StartAnew == ~clean /\ LookupOpen(NoNames)

\* The process ends, and with it everything in memory.
Crash ==
  /\ phase # "down"
  /\ phase' = "down"
  /\ index' = NoNames
  /\ cache' = NoCache
  /\ meant' = NoNames
  /\ shadowed' = {}
  /\ returned' = {}
  /\ UNCHANGED <<files, kept>>

\* ndbm writes what it has kept in memory, of its own accord.
WriteName(n) ==
  /\ phase # "down"
  /\ indexDisk[n] # index[n]
  /\ indexDisk' = [indexDisk EXCEPT ![n] = index[n]]
  /\ UNCHANGED <<clean, phase, index, cache, history>>

\* db_put() or db_del() writes an object, but not the names.
ObjectWritten ==
  /\ phase \in {"running", "dumping"}
  /\ clean
  /\ clean' = FALSE
  /\ UNCHANGED <<indexDisk, phase, index, cache, history>>

-----------------------------------------------------------------------------
(***************************************************************************)
(* A name that is not in the cache takes its slot.  The old entry is       *)
(* written to the index if it is dirty.                                    *)
(***************************************************************************)
Running == phase = "running"

TakeSlot(n, dbref, dirty, on_disk) ==
  LET s == SlotOf[n]
  IN  /\ ~Cached(n)
      /\ index' = IF Dirty(s) THEN [index EXCEPT ![cache[s].name] = cache[s].dbref] ELSE index
      /\ cache' = [cache EXCEPT ![s] =
                     [name |-> n, dbref |-> dbref, dirty |-> dirty, on_disk |-> on_disk]]

Displaced(s) == IF Dirty(s) THEN {cache[s].name} ELSE {}

\* lookup_retrieve_name(); a name that is in the cache, or not in the index
\* either, changes nothing.
Retrieve(n) ==
  /\ Running
  /\ index[n] # NoDbref
  /\ TakeSlot(n, index[n], FALSE, TRUE)
  /\ shadowed' = shadowed \ Displaced(SlotOf[n])
  /\ UNCHANGED <<files, phase, meant, returned, kept>>

\* Mutant: an entry whose dbref changes is not marked dirty.
CleanlySet(n, d) ==
  /\ Cached(n)
  /\ cache' = [cache EXCEPT ![SlotOf[n]].dbref = d]
  /\ UNCHANGED <<index, shadowed>>

\* lookup_store_name() of a name in the cache, and of one that is not.
SetCached(n, d) ==
  /\ Cached(n)
  /\ cache' = [cache EXCEPT ![SlotOf[n]].dbref = d,
                            ![SlotOf[n]].dirty = @ \/ Found(n) # d]
  /\ UNCHANGED <<index, shadowed>>

SetUncached(n, d) ==
  /\ TakeSlot(n, d, TRUE, FALSE)
  /\ shadowed' = (shadowed \ Displaced(SlotOf[n]))
                    \cup (IF index[n] # NoDbref THEN {n} ELSE {})

Store(n, d) ==
  /\ Running
  /\ SetCached(n, d) \/ SetUncached(n, d)
  /\ meant' = [meant EXCEPT ![n] = d]
  /\ returned' = returned \ {n}
  /\ kept' = [kept EXCEPT ![n] = @ \cup {d}]
  /\ UNCHANGED <<files, phase>>

\* lookup_remove_name(): what is in the cache goes, and what is in the index,
\* unless the entry says that it is not there.  A name that is in neither is
\* not found.
Remove(n) ==
  LET s == SlotOf[n]
  IN  /\ Running
      /\ Cached(n) \/ index[n] # NoDbref
      /\ cache' = IF Cached(n) THEN [cache EXCEPT ![s] = Empty] ELSE cache
      /\ index' = IF Cached(n) /\ ~cache[s].on_disk
                  THEN index ELSE [index EXCEPT ![n] = NoDbref]
      /\ meant' = [meant EXCEPT ![n] = NoDbref]
      /\ shadowed' = shadowed \ {n}
      /\ returned' = IF n \in shadowed THEN returned \cup {n} ELSE returned \ {n}
      /\ kept' = [kept EXCEPT ![n] = @ \cup {NoDbref}]
      /\ UNCHANGED <<files, phase>>

-----------------------------------------------------------------------------
(***************************************************************************)
(* sync_name_cache() writes every dirty entry to the index and leaves all  *)
(* of them clean and on disk.                                              *)
(***************************************************************************)
SyncedIndex ==
  [n \in Name |-> IF Cached(n) /\ Dirty(SlotOf[n]) THEN cache[SlotOf[n]].dbref ELSE index[n]]

SyncedCache ==
  [s \in Slot |->
     IF Dirty(s) THEN [cache[s] EXCEPT !.dirty = FALSE, !.on_disk = TRUE] ELSE cache[s]]

Written == {cache[s].name : s \in {s \in Slot : Dirty(s)}}

\* Mutant: lookup_first_name() does not synchronize the cache.
DumpUnsynced ==
  /\ Running
  /\ phase' = "dumping"
  /\ UNCHANGED <<files, index, cache, history>>

(***************************************************************************)
(* text_dump() begins with the names: lookup_first_name() synchronizes the *)
(* cache, and each name the index lists is retrieved.  Of the names that   *)
(* share a slot and had to be fetched, any may have been the last.         *)
(***************************************************************************)
Fetched(n) == [name |-> n, dbref |-> SyncedIndex[n], dirty |-> FALSE, on_disk |-> TRUE]
Listed(s) == {n \in Name : SlotOf[n] = s /\ SyncedIndex[n] # NoDbref}

DumpNames ==
  /\ Running
  /\ index' = SyncedIndex
  /\ cache' \in [Slot -> {Fetched(n) : n \in {n \in Name : SyncedIndex[n] # NoDbref}}
                           \cup {SyncedCache[s] : s \in Slot}]
  /\ \A s \in Slot :
       IF \A n \in Listed(s) : Cached(n)
       THEN cache'[s] = SyncedCache[s]
       ELSE \E n \in Listed(s) : cache'[s] = Fetched(n)
  /\ shadowed' = shadowed \ Written
  /\ phase' = "dumping"
  /\ UNCHANGED <<files, meant, returned, kept>>

\* Mutant: the cache is not synchronized.
SyncSkipped ==
  /\ phase \in {"running", "dumping"}
  /\ phase' = "syncing"
  /\ UNCHANGED <<files, index, cache, history>>

(***************************************************************************)
(* lookup_sync(), or lookup_close() at the end: the cache is synchronized, *)
(* and closing the index writes it out.  Then db_flush() makes the clean   *)
(* file.                                                                   *)
(***************************************************************************)
SyncNames ==
  /\ phase \in {"running", "dumping"}
  /\ index' = SyncedIndex
  /\ cache' = SyncedCache
  /\ shadowed' = shadowed \ Written
  /\ phase' = "syncing"
  /\ UNCHANGED <<files, meant, returned, kept>>

Flush ==
  /\ phase = "syncing"
  /\ indexDisk' = index
  /\ clean' = TRUE
  /\ kept' = [n \in Name |-> {Found(n)}]
  /\ phase' = "running"
  /\ UNCHANGED <<index, cache, meant, shadowed, returned>>

-----------------------------------------------------------------------------
Next ==
  \/ StartTrusting
  \/ StartAnew
  \/ Crash
  \/ \E n \in Name : WriteName(n)
  \/ ObjectWritten
  \/ \E n \in Name : Retrieve(n)
  \/ \E n \in Name, d \in Dbref : Store(n, d)
  \/ \E n \in Name : Remove(n)
  \/ DumpNames
  \/ SyncNames
  \/ Flush

Spec == Init /\ [][Next]_vars

-----------------------------------------------------------------------------
(***************************************************************************)
(* Properties.                                                             *)
(***************************************************************************)

\* The variables have the values the C types allow.
TypeOK ==
  /\ clean \in BOOLEAN
  /\ indexDisk \in Association
  /\ phase \in {"down", "running", "dumping", "syncing"}
  /\ index \in Association
  /\ cache \in [Slot -> Entry \cup {Empty}]
  /\ meant \in Association
  /\ shadowed \subseteq Name
  /\ returned \subseteq Name
  /\ kept \in [Name -> SUBSET (Dbref \cup {NoDbref})]

(***************************************************************************)
(* A name is found as it was last set, and a deleted name is not found,    *)
(* whatever the cache has written and taken back in between.  One kind of  *)
(* name is left out (returned): it was set while the index had it and the  *)
(* cache did not, and deleted before it was written; its entry said that   *)
(* the index does not have it.                                             *)
(***************************************************************************)
NamesAgree ==
  phase # "down" =>
    \A n \in Name : (meant[n] # NoDbref \/ n \notin returned) => Found(n) = meant[n]

(***************************************************************************)
(* A start that trusts the index finds each name as it was to the server   *)
(* at the last flush, or as it was set or deleted since.                   *)
(***************************************************************************)
StartFindsNames == clean => \A n \in Name : indexDisk[n] \in kept[n]

(***************************************************************************)
(* The walk of text_dump() lists exactly the names that are found, and     *)
(* leaves them as they are found.                                          *)
(***************************************************************************)
DumpListsNames ==
  [][phase' = "dumping" /\ phase = "running" =>
       \A n \in Name : index'[n] = Found(n) /\ Found(n)' = Found(n)]_vars
=============================================================================
