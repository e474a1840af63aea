---------------------------- MODULE NamesProofs ----------------------------
(***************************************************************************)
(* Theorems about Names: for every set of names and dbrefs, every number   *)
(* of slots and every way to assign names to them.                         *)
(*                                                                         *)
(* The inductive invariant IInv says what an entry of the cache means: a   *)
(* clean one is what the index has, on_disk is never set without reason,   *)
(* and a name that the index has behind the back of its entry is shadowed. *)
(* While the clean file is there, what the index and the cache have of a   *)
(* name, and not only what the disk has, is among what the name has been.  *)
(***************************************************************************)
EXTENDS Names, TLAPS

EntryOK(s) ==
  cache[s] # Empty =>
    /\ SlotOf[cache[s].name] = s
    /\ ~cache[s].dirty => cache[s].on_disk /\ index[cache[s].name] = cache[s].dbref
    /\ cache[s].on_disk => index[cache[s].name] # NoDbref
    /\ ~cache[s].on_disk /\ index[cache[s].name] # NoDbref => cache[s].name \in shadowed

CacheOK == \A s \in Slot : EntryOK(s)

SyncingOK == phase = "syncing" => \A s \in Slot : ~Dirty(s)

KeptOK ==
  clean =>
    \A n \in Name :
      /\ indexDisk[n] \in kept[n]
      /\ phase # "down" => index[n] \in kept[n] /\ Found(n) \in kept[n]

FoundOK ==
  phase # "down" =>
    \A n \in Name : IF n \in returned THEN meant[n] = NoDbref ELSE Found(n) = meant[n]

DownOK == phase = "down" => index = NoNames /\ cache = NoCache /\ returned = {}

IInv == TypeOK /\ CacheOK /\ SyncingOK /\ KeptOK /\ FoundOK /\ DownOK

---------------------------------------------------------------------------
(* What the parts of an action do                                          *)

\* An entry is of its name only.
LEMMA CachedEntry ==
  ASSUME TypeOK, NEW n \in Name, Cached(n)
  PROVE  /\ SlotOf[n] \in Slot
         /\ cache[SlotOf[n]] \in Entry
         /\ cache[SlotOf[n]].name = n
         /\ cache[SlotOf[n]].dbref \in Dbref
BY NamesAssumption, EmptyAssumption DEF TypeOK, Cached, Entry

\* What is found is a dbref or nothing.
LEMMA FoundType ==
  ASSUME TypeOK, NEW n \in Name
  PROVE  Found(n) \in Dbref \cup {NoDbref}
BY CachedEntry DEF TypeOK, Found, Association

\* A name that takes a slot changes, of what other names are found as,
\* nothing: what it displaces is found in the index.
LEMMA OthersFound ==
  ASSUME TypeOK, CacheOK, NEW n \in Name, NEW d \in Dbref,
         NEW dirty \in BOOLEAN, NEW on_disk \in BOOLEAN,
         TakeSlot(n, d, dirty, on_disk), NEW m \in Name, m # n
  PROVE  Found(m)' = Found(m)
<1> DEFINE s == SlotOf[n]
<1>1. s \in Slot /\ SlotOf[m] \in Slot
  BY NamesAssumption
<1>2. cache' = [cache EXCEPT ![s] =
                  [name |-> n, dbref |-> d, dirty |-> dirty, on_disk |-> on_disk]]
  BY DEF TakeSlot
<1>3. cache[s] = Empty \/ cache[s] \in Entry
  BY <1>1 DEF TypeOK
<1>4. cache'[s] = [name |-> n, dbref |-> d, dirty |-> dirty, on_disk |-> on_disk]
  BY <1>1, <1>2 DEF TypeOK
<1>5. cache'[s] # Empty /\ cache'[s].name = n
  BY <1>4, EmptyAssumption DEF Entry
<1>6. CASE SlotOf[m] # s
  <2>1. cache'[SlotOf[m]] = cache[SlotOf[m]]
    BY <1>1, <1>2, <1>6 DEF TypeOK
  <2>2. index'[m] = index[m]
    BY <1>1, <1>3, <1>6 DEF TakeSlot, TypeOK, Association, CacheOK, EntryOK, Dirty
  <2> QED  BY <2>1, <2>2 DEF Found, Cached
<1>7. CASE SlotOf[m] = s
  <2>1. ~Cached(m)'
    BY <1>5, <1>7 DEF Cached
  <2>2. Found(m)' = index'[m]
    BY <2>1 DEF Found
  <2>3. CASE Cached(m)
    <3>1. cache[s] # Empty /\ cache[s].name = m /\ cache[s] \in Entry
      BY <2>3, <1>3, <1>7 DEF Cached
    <3>2. CASE Dirty(s)
      <4>1. index' = [index EXCEPT ![m] = cache[s].dbref]
        BY <3>1, <3>2 DEF TakeSlot
      <4> QED  BY <4>1, <2>2, <2>3, <1>7 DEF Found, TypeOK, Association
    <3>3. CASE ~Dirty(s)
      <4>1. index' = index /\ index[m] = cache[s].dbref
        BY <3>1, <3>3, <1>1 DEF TakeSlot, CacheOK, EntryOK, Dirty
      <4> QED  BY <4>1, <2>2, <2>3, <1>7 DEF Found
    <3> QED  BY <3>2, <3>3
  <2>4. CASE ~Cached(m)
    <3>1. index'[m] = index[m]
      BY <2>4, <1>1, <1>3, <1>7 DEF TakeSlot, Cached, Dirty, TypeOK, Association
    <3> QED  BY <3>1, <2>2, <2>4 DEF Found
  <2> QED  BY <2>3, <2>4
<1> QED  BY <1>6, <1>7

\* The index changes, if at all, where it takes the displaced name as found.
LEMMA IndexTakes ==
  ASSUME TypeOK, CacheOK, NEW n \in Name, NEW d \in Dbref,
         NEW dirty \in BOOLEAN, NEW on_disk \in BOOLEAN,
         TakeSlot(n, d, dirty, on_disk)
  PROVE  /\ index' \in Association
         /\ \A m \in Name : /\ index'[m] \in {index[m], Found(m)}
                            /\ m \in Displaced(SlotOf[n]) =>
                                 m # n /\ SlotOf[m] = SlotOf[n] /\ index'[m] # NoDbref
                            /\ m \notin Displaced(SlotOf[n]) => index'[m] = index[m]
<1> DEFINE s == SlotOf[n]
<1>1. s \in Slot /\ (cache[s] = Empty \/ cache[s] \in Entry)
  BY NamesAssumption DEF TypeOK
<1>2. CASE Dirty(s)
  <2> DEFINE m == cache[s].name
  <2>1. cache[s] # Empty /\ cache[s] \in Entry /\ m \in Name /\ cache[s].dbref \in Dbref
    BY <1>1, <1>2 DEF Dirty, Entry
  <2>2. SlotOf[m] = s /\ Cached(m) /\ m # n
    BY <2>1, <1>1 DEF CacheOK, EntryOK, Cached, TakeSlot
  <2>3. Found(m) = cache[s].dbref
    BY <2>2 DEF Found
  <2>4. index' = [index EXCEPT ![m] = cache[s].dbref]
    BY <1>2 DEF TakeSlot
  <2>5. Displaced(s) = {m}
    BY <1>2 DEF Displaced
  <2> HIDE DEF m
  <2> QED  BY <2>1, <2>2, <2>3, <2>4, <2>5, NamesAssumption DEF TypeOK, Association
<1>3. CASE ~Dirty(s)
  BY <1>3 DEF TakeSlot, Displaced, TypeOK
<1> QED  BY <1>2, <1>3

\* The types after a name took a slot.
LEMMA CacheTakes ==
  ASSUME TypeOK, NEW n \in Name, NEW d \in Dbref,
         NEW dirty \in BOOLEAN, NEW on_disk \in BOOLEAN,
         TakeSlot(n, d, dirty, on_disk)
  PROVE  /\ cache' \in [Slot -> Entry \cup {Empty}]
         /\ SlotOf[n] \in Slot
         /\ cache'[SlotOf[n]] =
              [name |-> n, dbref |-> d, dirty |-> dirty, on_disk |-> on_disk]
         /\ cache'[SlotOf[n]] # Empty
         /\ \A s \in Slot : s # SlotOf[n] => cache'[s] = cache[s]
<1> DEFINE e == [name |-> n, dbref |-> d, dirty |-> dirty, on_disk |-> on_disk]
<1>1. SlotOf[n] \in Slot /\ e \in Entry
  BY NamesAssumption DEF Entry
<1>2. cache' = [cache EXCEPT ![SlotOf[n]] = e]
  BY DEF TakeSlot
<1>3. e # Empty /\ e.name = n /\ e.dbref = d
  BY <1>1, EmptyAssumption
<1> HIDE DEF e
<1>4. cache' \in [Slot -> Entry \cup {Empty}] /\ cache'[SlotOf[n]] = e
      /\ \A s \in Slot : s # SlotOf[n] => cache'[s] = cache[s]
  BY <1>1, <1>2 DEF TypeOK
<1> QED  BY <1>1, <1>3, <1>4 DEF e

\* It is found as the dbref it came with.
LEMMA TakerFound ==
  ASSUME TypeOK, NEW n \in Name, NEW d \in Dbref,
         NEW dirty \in BOOLEAN, NEW on_disk \in BOOLEAN,
         TakeSlot(n, d, dirty, on_disk)
  PROVE  Found(n)' = d
<1>1. cache'[SlotOf[n]] # Empty
  BY CacheTakes
<1>2. cache'[SlotOf[n]] = [name |-> n, dbref |-> d, dirty |-> dirty, on_disk |-> on_disk]
  BY CacheTakes
<1>3. cache'[SlotOf[n]].name = n /\ cache'[SlotOf[n]].dbref = d
  BY <1>2
<1> QED  BY <1>1, <1>3 DEF Found, Cached

\* The other entries keep their meaning.
LEMMA EntriesKept ==
  ASSUME TypeOK, CacheOK, NEW n \in Name, NEW d \in Dbref,
         NEW dirty \in BOOLEAN, NEW on_disk \in BOOLEAN,
         TakeSlot(n, d, dirty, on_disk),
         shadowed \ Displaced(SlotOf[n]) \subseteq shadowed',
         NEW s \in Slot, s # SlotOf[n]
  PROVE  EntryOK(s)'
<1>1. cache'[s] = cache[s] /\ (cache[s] = Empty \/ cache[s] \in Entry)
  BY CacheTakes DEF TypeOK
<1>2. SUFFICES ASSUME cache[s] # Empty PROVE EntryOK(s)'
  BY <1>1 DEF EntryOK
<1>3. EntryOK(s) /\ cache[s].name \in Name /\ SlotOf[cache[s].name] = s
  BY <1>1, <1>2 DEF CacheOK, EntryOK, Entry
<1>4. cache[s].name \notin Displaced(SlotOf[n])
  BY <1>3, IndexTakes
<1>5. index'[cache[s].name] = index[cache[s].name]
  BY <1>3, <1>4, IndexTakes
<1>6. cache[s].name \in shadowed => cache[s].name \in shadowed'
  BY <1>4
<1> QED  BY <1>1, <1>2, <1>3, <1>5, <1>6 DEF EntryOK

\* With the names set and deleted recorded, a name that takes a slot keeps the
\* invariant but for the entry of the slot itself.
LEMMA TakingKeeps ==
  ASSUME IInv, phase = "running", NEW n \in Name, NEW d \in Dbref,
         NEW dirty \in BOOLEAN, NEW on_disk \in BOOLEAN,
         TakeSlot(n, d, dirty, on_disk),
         UNCHANGED <<files, phase>>,
         \A m \in Name : kept[m] \subseteq kept'[m],
         d \in kept'[n] \/ ~clean,
         \A m \in Name : m # n => meant'[m] = meant[m] /\ (m \in returned' <=> m \in returned),
         IF n \in returned' THEN meant'[n] = NoDbref ELSE meant'[n] = d
  PROVE  SyncingOK' /\ KeptOK' /\ FoundOK' /\ DownOK'
<1>1. TypeOK /\ CacheOK
  BY DEF IInv
<1>2. Found(n)' = d /\ \A m \in Name : m # n => Found(m)' = Found(m)
  <2>1. Found(n)' = d
    BY <1>1, TakerFound
  <2>2. ASSUME NEW m \in Name, m # n PROVE Found(m)' = Found(m)
    BY <1>1, <2>2, OthersFound
  <2> QED  BY <2>1, <2>2
<1>3. \A m \in Name : index'[m] \in {index[m], Found(m)}
  BY <1>1, IndexTakes
<1>4. SyncingOK' /\ DownOK'
  BY DEF SyncingOK, DownOK
<1>5. KeptOK'
  BY <1>2, <1>3 DEF IInv, KeptOK, files
<1>6. FoundOK'
  BY <1>2 DEF IInv, FoundOK
<1> QED  BY <1>4, <1>5, <1>6

---------------------------------------------------------------------------
(* The actions                                                             *)

\* The invariant holds at first.
LEMMA InitOK ==
  ASSUME Init
  PROVE  IInv
<1>1. TypeOK
  BY DEF Init, TypeOK, NoNames, NoCache, Association, Only
<1>2. CacheOK /\ SyncingOK /\ KeptOK /\ FoundOK /\ DownOK
  BY DEF Init, CacheOK, EntryOK, SyncingOK, KeptOK, FoundOK, DownOK, NoCache
<1> QED  BY <1>1, <1>2 DEF IInv

\* A stuttering step keeps the invariant.
LEMMA StutterOK ==
  ASSUME IInv, UNCHANGED vars
  PROVE  IInv'
<1>1. \A n \in Name : Found(n)' = Found(n)
  BY DEF vars, files, Found, Cached
<1>2. TypeOK' /\ CacheOK' /\ SyncingOK' /\ DownOK'
  BY DEF IInv, vars, files, history, TypeOK, CacheOK, EntryOK, SyncingOK, Dirty, DownOK
<1>3. KeptOK' /\ FoundOK'
  BY <1>1 DEF IInv, vars, files, history, KeptOK, FoundOK
<1> QED  BY <1>2, <1>3 DEF IInv

\* A fresh process finds what it opened.
LEMMA OpenOK ==
  ASSUME IInv, NEW contents \in Association, LookupOpen(contents)
  PROVE  IInv'
<1> USE DEF LookupOpen
<1>1. \A s \in Slot : cache'[s] = Empty
  BY DEF NoCache
<1>2. \A n \in Name : ~Cached(n)' /\ Found(n)' = contents[n]
  BY <1>1, NamesAssumption DEF Cached, Found
<1>3. returned = {}
  BY DEF IInv, DownOK
<1>4. TypeOK'
  BY <1>3 DEF IInv, TypeOK, Association, NoCache, Only
<1>5. CacheOK' /\ SyncingOK' /\ DownOK'
  BY <1>1 DEF CacheOK, EntryOK, SyncingOK, DownOK
<1>6. KeptOK' /\ FoundOK'
  BY <1>2, <1>3 DEF KeptOK, FoundOK, Only
<1> QED  BY <1>4, <1>5, <1>6 DEF IInv

\* A crash keeps the invariant.
LEMMA CrashOK ==
  ASSUME IInv, Crash
  PROVE  IInv'
<1> USE DEF Crash, files
<1>1. TypeOK'
  BY DEF IInv, TypeOK, Association, NoNames, NoCache
<1>2. CacheOK' /\ SyncingOK' /\ DownOK' /\ FoundOK'
  BY DEF CacheOK, EntryOK, SyncingOK, DownOK, FoundOK, NoCache
<1>3. KeptOK'
  BY DEF IInv, KeptOK
<1> QED  BY <1>1, <1>2, <1>3 DEF IInv

\* A name that ndbm writes to its file keeps the invariant.
LEMMA WriteNameOK ==
  ASSUME IInv, NEW n \in Name, WriteName(n)
  PROVE  IInv'
<1> USE DEF WriteName, history
<1>1. \A m \in Name : Found(m)' = Found(m)
  BY DEF Found, Cached
<1>2. TypeOK'
  BY DEF IInv, TypeOK, Association
<1>3. CacheOK' /\ SyncingOK' /\ DownOK'
  BY DEF IInv, CacheOK, EntryOK, SyncingOK, Dirty, DownOK
<1>4. FoundOK'
  BY <1>1 DEF IInv, FoundOK
<1>5. KeptOK'
  BY <1>1 DEF IInv, KeptOK, TypeOK, Association
<1> QED  BY <1>2, <1>3, <1>4, <1>5 DEF IInv

\* The write of an object, which dirties the database, keeps the invariant.
LEMMA ObjectWrittenOK ==
  ASSUME IInv, ObjectWritten
  PROVE  IInv'
<1> USE DEF ObjectWritten, history
<1>1. \A m \in Name : Found(m)' = Found(m)
  BY DEF Found, Cached
<1>2. TypeOK' /\ CacheOK' /\ SyncingOK' /\ DownOK' /\ KeptOK'
  BY DEF IInv, TypeOK, CacheOK, EntryOK, SyncingOK, Dirty, DownOK, KeptOK
<1>3. FoundOK'
  BY <1>1 DEF IInv, FoundOK
<1> QED  BY <1>2, <1>3 DEF IInv

\* lookup_retrieve_name() keeps the invariant.
LEMMA RetrieveOK ==
  ASSUME IInv, NEW n \in Name, Retrieve(n)
  PROVE  IInv'
<1> DEFINE s == SlotOf[n]
<1>1. TypeOK /\ CacheOK /\ phase = "running" /\ TakeSlot(n, index[n], FALSE, TRUE)
  BY DEF IInv, Retrieve, Running
<1>2. index[n] \in Dbref
  BY DEF IInv, TypeOK, Association, Retrieve
<1>3. Found(n) = index[n]
  BY <1>1 DEF TakeSlot, Found
<1>4. TypeOK'
  BY <1>1, <1>2, CacheTakes, IndexTakes DEF TypeOK, Retrieve, files
<1>5. CacheOK'
  <2>1. index'[n] = index[n]
    BY <1>1, <1>2, IndexTakes
  <2>2. EntryOK(s)'
    <3>1. cache'[s] = [name |-> n, dbref |-> index[n], dirty |-> FALSE, on_disk |-> TRUE]
      BY <1>1, <1>2, CacheTakes
    <3> QED  BY <1>2, <2>1, <3>1, NamesAssumption DEF EntryOK
  <2>3. \A t \in Slot : t # s => EntryOK(t)'
    BY <1>1, <1>2, EntriesKept DEF Retrieve
  <2> QED  BY <2>2, <2>3 DEF CacheOK
<1>6. SyncingOK' /\ KeptOK' /\ FoundOK' /\ DownOK'
  <2>1. index[n] \in kept'[n] \/ ~clean
    BY <1>1 DEF IInv, KeptOK, Retrieve
  <2>2. IF n \in returned' THEN meant'[n] = NoDbref ELSE meant'[n] = index[n]
    BY <1>1, <1>3 DEF IInv, FoundOK, Retrieve
  <2>3. /\ UNCHANGED <<files, phase>>
        /\ \A m \in Name : kept[m] \subseteq kept'[m]
        /\ \A m \in Name : m # n => meant'[m] = meant[m] /\ (m \in returned' <=> m \in returned)
    BY DEF Retrieve
  <2> QED  BY <1>1, <1>2, <2>1, <2>2, <2>3, TakingKeeps
<1> QED  BY <1>4, <1>5, <1>6 DEF IInv

\* lookup_store_name() on a name that is cached keeps the invariant.
LEMMA SetCachedOK ==
  ASSUME IInv, NEW n \in Name, NEW d \in Dbref, Store(n, d), SetCached(n, d)
  PROVE  IInv'
<1> DEFINE s == SlotOf[n]
<1> USE DEF SetCached
<1>1. TypeOK /\ CacheOK /\ phase = "running" /\ phase' = phase /\ clean' = clean
      /\ indexDisk' = indexDisk
  BY DEF IInv, Store, Running, files
<1>2. s \in Slot /\ cache[s] \in Entry /\ cache[s].name = n /\ Found(n) = cache[s].dbref
      /\ cache[s] # Empty
  BY <1>1, CachedEntry DEF Found, Cached
<1>3. /\ cache'[s] = [cache[s] EXCEPT !.dbref = d, !.dirty = @ \/ cache[s].dbref # d]
      /\ \A t \in Slot : t # s => cache'[t] = cache[t]
      /\ cache' \in [Slot -> Entry \cup {Empty}]
  <2> DEFINE e == [cache[s] EXCEPT !.dbref = d, !.dirty = @ \/ cache[s].dbref # d]
  <2>1. e \in Entry
    BY <1>2 DEF Entry
  <2>2. cache' = [cache EXCEPT ![s] = e]
    BY <1>1, <1>2 DEF TypeOK
  <2> HIDE DEF e
  <2>3. cache'[s] = e /\ (\A t \in Slot : t # s => cache'[t] = cache[t])
        /\ cache' \in [Slot -> Entry \cup {Empty}]
    BY <1>1, <1>2, <2>1, <2>2, ZenonT(30) DEF TypeOK
  <2> QED  BY <2>3 DEF e
<1>4. /\ cache'[s].name = n /\ cache'[s].dbref = d /\ cache'[s] \in Entry /\ cache'[s] # Empty
      /\ cache'[s].on_disk = cache[s].on_disk
      /\ ~cache'[s].dirty => ~cache[s].dirty /\ cache[s].dbref = d
  BY <1>2, <1>3, EmptyAssumption, ZenonT(30) DEF Entry
<1>5. Found(n)' = d /\ \A m \in Name : m # n => Found(m)' = Found(m)
  <2>1. Found(n)' = d
    BY <1>4 DEF Found, Cached
  <2>2. ASSUME NEW m \in Name, m # n PROVE Found(m)' = Found(m)
    BY <1>2, <1>3, <1>4, <2>2, NamesAssumption DEF Found, Cached
  <2> QED  BY <2>1, <2>2
<1>6. TypeOK'
  BY <1>1, <1>3 DEF TypeOK, Association, Store
<1>7. CacheOK'
  <2>1. EntryOK(s)'
    BY <1>1, <1>2, <1>4 DEF CacheOK, EntryOK
  <2>2. \A t \in Slot : t # s => EntryOK(t)'
    BY <1>1, <1>3 DEF CacheOK, EntryOK
  <2> QED  BY <2>1, <2>2 DEF CacheOK
<1>8. SyncingOK' /\ DownOK'
  BY <1>1 DEF SyncingOK, DownOK
<1>9. KeptOK'
  BY <1>1, <1>5 DEF IInv, KeptOK, TypeOK, Store
<1>10. FoundOK'
  BY <1>1, <1>5 DEF IInv, FoundOK, TypeOK, Association, Store
<1> QED  BY <1>6, <1>7, <1>8, <1>9, <1>10 DEF IInv

\* lookup_store_name() on another name, which may write a dirty one back,
\* keeps the invariant.
LEMMA SetUncachedOK ==
  ASSUME IInv, NEW n \in Name, NEW d \in Dbref, Store(n, d), SetUncached(n, d)
  PROVE  IInv'
<1> DEFINE s == SlotOf[n]
<1> USE DEF SetUncached
<1>1. TypeOK /\ CacheOK /\ phase = "running" /\ TakeSlot(n, d, TRUE, FALSE)
      /\ UNCHANGED <<files, phase>>
  BY DEF IInv, Store, Running
<1>2. TypeOK'
  <2>1. index' \in Association /\ cache' \in [Slot -> Entry \cup {Empty}]
    BY <1>1, CacheTakes, IndexTakes
  <2> QED  BY <1>1, <2>1 DEF TypeOK, Association, Store, files
<1>3. CacheOK'
  <2>1. index'[n] = index[n]
    BY <1>1, IndexTakes
  <2>2. EntryOK(s)'
    <3>1. cache'[s] = [name |-> n, dbref |-> d, dirty |-> TRUE, on_disk |-> FALSE]
      BY <1>1, CacheTakes
    <3> QED  BY <2>1, <3>1 DEF EntryOK
  <2>3. shadowed \ Displaced(s) \subseteq shadowed'
    OBVIOUS
  <2>4. \A t \in Slot : t # s => EntryOK(t)'
    BY <1>1, <2>3, EntriesKept
  <2> QED  BY <2>2, <2>4 DEF CacheOK
<1>4. SyncingOK' /\ KeptOK' /\ FoundOK' /\ DownOK'
  <2>1. d \in kept'[n] /\ \A m \in Name : kept[m] \subseteq kept'[m]
    BY <1>1 DEF TypeOK, Store
  <2>2. /\ \A m \in Name : m # n => meant'[m] = meant[m] /\ (m \in returned' <=> m \in returned)
        /\ n \notin returned' /\ meant'[n] = d
    BY <1>1 DEF TypeOK, Association, Store
  <2> QED  BY <1>1, <2>1, <2>2, TakingKeeps
<1> QED  BY <1>2, <1>3, <1>4 DEF IInv

\* lookup_remove_name() keeps the invariant.
LEMMA RemoveOK ==
  ASSUME IInv, NEW n \in Name, Remove(n)
  PROVE  IInv'
<1> DEFINE s == SlotOf[n]
<1> USE DEF Remove
<1>1. TypeOK /\ CacheOK /\ phase = "running" /\ phase' = phase /\ clean' = clean
      /\ indexDisk' = indexDisk /\ s \in Slot
  BY NamesAssumption DEF IInv, Running, files
<1>2. /\ ~Cached(n)'
      /\ \A t \in Slot : t # s => cache'[t] = cache[t]
      /\ cache' \in [Slot -> Entry \cup {Empty}]
      /\ cache'[s] = Empty \/ (cache'[s] = cache[s] /\ ~Cached(n))
  BY <1>1 DEF TypeOK, Cached
<1>3. \A m \in Name : m # n => index'[m] = index[m]
  BY <1>1 DEF TypeOK, Association
<1>4. \A m \in Name : m # n => Found(m)' = Found(m)
  BY <1>1, <1>2, <1>3, NamesAssumption DEF Found, Cached
<1>5. index'[n] = NoDbref \/ (index'[n] = index[n] /\ n \in shadowed)
  <2>1. CASE Cached(n) /\ ~cache[s].on_disk
    BY <1>1, <2>1 DEF CacheOK, EntryOK, Cached
  <2>2. CASE ~(Cached(n) /\ ~cache[s].on_disk)
    BY <1>1, <2>2 DEF TypeOK, Association
  <2> QED  BY <2>1, <2>2
<1>6. Found(n)' = index'[n]
  BY <1>2 DEF Found
<1>7. TypeOK'
  BY <1>1, <1>2 DEF TypeOK, Association
<1>8. CacheOK'
  <2> SUFFICES ASSUME NEW t \in Slot, cache'[t] # Empty PROVE EntryOK(t)'
    BY DEF CacheOK, EntryOK
  <2>1. cache'[t] = cache[t] /\ EntryOK(t) /\ cache[t] \in Entry
    BY <1>1, <1>2 DEF CacheOK, TypeOK
  <2>2. cache[t].name # n /\ cache[t].name \in Name
    BY <1>2, <2>1 DEF EntryOK, Cached, Entry
  <2> QED  BY <1>3, <2>1, <2>2 DEF EntryOK
<1>9. SyncingOK' /\ DownOK'
  BY <1>1 DEF SyncingOK, DownOK
<1>10. KeptOK'
  BY <1>1, <1>3, <1>4, <1>5, <1>6 DEF IInv, KeptOK, TypeOK
<1>11. FoundOK'
  BY <1>1, <1>4, <1>5, <1>6 DEF IInv, FoundOK, TypeOK, Association
<1> QED  BY <1>7, <1>8, <1>9, <1>10, <1>11 DEF IInv

---------------------------------------------------------------------------
(* Synchronizing the cache                                                 *)

\* It brings the index up to what is found.
LEMMA SyncedIsFound ==
  ASSUME TypeOK, CacheOK, NEW n \in Name
  PROVE  SyncedIndex[n] = Found(n)
<1>1. CASE Cached(n) /\ Dirty(SlotOf[n])
  BY <1>1 DEF SyncedIndex, Found
<1>2. CASE Cached(n) /\ ~Dirty(SlotOf[n])
  BY <1>2, CachedEntry DEF SyncedIndex, Found, CacheOK, EntryOK, Cached, Dirty
<1>3. CASE ~Cached(n)
  BY <1>3 DEF SyncedIndex, Found
<1> QED  BY <1>1, <1>2, <1>3

\* It leaves entries that are clean, on disk, and what is found of their name.
GoodEntry(s, e) ==
  /\ e \in Entry
  /\ SlotOf[e.name] = s
  /\ ~e.dirty /\ e.on_disk
  /\ e.dbref = Found(e.name)

\* After lookup_sync() a slot is empty or agrees with the index.
LEMMA SyncedEntry ==
  ASSUME TypeOK, CacheOK, NEW s \in Slot
  PROVE  SyncedCache[s] = Empty \/ GoodEntry(s, SyncedCache[s])
<1>1. CASE cache[s] = Empty
  BY <1>1 DEF SyncedCache, Dirty
<1>2. CASE cache[s] # Empty
  <2>1. cache[s] \in Entry /\ SlotOf[cache[s].name] = s /\ cache[s].name \in Name
    BY <1>2 DEF TypeOK, CacheOK, EntryOK, Entry
  <2>2. Found(cache[s].name) = cache[s].dbref
    BY <1>2, <2>1 DEF Found, Cached
  <2>3. CASE Dirty(s)
    <3>1. SyncedCache[s] = [cache[s] EXCEPT !.dirty = FALSE, !.on_disk = TRUE]
      BY <2>3 DEF SyncedCache
    <3> HIDE DEF SyncedCache
    <3> QED  BY <2>1, <2>2, <3>1 DEF GoodEntry, Entry
  <2>4. CASE ~Dirty(s)
    BY <1>2, <2>1, <2>2, <2>4 DEF SyncedCache, GoodEntry, Dirty, CacheOK, EntryOK
  <2> QED  BY <2>3, <2>4
<1> QED  BY <1>1, <1>2

\* So does an entry that is read from the index.
LEMMA FetchedEntry ==
  ASSUME TypeOK, CacheOK, NEW s \in Slot, NEW n \in Listed(s)
  PROVE  GoodEntry(s, Fetched(n))
<1>1. n \in Name /\ SlotOf[n] = s /\ SyncedIndex[n] # NoDbref
  BY DEF Listed
<1>2. SyncedIndex[n] = Found(n) /\ Found(n) \in Dbref
  BY <1>1, SyncedIsFound, FoundType
<1> QED  BY <1>1, <1>2 DEF GoodEntry, Fetched, Entry

\* With such entries, and the index up to date, nothing is found differently.
LEMMA GoodFound ==
  ASSUME TypeOK, CacheOK, index' = SyncedIndex,
         \A s \in Slot : cache'[s] = Empty \/ GoodEntry(s, cache'[s]), NEW n \in Name
  PROVE  Found(n)' = Found(n) /\ index'[n] = Found(n)
<1>1. index'[n] = Found(n)
  BY SyncedIsFound
<1>2. CASE Cached(n)'
  BY <1>1, <1>2, NamesAssumption DEF Found, Cached, GoodEntry
<1>3. CASE ~Cached(n)'
  BY <1>1, <1>3 DEF Found
<1> QED  BY <1>1, <1>2, <1>3

\* A cache whose entries all agree with the index has the invariant.
LEMMA GoodKeeps ==
  ASSUME IInv, phase # "down", index' = SyncedIndex,
         cache' \in [Slot -> Entry \cup {Empty}],
         \A s \in Slot : cache'[s] = Empty \/ GoodEntry(s, cache'[s]),
         phase' \in {"dumping", "syncing"},
         shadowed' = shadowed \ Written,
         UNCHANGED <<files, meant, returned, kept>>
  PROVE  IInv'
<1>1. TypeOK /\ CacheOK
  BY DEF IInv
<1>2. \A n \in Name : Found(n)' = Found(n) /\ index'[n] = Found(n)
  BY <1>1, GoodFound
<1>3. TypeOK'
  <2>1. \A n \in Name : SyncedIndex[n] \in Dbref \cup {NoDbref}
    BY <1>1, SyncedIsFound, FoundType
  <2>2. SyncedIndex \in Association
    BY <2>1 DEF SyncedIndex, Association
  <2> QED  BY <1>1, <2>2 DEF TypeOK, files
<1>4. CacheOK' /\ SyncingOK'
  <2> SUFFICES ASSUME NEW s \in Slot PROVE EntryOK(s)' /\ ~Dirty(s)'
    BY DEF CacheOK, SyncingOK
  <2>1. CASE cache'[s] = Empty
    BY <2>1 DEF EntryOK, Dirty
  <2>2. CASE GoodEntry(s, cache'[s])
    <3>1. cache'[s].name \in Name /\ cache'[s].dbref \in Dbref
      BY <2>2 DEF GoodEntry, Entry
    <3>2. index'[cache'[s].name] = cache'[s].dbref
      BY <1>2, <2>2, <3>1 DEF GoodEntry
    <3> QED  BY <2>2, <3>1, <3>2, NamesAssumption DEF GoodEntry, EntryOK, Dirty
  <2> QED  BY <2>1, <2>2
<1>5. DownOK'
  BY DEF DownOK
<1>6. KeptOK' /\ FoundOK'
  BY <1>2 DEF IInv, KeptOK, FoundOK, files
<1> QED  BY <1>3, <1>4, <1>5, <1>6 DEF IInv

\* Every entry the walk of text_dump() leaves behind is such an entry.
LEMMA WalkedEntry ==
  ASSUME TypeOK, CacheOK, DumpNames, NEW s \in Slot
  PROVE  cache'[s] = Empty \/ GoodEntry(s, cache'[s])
<1>1. CASE \A n \in Listed(s) : Cached(n)
  BY <1>1, SyncedEntry DEF DumpNames
<1>2. CASE ~\A n \in Listed(s) : Cached(n)
  <2>1. PICK n \in Listed(s) : cache'[s] = Fetched(n)
    BY <1>2 DEF DumpNames
  <2> QED  BY <2>1, FetchedEntry
<1> QED  BY <1>1, <1>2

\* The names that a text dump reads keep the invariant.
LEMMA DumpNamesOK ==
  ASSUME IInv, DumpNames
  PROVE  IInv'
<1>1. TypeOK /\ CacheOK /\ phase = "running"
  BY DEF IInv, DumpNames, Running
<1>2. \A s \in Slot : cache'[s] = Empty \/ GoodEntry(s, cache'[s])
  BY <1>1, WalkedEntry
<1>3. cache' \in [Slot -> Entry \cup {Empty}]
  <2>1. \E X : cache' \in [Slot -> X]
    BY DEF DumpNames
  <2> QED  BY <1>2, <2>1 DEF GoodEntry
<1> QED  BY <1>1, <1>2, <1>3, GoodKeeps DEF DumpNames

\* lookup_sync() keeps the invariant.
LEMMA SyncNamesOK ==
  ASSUME IInv, SyncNames
  PROVE  IInv'
<1>1. TypeOK /\ CacheOK /\ phase # "down"
  BY DEF IInv, SyncNames
<1>2. \A s \in Slot : SyncedCache[s] = Empty \/ GoodEntry(s, SyncedCache[s])
  BY <1>1, SyncedEntry
<1>3. SyncedCache \in [Slot -> Entry \cup {Empty}]
  BY <1>2 DEF SyncedCache, GoodEntry
<1> QED  BY <1>1, <1>2, <1>3, GoodKeeps DEF SyncNames

\* The end of a dump, which declares the database clean, keeps the
\* invariant.
LEMMA FlushOK ==
  ASSUME IInv, Flush
  PROVE  IInv'
<1> USE DEF Flush
<1>1. TypeOK /\ CacheOK /\ \A s \in Slot : ~Dirty(s)
  BY DEF IInv, SyncingOK
<1>2. \A n \in Name : Found(n)' = Found(n) /\ index[n] = Found(n)
  <2> SUFFICES ASSUME NEW n \in Name PROVE Found(n)' = Found(n) /\ index[n] = Found(n)
    OBVIOUS
  <2>1. Found(n)' = Found(n)
    BY DEF Found, Cached
  <2>2. SyncedIndex[n] = index[n]
    BY <1>1, NamesAssumption DEF SyncedIndex
  <2> QED  BY <1>1, <2>1, <2>2, SyncedIsFound
<1>3. TypeOK'
  BY <1>1, FoundType DEF TypeOK, Association
<1>4. CacheOK' /\ SyncingOK' /\ DownOK'
  BY DEF IInv, CacheOK, EntryOK, SyncingOK, DownOK
<1>5. KeptOK'
  BY <1>2 DEF KeptOK
<1>6. FoundOK'
  BY <1>2 DEF IInv, FoundOK
<1> QED  BY <1>3, <1>4, <1>5, <1>6 DEF IInv

---------------------------------------------------------------------------
(* Theorems                                                                *)

\* Every step keeps the invariant.
LEMMA NextOK ==
  ASSUME IInv, [Next]_vars
  PROVE  IInv'
<1>1. CASE StartTrusting
  <2>1. indexDisk \in Association
    BY DEF IInv, TypeOK
  <2> QED  BY <1>1, <2>1, OpenOK DEF StartTrusting
<1>2. CASE StartAnew
  <2>1. NoNames \in Association
    BY DEF NoNames, Association
  <2> QED  BY <1>2, <2>1, OpenOK DEF StartAnew
<1>3. CASE Crash
  BY <1>3, CrashOK
<1>4. CASE \E n \in Name : WriteName(n)
  BY <1>4, WriteNameOK
<1>5. CASE ObjectWritten
  BY <1>5, ObjectWrittenOK
<1>6. CASE \E n \in Name : Retrieve(n)
  BY <1>6, RetrieveOK
<1>7. CASE \E n \in Name, d \in Dbref : Store(n, d)
  BY <1>7, SetCachedOK, SetUncachedOK DEF Store
<1>8. CASE \E n \in Name : Remove(n)
  BY <1>8, RemoveOK
<1>9. CASE DumpNames
  BY <1>9, DumpNamesOK
<1>10. CASE SyncNames
  BY <1>10, SyncNamesOK
<1>11. CASE Flush
  BY <1>11, FlushOK
<1>12. CASE UNCHANGED vars
  BY <1>12, StutterOK
<1> QED
  BY <1>1, <1>2, <1>3, <1>4, <1>5, <1>6, <1>7, <1>8, <1>9, <1>10, <1>11, <1>12 DEF Next

\* The inductive invariant of the names holds in every state.
THEOREM Invariance == Spec => []IInv
<1>1. Init => IInv
  BY InitOK
<1>2. IInv /\ [Next]_vars => IInv'
  BY NextOK
<1> QED  BY <1>1, <1>2, PTL DEF Spec

\* The names' state keeps its types.
THEOREM TypeCorrect == Spec => []TypeOK
<1>1. IInv => TypeOK
  BY DEF IInv
<1> QED  BY <1>1, Invariance, PTL

\* A name is found as it was last set, and a deleted one is not found, but for
\* those set behind the index's back and deleted before they were written.
THEOREM NamesAlwaysAgree == Spec => []NamesAgree
<1>1. IInv => NamesAgree
  BY DEF IInv, FoundOK, NamesAgree
<1> QED  BY <1>1, Invariance, PTL

\* A trusting start finds each name as it was at the last flush or since.
THEOREM StartAlwaysFindsNames == Spec => []StartFindsNames
<1>1. IInv => StartFindsNames
  BY DEF IInv, KeptOK, StartFindsNames
<1> QED  BY <1>1, Invariance, PTL

\* A text dump lists the names that are found, and no others.
THEOREM DumpAlwaysListsNames == Spec => DumpListsNames
<1> DEFINE Lists ==
      phase' = "dumping" /\ phase = "running" =>
        \A n \in Name : index'[n] = Found(n) /\ Found(n)' = Found(n)
<1>1. IInv /\ [Next]_vars => [Lists]_vars
  <2> SUFFICES ASSUME IInv, [Next]_vars, phase' = "dumping", phase = "running", NEW n \in Name
               PROVE  index'[n] = Found(n) /\ Found(n)' = Found(n)
    OBVIOUS
  <2>1. TypeOK /\ CacheOK
    BY DEF IInv
  <2>2. DumpNames
    BY DEF Next, vars, StartTrusting, StartAnew, LookupOpen, Crash, WriteName, ObjectWritten,
           Retrieve, Store, Remove, SyncNames, Flush
  <2>3. \A s \in Slot : cache'[s] = Empty \/ GoodEntry(s, cache'[s])
    BY <2>1, <2>2, WalkedEntry
  <2> QED  BY <2>1, <2>2, <2>3, GoodFound DEF DumpNames
<1>2. Spec => [][Lists]_vars
  <2> HIDE DEF Lists
  <2> QED  BY <1>1, Invariance, PTL DEF Spec
<1> QED  BY <1>2 DEF DumpListsNames
=============================================================================
