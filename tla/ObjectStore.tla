---------------------------- MODULE ObjectStore ----------------------------
(***************************************************************************)
(* The object cache of cache.c as a data structure: object holders linked  *)
(* into an active or an inactive chain of the bucket their dbref hashes    *)
(* to, over the binary database of db.c.  Each C function of cache.c that  *)
(* changes the chains is an operator from a store to the store it leaves,  *)
(* so that a handler that makes several calls is their composition.        *)
(*                                                                         *)
(* A store is a record with the fields                                     *)
(*   obj       the contents of every holder (struct object)                *)
(*   active    per bucket, the holders somebody references; cache.c never  *)
(*             uses their order, so a set                                  *)
(*   inactive  per bucket, the unreferenced holders, most recent first     *)
(*   heap      the holders malloc() has handed out so far                  *)
(*   disk      per dbref, the image db_put() last wrote, or NoImage        *)
(*                                                                         *)
(* A definition marked as a mutant is not part of the model: it seeds a    *)
(* bug into the definition that follows it, for a property to find.        *)
(***************************************************************************)
EXTENDS Integers, Sequences, FiniteSets, SequencesExt

CONSTANTS
  CACHE_WIDTH,   \* number of buckets
  CACHE_DEPTH,   \* empty holders each inactive chain starts with
  MaxDbref,      \* bound: the largest dbref db_top hands out
  Methods,       \* the values an object's method table can have
  Vars,          \* the values an object's variable table can have
  Holder,        \* the structures malloc() can return
  InitChain,     \* per bucket, the holders init_cache() links
  NoImage        \* what db_get() finds for a dbref without an object

Dbref == 0 .. MaxDbref
Bucket == 0 .. CACHE_WIDTH - 1
EMPTY == -1      \* dbref of a holder without an object

(***************************************************************************)
(* What the cache does not interpret but saves and loads: struct object    *)
(* without the cache's own fields.  An object's parents and children are   *)
(* lists; its methods and its variables are opaque values.                 *)
(***************************************************************************)
Image ==
  [parents: Seq(Dbref), children: Seq(Dbref), methods: Methods, vars: Vars]

ASSUME CacheAssumption ==
  /\ CACHE_WIDTH \in Nat \ {0}
  /\ CACHE_DEPTH \in Nat \ {0}
  /\ MaxDbref \in Nat
  /\ Methods # {}
  /\ Vars # {}
  /\ InitChain \in [Bucket -> Seq(Holder)]
  /\ \A b \in Bucket : Len(InitChain[b]) = CACHE_DEPTH
  /\ \A b \in Bucket : IsInjective(InitChain[b])
  /\ \A b, c \in Bucket : b # c => Range(InitChain[b]) \cap Range(InitChain[c]) = {}
  /\ NoImage \notin Image

Hash(d) == d % CACHE_WIDTH

\* Stands for the data of a holder that has no object: nobody reads it.
Blank ==
  [parents |-> <<>>, children |-> <<>>,
   methods |-> CHOOSE m \in Methods : TRUE, vars |-> CHOOSE v \in Vars : TRUE]

Record ==
  [dbref: Dbref \cup {EMPTY}, refs: Int, dirty: {0, 1}, dead: {0, 1}, data: Image]

\* A holder without an object: nobody reads its other fields.
EmptyHolder == [dbref |-> EMPTY, refs |-> 0, dirty |-> 0, dead |-> 0, data |-> Blank]

Store ==
  [obj: [Holder -> Record], active: [Bucket -> SUBSET Holder],
   inactive: [Bucket -> Seq(Holder)], heap: SUBSET Holder,
   disk: [Dbref -> Image \cup {NoImage}]]

Active(s) == UNION {s.active[b] : b \in Bucket}
Inactive(s) == UNION {Range(s.inactive[b]) : b \in Bucket}
Chained(s) == Active(s) \cup Inactive(s)

(***************************************************************************)
(* init_cache(): the active chains are empty, every inactive chain holds   *)
(* CACHE_DEPTH empty holders.                                              *)
(***************************************************************************)
InitCache(disk) ==
  [obj      |-> [h \in Holder |-> EmptyHolder],
   active   |-> [b \in Bucket |-> {}],
   inactive |-> InitChain,
   heap     |-> UNION {Range(InitChain[b]) : b \in Bucket},
   disk     |-> disk]

(***************************************************************************)
(* Chain searches: the holders of a chain that carry dbref d.              *)
(***************************************************************************)
ActiveHits(s, d) == {h \in s.active[Hash(d)] : s.obj[h].dbref = d}
InactiveHits(s, d) == {h \in Range(s.inactive[Hash(d)]) : s.obj[h].dbref = d}

Check(s, d) ==
  ActiveHits(s, d) # {} \/ InactiveHits(s, d) # {} \/ s.disk[d] # NoImage

(***************************************************************************)
(* cache_get_holder(): the tail of the inactive chain is written back if   *)
(* it is dirty and then reused; an empty chain makes malloc() supply a     *)
(* holder.  Either way the holder is linked into the active chain, clean,  *)
(* alive and with one reference.                                           *)
(***************************************************************************)
Victim(s, d) ==
  LET chain == s.inactive[Hash(d)]
  IN  IF chain # <<>> THEN chain[Len(chain)] ELSE CHOOSE h \in Holder \ s.heap : TRUE

\* The bound on memory: malloc() has a holder left.
CanGetHolder(s, d) == s.inactive[Hash(d)] # <<>> \/ s.heap # Holder

WriteBack(s, h) ==
  IF h \in s.heap /\ s.obj[h].dbref # EMPTY /\ s.obj[h].dirty = 1
  THEN [s.disk EXCEPT ![s.obj[h].dbref] = s.obj[h].data]
  ELSE s.disk

GetHolder(s, d, contents) ==
  LET b == Hash(d)
      h == Victim(s, d)
      chain == s.inactive[b]
  IN  [obj      |-> [s.obj EXCEPT ![h] =
                       [dbref |-> d, refs |-> 1, dirty |-> 0, dead |-> 0, data |-> contents]],
       active   |-> [s.active EXCEPT ![b] = @ \cup {h}],
       inactive |-> [s.inactive EXCEPT ![b] =
                       IF chain = <<>> THEN <<>> ELSE SubSeq(chain, 1, Len(chain) - 1)],
       heap     |-> s.heap \cup {h},
       disk     |-> WriteBack(s, h)]

(***************************************************************************)
(* cache_retrieve(): a hit in the active chain gains a reference, a hit in *)
(* the inactive chain moves to the active one with one reference, and a    *)
(* miss loads the object into a holder.  When the database has no such     *)
(* object the holder goes, empty, to the tail of the inactive chain: what  *)
(* it held before has been evicted all the same.                           *)
(***************************************************************************)
Unlink(chain, h) == RemoveAt(chain, CHOOSE i \in 1 .. Len(chain) : chain[i] = h)

Retrieved(s, d) ==
  CASE ActiveHits(s, d) # {}   -> CHOOSE h \in ActiveHits(s, d) : TRUE
    [] ActiveHits(s, d) = {} /\ InactiveHits(s, d) # {}
                               -> CHOOSE h \in InactiveHits(s, d) : TRUE
    [] OTHER                   -> Victim(s, d)

Grab(s, h) == [s EXCEPT !.obj = [s.obj EXCEPT ![h].refs = @ + 1]]

\* Mutant: the holder stays in the inactive chain.
ActivateLinked(s, h, b) ==
  [s EXCEPT !.obj = [s.obj EXCEPT ![h].refs = 1],
            !.active = [s.active EXCEPT ![b] = @ \cup {h}]]

Activate(s, h, b) ==
  [s EXCEPT !.obj = [s.obj EXCEPT ![h].refs = 1],
            !.active = [s.active EXCEPT ![b] = @ \cup {h}],
            !.inactive = [s.inactive EXCEPT ![b] = Unlink(@, h)]]

Load(s, d) == GetHolder(s, d, s.disk[d])

Miss(s, d) ==
  LET h == Victim(s, d)
      b == Hash(d)
      t == GetHolder(s, d, Blank)
  IN  [t EXCEPT !.obj = [t.obj EXCEPT ![h] = EmptyHolder],
                !.active = [t.active EXCEPT ![b] = @ \ {h}],
                !.inactive = [t.inactive EXCEPT ![b] = Append(@, h)]]

\* Mutant: what db_get() answers is not looked at.
RetrieveUnchecked(s, d) ==
  LET h == Retrieved(s, d)
  IN  CASE ActiveHits(s, d) # {} -> Grab(s, h)
        [] ActiveHits(s, d) = {} /\ InactiveHits(s, d) # {} -> Activate(s, h, Hash(d))
        [] OTHER -> Load(s, d)

Retrieve(s, d) ==
  LET h == Retrieved(s, d)
  IN  CASE ActiveHits(s, d) # {} -> Grab(s, h)
        [] ActiveHits(s, d) = {} /\ InactiveHits(s, d) # {} -> Activate(s, h, Hash(d))
        [] ActiveHits(s, d) = {} /\ InactiveHits(s, d) = {} /\ s.disk[d] # NoImage -> Load(s, d)
        [] OTHER -> Miss(s, d)

\* Within the bound on memory, cache_retrieve() has the holder it may need.
CanRetrieve(s, d) ==
  ActiveHits(s, d) # {} \/ InactiveHits(s, d) # {} \/ CanGetHolder(s, d)

(***************************************************************************)
(* cache_discard(): the last reference takes the holder out of the active  *)
(* chain.  A live object goes to the head of the inactive chain.  A dead   *)
(* one is deleted from the database and stays in no chain while            *)
(* object_destroy() runs; Bury() is what cache_discard() does after that.  *)
(***************************************************************************)
Dies(s, h) == s.obj[h].refs = 1 /\ s.obj[h].dead = 1

\* Mutant: the reference count is decremented but not looked at.
DiscardEarly(s, h) ==
  LET b == Hash(s.obj[h].dbref)
  IN  [s EXCEPT !.obj = [s.obj EXCEPT ![h].refs = @ - 1],
                !.active = [s.active EXCEPT ![b] = @ \ {h}],
                !.inactive = [s.inactive EXCEPT ![b] = IF h \in Range(@) THEN @ ELSE <<h>> \o @]]

\* Mutant: a dead object is linked into the inactive chain before its end.
DiscardLinked(s, h) ==
  LET b == Hash(s.obj[h].dbref)
      t == [s EXCEPT !.obj = [s.obj EXCEPT ![h].refs = @ - 1]]
  IN  IF s.obj[h].refs # 1
      THEN t
      ELSE [t EXCEPT !.active = [s.active EXCEPT ![b] = @ \ {h}],
                     !.inactive = [s.inactive EXCEPT ![b] = <<h>> \o @]]

Discard(s, h) ==
  LET b == Hash(s.obj[h].dbref)
      t == [s EXCEPT !.obj = [s.obj EXCEPT ![h].refs = @ - 1]]
      u == [t EXCEPT !.active = [s.active EXCEPT ![b] = @ \ {h}]]
  IN  CASE s.obj[h].refs # 1 -> t
        [] s.obj[h].refs = 1 /\ s.obj[h].dead = 1 ->
             [u EXCEPT !.disk = [s.disk EXCEPT ![s.obj[h].dbref] = NoImage]]
        [] OTHER ->
             [u EXCEPT !.inactive = [s.inactive EXCEPT ![b] = <<h>> \o @]]

Bury(s, h) ==
  [s EXCEPT !.obj = [s.obj EXCEPT ![h] = EmptyHolder],
            !.inactive = [s.inactive EXCEPT ![Hash(s.obj[h].dbref)] = Append(@, h)]]

(***************************************************************************)
(* cache_sync(): every dirty object of either chain is written and becomes *)
(* clean.                                                                  *)
(***************************************************************************)
Unsaved(s) == {h \in Chained(s) : s.obj[h].dbref # EMPTY /\ s.obj[h].dirty = 1}

Sync(s) ==
  [s EXCEPT !.obj = [h \in Holder |->
                       IF h \in Unsaved(s) THEN [s.obj[h] EXCEPT !.dirty = 0] ELSE s.obj[h]],
            !.disk = [d \in Dbref |->
                       IF \E h \in Unsaved(s) : s.obj[h].dbref = d
                       THEN s.obj[CHOOSE h \in Unsaved(s) : s.obj[h].dbref = d].data
                       ELSE s.disk[d]]]

(***************************************************************************)
(* Writing an object's fields through a pointer to its holder.             *)
(***************************************************************************)
SetData(s, h, contents) == [s EXCEPT !.obj = [s.obj EXCEPT ![h].data = contents]]
MarkDirty(s, h) == [s EXCEPT !.obj = [s.obj EXCEPT ![h].dirty = 1]]
MarkDead(s, h) == [s EXCEPT !.obj = [s.obj EXCEPT ![h].dead = 1]]

-----------------------------------------------------------------------------
(***************************************************************************)
(* cache.c's chains: a holder is in one place of one chain only, in the    *)
(* bucket of its dbref; an object has one holder; exactly the referenced   *)
(* holders are active; and no destroyed object waits in an inactive chain, *)
(* where a later hit would hand it out again.                              *)
(***************************************************************************)
ActiveOK(s) ==
  \A b \in Bucket : \A h \in s.active[b] :
    s.obj[h].refs >= 1 /\ s.obj[h].dbref # EMPTY /\ Hash(s.obj[h].dbref) = b

InactiveOK(s) ==
  \A b \in Bucket :
    /\ IsInjective(s.inactive[b])
    /\ \A h \in Range(s.inactive[b]) :
         s.obj[h].dbref # EMPTY => Hash(s.obj[h].dbref) = b /\ s.obj[h].dead = 0

ChainsDisjoint(s) ==
  \A b, c \in Bucket :
    /\ s.active[b] \cap Range(s.inactive[c]) = {}
    /\ b # c => Range(s.inactive[b]) \cap Range(s.inactive[c]) = {}

OneHolder(s) ==
  \A g, h \in Chained(s) :
    s.obj[g].dbref = s.obj[h].dbref /\ s.obj[g].dbref # EMPTY => g = h

ChainsOK(s) ==
  /\ ActiveOK(s)
  /\ InactiveOK(s)
  /\ ChainsDisjoint(s)
  /\ OneHolder(s)
  /\ Chained(s) \subseteq s.heap

\* An inactive holder's refs field means nothing; cache.c sets it anew.
References(s, h) == IF h \in Active(s) THEN s.obj[h].refs ELSE 0
=============================================================================
