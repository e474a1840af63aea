---------------------------- MODULE ObjectCache ----------------------------
(***************************************************************************)
(* The server's objects at work: interpreter frames that hold references   *)
(* to cached objects, and the operations that create, reparent, modify,    *)
(* destroy and save objects through the cache (cache.c, object.c,          *)
(* adminop.c, and the reference-taking part of execute.c).                 *)
(*                                                                         *)
(* The server is one thread, so an operation is never interleaved with     *)
(* another one; but the loops of object.c retrieve and discard other       *)
(* objects at every turn, each of which can evict or load an object.  Such *)
(* a loop is a small state machine, call, that takes one step per turn.    *)
(* Mutants are marked as in ObjectStore.                                   *)
(***************************************************************************)
EXTENDS ObjectStore

CONSTANTS
  MaxFrames,     \* bound: interpreter frames (config.h allows 128)
  MaxRestarts,   \* bound: orderly restarts of the server
  ParentLists,   \* the parent lists create() and chparents() are called with
  NULL

ASSUME ClientAssumption ==
  /\ MaxDbref >= 1
  /\ MaxFrames \in Nat
  /\ MaxRestarts \in Nat
  /\ ParentLists \subseteq Seq(Dbref)
  /\ NULL \notin Holder

SYSTEM_DBREF == 0
ROOT_DBREF == 1

VARIABLES
  store,      \* the cache and the database (ObjectStore)
  frames,     \* the call stack: what each frame's object and method->object point to
  pending,    \* references the running C code has still to discard, last one first
  call,       \* the loop of object.c that is under way
  dbTop,      \* db_top
  restarts,   \* how often the server was restarted
  crashed     \* the process died of a NULL object or a list index of -1

vars == <<store, frames, pending, call, dbTop, restarts, crashed>>

(***************************************************************************)
(* A loop under way.  who is the object the C function works on and holds  *)
(* a reference to; victim the one being destroyed (in no chain, without    *)
(* references); todo and kids the dbrefs the loops have still to visit;    *)
(* wanted the new parents; stack and seen the state of the ancestor        *)
(* search.  A method search is made for target and holds a reference to    *)
(* found, the object of the last method it found.                          *)
(***************************************************************************)
PC == {"idle", "method", "check", "search", "leave", "adopt", "kids"}

Call ==
  [pc: PC, who: Holder \cup {NULL}, victim: Holder \cup {NULL}, todo: Seq(Dbref),
   kids: Seq(Dbref), wanted: Seq(Dbref), stack: Seq(Dbref), seen: SUBSET Dbref,
   target: Holder \cup {NULL}, found: Holder \cup {NULL}]

Idle ==
  [pc |-> "idle", who |-> NULL, victim |-> NULL, todo |-> <<>>,
   kids |-> <<>>, wanted |-> <<>>, stack |-> <<>>, seen |-> {},
   target |-> NULL, found |-> NULL]

Frame == [object: Holder, definer: Holder]

(***************************************************************************)
(* The object behind a dbref, wherever it is.                              *)
(***************************************************************************)
CacheHits(s, d) == ActiveHits(s, d) \cup InactiveHits(s, d)

Exists(s, d) == Check(s, d)

ObjectData(s, d) ==
  IF CacheHits(s, d) # {} THEN s.obj[CHOOSE h \in CacheHits(s, d) : TRUE].data ELSE s.disk[d]

ParentsOf(s, d) == IF Exists(s, d) THEN Range(ObjectData(s, d).parents) ELSE {}

\* d and every object above it: anc[n] holds those at most n levels up.
Ancestry(s, d) ==
  LET up == [x \in Dbref |-> ParentsOf(s, x)]
      anc[n \in Nat] == IF n = 0 THEN {d} ELSE anc[n - 1] \cup UNION {up[x] : x \in anc[n - 1]}
  IN  anc[MaxDbref]

\* list_delete_element(): the first occurrence goes.  Lists are values here;
\* their elements start at the first slot of the array (list->start is 0).
FirstIndex(list, e) ==
  CHOOSE i \in 1 .. Len(list) : list[i] = e /\ \A j \in 1 .. i - 1 : list[j] # e

ListDelete(list, e) == RemoveAt(list, FirstIndex(list, e))

-----------------------------------------------------------------------------
(***************************************************************************)
(* Start-up: initialize() creates the cache and looks up the root and the  *)
(* system object, which every database has.                                *)
(***************************************************************************)
Touch(s, d) == Discard(Retrieve(s, d), Retrieved(s, d))

Boot(disk) == Touch(Touch(InitCache(disk), ROOT_DBREF), SYSTEM_DBREF)

FirstDisk ==
  [d \in Dbref |->
     CASE d = ROOT_DBREF -> [Blank EXCEPT !.children = <<SYSTEM_DBREF>>]
       [] d = SYSTEM_DBREF -> [Blank EXCEPT !.parents = <<ROOT_DBREF>>]
       [] OTHER -> NoImage]

Init ==
  /\ store = Boot(FirstDisk)
  /\ frames = <<>>
  /\ pending = <<>>
  /\ call = Idle
  /\ dbTop = 2
  /\ restarts = 0
  /\ crashed = FALSE

-----------------------------------------------------------------------------
(***************************************************************************)
(* Guards.  Ready: no C function that touches objects is under way, the    *)
(* interpreter (or the main loop) decides what comes next.                 *)
(***************************************************************************)
Running(pc) == ~crashed /\ call.pc = pc
Ready == Running("idle") /\ pending = <<>>
AtMainLoop == Ready /\ frames = <<>>
Current == frames[Len(frames)]
CurrentIsSystem == frames # <<>> /\ store.obj[Current.object].dbref = SYSTEM_DBREF

\* The process dies; only the database files remain.
Die ==
  /\ crashed' = TRUE
  /\ store' = InitCache(store.disk)
  /\ frames' = <<>>
  /\ pending' = <<>>
  /\ call' = Idle
  /\ UNCHANGED <<dbTop, restarts>>

(***************************************************************************)
(* cache_retrieve() of an object that is not there, by a caller that       *)
(* checks for NULL: the task goes on with an ~objnf error.                 *)
(***************************************************************************)
NotFound(d) ==
  /\ ~Exists(store, d)
  /\ store' = Retrieve(store, d)
  /\ UNCHANGED <<frames, pending, call, dbTop, restarts, crashed>>

(***************************************************************************)
(* send_message() to object d: the search for its method begins, with a    *)
(* reference to d held.                                                    *)
(***************************************************************************)
SendMessage(d) ==
  /\ Ready
  /\ CanRetrieve(store, d)
  /\ \/ NotFound(d)
     \/ /\ Exists(store, d)
        /\ store' = Retrieve(store, d)
        /\ call' = [Idle EXCEPT !.pc = "method", !.who = Retrieved(store, d),
                                !.target = Retrieved(store, d)]
        /\ UNCHANGED <<frames, pending, dbTop, restarts, crashed>>

\* Mutant: the object the search has come to is not retrieved.
PassMessageUnheld ==
  /\ Ready
  /\ frames # <<>>
  /\ \E h \in Active(store) :
       call' = [Idle EXCEPT !.pc = "method", !.who = h, !.target = Current.object]
  /\ UNCHANGED <<store, frames, pending, dbTop, restarts, crashed>>

(***************************************************************************)
(* pass_message(), and the other operations that search the ancestors of   *)
(* the current object: with several parents object_find_next_method()      *)
(* holds the object b it has come to; object_text_dump() is entered with a *)
(* reference to every object in turn.                                      *)
(***************************************************************************)
PassMessage ==
  /\ Ready
  /\ frames # <<>>
  /\ \/ /\ call' = [Idle EXCEPT !.pc = "method", !.target = Current.object]
        /\ UNCHANGED store
     \/ \E b \in Dbref :
          /\ Exists(store, b)
          /\ CanRetrieve(store, b)
          /\ store' = Retrieve(store, b)
          /\ call' = [Idle EXCEPT !.pc = "method", !.who = Retrieved(store, b),
                                  !.target = Current.object]
  /\ UNCHANGED <<frames, pending, dbTop, restarts, crashed>>

(***************************************************************************)
(* frame_return(): the frame's references go, its object's first.          *)
(***************************************************************************)
FrameReturn ==
  /\ Ready
  /\ frames # <<>>
  /\ pending' = <<Current.definer, Current.object>>
  /\ frames' = SubSeq(frames, 1, Len(frames) - 1)
  /\ UNCHANGED <<store, call, dbTop, restarts, crashed>>

(***************************************************************************)
(* op_create() and object_new(): only the system object creates, and all   *)
(* parents exist.  The new object's holder comes clean from the cache and  *)
(* nothing marks it dirty; telling the parents is the loop "adopt".        *)
(***************************************************************************)
NewObject(parents) == [Blank EXCEPT !.parents = parents]

Create(parents) ==
  /\ Ready
  /\ CurrentIsSystem
  /\ dbTop <= MaxDbref
  /\ CanGetHolder(store, dbTop)
  /\ \A i \in 1 .. Len(parents) : Exists(store, parents[i])
  /\ store' = GetHolder(store, dbTop, NewObject(parents))
  /\ call' = [Idle EXCEPT !.pc = "adopt", !.who = Victim(store, dbTop), !.todo = parents]
  /\ dbTop' = dbTop + 1
  /\ UNCHANGED <<frames, pending, restarts, crashed>>

\* Mutant: op_destroy() keeps the reference it took.
DestroyLeaks(d) ==
  /\ Ready
  /\ CurrentIsSystem
  /\ d \notin {ROOT_DBREF, SYSTEM_DBREF}
  /\ CanRetrieve(store, d)
  /\ Exists(store, d)
  /\ store' = MarkDead(Retrieve(store, d), Retrieved(store, d))
  /\ UNCHANGED <<frames, pending, call, dbTop, restarts, crashed>>

(***************************************************************************)
(* op_destroy(): the object is only marked; it goes with its last          *)
(* reference.                                                              *)
(***************************************************************************)
Destroy(d) ==
  /\ Ready
  /\ CurrentIsSystem
  /\ d \notin {ROOT_DBREF, SYSTEM_DBREF}
  /\ CanRetrieve(store, d)
  /\ \/ NotFound(d)
     \/ /\ Exists(store, d)
        /\ store' = MarkDead(Retrieve(store, d), Retrieved(store, d))
        /\ pending' = <<Retrieved(store, d)>>
        /\ UNCHANGED <<frames, call, dbTop, restarts, crashed>>

(***************************************************************************)
(* op_chparents(): everything up to object_change_parents(), whose first   *)
(* loop is "check".  Called with no parents it throws an error, and keeps  *)
(* the reference it has taken: nothing in the program points to the object *)
(* any more, and nothing ever discards it.                                 *)
(***************************************************************************)
ChangeParents(d, parents) ==
  /\ Ready
  /\ CurrentIsSystem
  /\ d # ROOT_DBREF
  /\ CanRetrieve(store, d)
  /\ \/ NotFound(d)
     \/ /\ Exists(store, d)
        /\ parents = <<>>
        /\ store' = Retrieve(store, d)
        /\ UNCHANGED <<frames, pending, call, dbTop, restarts, crashed>>
     \/ /\ Exists(store, d)
        /\ parents # <<>>
        /\ store' = Retrieve(store, d)
        /\ call' = [Idle EXCEPT !.pc = "check", !.who = Retrieved(store, d),
                                !.todo = parents, !.wanted = parents]
        /\ UNCHANGED <<frames, pending, dbTop, restarts, crashed>>

(***************************************************************************)
(* The running method's object gets a new method table (object_add_method, *)
(* object_del_method) or a new variable value (object_assign_var).  The    *)
(* first marks the object dirty; the second only when the object had no    *)
(* slot for the variable yet.                                              *)
(***************************************************************************)
DefineMethod(m) ==
  LET h == Current.object
  IN  /\ Ready
      /\ frames # <<>>
      /\ store' = MarkDirty(SetData(store, h, [store.obj[h].data EXCEPT !.methods = m]), h)
      /\ UNCHANGED <<frames, pending, call, dbTop, restarts, crashed>>

AssignVar(v) ==
  LET h == Current.object
      s1 == SetData(store, h, [store.obj[h].data EXCEPT !.vars = v])
  IN  /\ Ready
      /\ frames # <<>>
      /\ v # Blank.vars
      /\ store' = IF store.obj[h].data.vars = Blank.vars THEN MarkDirty(s1, h) ELSE s1
      /\ UNCHANGED <<frames, pending, call, dbTop, restarts, crashed>>

(***************************************************************************)
(* op_binary_dump(), and an orderly end: after shutdown() the main loop    *)
(* ends, main() saves the cache, and a new process starts from the clean   *)
(* database.  init_db() puts db_top one above the last dbref on disk.      *)
(***************************************************************************)
BinaryDump ==
  /\ Ready
  /\ CurrentIsSystem
  /\ store' = Sync(store)
  /\ UNCHANGED <<frames, pending, call, dbTop, restarts, crashed>>

\* Mutant: main() ends without saving the cache.
RestartUnsaved ==
  /\ AtMainLoop
  /\ restarts < MaxRestarts
  /\ store' = Boot(store.disk)
  /\ dbTop' = 1 + CHOOSE d \in Dbref : /\ store.disk[d] # NoImage
                                       /\ \A e \in Dbref : store.disk[e] # NoImage => e <= d
  /\ restarts' = restarts + 1
  /\ UNCHANGED <<frames, pending, call, crashed>>

Restart ==
  LET disk == Sync(store).disk
  IN  /\ AtMainLoop
      /\ restarts < MaxRestarts
      /\ store' = Boot(disk)
      /\ dbTop' = 1 + CHOOSE d \in Dbref : /\ disk[d] # NoImage
                                           /\ \A e \in Dbref : disk[e] # NoImage => e <= d
      /\ restarts' = restarts + 1
      /\ UNCHANGED <<frames, pending, call, crashed>>

-----------------------------------------------------------------------------

\* Mutant: object_destroy() does not tell the parents.
DropReferenceSilently ==
  LET h == pending[Len(pending)]
  IN  /\ Running("idle")
      /\ pending # <<>>
      /\ store' = Discard(store, h)
      /\ pending' = SubSeq(pending, 1, Len(pending) - 1)
      /\ call' = IF Dies(store, h) THEN [Idle EXCEPT !.pc = "leave", !.victim = h] ELSE Idle
      /\ UNCHANGED <<frames, dbTop, restarts, crashed>>

(***************************************************************************)
(* A pending cache_discard().  When it takes the last reference of a dead  *)
(* object, object_destroy() begins with the loop "leave" over its parents. *)
(***************************************************************************)
DropReference ==
  LET h == pending[Len(pending)]
  IN  /\ Running("idle")
      /\ pending # <<>>
      /\ store' = Discard(store, h)
      /\ pending' = SubSeq(pending, 1, Len(pending) - 1)
      /\ call' = IF Dies(store, h)
                 THEN [Idle EXCEPT !.pc = "leave", !.victim = h, !.todo = store.obj[h].data.parents]
                 ELSE Idle
      /\ UNCHANGED <<frames, dbTop, restarts, crashed>>

(***************************************************************************)
(* One visit of a method search (object_find_method, search_object,        *)
(* method_cache_check) or of another traversal: object x is retrieved;     *)
(* some traversals stamp it, which makes it dirty; an object that has the  *)
(* method is kept instead of the one kept before.  Which objects are       *)
(* visited, and how often, is left open: below the root list_last() reads  *)
(* a dbref from in front of an empty list, so it can be any object, or     *)
(* none, and no caller expects NULL.                                       *)
(***************************************************************************)
VisitAncestor(x, mark, hit) ==
  LET h  == Retrieved(store, x)
      s1 == IF mark THEN MarkDirty(Retrieve(store, x), h) ELSE Retrieve(store, x)
  IN  /\ Running("method")
      /\ CanRetrieve(store, x)
      /\ \/ ~Exists(store, x) /\ Die
         \/ /\ Exists(store, x)
            /\ ~hit
            /\ store' = Discard(s1, h)
            /\ UNCHANGED <<frames, pending, call, dbTop, restarts, crashed>>
         \/ /\ Exists(store, x)
            /\ hit
            /\ store' = IF call.found = NULL THEN s1 ELSE Discard(s1, call.found)
            /\ call' = [call EXCEPT !.found = h]
            /\ UNCHANGED <<frames, pending, dbTop, restarts, crashed>>

\* Mutant: the reference of the search stays behind.
MethodFoundLeaks ==
  LET s1 == Grab(Grab(store, call.target), call.found)
  IN  /\ Running("method")
      /\ call.found # NULL
      /\ Len(frames) < MaxFrames
      /\ store' = IF call.who = NULL THEN s1 ELSE Discard(s1, call.who)
      /\ frames' = Append(frames, [object |-> call.target, definer |-> call.found])
      /\ call' = Idle
      /\ UNCHANGED <<pending, dbTop, restarts, crashed>>

(***************************************************************************)
(* frame_start() and the end of its caller: the new frame refers to target *)
(* and found; the references of the search go.                             *)
(***************************************************************************)
MethodFound ==
  LET s1 == Grab(Grab(store, call.target), call.found)
      s2 == IF call.who = NULL THEN s1 ELSE Discard(s1, call.who)
  IN  /\ Running("method")
      /\ call.found # NULL
      /\ Len(frames) < MaxFrames
      /\ store' = Discard(s2, call.found)
      /\ frames' = Append(frames, [object |-> call.target, definer |-> call.found])
      /\ call' = Idle
      /\ UNCHANGED <<pending, dbTop, restarts, crashed>>

\* No method, a frame_start() that refuses, or a search made for its own sake.
Held(h) == IF h = NULL THEN <<>> ELSE <<h>>

SearchEnds ==
  /\ Running("method")
  /\ pending' = Held(call.found) \o Held(call.who)
  /\ call' = Idle
  /\ UNCHANGED <<store, frames, dbTop, restarts, crashed>>

\* Mutant: a refused chparents() keeps its reference.
RejectLeaks ==
  /\ call' = Idle
  /\ pending' = <<>>

(***************************************************************************)
(* object_change_parents(), first loop: every new parent has to exist and  *)
(* must not have the object among its ancestors.                           *)
(***************************************************************************)
Reject ==
  /\ call' = Idle
  /\ pending' = <<call.who>>

CheckParent ==
  LET p == Head(call.todo)
      me == store.obj[call.who].dbref
  IN  /\ Running("check")
      /\ call.todo # <<>>
      /\ IF ~Exists(store, p) \/ p = me
         THEN Reject
         ELSE /\ call' = [call EXCEPT !.pc = "search", !.stack = <<p>>, !.seen = {}]
              /\ UNCHANGED pending
      /\ UNCHANGED <<store, frames, dbTop, restarts, crashed>>

ParentsChecked ==
  /\ Running("check")
  /\ call.todo = <<>>
  /\ call' = [call EXCEPT !.pc = "leave", !.todo = store.obj[call.who].data.parents]
  /\ UNCHANGED <<store, frames, pending, dbTop, restarts, crashed>>

\* Mutant: the search does not go above the new parent.
SearchAncestorShallow ==
  LET x  == Head(call.stack)
      h  == Retrieved(store, x)
      s1 == Retrieve(store, x)
  IN  /\ Running("search")
      /\ call.stack # <<>>
      /\ CanRetrieve(store, x)
      /\ Exists(store, x)
      /\ store' = Discard(MarkDirty(s1, h), h)
      /\ IF store.obj[call.who].dbref \in Range(s1.obj[h].data.parents)
         THEN Reject
         ELSE /\ call' = [call EXCEPT !.stack = Tail(@)]
              /\ UNCHANGED pending
      /\ UNCHANGED <<frames, dbTop, restarts, crashed>>

(***************************************************************************)
(* object_has_ancestor_aux(): the recursion visits the dbref on top of the *)
(* stack, once per search, and marks it dirty because of its search stamp. *)
(***************************************************************************)
SearchAncestor ==
  LET x  == Head(call.stack)
      h  == Retrieved(store, x)
      s1 == Retrieve(store, x)
      parents == s1.obj[h].data.parents
      rest == Tail(call.stack)
  IN  /\ Running("search")
      /\ call.stack # <<>>
      /\ CanRetrieve(store, x)
      /\ \/ ~Exists(store, x) /\ Die
         \/ /\ Exists(store, x)
            /\ IF x \in call.seen
               THEN /\ store' = Discard(s1, h)
                    /\ call' = [call EXCEPT !.stack = rest]
                    /\ UNCHANGED pending
               ELSE /\ store' = Discard(MarkDirty(s1, h), h)
                    /\ IF store.obj[call.who].dbref \in Range(parents)
                       THEN Reject
                       ELSE /\ call' = [call EXCEPT !.stack = parents \o rest,
                                                    !.seen = @ \cup {x}]
                            /\ UNCHANGED pending
            /\ UNCHANGED <<frames, dbTop, restarts, crashed>>

\* Mutant: the loop over the new parents does not move on.
AncestorAbsentAgain ==
  /\ Running("search")
  /\ call.stack = <<>>
  /\ call' = [call EXCEPT !.pc = "check"]
  /\ UNCHANGED <<store, frames, pending, dbTop, restarts, crashed>>

AncestorAbsent ==
  /\ Running("search")
  /\ call.stack = <<>>
  /\ call' = [call EXCEPT !.pc = "check", !.todo = Tail(@)]
  /\ UNCHANGED <<store, frames, pending, dbTop, restarts, crashed>>

(***************************************************************************)
(* object_update_parents(): the next parent takes the object off its       *)
(* children list ("leave") or adds it ("adopt").                           *)
(***************************************************************************)
Subject == IF call.who # NULL THEN call.who ELSE call.victim

ChildrenAfter(children, me) ==
  IF call.pc = "leave" THEN ListDelete(children, me) ELSE Append(children, me)

\* Mutant: the parent's new children list does not make it dirty.
TellParentClean ==
  LET p  == Head(call.todo)
      h  == Retrieved(store, p)
      s1 == Retrieve(store, p)
      data == s1.obj[h].data
      me == store.obj[Subject].dbref
  IN  /\ Running("leave") \/ Running("adopt")
      /\ call.todo # <<>>
      /\ CanRetrieve(store, p)
      /\ Exists(store, p)
      /\ call.pc = "adopt" \/ me \in Range(data.children)
      /\ store' = Discard(SetData(s1, h, [data EXCEPT !.children = ChildrenAfter(@, me)]), h)
      /\ call' = [call EXCEPT !.todo = Tail(@)]
      /\ UNCHANGED <<frames, pending, dbTop, restarts, crashed>>

TellParent ==
  LET p  == Head(call.todo)
      me == store.obj[Subject].dbref
      h  == Retrieved(store, p)
      s1 == Retrieve(store, p)
      data == s1.obj[h].data
      s2 == SetData(s1, h, [data EXCEPT !.children = ChildrenAfter(@, me)])
  IN  /\ Running("leave") \/ Running("adopt")
      /\ call.todo # <<>>
      /\ CanRetrieve(store, p)
      /\ \/ ~Exists(store, p) /\ Die
         \/ Exists(store, p) /\ call.pc = "leave" /\ me \notin Range(data.children) /\ Die
         \/ /\ Exists(store, p)
            /\ call.pc = "adopt" \/ me \in Range(data.children)
            /\ store' = Discard(MarkDirty(s2, h), h)
            /\ call' = [call EXCEPT !.todo = Tail(@)]
            /\ UNCHANGED <<frames, pending, dbTop, restarts, crashed>>

\* Mutant: the new parents are not told.
SetParentsSilently ==
  /\ Running("leave")
  /\ call.todo = <<>>
  /\ call.victim = NULL
  /\ store' = SetData(store, call.who, [store.obj[call.who].data EXCEPT !.parents = call.wanted])
  /\ call' = [call EXCEPT !.pc = "adopt", !.todo = <<>>]
  /\ UNCHANGED <<frames, pending, dbTop, restarts, crashed>>

(***************************************************************************)
(* object_change_parents(), after the old parents were told.               *)
(***************************************************************************)
SetParents ==
  /\ Running("leave")
  /\ call.todo = <<>>
  /\ call.victim = NULL
  /\ store' = SetData(store, call.who, [store.obj[call.who].data EXCEPT !.parents = call.wanted])
  /\ call' = [call EXCEPT !.pc = "adopt", !.todo = call.wanted]
  /\ UNCHANGED <<frames, pending, dbTop, restarts, crashed>>

(***************************************************************************)
(* object_destroy(), after the parents were told: the children lose this   *)
(* parent, and one that has no other gets its parents.                     *)
(***************************************************************************)
LeftParents ==
  /\ Running("leave")
  /\ call.todo = <<>>
  /\ call.victim # NULL
  /\ call' = [call EXCEPT !.pc = "kids", !.kids = store.obj[call.victim].data.children]
  /\ UNCHANGED <<store, frames, pending, dbTop, restarts, crashed>>

\* Mutant: a child that loses its last parent inherits none.
TellKidOrphans ==
  LET d  == Head(call.kids)
      h  == Retrieved(store, d)
      s1 == Retrieve(store, d)
      data == s1.obj[h].data
      me == store.obj[call.victim].dbref
      left == ListDelete(data.parents, me)
  IN  /\ Running("kids")
      /\ call.kids # <<>>
      /\ CanRetrieve(store, d)
      /\ Exists(store, d)
      /\ me \in Range(data.parents)
      /\ store' = Discard(MarkDirty(SetData(s1, h, [data EXCEPT !.parents = left]), h), h)
      /\ call' = [call EXCEPT !.kids = Tail(@)]
      /\ UNCHANGED <<frames, pending, dbTop, restarts, crashed>>

TellKid ==
  LET d  == Head(call.kids)
      me == store.obj[call.victim].dbref
      h  == Retrieved(store, d)
      s1 == Retrieve(store, d)
      data == s1.obj[h].data
      left == ListDelete(data.parents, me)
      inherited == store.obj[call.victim].data.parents
  IN  /\ Running("kids")
      /\ call.kids # <<>>
      /\ CanRetrieve(store, d)
      /\ \/ ~Exists(store, d) /\ Die
         \/ Exists(store, d) /\ me \notin Range(data.parents) /\ Die
         \/ /\ Exists(store, d)
            /\ me \in Range(data.parents)
            /\ IF left # <<>>
               THEN /\ store' = Discard(MarkDirty(SetData(s1, h, [data EXCEPT !.parents = left]), h), h)
                    /\ call' = [call EXCEPT !.kids = Tail(@)]
               ELSE /\ store' = SetData(s1, h, [data EXCEPT !.parents = inherited])
                    /\ call' = [call EXCEPT !.pc = "adopt", !.who = h, !.todo = inherited,
                                            !.kids = Tail(@)]
            /\ UNCHANGED <<frames, pending, dbTop, restarts, crashed>>

(***************************************************************************)
(* The end of "adopt": the created or reparented object is discarded by    *)
(* the operation; a child of the destroyed object by object_destroy(),     *)
(* which marks it dirty and turns to the next one.                         *)
(***************************************************************************)
Adopted ==
  /\ Running("adopt")
  /\ call.todo = <<>>
  /\ IF call.victim = NULL
     THEN /\ pending' = <<call.who>>
          /\ call' = Idle
          /\ UNCHANGED store
     ELSE /\ store' = Discard(MarkDirty(store, call.who), call.who)
          /\ call' = [call EXCEPT !.pc = "kids", !.who = NULL]
          /\ UNCHANGED pending
  /\ UNCHANGED <<frames, dbTop, restarts, crashed>>

(***************************************************************************)
(* The end of object_destroy(): cache_discard() links the empty holder.    *)
(***************************************************************************)
Buried ==
  /\ Running("kids")
  /\ call.kids = <<>>
  /\ store' = Bury(store, call.victim)
  /\ call' = Idle
  /\ UNCHANGED <<frames, pending, dbTop, restarts, crashed>>

-----------------------------------------------------------------------------
\* The process is gone.
Halted == crashed /\ UNCHANGED vars

\* What the interpreter and the main loop may begin.
Operation ==
  \/ \E d \in Dbref : SendMessage(d)
  \/ PassMessage
  \/ FrameReturn
  \/ \E parents \in ParentLists : Create(parents)
  \/ \E d \in Dbref : Destroy(d)
  \/ \E d \in Dbref, parents \in ParentLists : ChangeParents(d, parents)
  \/ \E m \in Methods : DefineMethod(m)
  \/ \E v \in Vars : AssignVar(v)
  \/ BinaryDump
  \/ Restart

\* What C code that has begun does next.
Continue ==
  \/ DropReference
  \/ \E x \in Dbref, mark, hit \in BOOLEAN : VisitAncestor(x, mark, hit)
  \/ MethodFound
  \/ SearchEnds
  \/ CheckParent
  \/ ParentsChecked
  \/ SearchAncestor
  \/ AncestorAbsent
  \/ TellParent
  \/ SetParents
  \/ LeftParents
  \/ TellKid
  \/ Adopted
  \/ Buried

Next == Operation \/ Continue \/ Halted

Spec == Init /\ [][Next]_vars

\* A C function that has begun goes on: nothing else runs in the process.  This
\* is WF_vars(Continue), with the states that enable Continue written out.
Busy == ~crashed /\ (call.pc # "idle" \/ pending # <<>>)
Fairness == <>[]Busy => []<><<Continue>>_vars
FairSpec == Spec /\ Fairness

-----------------------------------------------------------------------------
(***************************************************************************)
(* Properties.                                                             *)
(***************************************************************************)

\* The variables have the values the C types allow.
TypeOK ==
  /\ store \in Store
  /\ frames \in Seq(Frame)
  /\ pending \in Seq(Holder)
  /\ call \in Call
  /\ dbTop \in 0 .. MaxDbref + 1
  /\ restarts \in 0 .. MaxRestarts
  /\ crashed \in BOOLEAN

\* The holders a pointer of the interpreter or of a C function refers to, as
\* the number of such pointers per holder.
Count(list, h) == Cardinality({i \in 1 .. Len(list) : list[i] = h})
Objects == [i \in 1 .. Len(frames) |-> frames[i].object]
Definers == [i \in 1 .. Len(frames) |-> frames[i].definer]

Pointers(h) ==
  Count(Objects, h) + Count(Definers, h) + Count(pending, h) + Count(<<call.who, call.found>>, h)

(***************************************************************************)
(* cache.c's chains are intact (ChainsOK), whatever the loops of object.c  *)
(* retrieve and discard while cache_discard() destroys an object.          *)
(***************************************************************************)
ChainsConsistent == ChainsOK(store)

(***************************************************************************)
(* While object_destroy() runs, the object it destroys is in no chain, so  *)
(* that no cache call it makes can hand out, evict or save that object.    *)
(***************************************************************************)
VictimUnlinked ==
  call.victim # NULL =>
    /\ call.victim \notin Chained(store)
    /\ store.disk[store.obj[call.victim].dbref] = NoImage
    /\ ~Exists(store, store.obj[call.victim].dbref)

(***************************************************************************)
(* Reference counts are exact: an active holder has as many references as  *)
(* there are pointers to it, and no pointer refers to another holder.  A   *)
(* count too high leaks the object, one too low lets the cache reuse it    *)
(* under a running method.                                                 *)
(***************************************************************************)
RefsExact ==
  \A h \in Holder : References(store, h) = Pointers(h)

(***************************************************************************)
(* object_destroy() never runs inside one of the loops, nor inside itself: *)
(* a destroyed object that a loop or a search holds is also held by a      *)
(* frame or by an earlier operation, so that no cache_discard() of the     *)
(* loop's own finds it dead and unreferenced.                              *)
(***************************************************************************)
DestroyNeverNests ==
  \A h \in Active(store) :
    store.obj[h].dead = 1 => store.obj[h].refs > Count(<<call.who, call.found>>, h)

\* cache_sanity_check() in main_loop() never panics.
SanityCheckPasses == AtMainLoop => Active(store) = {}

(***************************************************************************)
(* A frame's pointers denote the same objects as long as the frame exists, *)
(* whatever is retrieved, evicted or destroyed meanwhile.                  *)
(***************************************************************************)
FramesKeepObjects ==
  [][\A i \in 1 .. Len(frames) :
       i <= Len(frames') /\ frames'[i] = frames[i] =>
         \A h \in {frames[i].object, frames[i].definer} :
           store'.obj[h].dbref = store.obj[h].dbref]_vars

(***************************************************************************)
(* An object's children list and methods survive eviction: a clean object  *)
(* that was ever saved has its current ones on disk.                       *)
(***************************************************************************)
CleanIsSaved ==
  \A h \in Chained(store) :
    LET o == store.obj[h]
    IN  o.dbref # EMPTY /\ o.dirty = 0 /\ store.disk[o.dbref] # NoImage =>
          /\ store.disk[o.dbref].children = o.data.children
          /\ store.disk[o.dbref].methods = o.data.methods

(***************************************************************************)
(* The hierarchy, whenever no loop is changing it: every object is on the  *)
(* children list of each of its parents as often as it names the parent,   *)
(* and the lists name existing objects only.                               *)
(***************************************************************************)
HierarchySymmetric ==
  Running("idle") =>
    \A d \in Dbref : Exists(store, d) =>
      /\ \A e \in Range(ObjectData(store, d).parents) \cup Range(ObjectData(store, d).children) :
           Exists(store, e)
      /\ \A p \in Dbref : Exists(store, p) =>
           Count(ObjectData(store, d).parents, p) = Count(ObjectData(store, p).children, d)

\* No object is its own ancestor: chparents() refuses, destroy() cannot cause it.
HierarchyAcyclic ==
  \A d \in Dbref : \A p \in ParentsOf(store, d) : d \notin Ancestry(store, p)

\* Destroying an object leaves no orphan: everything descends from the root.
NoOrphans ==
  Running("idle") => \A d \in Dbref : Exists(store, d) => ROOT_DBREF \in Ancestry(store, d)

(***************************************************************************)
(* The loops of object_update_parents() and object_destroy() never pass a  *)
(* NULL object on, and list_delete_element() always finds its element (it  *)
(* does not check): every object still to be told exists and, if it is to  *)
(* forget the subject, knows it at least as often as it will be told.      *)
(***************************************************************************)
LoopsFindTheirObjects ==
  LET me == store.obj[Subject].dbref
      knows(p) == Count(ObjectData(store, p).children, me)
      named(p) == Count(ObjectData(store, p).parents, me)
  IN  /\ Running("leave") \/ Running("adopt") =>
           \A p \in Range(call.todo) : Exists(store, p)
      /\ Running("leave") =>
           \A p \in Range(call.todo) : knows(p) >= Count(call.todo, p)
      /\ Running("kids") =>
           \A d \in Range(call.kids) : Exists(store, d) /\ named(d) >= Count(call.kids, d)

(***************************************************************************)
(* destroy() takes effect: once nothing refers to the object, it is gone   *)
(* from the cache and from disk.                                           *)
(***************************************************************************)
DestroyedAreGone ==
  Ready => \A h \in Chained(store) :
    store.obj[h].dbref # EMPTY /\ store.obj[h].dead = 1 => Pointers(h) > 0

\* Every loop over parents, children or ancestors ends.
OperationsFinish == call.pc \notin {"idle", "method"} ~> call.pc = "idle"

(***************************************************************************)
(* What an orderly restart keeps: methods and lists of children, of every  *)
(* object that is on disk by then.                                         *)
(***************************************************************************)
RestartKeepsMethods ==
  [][Restart => \A d \in Dbref : Exists(store', d) =>
       /\ ObjectData(store', d).methods = ObjectData(store, d).methods
       /\ ObjectData(store', d).children = ObjectData(store, d).children]_vars

(***************************************************************************)
(* What the manual promises of binary_dump(): all modified objects in the  *)
(* cache are written to the database.                                      *)
(***************************************************************************)
Saved(s, h) == s.obj[h].dbref # EMPTY => s.disk[s.obj[h].dbref] = s.obj[h].data

DumpSavesEverything == [][BinaryDump => \A h \in Chained(store) : Saved(store', h)]_vars

(***************************************************************************)
(* What the test plan expects of assignments: "persists indefinitely".  As *)
(* long as an object exists, only an assignment changes its variables.     *)
(***************************************************************************)
AssignmentPersists ==
  [][(\A v \in Vars : ~AssignVar(v)) /\ ~crashed' =>
       \A d \in Dbref : Exists(store, d) /\ Exists(store', d) =>
         ObjectData(store', d).vars = ObjectData(store, d).vars]_vars
=============================================================================
