----------------------------- MODULE ObjectMap -----------------------------
(***************************************************************************)
(* What the binary database promises the cache: a map from dbrefs to       *)
(* objects that survives a crash as of the last dump, or not at all.       *)
(*                                                                         *)
(* live is what db_get() answers; safe is what the next start will find.   *)
(* Before the first change after a dump, safe is given up, and a start     *)
(* reads a text dump instead.  Only a deletion is different: db_del()      *)
(* removes the object before it gives up safe, so that a crash between the *)
(* two leaves a safe map without the object (Forget).                      *)
(***************************************************************************)
CONSTANTS Dbref, Contents, NoObject

VARIABLES live, safe

vars == <<live, safe>>

Nothing == [d \in Dbref |-> NoObject]

TypeOK ==
  /\ live \in [Dbref -> Contents \cup {NoObject}]
  /\ safe \in [Dbref -> Contents \cup {NoObject}]

Init == live = Nothing /\ safe = Nothing

GiveUp == safe' = Nothing /\ UNCHANGED live

Put(d, c) ==
  /\ safe = Nothing
  /\ live' = [live EXCEPT ![d] = c]
  /\ UNCHANGED safe

Delete(d) == live' = [live EXCEPT ![d] = NoObject] /\ UNCHANGED safe

Forget(d) ==
  /\ live[d] = NoObject
  /\ safe' = [safe EXCEPT ![d] = NoObject]
  /\ UNCHANGED live

Dump == safe' = live /\ UNCHANGED live

\* The process ends, in whatever way; what is safe is all there is.
Stop == live' = safe /\ UNCHANGED safe

Next ==
  \/ GiveUp
  \/ \E d \in Dbref, c \in Contents : Put(d, c)
  \/ \E d \in Dbref : Delete(d) \/ Forget(d)
  \/ Dump
  \/ Stop

Spec == Init /\ [][Next]_vars
=============================================================================
