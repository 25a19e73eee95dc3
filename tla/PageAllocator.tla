---------------------------- MODULE PageAllocator ----------------------------
(***************************************************************************)
(* What a client of the physical memory manager relies on: a set of pages, *)
(* some of them owned. An allocation hands out a page nobody owns, or      *)
(* NoPage when every page is owned; a release gives back exactly the page  *)
(* named, and may hand further unowned pages to the page tables that map   *)
(* the released page again.                                                *)
(***************************************************************************)
CONSTANTS
  Pages,     \* the pages that may be handed out
  Addresses, \* the page addresses a client may name in a release
  NoPage     \* the result of an allocation that fails

VARIABLES
  owned,     \* the pages handed out and not given back
  last       \* the last call: [op, page]

vars == <<owned, last>>

Init ==
  /\ owned = {}
  /\ last = [op |-> "none", page |-> NoPage]

Allocate(p) ==
  /\ p \in Pages \ owned
  /\ owned' = owned \cup {p}
  /\ last' = [op |-> "alloc", page |-> p]

OutOfMemory ==
  /\ owned = Pages
  /\ last' = [op |-> "alloc", page |-> NoPage]
  /\ UNCHANGED owned

Release(p) ==
  /\ last' = [op |-> "free", page |-> p]
  /\ \E tables \in SUBSET (Pages \ (owned \ {p})) :
       owned' = (owned \ {p}) \cup tables

Next ==
  \/ \E p \in Pages : Allocate(p)
  \/ OutOfMemory
  \/ \E p \in Addresses : Release(p)

Spec == Init /\ [][Next]_vars
=============================================================================
