-------------------------------- MODULE MCHeap -------------------------------
(***************************************************************************)
(* TLC instance of Heap: pages of eight bytes, headers of two, requests    *)
(* that leave room for a header, leave none, fit a page exactly, and need  *)
(* a second page.                                                          *)
(***************************************************************************)
EXTENDS Heap, TLC

CONSTANTS c1, c2, c3

MCClients == {c1, c2, c3}

MCSizes == {1, 4, 6, 9}

MCSymmetry == Permutations(MCClients)
=============================================================================
