-------------------------------- MODULE MCPmm --------------------------------
(***************************************************************************)
(* TLC instance of Pmm: two byte pages, three bits per bitmap page, seven  *)
(* usable pages in two memory map entries with holes before, between and   *)
(* after them. The bitmap needs three pages, so its last page lies in the  *)
(* second entry, and four pages remain to be handed out.                   *)
(***************************************************************************)
EXTENDS Pmm

MCMemmap ==
  << [base |-> 0,  length |-> 2,  type |-> "RESERVED"],
     [base |-> 2,  length |-> 4,  type |-> "USABLE"],
     [base |-> 6,  length |-> 2,  type |-> "BOOTLOADER_RECLAIMABLE"],
     [base |-> 8,  length |-> 10, type |-> "USABLE"] >>

\* Every address of the memory map, one past it, and the failed translation
MCPhysArgs == (0 .. 19) \cup {UINT64_MAX}
=============================================================================
