--------------------------------- MODULE Pmm ---------------------------------
(***************************************************************************)
(* The physical memory manager (src/mem/pmm.c) as a state machine: its     *)
(* clients allocate and free pages in any order, before and after the      *)
(* virtual memory manager is initialised.                                  *)
(*                                                                         *)
(* pmm_free ends by mapping the page back to its place in the higher half  *)
(* once the VMM runs. That mapping may itself take pages for page tables;  *)
(* here it takes any number of them up to TablesPerMap (module Vmm has the *)
(* page tables themselves).                                                *)
(***************************************************************************)
EXTENDS PmmBitmap

CONSTANTS
  PhysArgs,       \* physical addresses pmm_virt_to_phys yields for pmm_free
  TablesPerMap    \* most page tables one vmm_map_page allocates

ASSUME ArgsAssumption ==
  /\ PhysArgs \subseteq 0 .. UINT64_MAX
  /\ TablesPerMap \in Nat

VARIABLES
  pmm,              \* [bitmap, num], see PmmBitmap
  pmm_ready,        \* pmm_init has run
  vmm_initialised,  \* vmm_has_initialised()
  last              \* history: the last call, [op, page], a virtual address

pmm_vars == <<pmm, pmm_ready, vmm_initialised, last>>

PmmStates == [bitmap : [BitmapCells -> BOOLEAN], num : Nat]

PageOf(phys) == pmm_phys_to_virt(phys - (phys % PAGE))

-----------------------------------------------------------------------------
\* The memory the bitmap will occupy holds anything when the kernel starts.
PmmInit ==
  /\ pmm \in [bitmap : [BitmapCells -> BOOLEAN], num : {0}]
  /\ pmm_ready = FALSE
  /\ vmm_initialised = FALSE
  /\ last = [op |-> "none", page |-> pmm_phys_to_virt(0)]

pmm_init ==
  /\ ~pmm_ready
  /\ pmm' = InitialPmm(pmm.num)
  /\ pmm_ready' = TRUE
  /\ UNCHANGED <<vmm_initialised, last>>

\* vmm_init reads cr3 and sets the flag; it allocates nothing.
vmm_init ==
  /\ pmm_ready /\ ~vmm_initialised
  /\ vmm_initialised' = TRUE
  /\ UNCHANGED <<pmm, pmm_ready, last>>

\* The caller gets the virtual address, phys_to_virt(0) when memory is full.
Returns(r) ==
  /\ pmm' = r.pmm
  /\ last' = [op |-> "alloc", page |-> pmm_phys_to_virt(r.page)]
  /\ UNCHANGED <<pmm_ready, vmm_initialised>>

pmm_alloc == pmm_ready /\ Returns(pmm_alloc_phys(pmm))

pmm_alloc_zeroed == pmm_ready /\ Returns(pmm_allocz(pmm))

\* The sets of pages that up to TablesPerMap successive calls of pmm_allocz
\* can take: the lowest free indices, all of them if memory runs out.
TableTakes(p) ==
  {T \in SUBSET FreeIndices(p) :
     /\ Cardinality(T) <= TablesPerMap
     /\ \A i \in T, j \in FreeIndices(p) \ T : i < j}

\* The pages are taken and zeroed; a call that finds no page zeroes page 0.
TakeTables(p, T) ==
  LET cells  == {Cell(i) : i \in T}
      zeroed == {0} \cup {pmm_get_address_by_index(i) : i \in T}
  IN  [bitmap |-> [c \in BitmapCells |-> (p.bitmap[c] \/ c \in cells) /\ c[1] \notin zeroed],
       num    |-> p.num + Cardinality(cells)]

Freed(phys) ==
  pmm_set_usable_page_allocated_by_index(pmm, pmm_get_index_by_address(phys), FALSE)

\* Mutant: the pages of the bitmap can be freed.
pmm_free_NoCheck(phys) ==
  /\ pmm_ready
  /\ phys # UINT64_MAX
  /\ last' = [op |-> "free", page |-> PageOf(phys)]
  /\ UNCHANGED <<pmm_ready, vmm_initialised>>
  /\ pmm' = Freed(phys)

\* Bitmap pages are refused; an address in no usable entry gets past the
\* check with index UINT64_MAX, clears no bit and is mapped all the same.
pmm_free(phys) ==
  /\ pmm_ready
  /\ phys # UINT64_MAX
  /\ last' = [op |-> "free", page |-> PageOf(phys)]
  /\ UNCHANGED <<pmm_ready, vmm_initialised>>
  /\ \/ /\ pmm_get_index_by_address(phys) < pmm_bitmap_pages
        /\ UNCHANGED pmm
     \/ /\ pmm_get_index_by_address(phys) >= pmm_bitmap_pages
        /\ ~vmm_initialised
        /\ pmm' = Freed(phys)
     \/ /\ pmm_get_index_by_address(phys) >= pmm_bitmap_pages
        /\ vmm_initialised
        /\ \E T \in TableTakes(Freed(phys)) : pmm' = TakeTables(Freed(phys), T)

PmmNext ==
  \/ pmm_init
  \/ vmm_init
  \/ pmm_alloc
  \/ pmm_alloc_zeroed
  \/ \E phys \in PhysArgs : pmm_free(phys)

PmmSpec == PmmInit /\ [][PmmNext]_pmm_vars

-----------------------------------------------------------------------------
\* Properties

\* Every variable has its type; the count is a natural number, so
\* pmm_num_allocated_pages never wraps below zero (pmm.c:147).
PmmTypeOK ==
  /\ pmm \in PmmStates
  /\ pmm_ready \in BOOLEAN
  /\ vmm_initialised \in BOOLEAN
  /\ last \in [op : {"none", "alloc", "free"}, page : Nat]

\* pmm_num_allocated_pages, kept incrementally by
\* pmm_set_usable_page_allocated_by_index, is the number of usable pages whose
\* bit is set, through double frees, frees of foreign addresses and failed
\* allocations; so pmm_get_current_free_memory never underflows.
CountMatchesBitmap ==
  pmm_ready =>
    pmm.num = Cardinality({i \in 0 .. pmm_usable_pages - 1 : pmm.bitmap[Cell(i)]})

\* The pages that hold the bitmap stay marked allocated for ever: neither a
\* free of their address nor the zeroing of an allocated page clears a bit
\* of theirs (pmm.c:186 "Prevents the freeing of bitmap pages").
BitmapPagesReserved ==
  pmm_ready => \A i \in 0 .. pmm_bitmap_pages - 1 : pmm.bitmap[Cell(i)]

\* The pages handed out: the usable pages after the bitmap whose bit is set.
GrantablePages ==
  {pmm_phys_to_virt(pmm_get_address_by_index(i)) :
     i \in pmm_bitmap_pages .. pmm_usable_pages - 1}

Owned ==
  IF ~pmm_ready THEN {}
  ELSE {pmm_phys_to_virt(pmm_get_address_by_index(i)) :
          i \in {k \in pmm_bitmap_pages .. pmm_usable_pages - 1 : pmm.bitmap[Cell(k)]}}

Allocator ==
  INSTANCE PageAllocator WITH
    Pages <- GrantablePages,
    Addresses <- {PageOf(phys) : phys \in PhysArgs},
    NoPage <- pmm_phys_to_virt(0),
    owned <- Owned

\* The bitmap allocator implements the abstract one: pmm_alloc returns a page
\* nobody owns, fails only when every page is owned, and pmm_free releases
\* the page its argument lies in and no other, whatever memory map entry and
\* whatever bitmap page that page's bit is in.
ImplementsAllocator == Allocator!Spec
=============================================================================
