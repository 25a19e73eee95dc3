------------------------------ MODULE PmmBitmap ------------------------------
(***************************************************************************)
(* The data structure behind the physical memory manager (src/mem/pmm.c):  *)
(* the usable pages of the boot memory map, numbered 0, 1, 2, ... in       *)
(* memory map order, and a bitmap with one bit per usable page that is     *)
(* itself stored in the first usable pages.                                *)
(*                                                                         *)
(* The operators are pure: they take the allocator's state, a record       *)
(*     p = [bitmap |-> bit per cell, num |-> pmm_num_allocated_pages]      *)
(* and return a new one, so that the modules Pmm (the allocator alone) and *)
(* Vmm (the allocator under the page tables) use the same definitions.     *)
(* A cell of the bitmap is <<address of the bitmap page, bit of the page>>.*)
(***************************************************************************)
EXTENDS Integers, Sequences, FiniteSets, FiniteSetsExt

CONSTANTS
  PAGE,                \* bytes in a page (0x1000)
  BITS,                \* bits in a bitmap page (0x1000 * 8)
  memmap_entries,      \* the boot memory map: records [base, length, type]
  higher_half_offset,  \* offset of the higher half direct map
  UINT64_MAX           \* the "no such page" result of the lookups

MemmapTypes ==
  {"USABLE", "RESERVED", "ACPI_RECLAIMABLE", "ACPI_NVS", "BAD_MEMORY",
   "BOOTLOADER_RECLAIMABLE", "EXECUTABLE_AND_MODULES", "FRAMEBUFFER"}

-----------------------------------------------------------------------------
\* Usable pages by index and by address

UsableEntries == {i \in DOMAIN memmap_entries : memmap_entries[i].type = "USABLE"}

PagesIn(i) == memmap_entries[i].length \div PAGE

\* The usable pages in the entries before entry i: <<entry, page of the entry>>
PagesBefore(i) ==
  UNION {{j} \X (0 .. PagesIn(j) - 1) : j \in {k \in UsableEntries : k < i}}

\* The value of the loops' current_index when they reach entry i
current_index ==
  [i \in 1 .. Len(memmap_entries) + 1 |-> Cardinality(PagesBefore(i))]

pmm_usable_pages == current_index[Len(memmap_entries) + 1]

pmm_bitmap_pages == (pmm_usable_pages \div BITS) + 1

pmm_get_address_by_index(index) ==
  LET hits == {i \in UsableEntries : index < current_index[i] + PagesIn(i)}
      i    == Min(hits)
  IN  IF hits = {} THEN UINT64_MAX
      ELSE memmap_entries[i].base + PAGE * (index - current_index[i])

InEntry(address, i) ==
  /\ memmap_entries[i].base <= address
  /\ address < memmap_entries[i].base + memmap_entries[i].length

\* Mutant: the pages of the entries before it are not counted.
pmm_get_index_by_address_InEntry(address) ==
  LET hits == {i \in UsableEntries : InEntry(address, i)}
  IN  IF hits = {} THEN UINT64_MAX
      ELSE (address - memmap_entries[Min(hits)].base) \div PAGE

pmm_get_index_by_address(address) ==
  LET hits == {i \in UsableEntries : InEntry(address, i)}
      i    == Min(hits)
  IN  IF hits = {} THEN UINT64_MAX
      ELSE current_index[i] + ((address - memmap_entries[i].base) \div PAGE)

pmm_phys_to_virt(phys) == phys + higher_half_offset

-----------------------------------------------------------------------------
\* The bitmap

BitmapPage(index) == pmm_get_address_by_index(index \div BITS)

Cell(index) == <<BitmapPage(index), index % BITS>>

BitmapCells ==
  {pmm_get_address_by_index(i) : i \in 0 .. pmm_bitmap_pages - 1} \X (0 .. BITS - 1)

pmm_is_usable_page_allocated_by_index(p, index) ==
  BitmapPage(index) = UINT64_MAX \/ p.bitmap[Cell(index)]

\* Mutant: the counter moves whether or not the bit changes.
pmm_set_AlwaysCounts(p, index, allocated) ==
  IF BitmapPage(index) = UINT64_MAX THEN p
  ELSE [bitmap |-> [p.bitmap EXCEPT ![Cell(index)] = allocated],
        num    |-> IF allocated THEN p.num + 1 ELSE p.num - 1]

\* The counter only moves when the bit really changes.
pmm_set_usable_page_allocated_by_index(p, index, allocated) ==
  IF BitmapPage(index) = UINT64_MAX \/ p.bitmap[Cell(index)] = allocated
  THEN p
  ELSE [bitmap |-> [p.bitmap EXCEPT ![Cell(index)] = allocated],
        num    |-> IF allocated THEN p.num + 1 ELSE p.num - 1]

\* Mutant: the bitmap's own pages are not counted.
InitialPmm_NotCounted(num) ==
  [bitmap |-> [c \in BitmapCells |-> c \in {Cell(i) : i \in 0 .. pmm_bitmap_pages - 1}],
   num    |-> num]

\* pmm_init: clear every bitmap page, then mark the bitmap pages themselves.
\* The counter is raised once for every bit that goes from clear to set.
InitialPmm(num) ==
  LET marked == {Cell(i) : i \in 0 .. pmm_bitmap_pages - 1}
  IN  [bitmap |-> [c \in BitmapCells |-> c \in marked],
       num    |-> num + Cardinality(marked)]

FreeIndices(p) ==
  {i \in 0 .. pmm_usable_pages - 1 : ~pmm_is_usable_page_allocated_by_index(p, i)}

TakePage(p, i) ==
  [pmm  |-> pmm_set_usable_page_allocated_by_index(p, i, TRUE),
   page |-> IF pmm_get_address_by_index(i) = UINT64_MAX THEN 0 ELSE pmm_get_address_by_index(i)]

\* First fit. Out of memory, and a page with no address, both return 0.
pmm_alloc_phys(p) ==
  LET free == FreeIndices(p)
  IN  IF free = {} THEN [pmm |-> p, page |-> 0] ELSE TakePage(p, Min(free))

\* memset(page, 0, 0x1000), as far as the bitmap can see it.
ZeroPage(p, page) ==
  [p EXCEPT !.bitmap = [c \in DOMAIN p.bitmap |-> p.bitmap[c] /\ c[1] # page]]

Zeroed(r) == [r EXCEPT !.pmm = ZeroPage(r.pmm, r.page)]

pmm_allocz(p) == Zeroed(pmm_alloc_phys(p))

-----------------------------------------------------------------------------
\* What the boot protocol guarantees about the memory map: usable entries are
\* page aligned, do not overlap, never contain page 0, and there is at least
\* one. The sentinel lies above every address and every index.

ASSUME SizeAssumption ==
  /\ PAGE \in Nat \ {0}
  /\ BITS \in Nat /\ BITS >= 2
  /\ higher_half_offset \in Nat

ASSUME MemmapAssumption ==
  /\ memmap_entries \in Seq([base : Nat, length : Nat, type : MemmapTypes])
  /\ \A i \in UsableEntries :
       /\ memmap_entries[i].base >= PAGE
       /\ memmap_entries[i].base % PAGE = 0
       /\ memmap_entries[i].length % PAGE = 0
  /\ \A i, j \in UsableEntries : \A a \in 0 .. UINT64_MAX :
       InEntry(a, i) /\ InEntry(a, j) => i = j
  /\ \E i \in UsableEntries : PagesIn(i) >= 1

ASSUME SentinelAssumption ==
  /\ UINT64_MAX \in Nat
  /\ \A i \in UsableEntries :
       memmap_entries[i].base + memmap_entries[i].length <= UINT64_MAX
  /\ pmm_usable_pages <= UINT64_MAX \div BITS
=============================================================================
