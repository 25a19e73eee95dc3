------------------------------ MODULE PageTables -----------------------------
(***************************************************************************)
(* The page table algorithms of src/mem/vmm.c over a machine state         *)
(*     s = [pmm     |-> the page allocator, see PmmBitmap,                 *)
(*          mem     |-> the table each physical page holds,                *)
(*          flushed |-> the virtual pages passed to invlpg,                *)
(*          starved |-> history: an allocation has found no page]          *)
(* A table entry is [present, larger, address]: the two flags the walks    *)
(* look at and the physical address. Tables are read and written through   *)
(* the direct map (table address + vmm_page_tables_offset), which is       *)
(* higher_half_offset.                                                     *)
(***************************************************************************)
EXTENDS PmmBitmap

CONSTANTS
  ENTRIES,    \* entries in a table (512)
  PhysPages   \* addresses of the physical pages of the machine

Indices == 0 .. ENTRIES - 1

\* Bytes mapped by a PT, PD and PDPT entry (4 KiB, 2 MiB, 1 GiB), by a PML4
\* entry and by the whole tree
PtSpan == PAGE
PdSpan == PAGE * ENTRIES
PdptSpan == PAGE * ENTRIES * ENTRIES
Pml4Span == PAGE * ENTRIES * ENTRIES * ENTRIES
Top == Pml4Span * ENTRIES

PML4_INDEX(v) == (v \div Pml4Span) % ENTRIES
PDPT_INDEX(v) == (v \div PdptSpan) % ENTRIES
PD_INDEX(v) == (v \div PdSpan) % ENTRIES
PT_INDEX(v) == (v \div PtSpan) % ENTRIES

PageBase(a) == a - (a % PAGE)

\* Setting an address drops the offset in the page.
Entry(address, larger) ==
  [present |-> TRUE, larger |-> larger, address |-> PageBase(address)]

NoEntry == [present |-> FALSE, larger |-> FALSE, address |-> 0]

EmptyTable == [i \in Indices |-> NoEntry]

-----------------------------------------------------------------------------
\* Translation

\* A 4 KiB page loses the offset in the page, the larger ones keep it.
vmm_virt_to_phys(s, pml4, v) ==
  LET e4 == s.mem[pml4][PML4_INDEX(v)]
      e3 == s.mem[e4.address][PDPT_INDEX(v)]
      e2 == s.mem[e3.address][PD_INDEX(v)]
      e1 == s.mem[e2.address][PT_INDEX(v)]
  IN  IF ~e4.present THEN UINT64_MAX
      ELSE IF ~e3.present THEN UINT64_MAX
      ELSE IF e3.larger THEN e3.address + (v % PdptSpan)
      ELSE IF ~e2.present THEN UINT64_MAX
      ELSE IF e2.larger THEN e2.address + (v % PdSpan)
      ELSE IF ~e1.present THEN UINT64_MAX
      ELSE e1.address

\* What the processor's page walk finds at v, from a table of each level down: a
\* larger page must start at a multiple of its size, or the walk faults.
LargerPage(e, v, span) ==
  IF e.address % span = 0 THEN e.address + (v % span) ELSE UINT64_MAX

AtPt(s, table, v) ==
  LET e == s.mem[table][PT_INDEX(v)]
  IN  IF e.present THEN e.address + (v % PAGE) ELSE UINT64_MAX

AtPd(s, table, v) ==
  LET e == s.mem[table][PD_INDEX(v)]
  IN  IF ~e.present THEN UINT64_MAX
      ELSE IF e.larger THEN LargerPage(e, v, PdSpan)
      ELSE AtPt(s, e.address, v)

AtPdpt(s, table, v) ==
  LET e == s.mem[table][PDPT_INDEX(v)]
  IN  IF ~e.present THEN UINT64_MAX
      ELSE IF e.larger THEN LargerPage(e, v, PdptSpan)
      ELSE AtPd(s, e.address, v)

Translate(s, pml4, v) ==
  LET e == s.mem[pml4][PML4_INDEX(v)]
  IN  IF e.present THEN AtPdpt(s, e.address, v) ELSE UINT64_MAX

-----------------------------------------------------------------------------
\* Tables on demand

\* pmm_allocz for a table: the page it returns, cleared, in the machine s. No
\* caller asks whether it got a page: page 0 serves as a table like any other.
TablePage(s, r) ==
  [page |-> r.page,
   s    |-> [s EXCEPT !.pmm = r.pmm, !.mem[r.page] = EmptyTable, !.starved = @ \/ r.page = 0]]

AllocTable(s) == TablePage(s, pmm_allocz(s.pmm))

LinkTable(a, table, i) ==
  [a.s EXCEPT !.mem[table][i] = [@ EXCEPT !.present = TRUE, !.address = a.page]]

vmm_init_pt_entry(s, table, i) == LinkTable(AllocTable(s), table, i)

Ensure(s, table, i) == IF s.mem[table][i].present THEN s ELSE vmm_init_pt_entry(s, table, i)

\* Mutant: every page of the new table is the first.
LinkPages_NoOffset(a, table, i, span) ==
  LET pages == [k \in Indices |-> Entry(a.s.mem[table][i].address, FALSE)]
  IN  [a.s EXCEPT !.mem = [@ EXCEPT ![a.page] = pages, ![table][i] = Entry(a.page, FALSE)]]

\* The new entries never carry the larger pages flag, whatever their level.
LinkPages(a, table, i, span) ==
  LET base  == a.s.mem[table][i].address
      pages == [k \in Indices |-> Entry(base + (k * span), FALSE)]
  IN  [a.s EXCEPT !.mem = [@ EXCEPT ![a.page] = pages, ![table][i] = Entry(a.page, FALSE)]]

\* A larger page becomes a table of ENTRIES pages of the given span.
Split(s, table, i, span) ==
  IF s.mem[table][i].larger THEN LinkPages(AllocTable(s), table, i, span) ELSE s

\* A walk: the machine and the table it has reached
Start(s, pml4) == [s |-> s, table |-> pml4]

Follow(s, table, i) == [s |-> s, table |-> s.mem[table][i].address]

Down(w, i) == Follow(Ensure(w.s, w.table, i), w.table, i)

ToPdpt(s, pml4, v) == Down(Start(s, pml4), PML4_INDEX(v))
ToPd(s, pml4, v) == Down(ToPdpt(s, pml4, v), PDPT_INDEX(v))
ToPt(s, pml4, v) == Down(ToPd(s, pml4, v), PD_INDEX(v))

\* The walk of vmm_map_pages_pml4, with the tables it passes: it takes larger
\* pages for tables, and gives the leaf entry a page too.
WalkTables(s, pml4, v) ==
  [s    |-> Down(ToPt(s, pml4, v), PT_INDEX(v)).s,
   pdpt |-> ToPdpt(s, pml4, v).table,
   pd   |-> ToPd(s, pml4, v).table,
   pt   |-> ToPt(s, pml4, v).table]

DownSplitting(w, i, span) ==
  Follow(Split(Ensure(w.s, w.table, i), w.table, i, span), w.table, i)

\* The walk of vmm_map_page and vmm_unmap_page down to the page table of v. (An
\* entry of the PML4 is never a larger page.)
WalkSplitting(s, pml4, v) ==
  DownSplitting(
    DownSplitting(Down(Start(s, pml4), PML4_INDEX(v)), PDPT_INDEX(v), PdSpan),
    PD_INDEX(v), PtSpan)

-----------------------------------------------------------------------------
\* Mapping and unmapping; current is the PML4 in use

\* Mutant: no invalidation.
vmm_invlpg_None(s, addresses) == s

vmm_invlpg(s, addresses) == [s EXCEPT !.flushed = @ \cup {PageBase(a) : a \in addresses}]

\* Mutant: the argument as it is.
Physical_Unconverted(s, current, address) == address

\* "just in case the user has un-knowingly given us a virtual address"
Physical(s, current, address) ==
  LET converted == vmm_virt_to_phys(s, current, address)
  IN  IF converted # UINT64_MAX THEN converted ELSE address

SetLeaf(w, v, phys) ==
  vmm_invlpg([w.s EXCEPT !.mem[w.table][PT_INDEX(v)] = Entry(phys, FALSE)], {phys, v})

vmm_map_page_pml4(s, current, pml4, physical_address, v) ==
  SetLeaf(WalkSplitting(s, pml4, v), v, Physical(s, current, physical_address))

\* Mutant: the page that was mapped is freed as well.
ClearLeaf_Frees(w, v) ==
  LET index == pmm_get_index_by_address(w.s.mem[w.table][PT_INDEX(v)].address)
  IN  [w.s EXCEPT !.mem[w.table][PT_INDEX(v)] = NoEntry, !.flushed = {v},
                  !.pmm = pmm_set_usable_page_allocated_by_index(@, index, FALSE)]

ClearLeaf(w, v) ==
  vmm_invlpg([w.s EXCEPT !.mem[w.table][PT_INDEX(v)] = NoEntry],
             {w.s.mem[w.table][PT_INDEX(v)].address, v})

vmm_unmap_page(s, current, v) == ClearLeaf(WalkSplitting(s, current, v), v)

FreePhys(s, current, phys) ==
  IF phys = UINT64_MAX \/ pmm_get_index_by_address(phys) < pmm_bitmap_pages THEN s
  ELSE vmm_map_page_pml4(
         [s EXCEPT !.pmm = pmm_set_usable_page_allocated_by_index(
                             @, pmm_get_index_by_address(phys), FALSE)],
         current, current, phys, pmm_phys_to_virt(phys))

\* pmm_free once the VMM runs: clear the bit, then map the page back to its
\* place in the direct map, which may allocate.
FreePage(s, current, page) == FreePhys(s, current, vmm_virt_to_phys(s, current, page))

\* Whether the pages left, the one at v not counted, call for a larger page
TakesPdpt(v, left) == left > ENTRIES * ENTRIES /\ PD_INDEX(v) = 0 /\ PT_INDEX(v) = 0

\* Mutant: anywhere in a table.
TakesPd_Unaligned(v, left) == left > ENTRIES

TakesPd(v, left) == left > ENTRIES /\ PT_INDEX(v) = 0

FreeTable(s, current, table) == FreePage(s, current, pmm_phys_to_virt(table))

\* Mutant: the page directory is freed in place of the page table.
FreePt_FreesPd(w, current) == FreeTable(w.s, current, w.pd)

FreePt(w, current) == FreeTable(w.s, current, w.pt)

FreePtAndPd(w, current) == FreeTable(FreePt(w, current), current, w.pd)

\* One round of the loop of vmm_map_pages_pml4 for page v = number i, which has
\* left pages after it in the range and goes to address to; w is the walk to v.
MapOne(w, current, v, left, to, i) ==
  IF TakesPdpt(v, left)
  THEN [s |-> [FreePtAndPd(w, current) EXCEPT !.mem[w.pdpt][PDPT_INDEX(v)] = Entry(to, TRUE)],
        i |-> i + (ENTRIES * ENTRIES)]
  ELSE IF TakesPd(v, left)
  THEN [s |-> [FreePt(w, current) EXCEPT !.mem[w.pd][PD_INDEX(v)] = Entry(to, TRUE)],
        i |-> i + ENTRIES]
  ELSE [s |-> [w.s EXCEPT !.mem[w.pt][PT_INDEX(v)] = Entry(to, FALSE)],
        i |-> i + 1]

\* A call of vmm_map_pages_pml4 under way, [phys, virt, num_pages, i]: the loop
\* is at page number i of the range.
VirtAt(call) == call.virt + (PAGE * call.i)

Returned(call) == call.i >= call.num_pages \/ VirtAt(call) >= Top

\* A round, from w, the walk to the page it is at. The code makes that walk at
\* the end of the round before; the entry and table pointers it keeps are those
\* this walk finds, since an entry is left behind as soon as it is made a larger
\* page.
MapRound(w, current, call) ==
  MapOne(w, current, VirtAt(call), call.num_pages - 1 - call.i,
         call.phys + (PAGE * call.i), call.i)

\* The call up to its loop. An empty range still gives its first page an entry.
vmm_map_pages_pml4(s, current, pml4, physical_address, virt, num_pages) ==
  [s    |-> IF num_pages = 0 THEN WalkTables(s, pml4, virt).s ELSE s,
   call |-> [phys |-> Physical(s, current, physical_address), virt |-> virt,
             num_pages |-> num_pages, i |-> 0]]

NoCall == [phys |-> 0, virt |-> 0, num_pages |-> 0, i |-> 0]

ASSUME TableAssumption ==
  /\ ENTRIES \in Nat \ {0}
  /\ PhysPages \subseteq {PAGE * k : k \in 0 .. UINT64_MAX}
  /\ 0 \in PhysPages
=============================================================================
