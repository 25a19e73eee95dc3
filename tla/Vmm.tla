--------------------------------- MODULE Vmm ---------------------------------
(***************************************************************************)
(* Paging from boot on: memory_init (src/mem/memory.c) replaces the boot-  *)
(* loader's page map by one of its own, and the kernel then allocates,     *)
(* maps, unmaps and frees pages in any order (src/mem/vmm.c, pmm.c).       *)
(* Composes PmmBitmap and PageTables: mapping a page allocates tables, and *)
(* freeing a page maps it.                                                 *)
(***************************************************************************)
EXTENDS PageTables

CONSTANTS
  boot_mem,      \* the bootloader's tables, by physical page
  boot_cr3,      \* its PML4
  kernel_start,  \* virtual address of the kernel image
  kernel_size,   \* its size in bytes
  ClientVirt,    \* virtual pages the kernel maps pages at
  MaxOwned       \* bound: most pages the kernel holds at a time

VARIABLES
  s,        \* the machine: [pmm, mem, flushed, starved], see PageTables
  pml4,     \* the VMM's current PML4
  cr3,      \* the processor's
  new_pml4, \* memory_init's local pml4: the map it builds
  next,     \* memory_init's progress: 0 before it, then the call it makes next
  call,     \* the last call of vmm_map_pages_pml4, see PageTables
  owned,    \* history: the pages pmm_alloc gave the kernel
  request   \* history: the last vmm_map_page, [phys, virt]

vars == <<s, pml4, cr3, new_pml4, next, call, owned, request>>

NoRequest == [phys |-> UINT64_MAX, virt |-> UINT64_MAX]

kernel_pages == (kernel_size \div PAGE) + (IF kernel_size % PAGE # 0 THEN 1 ELSE 0)

\* memory_init maps every entry of the memory map, then the kernel image, then
\* loads the map.
KernelCall == Len(memmap_entries) + 1
Load == Len(memmap_entries) + 2

booted == next > Load

Init ==
  /\ s = [pmm     |-> [bitmap |-> [c \in BitmapCells |-> FALSE], num |-> 0],
          mem     |-> [p \in PhysPages |-> IF p \in DOMAIN boot_mem THEN boot_mem[p] ELSE EmptyTable],
          flushed |-> {},
          starved |-> FALSE]
  /\ pml4 = boot_cr3
  /\ cr3 = boot_cr3
  /\ new_pml4 = 0
  /\ next = 0
  /\ call = NoCall
  /\ owned = {}
  /\ request = NoRequest

Fresh == [s EXCEPT !.flushed = {}]

-----------------------------------------------------------------------------
\* memory_init

NewMap(a) == s' = a.s /\ new_pml4' = a.page

\* pmm_init, vmm_init, and the page for the new PML4
memory_init ==
  /\ next = 0
  /\ NewMap(AllocTable([s EXCEPT !.pmm = InitialPmm(s.pmm.num)]))
  /\ next' = 1
  /\ UNCHANGED <<pml4, cr3, call, owned, request>>

Calls(m) ==
  /\ s' = m.s
  /\ call' = m.call
  /\ UNCHANGED <<pml4, cr3, new_pml4, owned, request>>

\* Every entry of the memory map, whatever its type, goes to its place in the
\* direct map.
MapEntry ==
  /\ next \in DOMAIN memmap_entries
  /\ Returned(call)
  /\ Calls(vmm_map_pages_pml4(Fresh, pml4, new_pml4, memmap_entries[next].base,
                              pmm_phys_to_virt(memmap_entries[next].base), PagesIn(next)))
  /\ next' = next + 1

\* Mutant: the last page of the kernel image is forgotten.
KernelRange_Short(m) ==
  vmm_map_pages_pml4(m, pml4, new_pml4, vmm_virt_to_phys(m, pml4, kernel_start), kernel_start,
                     kernel_pages - 1)

\* The kernel image stays where it is.
KernelRange(m) ==
  vmm_map_pages_pml4(m, pml4, new_pml4, vmm_virt_to_phys(m, pml4, kernel_start), kernel_start,
                     kernel_pages)

MapKernel ==
  /\ next = KernelCall
  /\ Returned(call)
  /\ Calls(KernelRange(Fresh))
  /\ next' = next + 1

\* A round of the loop of vmm_map_pages_pml4
map_round ==
  /\ ~Returned(call)
  /\ \E w \in {WalkTables(Fresh, new_pml4, VirtAt(call))} :
       \E m \in {MapRound(w, pml4, call)} : s' = m.s /\ call' = [call EXCEPT !.i = m.i]
  /\ UNCHANGED <<pml4, cr3, new_pml4, next, owned, request>>

\* Mutant: cr3 gets the virtual address of the PML4.
LoadedCr3_Virtual(page) == pmm_phys_to_virt(page)

\* cr3 gets the translation of the new PML4's virtual address under the old map.
LoadedCr3(page) == vmm_virt_to_phys(s, pml4, pmm_phys_to_virt(page))

vmm_set_pml4 ==
  /\ next = Load
  /\ Returned(call)
  /\ cr3' = LoadedCr3(new_pml4)
  /\ pml4' = new_pml4
  /\ s' = Fresh
  /\ next' = next + 1
  /\ UNCHANGED <<new_pml4, call, owned, request>>

-----------------------------------------------------------------------------
\* The kernel's use of pages afterwards

alloc_page ==
  LET r == pmm_alloc_phys(s.pmm)
  IN  /\ booted
      /\ Cardinality(owned) < MaxOwned
      /\ s' = [Fresh EXCEPT !.pmm = r.pmm, !.starved = @ \/ r.page = 0]
      /\ owned' = owned \cup {r.page}
      /\ request' = NoRequest
      /\ UNCHANGED <<pml4, cr3, new_pml4, next, call>>

\* The caller names the page by its physical address or by its place in the
\* direct map, as test_vmm and the heap do.
vmm_map_page(page, address, v) ==
  /\ booted
  /\ s' = vmm_map_page_pml4(Fresh, pml4, pml4, address, v)
  /\ request' = [phys |-> page, virt |-> v]
  /\ UNCHANGED <<pml4, cr3, new_pml4, next, call, owned>>

unmap_page(v) ==
  /\ booted
  /\ s' = vmm_unmap_page(Fresh, pml4, v)
  /\ request' = NoRequest
  /\ UNCHANGED <<pml4, cr3, new_pml4, next, call, owned>>

\* The page may be named by any virtual address it is mapped at.
free_page(page, address) ==
  /\ booted
  /\ vmm_virt_to_phys(s, pml4, address) = page
  /\ s' = FreePage(Fresh, pml4, address)
  /\ owned' = owned \ {page}
  /\ request' = NoRequest
  /\ UNCHANGED <<pml4, cr3, new_pml4, next, call>>

Next ==
  \/ memory_init \/ MapEntry \/ MapKernel \/ map_round \/ vmm_set_pml4
  \/ alloc_page
  \/ \E page \in owned, v \in ClientVirt :
       \E address \in {page, pmm_phys_to_virt(page)} : vmm_map_page(page, address, v)
  \/ \E v \in ClientVirt : unmap_page(v)
  \/ \E page \in owned :
       \E address \in ClientVirt \cup {pmm_phys_to_virt(page)} : free_page(page, address)

Spec == Init /\ [][Next]_vars

-----------------------------------------------------------------------------
\* Properties

VirtPages == {PAGE * k : k \in 0 .. (ENTRIES * ENTRIES * ENTRIES * ENTRIES) - 1}

KernelImage == {kernel_start + (PAGE * k) : k \in 0 .. kernel_pages - 1}

MappedPages ==
  UNION {{memmap_entries[i].base + (PAGE * k) : k \in 0 .. PagesIn(i) - 1} :
           i \in DOMAIN memmap_entries}

DirectPages == {pmm_phys_to_virt(p) : p \in MappedPages}

\* The entries of the tables that lead to a table, as <<table, index>>
Links(m, tables) ==
  {x \in tables \X Indices : m.mem[x[1]][x[2]].present /\ ~m.mem[x[1]][x[2]].larger}

Target(m, x) == m.mem[x[1]][x[2]].address

Targets(m, tables) == {Target(m, x) : x \in Links(m, tables)}

\* The tables of the tree below root, by level
Pdpts(m, root) == Targets(m, {root})
Pds(m, root) == Targets(m, Pdpts(m, root))
Pts(m, root) == Targets(m, Pds(m, root))
Inner(m, root) == {root} \cup Pdpts(m, root) \cup Pds(m, root)
Tables(m, root) == Inner(m, root) \cup Pts(m, root)

\* No table is reached twice.
IsTree(m, root) ==
  /\ root \notin Targets(m, Inner(m, root))
  /\ \A x, y \in Links(m, Inner(m, root)) : Target(m, x) = Target(m, y) => x = y

Reserved(page) == pmm_is_usable_page_allocated_by_index(s.pmm, pmm_get_index_by_address(page))

BootMap == [mem |-> boot_mem]

EntryStates == [present : BOOLEAN, larger : BOOLEAN, address : Nat]

\* Every variable has its type; cr3 holds a physical page.
TypeOK ==
  ~s.starved =>
    /\ s.pmm \in [bitmap : [BitmapCells -> BOOLEAN], num : Nat]
    /\ s.mem \in [PhysPages -> [Indices -> EntryStates]]
    /\ pml4 \in PhysPages /\ cr3 \in PhysPages /\ new_pml4 \in PhysPages
    /\ next \in Nat
    /\ call \in [phys : Nat, virt : Nat, num_pages : Nat, i : Nat]
    /\ owned \subseteq PhysPages

\* Until an allocation finds no page, which the VMM does not notice: the
\* processor walks the tree the VMM edits, and in it every page of the memory
\* map is at its place in the direct map, through every split of a larger
\* page; the VMM reaches all of its tables that way (vmm.c:14).
DirectMap ==
  booted /\ ~s.starved =>
    /\ cr3 = pml4
    /\ \A p \in MappedPages : Translate(s, cr3, pmm_phys_to_virt(p)) = p

\* The kernel image is where the bootloader had put it: the instruction after
\* the load of cr3 (vmm.c:444) is still there.
KernelMapped ==
  booted /\ ~s.starved =>
    \A v \in KernelImage : Translate(s, cr3, v) = Translate(BootMap, boot_cr3, v)

\* The tables form a tree of pages marked allocated that the kernel does not
\* hold, although pmm_free clears the page's bit before it maps the page
\* back and so may take the very page for a table (pmm.c:187-191). A page the
\* kernel holds stays marked allocated until the kernel frees it.
TablesReserved ==
  booted /\ ~s.starved =>
    /\ \A p \in owned : Reserved(p)
    /\ \A t \in Tables(s, pml4) : Reserved(t) /\ t \notin owned
    /\ IsTree(s, pml4)

\* After vmm_map_page the virtual page leads to the page asked for, and nothing
\* else is mapped: not a page past the end of an area, nor one the kernel did
\* not ask for.
MapsWhatWasAsked ==
  booted /\ ~s.starved =>
    /\ request # NoRequest => Translate(s, cr3, request.virt) = request.phys
    /\ \A v \in VirtPages \ (ClientVirt \cup KernelImage \cup DirectPages) :
         Translate(s, cr3, v) = UINT64_MAX

\* No step leaves the processor a stale translation: a page whose translation
\* a step changes was invalidated in that step. (The pages outside ClientVirt
\* keep their translation: DirectMap, KernelMapped, MapsWhatWasAsked.)
NoStaleTranslation ==
  [][booted /\ ~s'.starved =>
       \A v \in ClientVirt :
         Translate(s, cr3, v) \notin {UINT64_MAX, Translate(s', cr3', v)} => v \in s'.flushed]_vars

-----------------------------------------------------------------------------
\* No range that memory_init maps is so long and so placed that it takes a
\* 1 GiB page.
NoHugePages ==
  /\ \A i \in DOMAIN memmap_entries : \A k \in 0 .. PagesIn(i) - 1 :
       ~TakesPdpt(pmm_phys_to_virt(memmap_entries[i].base + (PAGE * k)), PagesIn(i) - 1 - k)
  /\ \A k \in 0 .. kernel_pages - 1 :
       ~TakesPdpt(kernel_start + (PAGE * k), kernel_pages - 1 - k)

\* What the bootloader hands over. Areas are aligned, not empty, in address
\* order and below the direct map; the usable ones are memory.
ASSUME AreaAssumption ==
  /\ \A i \in DOMAIN memmap_entries :
       /\ memmap_entries[i].base % PAGE = 0
       /\ memmap_entries[i].length % PAGE = 0 /\ memmap_entries[i].length > 0
       /\ memmap_entries[i].base + memmap_entries[i].length <= higher_half_offset
  /\ \A i, j \in DOMAIN memmap_entries :
       i < j => memmap_entries[i].base + memmap_entries[i].length <= memmap_entries[j].base
  /\ \A i \in UsableEntries : \A k \in 0 .. PagesIn(i) - 1 :
       memmap_entries[i].base + (PAGE * k) \in PhysPages
  /\ \A p \in PhysPages : p < higher_half_offset /\ pmm_phys_to_virt(p) < Top
  /\ higher_half_offset % PdSpan = 0
  /\ Top <= UINT64_MAX

\* Its map is a tree of pages that are not usable, without 1 GiB pages; it has
\* the direct map and nothing below it.
ASSUME BootMapAssumption ==
  /\ boot_cr3 \in DOMAIN boot_mem
  /\ DOMAIN boot_mem \subseteq PhysPages
  /\ boot_mem \in [DOMAIN boot_mem -> [Indices -> EntryStates]]
  /\ \A t \in DOMAIN boot_mem : pmm_get_index_by_address(t) = UINT64_MAX
  /\ Tables(BootMap, boot_cr3) \subseteq DOMAIN boot_mem
  /\ IsTree(BootMap, boot_cr3)
  /\ \A t \in {boot_cr3} \cup Pdpts(BootMap, boot_cr3) : \A i \in Indices : ~boot_mem[t][i].larger
  /\ \A t \in Pds(BootMap, boot_cr3) : \A i \in Indices :
       boot_mem[t][i].larger =>
         /\ boot_mem[t][i].present
         /\ boot_mem[t][i].address % PdSpan = 0 /\ boot_mem[t][i].address < higher_half_offset
  /\ \A p \in PhysPages : Translate(BootMap, boot_cr3, pmm_phys_to_virt(p)) = p
  /\ \A v \in 0 .. higher_half_offset - 1 : Translate(BootMap, boot_cr3, v) = UINT64_MAX

\* The kernel image lies above the direct map, in consecutive physical pages
\* that a 2 MiB page could map where the image is larger than that.
ASSUME KernelAssumption ==
  LET first == Translate(BootMap, boot_cr3, kernel_start)
  IN  /\ kernel_start \in Nat /\ kernel_start % PAGE = 0
      /\ kernel_size \in Nat \ {0}
      /\ \A i \in DOMAIN memmap_entries :
           pmm_phys_to_virt(memmap_entries[i].base + memmap_entries[i].length) <= kernel_start
      /\ kernel_start + (PAGE * kernel_pages) <= Top
      /\ first \in Nat /\ first % PAGE = 0
      /\ first + (PAGE * kernel_pages) <= higher_half_offset
      /\ \A k \in 0 .. kernel_pages - 1 :
           Translate(BootMap, boot_cr3, kernel_start + (PAGE * k)) = first + (PAGE * k)
      /\ kernel_pages > ENTRIES + 1 => first % PdSpan = kernel_start % PdSpan

\* The kernel maps pages where nothing else is, at addresses that are not
\* physical ones.
ASSUME ClientAssumption ==
  /\ ClientVirt \subseteq VirtPages \ (KernelImage \cup DirectPages)
  /\ ClientVirt \cap PhysPages = {}
=============================================================================
