------------------------------- MODULE MapPages ------------------------------
(***************************************************************************)
(* vmm_map_pages_pml4 (src/mem/vmm.c:189) on its own: a page map built     *)
(* from nothing by one or two calls, as memory_init builds the kernel's,   *)
(* while the bootloader's map is in use. The thresholds at which the loop  *)
(* takes a 2 MiB or a 1 GiB page, and the index arithmetic that carries    *)
(* from one table to the next, are checked against what a range of pages   *)
(* means.                                                                  *)
(***************************************************************************)
EXTENDS PageTables

CONSTANTS
  boot_mem,   \* the bootloader's tables, by physical page
  boot_cr3,   \* its PML4
  Bases,      \* first pages of the ranges to map, physical
  Lengths,    \* their lengths in pages
  MaxRanges   \* bound: ranges mapped in one run

VARIABLES
  s,       \* the machine, see PageTables
  pml4,    \* the page map being built
  call,    \* the call of vmm_map_pages_pml4 under way, see PageTables
  ranges   \* the ranges asked for: records [base, length]

vars == <<s, pml4, call, ranges>>

\* memory_init up to the allocation of the new PML4
Init ==
  LET blank == [pmm     |-> InitialPmm(0),
                mem     |-> [p \in PhysPages |-> IF p \in DOMAIN boot_mem THEN boot_mem[p] ELSE EmptyTable],
                flushed |-> {},
                starved |-> FALSE]
      a == AllocTable(blank)
  IN  /\ s = a.s
      /\ pml4 = a.page
      /\ call = NoCall
      /\ ranges = {}

Overlap(r, q) == r.base < q.base + (PAGE * q.length) /\ q.base < r.base + (PAGE * r.length)

\* Ranges of the boot memory map do not overlap and come in address order.
map_range(base, length) ==
  LET r == [base |-> base, length |-> length]
      m == vmm_map_pages_pml4(s, boot_cr3, pml4, base, pmm_phys_to_virt(base), length)
  IN  /\ Returned(call)
      /\ Cardinality(ranges) < MaxRanges
      /\ \A q \in ranges : q.base < base /\ ~Overlap(q, r)
      /\ s' = m.s
      /\ call' = m.call
      /\ ranges' = ranges \cup {r}
      /\ UNCHANGED pml4

map_round ==
  /\ ~Returned(call)
  /\ \E w \in {WalkTables(s, pml4, VirtAt(call))} :
       \E m \in {MapRound(w, boot_cr3, call)} :
         s' = [m.s EXCEPT !.flushed = {}] /\ call' = [call EXCEPT !.i = m.i]
  /\ UNCHANGED <<pml4, ranges>>

Next ==
  \/ \E base \in Bases, length \in Lengths : map_range(base, length)
  \/ map_round

Spec == Init /\ [][Next]_vars

-----------------------------------------------------------------------------
\* Properties

Requested(p) == \E r \in ranges : r.base <= p /\ p < r.base + (PAGE * r.length)

\* When a call has returned, the map leads every page of the ranges asked for,
\* and no other page, from its place in the direct map to itself, whatever mix
\* of page sizes the loop chose (vmm.c:240-331).
MapsExactly ==
  Returned(call) =>
    \A v \in {PAGE * k : k \in 0 .. (Top \div PAGE) - 1} :
      Translate(s, pml4, v) =
        IF v >= higher_half_offset /\ Requested(v - higher_half_offset)
        THEN v - higher_half_offset ELSE UINT64_MAX

TableEntries(m, t) == {i \in Indices : m.mem[t][i].present /\ ~m.mem[t][i].larger}

Below(m, tables) == UNION {{m.mem[t][i].address : i \in TableEntries(m, t)} : t \in tables}

TablesOf(m, root) ==
  LET pdpts == Below(m, {root})
      pds   == Below(m, pdpts)
  IN  {root} \cup pdpts \cup pds \cup Below(m, pds)

\* The pages the loop frees (vmm.c:245-257) go through pmm_free, which maps
\* them back in the bootloader's map and splits its larger pages to do so:
\* that map, in use all along, translates the direct map as before. A page of
\* one map is no table of the other, and every table of the new map stays
\* marked allocated: no table that is freed is still in use.
BothMapsKept ==
  /\ \A p \in PhysPages :
       Translate(s, boot_cr3, pmm_phys_to_virt(p)) =
         Translate([mem |-> boot_mem], boot_cr3, pmm_phys_to_virt(p))
  /\ TablesOf(s, pml4) \cap TablesOf(s, boot_cr3) = {}
  /\ \A t \in TablesOf(s, pml4) \cup (TablesOf(s, boot_cr3) \ DOMAIN boot_mem) :
       pmm_is_usable_page_allocated_by_index(s.pmm, pmm_get_index_by_address(t))
=============================================================================
