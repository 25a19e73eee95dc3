------------------------------ MODULE VmmProofs ------------------------------
(***************************************************************************)
(* Proofs about paging, for every memory map, page size and table size:    *)
(* the page map memory_init builds, and what mapping, unmapping and        *)
(* freeing pages do to it.                                                 *)
(***************************************************************************)
EXTENDS Vmm, PmmProofs

-----------------------------------------------------------------------------
\* Physical pages and the allocator

\* Page a is marked allocated, or is no usable page.
Marked(p, a) == pmm_is_usable_page_allocated_by_index(p, pmm_get_index_by_address(a))

\* The areas of the memory map.
LEMMA AreaType ==
  ASSUME NEW i \in DOMAIN memmap_entries
  PROVE  /\ i \in 1 .. Len(memmap_entries)
         /\ memmap_entries[i].base \in Nat
         /\ memmap_entries[i].length \in Nat
         /\ PagesIn(i) \in Nat \ {0}
         /\ memmap_entries[i].length = PAGE * PagesIn(i)
         /\ memmap_entries[i].base % PAGE = 0
<1> DEFINE E == [base : Nat, length : Nat, type : MemmapTypes]
<1>1. memmap_entries \in Seq(E) /\ i \in 1 .. Len(memmap_entries)
  BY MemmapAssumption
<1>2. memmap_entries[i] \in E
  <2> HIDE DEF E
  <2> QED BY <1>1
<1>3. memmap_entries[i].base \in Nat /\ memmap_entries[i].length \in Nat
  BY <1>2
<1>4. memmap_entries[i].length % PAGE = 0 /\ memmap_entries[i].length > 0 /\ PAGE \in Nat \ {0}
      /\ memmap_entries[i].base % PAGE = 0
  BY AreaAssumption, SizeAssumption
<1>5. memmap_entries[i].length = PAGE * PagesIn(i) /\ PagesIn(i) \in Nat
  <2>1. PICK n \in Nat : n = memmap_entries[i].length
    BY <1>3
  <2>2. n \div PAGE \in Nat /\ n = (PAGE * (n \div PAGE)) + (n % PAGE) /\ n % PAGE = 0
    BY <1>4, <2>1, DivMod
  <2>3. PAGE * (n \div PAGE) \in Nat
    BY <1>4, <2>2, Scale
  <2> QED BY <2>1, <2>2, <2>3 DEF PagesIn
<1>6. PagesIn(i) # 0
  BY <1>4, <1>5
<1> QED BY <1>1, <1>3, <1>4, <1>5, <1>6

\* The direct map ends below the kernel image and the sentinel.
LEMMA SpaceOrder ==
  /\ higher_half_offset \in Nat /\ UINT64_MAX \in Nat /\ Top \in Nat
  /\ higher_half_offset < Top /\ Top <= UINT64_MAX
<1>1. PICK i \in UsableEntries : PagesIn(i) >= 1
  BY MemmapAssumption
<1>2. i \in DOMAIN memmap_entries
  BY DEF UsableEntries
<1>3. /\ memmap_entries[i].base \in Nat /\ memmap_entries[i].length \in Nat
      /\ memmap_entries[i].length > 0
      /\ pmm_phys_to_virt(memmap_entries[i].base + memmap_entries[i].length) <= kernel_start
  BY <1>2, AreaType, AreaAssumption, KernelAssumption
<1>4. /\ PAGE \in Nat \ {0} /\ kernel_size \in Nat /\ kernel_start \in Nat
      /\ higher_half_offset \in Nat /\ UINT64_MAX \in Nat /\ ENTRIES \in Nat \ {0}
  BY SizeAssumption, KernelAssumption, SentinelAssumption, TableAssumption
<1>5. kernel_pages \in Nat
  BY <1>4, DivMod DEF kernel_pages
<1>6. PAGE * kernel_pages \in Nat
  BY <1>4, <1>5, Scale
<1>7. kernel_start + (PAGE * kernel_pages) <= Top /\ Top <= UINT64_MAX
  BY KernelAssumption, AreaAssumption
<1>8. Top \in Nat
  BY <1>4 DEF Top, Pml4Span
<1> QED BY <1>3, <1>4, <1>6, <1>7, <1>8 DEF pmm_phys_to_virt

\* Physical pages are aligned addresses below the direct map.
LEMMA PhysType ==
  ASSUME NEW p \in PhysPages
  PROVE  /\ p \in Nat /\ p % PAGE = 0 /\ p \in 0 .. UINT64_MAX
         /\ p < higher_half_offset /\ p # UINT64_MAX
<1>1. PICK k \in 0 .. UINT64_MAX : p = PAGE * k
  BY TableAssumption
<1>2. k \in Nat /\ PAGE \in Nat \ {0}
  BY SizeAssumption, SpaceOrder
<1>3. p \in Nat
  BY <1>1, <1>2, Scale
<1>4. p % PAGE = 0
  <2>1. ((PAGE * k) + 0) % PAGE = 0
    BY <1>2, RestOfMultiple
  <2>2. (PAGE * k) + 0 = PAGE * k
    BY <1>1, <1>3
  <2> QED BY <1>1, <2>1, <2>2
<1>5. p < higher_half_offset
  BY AreaAssumption
<1> QED BY <1>3, <1>4, <1>5, SpaceOrder

\* The address of usable page i is a physical page with index i.
LEMMA UsablePage ==
  ASSUME NEW i \in 0 .. pmm_usable_pages - 1
  PROVE  LET a == pmm_get_address_by_index(i)
         IN  a \in PhysPages /\ a # 0 /\ pmm_get_index_by_address(a) = i
<1> DEFINE a == pmm_get_address_by_index(i)
<1>1. PICK h \in UsableEntries :
        /\ a \in Nat /\ a # 0 /\ a \in 0 .. UINT64_MAX
        /\ current_index[h] <= i /\ i < current_index[h] + PagesIn(h)
        /\ a = memmap_entries[h].base + (PAGE * (i - current_index[h]))
  BY AddressInEntry
<1>2. current_index[h] \in Nat /\ PagesIn(h) \in Nat /\ i \in Nat
  BY EntryPages, LenType, CurrentIndexNat, UsableNat
<1>3. i - current_index[h] \in 0 .. PagesIn(h) - 1
  BY <1>1, <1>2
<1>4. a \in PhysPages
  BY <1>1, <1>3, AreaAssumption
<1>5. a - (a % PAGE) = a
  BY <1>4, PhysType
<1>6. PageOf(a) = PageAt(i)
  BY <1>5 DEF PageOf, PageAt
<1> HIDE DEF a
<1>7. pmm_get_index_by_address(a) # UINT64_MAX
  BY <1>1, <1>6, ForeignAddress
<1>8. pmm_get_index_by_address(a) \in 0 .. pmm_usable_pages - 1
  BY <1>1, <1>7, IndexOfAddress
<1>9. PageAt(pmm_get_index_by_address(a)) = PageAt(i)
  BY <1>1, <1>6, <1>8, PageOfIndex
<1>10. pmm_get_index_by_address(a) = i
  BY <1>8, <1>9, PageAtInjective
<1> QED BY <1>1, <1>4, <1>10 DEF a

\* Two physical pages with the same usable index are the same.
LEMMA IndexInjective ==
  ASSUME NEW a \in PhysPages, pmm_get_index_by_address(a) \in 0 .. pmm_usable_pages - 1
  PROVE  a = pmm_get_address_by_index(pmm_get_index_by_address(a))
<1> DEFINE k == pmm_get_index_by_address(a)
<1>1. a \in Nat /\ a \in 0 .. UINT64_MAX /\ a - (a % PAGE) = a
  BY PhysType
<1>2. PageOf(a) = PageAt(k)
  BY <1>1, PageOfIndex
<1>3. a + higher_half_offset = pmm_get_address_by_index(k) + higher_half_offset
  BY <1>1, <1>2 DEF PageOf, PageAt, pmm_phys_to_virt
<1>4. pmm_get_address_by_index(k) \in Nat
  BY AddressInEntry
<1> QED BY <1>1, <1>3, <1>4, SpaceOrder

\* A page is marked unless its index is usable and its bit clear.
LEMMA MarkedIs ==
  ASSUME NEW p, NEW a \in PhysPages
  PROVE  /\ pmm_get_index_by_address(a) = UINT64_MAX => Marked(p, a)
         /\ pmm_get_index_by_address(a) \in 0 .. pmm_usable_pages - 1 =>
              (Marked(p, a) <=> pmm_get_index_by_address(a) \in Allocated(p))
         /\ \/ pmm_get_index_by_address(a) = UINT64_MAX
            \/ pmm_get_index_by_address(a) \in 0 .. pmm_usable_pages - 1
<1> DEFINE k == pmm_get_index_by_address(a)
<1>1. k = UINT64_MAX \/ k \in 0 .. pmm_usable_pages - 1
  BY PhysType, IndexOfAddress
<1>2. ASSUME k = UINT64_MAX PROVE Marked(p, a)
  BY <1>2, SentinelIndex DEF Marked, pmm_is_usable_page_allocated_by_index
<1>3. ASSUME k \in 0 .. pmm_usable_pages - 1 PROVE Marked(p, a) <=> k \in Allocated(p)
  <2> HIDE DEF k
  <2>1. BitmapPage(k) # UINT64_MAX
    BY <1>3, CellType
  <2>2. pmm_is_usable_page_allocated_by_index(p, k) <=> p.bitmap[Cell(k)]
    BY <2>1 DEF pmm_is_usable_page_allocated_by_index
  <2> QED BY <1>3, <2>2 DEF Marked, Allocated, k
<1> QED BY <1>1, <1>2, <1>3

\* A page that allocator state p holds for a client: usable, not one of the
\* bitmap's, marked.
Granted(p, a) ==
  /\ a \in PhysPages
  /\ pmm_get_index_by_address(a) \in pmm_bitmap_pages .. pmm_usable_pages - 1
  /\ Marked(p, a)

\* pmm_allocz returns 0 or grants a page that was not marked, and unmarks none.
LEMMA AllocGrants ==
  ASSUME NEW p, Consistent(p), pmm_alloc_phys(p).page # 0
  PROVE  LET r == pmm_alloc_phys(p)
         IN  /\ pmm_allocz(p) = r
             /\ Consistent(r.pmm)
             /\ Granted(r.pmm, r.page) /\ ~Marked(p, r.page)
             /\ \A a \in PhysPages : Marked(p, a) => Marked(r.pmm, a)
<1> DEFINE r == pmm_alloc_phys(p)
<1>1. pmm_allocz(p) = r /\ Consistent(r.pmm)
  BY AlloczIsAlloc, AllocMarksFreePage
<1>2. PICK i \in pmm_bitmap_pages .. pmm_usable_pages - 1 :
        /\ i \in FreeIndices(p)
        /\ r.page = pmm_get_address_by_index(i)
        /\ Allocated(r.pmm) = Allocated(p) \cup {i}
  BY AllocMarksFreePage
<1> HIDE DEF r
<1>3. i \in 0 .. pmm_usable_pages - 1 /\ i \notin Allocated(p)
  BY <1>2, FreeIsNotAllocated
<1>4. r.page \in PhysPages /\ pmm_get_index_by_address(r.page) = i
  BY <1>2, <1>3, UsablePage
<1>5. Marked(r.pmm, r.page) /\ ~Marked(p, r.page)
  BY <1>2, <1>3, <1>4, MarkedIs
<1>6. ASSUME NEW a \in PhysPages, Marked(p, a) PROVE Marked(r.pmm, a)
  BY <1>2, <1>6, MarkedIs
<1> QED BY <1>1, <1>2, <1>4, <1>5, <1>6 DEF Granted, r

\* Clearing the bit of a physical page that is not one of the bitmap's unmarks
\* no other page.
LEMMA FreeUnmarks ==
  ASSUME NEW p, Consistent(p), NEW a \in PhysPages,
         ~(pmm_get_index_by_address(a) < pmm_bitmap_pages)
  PROVE  LET q == pmm_set_usable_page_allocated_by_index(p, pmm_get_index_by_address(a), FALSE)
         IN  /\ Consistent(q)
             /\ \A b \in PhysPages : b # a /\ Marked(p, b) => Marked(q, b)
<1> DEFINE k == pmm_get_index_by_address(a)
           q == pmm_set_usable_page_allocated_by_index(p, k, FALSE)
<1>1. CASE k = UINT64_MAX
  <2>1. q = p
    BY <1>1, SentinelIndex DEF pmm_set_usable_page_allocated_by_index
  <2> QED BY <2>1
<1>2. CASE k \in 0 .. pmm_usable_pages - 1
  <2>1. p \in PmmStates /\ p.num = Cardinality(Allocated(p)) /\ FALSE \in BOOLEAN
        /\ 0 .. pmm_bitmap_pages - 1 \subseteq Allocated(p)
    BY DEF Consistent
  <2>2. k \notin 0 .. pmm_bitmap_pages - 1
    BY BitmapFits
  <2>3. a = pmm_get_address_by_index(k)
    BY <1>2, IndexInjective
  <2> HIDE DEF k
  <2>4. /\ q \in PmmStates /\ q.num = Cardinality(Allocated(q))
        /\ Allocated(q) = Allocated(p) \ {k}
    BY <1>2, <2>1, SetMarksOnePage
  <2> HIDE DEF q
  <2>5. 0 .. pmm_bitmap_pages - 1 \subseteq Allocated(q)
    BY <2>1, <2>2, <2>4
  <2>6. ASSUME NEW b \in PhysPages, b # a, Marked(p, b) PROVE Marked(q, b)
    <3>1. CASE pmm_get_index_by_address(b) = UINT64_MAX
      BY <3>1, MarkedIs
    <3>2. CASE pmm_get_index_by_address(b) \in 0 .. pmm_usable_pages - 1
      <4>1. b = pmm_get_address_by_index(pmm_get_index_by_address(b))
        BY <3>2, IndexInjective
      <4>2. pmm_get_index_by_address(b) # k
        BY <2>3, <2>6, <4>1
      <4> QED BY <2>4, <2>6, <3>2, <4>2, MarkedIs
    <3> QED BY <3>1, <3>2, MarkedIs
  <2> QED BY <2>4, <2>5, <2>6 DEF Consistent, k, q
<1> QED BY <1>1, <1>2, MarkedIs

-----------------------------------------------------------------------------
\* Virtual addresses and their indices

\* The addresses of virtual pages
IsPage(v) == v \in Nat /\ v % PAGE = 0 /\ v < Top

\* A multiple of the divisor and a rest below it determine the quotient.
LEMMA QuotOfMultiple ==
  ASSUME NEW B \in Nat \ {0}, NEW q \in Nat, NEW r \in 0 .. B - 1
  PROVE  ((B * q) + r) \div B = q
OBVIOUS

Quot(a, b) == a \div b

\* Division by a product m, one factor at a time.
LEMMA DivDiv ==
  ASSUME NEW a \in Nat, NEW b \in Nat \ {0}, NEW c \in Nat \ {0}, NEW m, m = b * c
  PROVE  /\ Quot(a, m) = Quot(Quot(a, b), c)
         /\ a % m = (b * ((a \div b) % c)) + (a % b)
<1>1. PICK q \in Nat : q = a \div b
  BY DivMod
<1>2. PICK r \in 0 .. b - 1 : r = a % b /\ a = (b * q) + r
  BY <1>1, DivMod
<1>3. PICK q2 \in Nat : q2 = q \div c
  BY DivMod
<1>4. PICK r2 \in 0 .. c - 1 : r2 = q % c /\ q = (c * q2) + r2
  BY <1>3, DivMod
<1>5. m \in Nat \ {0}
  OBVIOUS
<1>6. r2 \in Nat /\ r \in Nat /\ r2 + 1 <= c
  OBVIOUS
<1>7. b * r2 \in Nat /\ b * (r2 + 1) <= b * c /\ b * (r2 + 1) = (b * r2) + b
  BY <1>6
<1>8. (b * r2) + r \in 0 .. m - 1
  BY <1>5, <1>6, <1>7
<1>9. b * q = (m * q2) + (b * r2)
  <2>1. b * ((c * q2) + r2) = (b * (c * q2)) + (b * r2)
    BY <1>6
  <2>2. b * (c * q2) = (b * c) * q2
    OBVIOUS
  <2> QED BY <1>4, <2>1, <2>2
<1>10. m * q2 \in Nat
  BY <1>5
<1>11. a = (m * q2) + ((b * r2) + r)
  <2>1. PICK x \in Nat : x = m * q2
    BY <1>10
  <2>2. PICK y \in Nat : y = b * r2
    BY <1>7
  <2>3. a = (x + y) + r
    BY <1>2, <1>9, <2>1, <2>2, Zenon
  <2>4. a = x + (y + r)
    BY <1>6, <2>3
  <2> QED BY <2>1, <2>2, <2>4, Zenon
<1>12. PICK z \in 0 .. m - 1 : z = (b * r2) + r
  BY <1>8
<1>13. a \div m = q2 /\ a % m = z
  BY <1>5, <1>11, <1>12, QuotOfMultiple, RestOfMultiple
<1> QED BY <1>1, <1>2, <1>3, <1>4, <1>12, <1>13, Zenon DEF Quot

\* The constants are positive, and each span is ENTRIES of the one below.
LEMMA Spans ==
  /\ PAGE \in Nat \ {0} /\ ENTRIES \in Nat \ {0}
  /\ PdSpan \in Nat \ {0} /\ PdSpan = PAGE * ENTRIES
  /\ PdptSpan \in Nat \ {0} /\ PdptSpan = PdSpan * ENTRIES
  /\ Pml4Span \in Nat \ {0} /\ Pml4Span = PdptSpan * ENTRIES
  /\ Top \in Nat \ {0} /\ Top = Pml4Span * ENTRIES
<1>1. PAGE \in Nat \ {0} /\ ENTRIES \in Nat \ {0}
  BY SizeAssumption, TableAssumption
<1>2. PdSpan \in Nat \ {0} /\ PdSpan = PAGE * ENTRIES
  BY <1>1 DEF PdSpan
<1>3. PdptSpan \in Nat \ {0} /\ PdptSpan = PdSpan * ENTRIES
  BY <1>1, <1>2 DEF PdptSpan, PdSpan
<1>4. Pml4Span \in Nat \ {0} /\ Pml4Span = PdptSpan * ENTRIES
  BY <1>1, <1>3 DEF Pml4Span, PdptSpan
<1>5. Top \in Nat \ {0} /\ Top = Pml4Span * ENTRIES
  BY <1>1, <1>4 DEF Top
<1> QED BY <1>1, <1>2, <1>3, <1>4, <1>5

\* The quotients behind the indices.
LEMMA Quotients ==
  ASSUME NEW v \in Nat
  PROVE  /\ v \div PAGE \in Nat /\ v \div PdSpan \in Nat
         /\ v \div PdptSpan \in Nat /\ v \div Pml4Span \in Nat
         /\ v \div PdSpan = (v \div PAGE) \div ENTRIES
         /\ v \div PdptSpan = (v \div PdSpan) \div ENTRIES
         /\ v \div Pml4Span = (v \div PdptSpan) \div ENTRIES
         /\ v < Top => v \div Pml4Span < ENTRIES
<1>1. /\ v \div PAGE \in Nat /\ v \div PdSpan \in Nat
      /\ v \div PdptSpan \in Nat /\ v \div Pml4Span \in Nat
  <2>1. \A B \in Nat \ {0} : v \div B \in Nat
    BY DivMod
  <2> QED BY <2>1, Spans
<1>b. \A b \in Nat \ {0} : v = (b * (v \div b)) + (v % b) /\ v % b \in 0 .. b - 1
  BY DivMod
<1>2. v \div PdSpan = (v \div PAGE) \div ENTRIES
  <2>1. Quot(v, PdSpan) = Quot(Quot(v, PAGE), ENTRIES)
    BY Spans, DivDiv
  <2> QED BY <2>1 DEF Quot
<1>3. v \div PdptSpan = (v \div PdSpan) \div ENTRIES
  <2>1. Quot(v, PdptSpan) = Quot(Quot(v, PdSpan), ENTRIES)
    BY Spans, DivDiv
  <2> QED BY <2>1 DEF Quot
<1>4. v \div Pml4Span = (v \div PdptSpan) \div ENTRIES
  <2>1. Quot(v, Pml4Span) = Quot(Quot(v, PdptSpan), ENTRIES)
    BY Spans, DivDiv
  <2> QED BY <2>1 DEF Quot
<1>5. ASSUME v < Top PROVE v \div Pml4Span < ENTRIES
  <2>1. PICK q \in Nat : q = v \div Pml4Span
    BY <1>1
  <2>2. v = (Pml4Span * (v \div Pml4Span)) + (v % Pml4Span) /\ v % Pml4Span \in 0 .. Pml4Span - 1
    BY <1>b, Spans
  <2>3. Pml4Span * q <= v /\ Pml4Span * q \in Nat
    BY <2>1, <2>2, Spans
  <2>4. Pml4Span * q < Pml4Span * ENTRIES
    BY <1>5, <2>3, Spans
  <2>5. ASSUME q >= ENTRIES PROVE FALSE
    <3>1. Pml4Span * q >= Pml4Span * ENTRIES
      BY <2>5, Spans
    <3> QED BY <2>3, <2>4, <3>1, Spans
  <2> QED BY <2>1, <2>5, Spans
<1> QED BY <1>1, <1>2, <1>3, <1>4, <1>5

\* Every index lies in a table.
LEMMA IndexType ==
  ASSUME NEW v \in Nat
  PROVE  /\ PML4_INDEX(v) \in Indices /\ PDPT_INDEX(v) \in Indices
         /\ PD_INDEX(v) \in Indices /\ PT_INDEX(v) \in Indices
<1>1. \A q \in Nat : q % ENTRIES \in 0 .. ENTRIES - 1
  BY Spans, DivMod
<1> QED BY <1>1, Quotients
     DEF Indices, PML4_INDEX, PDPT_INDEX, PD_INDEX, PT_INDEX, PtSpan

\* The offset in a 2 MiB page is the page in it and the offset in that.
LEMMA OffsetInPd ==
  ASSUME NEW v \in Nat
  PROVE  v % PdSpan = (PAGE * PT_INDEX(v)) + (v % PAGE)
BY Spans, DivDiv DEF PT_INDEX, PtSpan

\* The three upper indices determine the 2 MiB page.
LEMMA SamePd ==
  ASSUME NEW u, IsPage(u), NEW v, IsPage(v),
         PML4_INDEX(u) = PML4_INDEX(v), PDPT_INDEX(u) = PDPT_INDEX(v), PD_INDEX(u) = PD_INDEX(v)
  PROVE  u \div PdSpan = v \div PdSpan
<1>1. \A q \in Nat : q < ENTRIES => q % ENTRIES = q
  BY Spans
<1>2. u \in Nat /\ v \in Nat /\ u < Top /\ v < Top
  BY DEF IsPage
<1>3. u \div Pml4Span = v \div Pml4Span
  BY <1>1, <1>2, Quotients DEF PML4_INDEX
<1>4. u \div PdptSpan = v \div PdptSpan
  <2>1. PICK a \in Nat : a = u \div PdptSpan
    BY <1>2, Quotients
  <2>2. PICK b \in Nat : b = v \div PdptSpan
    BY <1>2, Quotients
  <2>3. a \div ENTRIES = b \div ENTRIES /\ a % ENTRIES = b % ENTRIES
    BY <1>2, <1>3, <2>1, <2>2, Quotients DEF PDPT_INDEX
  <2> QED BY <2>1, <2>2, <2>3, Spans, DivModInjective
<1>5. PICK a \in Nat : a = u \div PdSpan
  BY <1>2, Quotients
<1>6. PICK b \in Nat : b = v \div PdSpan
  BY <1>2, Quotients
<1>7. a \div ENTRIES = b \div ENTRIES /\ a % ENTRIES = b % ENTRIES
  BY <1>2, <1>4, <1>5, <1>6, Quotients DEF PD_INDEX
<1> QED BY <1>5, <1>6, <1>7, Spans, DivModInjective

\* The four indices determine the page.
LEMMA SamePage ==
  ASSUME NEW u, IsPage(u), NEW v, IsPage(v),
         PML4_INDEX(u) = PML4_INDEX(v), PDPT_INDEX(u) = PDPT_INDEX(v),
         PD_INDEX(u) = PD_INDEX(v), PT_INDEX(u) = PT_INDEX(v)
  PROVE  u = v
<1>1. u \in Nat /\ v \in Nat /\ u % PAGE = v % PAGE
  BY DEF IsPage
<1>2. u \div PdSpan = v \div PdSpan
  BY SamePd
<1>3. u % PdSpan = v % PdSpan
  BY <1>1, OffsetInPd
<1> QED BY <1>1, <1>2, <1>3, Spans, DivModInjective

\* Pages further on from a page are pages, and setting an entry's address keeps
\* them.
LEMMA Aligned ==
  ASSUME NEW b \in Nat, b % PAGE = 0, NEW i \in Nat
  PROVE  b + (PAGE * i) \in Nat /\ (b + (PAGE * i)) % PAGE = 0
<1>1. PICK q \in Nat : b = (PAGE * q) + 0
  BY Spans, DivMod
<1>2. PAGE * i \in Nat /\ PAGE * q \in Nat /\ PAGE * (q + i) \in Nat /\ q + i \in Nat
  BY Spans, Scale
<1>3. PAGE * (q + i) = (PAGE * q) + (PAGE * i)
  BY Spans
<1>4. b + (PAGE * i) = (PAGE * (q + i)) + 0
  BY <1>1, <1>2, <1>3
<1>5. ((PAGE * (q + i)) + 0) % PAGE = 0
  BY <1>2, Spans, RestOfMultiple
<1> QED BY <1>2, <1>4, <1>5

LEMMA EntryIs ==
  ASSUME NEW a \in Nat, a % PAGE = 0, NEW larger \in BOOLEAN
  PROVE  /\ Entry(a, larger) \in EntryStates
         /\ Entry(a, larger).present /\ Entry(a, larger).larger = larger
         /\ Entry(a, larger).address = a
<1>1. PageBase(a) = a
  BY DEF PageBase
<1> QED BY <1>1 DEF Entry, EntryStates

LEMMA MultipleOf ==
  ASSUME NEW a \in Nat, NEW B \in Nat \ {0}, a % B = 0
  PROVE  \E q \in Nat : a = B * q
<1>1. PICK q \in Nat : a = (B * q) + (a % B)
  BY DivMod
<1>2. B * q \in Nat
  BY Scale
<1>3. a = B * q
  BY <1>1, <1>2
<1> QED BY <1>3

\* Adding a multiple of the divisor keeps the rest, and equal rests stay equal.
LEMMA AddMultiple ==
  ASSUME NEW a \in Nat, NEW B \in Nat \ {0}, NEW q \in Nat
  PROVE  (a + (B * q)) % B = a % B
<1>1. PICK n \in Nat : a = (B * n) + (a % B) /\ n = a \div B
  BY DivMod
<1>2. a % B \in 0 .. B - 1
  BY DivMod
<1>3. a + (B * q) = (B * (n + q)) + (a % B) /\ n + q \in Nat
  BY <1>1, <1>2
<1>4. (a + (B * q)) \div B = n + q
  BY <1>2, <1>3, QuotOfMultiple
<1>5. a + (B * q) \in Nat /\ B * (n + q) \in Nat
  BY <1>3
<1>6. a + (B * q) = (B * ((a + (B * q)) \div B)) + ((a + (B * q)) % B)
      /\ (a + (B * q)) % B \in 0 .. B - 1
  BY <1>5, DivMod
<1> QED BY <1>2, <1>3, <1>4, <1>5, <1>6

LEMMA AddSame ==
  ASSUME NEW a \in Nat, NEW b \in Nat, NEW x \in Nat, NEW B \in Nat \ {0},
         a % B = b % B, (b + x) % B = 0
  PROVE  (a + x) % B = 0
<1>1. PICK r \in 0 .. B - 1 : r = a % B /\ r = b % B
  BY DivMod
<1>2. PICK n \in Nat : a = (B * n) + r
  <2>1. a \div B \in Nat /\ a = (B * (a \div B)) + (a % B)
    BY DivMod
  <2>2. PICK n \in Nat : n = a \div B
    BY <2>1
  <2>3. a = (B * n) + r
    BY <1>1, <2>1, <2>2
  <2> QED BY <2>3
<1>3. PICK k \in Nat : b = (B * k) + r
  <2>1. b \div B \in Nat /\ b = (B * (b \div B)) + (b % B)
    BY DivMod
  <2>2. PICK k \in Nat : k = b \div B
    BY <2>1
  <2>3. b = (B * k) + r
    BY <1>1, <2>1, <2>2
  <2> QED BY <2>3
<1>4. r + x \in Nat
  BY <1>1
<1>5. B * k \in Nat /\ B * n \in Nat
  BY Scale
<1>6. b + x = (r + x) + (B * k) /\ a + x = (r + x) + (B * n)
  BY <1>2, <1>3, <1>4, <1>5
<1>7. ((r + x) + (B * k)) % B = (r + x) % B /\ ((r + x) + (B * n)) % B = (r + x) % B
  BY <1>4, AddMultiple
<1> QED BY <1>6, <1>7

\* A 2 MiB page of memory ends below the direct map.
LEMMA LargerEnds ==
  ASSUME NEW a \in Nat, a % PdSpan = 0, a < higher_half_offset, NEW v \in Nat
  PROVE  a + (v % PdSpan) \in Nat /\ a + (v % PdSpan) < higher_half_offset
<1>0. PdSpan \in Nat \ {0}
  BY Spans
<1>1. PICK q \in Nat : a = PdSpan * q
  BY <1>0, MultipleOf
<1>2. PICK h \in Nat : higher_half_offset = PdSpan * h
  <2>1. higher_half_offset \in Nat /\ higher_half_offset % PdSpan = 0
    BY SizeAssumption, AreaAssumption
  <2> QED BY <1>0, <2>1, MultipleOf
<1>3. v % PdSpan \in 0 .. PdSpan - 1
  BY Spans, DivMod
<1>4. /\ PdSpan * q \in Nat /\ PdSpan * h \in Nat /\ PdSpan * (q + 1) \in Nat
      /\ PdSpan * (q + 1) = (PdSpan * q) + PdSpan
  BY Spans
<1>5. ASSUME h <= q PROVE FALSE
  <2>1. PdSpan * h <= PdSpan * q
    BY <1>5, Spans
  <2> QED BY <1>1, <1>2, <1>4, <2>1
<1>6. PdSpan * (q + 1) <= PdSpan * h
  BY <1>5, Spans
<1>7. PICK x \in 0 .. PdSpan - 1 : x = v % PdSpan
  BY <1>3
<1>8. a + x \in Nat /\ a + x < higher_half_offset
  BY <1>1, <1>2, <1>4, <1>6, Spans
<1> QED BY <1>7, <1>8

LEMMA OffsetAligned ==
  /\ higher_half_offset % PAGE = 0
  /\ \E q \in Nat : higher_half_offset = PAGE * q
<1>1. higher_half_offset % (PAGE * ENTRIES) = 0 /\ higher_half_offset \in Nat
  BY AreaAssumption, SpaceOrder DEF PdSpan
<1>2. PAGE \in Nat \ {0} /\ ENTRIES \in Nat \ {0}
  BY SizeAssumption, TableAssumption
<1>3. PAGE * ENTRIES \in Nat \ {0}
  BY <1>2
<1>4. PICK q \in Nat : higher_half_offset = (PAGE * ENTRIES) * q
  BY <1>1, <1>3, MultipleOf
<1>5. higher_half_offset = PAGE * (ENTRIES * q) /\ ENTRIES * q \in Nat
  BY <1>2, <1>4
<1>6. (0 + (PAGE * (ENTRIES * q))) % PAGE = 0
  <2>1. 0 \in Nat /\ 0 % PAGE = 0
    BY <1>2
  <2> QED BY <1>5, <2>1, Aligned
<1> QED BY <1>1, <1>5, <1>6

\* A physical page and its place in the direct map are addresses of pages.
LEMMA PhysPageIs ==
  ASSUME NEW p \in PhysPages
  PROVE  IsPage(p) /\ IsPage(pmm_phys_to_virt(p))
<1>1. p \in Nat /\ p % PAGE = 0 /\ p < higher_half_offset
  BY PhysType
<1>2. higher_half_offset \in Nat /\ higher_half_offset < Top /\ Top \in Nat
  BY SpaceOrder
<1>4. pmm_phys_to_virt(p) < Top
  BY AreaAssumption
<1>5. PICK q \in Nat : higher_half_offset = PAGE * q
  BY OffsetAligned
<1>6. p + (PAGE * q) \in Nat /\ (p + (PAGE * q)) % PAGE = 0
  BY <1>1, Aligned
<1>7. IsPage(p)
  BY <1>1, <1>2 DEF IsPage
<1>8. pmm_phys_to_virt(p) = p + (PAGE * q)
  BY <1>5 DEF pmm_phys_to_virt
<1> QED BY <1>4, <1>6, <1>7, <1>8 DEF IsPage

\* Two page addresses less than a page apart are the same.
LEMMA NextPage ==
  ASSUME NEW u, IsPage(u), NEW v, IsPage(v), v <= u, u < v + PAGE
  PROVE  u = v
<1>1. u \in Nat /\ v \in Nat /\ u % PAGE = 0 /\ v % PAGE = 0 /\ PAGE \in Nat \ {0}
  BY SizeAssumption DEF IsPage
<1>2. PICK q \in Nat : v = PAGE * q
  BY <1>1, MultipleOf
<1>3. u - v \in 0 .. PAGE - 1
  BY <1>1
<1>4. ((PAGE * q) + (u - v)) \div PAGE = q
  BY <1>1, <1>3, QuotOfMultiple
<1>5. (PAGE * q) + (u - v) = u
  BY <1>1, <1>2
<1>6. u = (PAGE * (u \div PAGE)) + (u % PAGE)
  BY <1>1, DivMod
<1>7. u = (PAGE * q) + 0
  BY <1>1, <1>4, <1>5, <1>6
<1> QED BY <1>1, <1>2, <1>7

\* The 2 MiB from the first page of a page table on
InPd(u, v) == v <= u /\ u < v + PdSpan

\* are those with its three upper indices.
LEMMA PagesInPd ==
  ASSUME NEW u, IsPage(u), NEW v, IsPage(v), PT_INDEX(v) = 0
  PROVE  /\ v % PdSpan = 0
         /\ InPd(u, v) => u % PdSpan = u - v
         /\ InPd(u, v) <=> /\ PML4_INDEX(u) = PML4_INDEX(v)
                           /\ PDPT_INDEX(u) = PDPT_INDEX(v) /\ PD_INDEX(u) = PD_INDEX(v)
<1>1. u \in Nat /\ v \in Nat /\ v % PAGE = 0
  BY DEF IsPage
<1>2. PAGE \in Nat \ {0}
  BY SizeAssumption
<1>3. v % PdSpan = 0
  BY <1>1, <1>2, OffsetInPd
<1>4. PdSpan \in Nat \ {0}
  BY Spans
<1>5. PICK q \in Nat : v = PdSpan * q
  BY <1>1, <1>3, <1>4, MultipleOf
<1>6. PICK b \in Nat : u = (PdSpan * b) + (u % PdSpan) /\ b = u \div PdSpan
  BY <1>1, <1>4, DivMod
<1>7. u % PdSpan \in 0 .. PdSpan - 1
  BY <1>1, <1>4, DivMod
<1>8. v \div PdSpan = q
  <2>1. 0 \in 0 .. PdSpan - 1 /\ PdSpan * q \in Nat
    BY <1>1, <1>4, <1>5
  <2>2. ((PdSpan * q) + 0) \div PdSpan = q
    BY <1>4, <2>1, QuotOfMultiple
  <2>3. (PdSpan * q) + 0 = v
    BY <1>1, <1>5
  <2> QED BY <2>2, <2>3
<1>9. ASSUME InPd(u, v)
      PROVE  b = q /\ u % PdSpan = u - v
  <2>1. u - v \in 0 .. PdSpan - 1
    BY <1>1, <1>4, <1>9 DEF InPd
  <2>2. ((PdSpan * q) + (u - v)) \div PdSpan = q
    BY <1>4, <2>1, QuotOfMultiple
  <2>3. (PdSpan * q) + (u - v) = u
    BY <1>1, <1>5
  <2>4. b = q
    BY <1>6, <2>2, <2>3
  <2>5. PdSpan * b = v /\ u % PdSpan \in Nat
    BY <1>4, <1>5, <1>7, <2>4
  <2> QED BY <1>1, <1>6, <2>4, <2>5
<1>10. ASSUME b = q
       PROVE  InPd(u, v)
  <2>1. u = v + (u % PdSpan)
    BY <1>5, <1>6, <1>10
  <2> QED BY <1>1, <1>4, <1>7, <2>1 DEF InPd
<1>11. ASSUME b = q
       PROVE  PML4_INDEX(u) = PML4_INDEX(v) /\ PDPT_INDEX(u) = PDPT_INDEX(v) /\ PD_INDEX(u) = PD_INDEX(v)
  <2>1. u \div PdSpan = v \div PdSpan
    BY <1>6, <1>8, <1>11
  <2>2. /\ u \div PdptSpan = (u \div PdSpan) \div ENTRIES
        /\ u \div Pml4Span = (u \div PdptSpan) \div ENTRIES
        /\ v \div PdptSpan = (v \div PdSpan) \div ENTRIES
        /\ v \div Pml4Span = (v \div PdptSpan) \div ENTRIES
    BY <1>1, Quotients
  <2>3. u \div PdptSpan = v \div PdptSpan
    BY <2>1, <2>2
  <2>4. u \div Pml4Span = v \div Pml4Span
    BY <2>2, <2>3
  <2> QED BY <2>1, <2>3, <2>4 DEF PML4_INDEX, PDPT_INDEX, PD_INDEX
<1>12. ASSUME PML4_INDEX(u) = PML4_INDEX(v), PDPT_INDEX(u) = PDPT_INDEX(v), PD_INDEX(u) = PD_INDEX(v)
       PROVE  b = q
  BY <1>6, <1>8, <1>12, SamePd
<1> QED BY <1>3, <1>9, <1>10, <1>11, <1>12

-----------------------------------------------------------------------------
\* The forest of page tables. A ghost function g tells what each physical page
\* is: a table of level lev (4 the PML4, 1 a page table) of the tree with the
\* given root, reached from entry at of table up; lev 0 is no table.

Node(l, r, t, i) == [lev |-> l, root |-> r, up |-> t, at |-> i]

Ghosts == [PhysPages -> [lev : 0 .. 4, root : PhysPages, up : PhysPages, at : Indices]]

NoTable(g, t) == t \in PhysPages /\ g[t].lev = 0

IsTable(g, l, r, t) == t \in PhysPages /\ l \in 1 .. 4 /\ g[t].lev = l /\ g[t].root = r

\* Table c of level k is reached from entry i of table t.
IsChild(g, k, r, t, i, c) ==
  /\ c \in PhysPages /\ t \in PhysPages /\ i \in Indices /\ k \in 1 .. 3
  /\ g[c] = Node(k, r, t, i)

\* Level k is the one below level l.
Below(k, l) == l \in 2 .. 4 /\ k = l - 1

\* A page is a table of one level of one tree, reached from one entry.
LEMMA Kinds ==
  ASSUME NEW g
  PROVE  /\ \A l, r, t : IsTable(g, l, r, t) => t \in PhysPages /\ ~NoTable(g, t)
         /\ \A l, r, t, k, q : IsTable(g, l, r, t) /\ IsTable(g, k, q, t) => l = k /\ r = q
         /\ \A k, r, t, i, c : IsChild(g, k, r, t, i, c) =>
              IsTable(g, k, r, c) /\ t \in PhysPages /\ i \in Indices
         /\ \A k, r, t, i, c, l, q, u, j :
              IsChild(g, k, r, t, i, c) /\ IsChild(g, l, q, u, j, c) =>
                k = l /\ r = q /\ t = u /\ i = j
<1>1. \A l, r, t : IsTable(g, l, r, t) => t \in PhysPages /\ ~NoTable(g, t)
  BY DEF IsTable, NoTable
<1>2. \A l, r, t, k, q : IsTable(g, l, r, t) /\ IsTable(g, k, q, t) => l = k /\ r = q
  BY DEF IsTable
<1>3. ASSUME NEW k, NEW r, NEW t, NEW i, NEW c, IsChild(g, k, r, t, i, c)
      PROVE  IsTable(g, k, r, c) /\ t \in PhysPages /\ i \in Indices
  <2>1. c \in PhysPages /\ k \in 1 .. 3 /\ g[c] = Node(k, r, t, i)
    BY <1>3 DEF IsChild
  <2>2. g[c].lev = k /\ g[c].root = r /\ k \in 1 .. 4
    BY <2>1 DEF Node
  <2> QED BY <1>3, <2>1, <2>2 DEF IsTable, IsChild
<1>4. ASSUME NEW k, NEW r, NEW t, NEW i, NEW c, NEW l, NEW q, NEW u, NEW j,
             IsChild(g, k, r, t, i, c), IsChild(g, l, q, u, j, c)
      PROVE  k = l /\ r = q /\ t = u /\ i = j
  <2>1. Node(k, r, t, i) = Node(l, q, u, j)
    BY <1>4 DEF IsChild
  <2> QED BY <2>1 DEF Node
<1> QED BY <1>1, <1>2, <1>3, <1>4

\* g2 has all the tables of g.
Extends(g, g2) ==
  /\ \A l, r, t : IsTable(g, l, r, t) => IsTable(g2, l, r, t)
  /\ \A k, r, t, i, c : IsChild(g, k, r, t, i, c) => IsChild(g2, k, r, t, i, c)

\* A page that was no table becomes one.
LEMMA Adopt ==
  ASSUME NEW g \in Ghosts, NEW n, NoTable(g, n), NEW T, NEW r, NEW l, IsTable(g, l, r, T),
         NEW k, Below(k, l), NEW I \in Indices, r \in PhysPages
  PROVE  LET g2 == [g EXCEPT ![n] = Node(k, r, T, I)]
         IN  /\ g2 \in Ghosts /\ Extends(g, g2)
             /\ IsChild(g2, k, r, T, I, n)
             /\ \A j, q, t : IsTable(g2, j, q, t) => t = n \/ IsTable(g, j, q, t)
             /\ \A t : NoTable(g2, t) => NoTable(g, t)
<1> DEFINE g2 == [g EXCEPT ![n] = Node(k, r, T, I)]
<1>1. n \in PhysPages /\ T \in PhysPages /\ k \in 1 .. 3 /\ g[n].lev = 0
  BY DEF NoTable, IsTable, Below
<1>2. /\ g2 \in Ghosts /\ g2[n] = Node(k, r, T, I)
      /\ \A t \in PhysPages : t # n => g2[t] = g[t]
  <2>1. Node(k, r, T, I) \in [lev : 0 .. 4, root : PhysPages, up : PhysPages, at : Indices]
    BY <1>1 DEF Node
  <2> QED BY <1>1, <2>1 DEF Ghosts
<1> HIDE DEF g2
<1>3. ASSUME NEW j, NEW q, NEW t, IsTable(g, j, q, t) PROVE IsTable(g2, j, q, t)
  <2>1. t # n /\ t \in PhysPages
    BY <1>1, <1>3 DEF IsTable
  <2>2. g2[t] = g[t]
    BY <1>2, <2>1
  <2> QED BY <1>3, <2>2 DEF IsTable
<1>4. ASSUME NEW j, NEW q, NEW t, NEW i, NEW c, IsChild(g, j, q, t, i, c)
      PROVE  IsChild(g2, j, q, t, i, c)
  <2>1. c \in PhysPages /\ ~NoTable(g, c)
    BY <1>4, Kinds
  <2>2. g2[c] = g[c]
    BY <1>2, <2>1
  <2> QED BY <1>4, <2>2 DEF IsChild
<1>5. IsChild(g2, k, r, T, I, n)
  BY <1>1, <1>2 DEF IsChild
<1>6. ASSUME NEW j, NEW q, NEW t, IsTable(g2, j, q, t), t # n PROVE IsTable(g, j, q, t)
  <2>1. g2[t] = g[t]
    BY <1>2, <1>6 DEF IsTable
  <2> QED BY <1>6, <2>1 DEF IsTable
<1>7. ASSUME NEW t, NoTable(g2, t) PROVE NoTable(g, t)
  <2>1. t # n
    BY <1>5, <1>7, Kinds
  <2>2. g2[t] = g[t]
    BY <1>2, <1>7, <2>1 DEF NoTable
  <2> QED BY <1>7, <2>2 DEF NoTable
<1>8. Extends(g, g2)
  BY <1>3, <1>4 DEF Extends
<1> QED BY <1>2, <1>5, <1>6, <1>7, <1>8 DEF g2

-----------------------------------------------------------------------------
\* The tables of a machine

IsMachine(m) ==
  m = [pmm |-> m.pmm, mem |-> m.mem, flushed |-> m.flushed, starved |-> m.starved]

Memories == [PhysPages -> [Indices -> EntryStates]]

\* What the tables of any tree rely on: every table is marked allocated.
Sound(m, g) ==
  /\ IsMachine(m) /\ ~m.starved
  /\ Consistent(m.pmm)
  /\ m.mem \in Memories
  /\ g \in Ghosts
  /\ \A l, r, t : IsTable(g, l, r, t) => Marked(m.pmm, t)

\* Entry i of table t
Ent(m, t, i) == m.mem[t][i]

LEMMA EntType ==
  ASSUME NEW m, NEW g, Sound(m, g), NEW t \in PhysPages, NEW i \in Indices
  PROVE  Ent(m, t, i) \in EntryStates /\ Ent(m, t, i).address \in Nat
BY DEF Sound, Memories, EntryStates, Ent

\* Entry e leads to a table, at address t.
Leads(e, t) == e.present /\ ~e.larger /\ e.address = t

\* Entry i of a table t above level k holds e: a table of level k, or in a page
\* directory a 2 MiB page of memory.
EntryOK(g, k, r, t, i, e) ==
  /\ e.larger =>
       k = 1 /\ e.present /\ e.address % PdSpan = 0 /\ e.address < higher_half_offset
  /\ e.present /\ ~e.larger => IsChild(g, k, r, t, i, e.address)

\* The tables g gives root r, and the entries that lead to them, are the ones
\* in memory.
Tree(m, g, r) ==
  /\ IsTable(g, 4, r, r)
  /\ \A k, l, t, i : Below(k, l) /\ IsTable(g, l, r, t) /\ i \in Indices =>
                       EntryOK(g, k, r, t, i, Ent(m, t, i))
  /\ \A k, l, c : Below(k, l) /\ IsTable(g, k, r, c) =>
       \E t, i : IsTable(g, l, r, t) /\ IsChild(g, k, r, t, i, c) /\ Leads(Ent(m, t, i), c)

\* The index of v in a table of level l, and what the walk finds from there and
\* from entry e of a table above level k.
Idx(l, v) ==
  IF l = 1 THEN PT_INDEX(v) ELSE IF l = 2 THEN PD_INDEX(v)
  ELSE IF l = 3 THEN PDPT_INDEX(v) ELSE PML4_INDEX(v)

At(m, l, t, v) ==
  IF l = 1 THEN AtPt(m, t, v) ELSE IF l = 2 THEN AtPd(m, t, v)
  ELSE IF l = 3 THEN AtPdpt(m, t, v) ELSE Translate(m, t, v)

Found(m, k, e, v) ==
  IF ~e.present THEN UINT64_MAX
  ELSE IF e.larger THEN e.address + (v % PdSpan) ELSE At(m, k, e.address, v)

LEMMA IdxType ==
  ASSUME NEW v \in Nat
  PROVE  \A l : Idx(l, v) \in Indices
BY IndexType DEF Idx

LEMMA LevelsBelow == Below(1, 2) /\ Below(2, 3) /\ Below(3, 4)
BY DEF Below

\* One step of the walk.
LEMMA AtUnfold ==
  ASSUME NEW m, NEW g, NEW r, NEW t, NEW k, NEW l, Below(k, l), NEW v,
         EntryOK(g, k, r, t, Idx(l, v), Ent(m, t, Idx(l, v)))
  PROVE  At(m, l, t, v) = Found(m, k, Ent(m, t, Idx(l, v)), v)
<1>1. CASE l = 4
  <2>1. Idx(l, v) = PML4_INDEX(v) /\ At(m, l, t, v) = Translate(m, t, v) /\ k = 3
        /\ \A a : At(m, k, a, v) = AtPdpt(m, a, v)
    BY <1>1 DEF Idx, At, Below
  <2>2. PICK e : e = Ent(m, t, Idx(l, v))
    OBVIOUS
  <2>3. ~e.larger
    BY <2>1, <2>2 DEF EntryOK
  <2> QED BY <2>1, <2>2, <2>3 DEF Translate, Ent, Found
<1>2. CASE l = 3
  <2>1. Idx(l, v) = PDPT_INDEX(v) /\ At(m, l, t, v) = AtPdpt(m, t, v) /\ k = 2
        /\ \A a : At(m, k, a, v) = AtPd(m, a, v)
    BY <1>2 DEF Idx, At, Below
  <2>2. PICK e : e = Ent(m, t, Idx(l, v))
    OBVIOUS
  <2>3. ~e.larger
    BY <2>1, <2>2 DEF EntryOK
  <2> QED BY <2>1, <2>2, <2>3 DEF AtPdpt, Ent, Found
<1>3. CASE l = 2
  <2>1. Idx(l, v) = PD_INDEX(v) /\ At(m, l, t, v) = AtPd(m, t, v)
        /\ \A a : At(m, k, a, v) = AtPt(m, a, v)
    BY <1>3 DEF Idx, At, Below
  <2>2. PICK e : e = Ent(m, t, Idx(l, v))
    OBVIOUS
  <2>3. e.larger => e.present /\ e.address % PdSpan = 0
    BY <2>2 DEF EntryOK
  <2> QED BY <1>3, <2>1, <2>2, <2>3 DEF AtPd, LargerPage, Ent, Found
<1> QED BY <1>1, <1>2, <1>3 DEF Below

\* From the tables of level l and root r, the walks of m and m2 find the same,
\* except from table a for the addresses in V.
Same(m, m2, g, r, l, a, V) ==
  \A t, v :
    v \in Nat /\ IsTable(g, l, r, t) /\ ~(t = a /\ v \in V) => At(m2, l, t, v) = At(m, l, t, v)

\* So do they for an address from a table of the level above with the same entry.
LEMMA UpOne ==
  ASSUME NEW m, NEW m2, NEW g, NEW r, Tree(m, g, r), NEW k, NEW l, Below(k, l),
         NEW a, NEW V, Same(m, m2, g, r, k, a, V), NEW t, IsTable(g, l, r, t), NEW v \in Nat,
         Ent(m2, t, Idx(l, v)) = Ent(m, t, Idx(l, v)),
         v \in V => ~IsChild(g, k, r, t, Idx(l, v), a)
  PROVE  At(m2, l, t, v) = At(m, l, t, v)
<1> DEFINE i == Idx(l, v)
<1>1. i \in Indices
  BY IdxType
<1>2. EntryOK(g, k, r, t, i, Ent(m, t, i)) /\ EntryOK(g, k, r, t, i, Ent(m2, t, i))
  BY <1>1 DEF Tree
<1>3. At(m, l, t, v) = Found(m, k, Ent(m, t, i), v) /\ At(m2, l, t, v) = Found(m2, k, Ent(m, t, i), v)
  BY <1>2, AtUnfold
<1>4. PICK e : e = Ent(m, t, i)
  OBVIOUS
<1>5. ASSUME e.present, ~e.larger
      PROVE  At(m2, k, e.address, v) = At(m, k, e.address, v)
  <2>1. IsChild(g, k, r, t, i, e.address)
    BY <1>2, <1>4, <1>5 DEF EntryOK
  <2>2. IsTable(g, k, r, e.address)
    BY <2>1, Kinds
  <2>3. ~(e.address = a /\ v \in V)
    BY <2>1
  <2> QED BY <2>2, <2>3 DEF Same
<1>6. Found(m2, k, e, v) = Found(m, k, e, v)
  BY <1>5 DEF Found
<1> QED BY <1>3, <1>4, <1>6

\* So do those from the level above if its tables are the same: the exception
\* moves up to the entry that leads to table a.
LEMMA Up ==
  ASSUME NEW m, NEW m2, NEW g, NEW r, Tree(m, g, r), NEW k, NEW l, Below(k, l),
         NEW a, NEW V, Same(m, m2, g, r, k, a, V),
         NEW b, NEW i, IsChild(g, k, r, b, i, a), NEW W,
         \A v \in Nat : v \in V /\ Idx(l, v) = i => v \in W,
         \A t, j : IsTable(g, l, r, t) /\ j \in Indices => Ent(m2, t, j) = Ent(m, t, j)
  PROVE  Same(m, m2, g, r, l, b, W)
<1> SUFFICES ASSUME NEW t, NEW v, v \in Nat, IsTable(g, l, r, t), ~(t = b /\ v \in W)
             PROVE  At(m2, l, t, v) = At(m, l, t, v)
  BY DEF Same
<1>1. Ent(m2, t, Idx(l, v)) = Ent(m, t, Idx(l, v))
  BY IdxType
<1>2. ASSUME v \in V PROVE ~IsChild(g, k, r, t, Idx(l, v), a)
  BY <1>2, Kinds
<1> QED BY <1>1, <1>2, UpOne

\* Of the tables of root r, only entry i of table t differs in m2.
OnlyEntry(m, m2, g, r, t, i) ==
  \A l, u, j : IsTable(g, l, r, u) /\ j \in Indices /\ ~(u = t /\ j = i) => Ent(m2, u, j) = Ent(m, u, j)

\* Nothing but an entry of a table of level l changes: below, everything is found
\* as before.
LEMMA SameUpTo ==
  ASSUME NEW m, NEW m2, NEW g, NEW r, Tree(m, g, r), NEW l, NEW T, IsTable(g, l, r, T),
         NEW I, OnlyEntry(m, m2, g, r, T, I)
  PROVE  /\ l # 1 => Same(m, m2, g, r, 1, T, {})
         /\ l \notin {1, 2} => Same(m, m2, g, r, 2, T, {})
         /\ l = 4 => Same(m, m2, g, r, 3, T, {})
<1>1. ASSUME NEW k, NEW t, IsTable(g, k, r, t), k # l, NEW j \in Indices
      PROVE  Ent(m2, t, j) = Ent(m, t, j)
  BY <1>1, Kinds DEF OnlyEntry
<1>2. ASSUME l # 1 PROVE Same(m, m2, g, r, 1, T, {})
  <2> SUFFICES ASSUME NEW t, NEW v \in Nat, IsTable(g, 1, r, t)
               PROVE  At(m2, 1, t, v) = At(m, 1, t, v)
    BY DEF Same
  <2>1. Ent(m2, t, Idx(1, v)) = Ent(m, t, Idx(1, v))
    BY <1>1, <1>2, IdxType
  <2> QED BY <2>1 DEF At, AtPt, Ent, Idx
<1>3. ASSUME NEW j, NEW k, Below(j, k), k # l, Same(m, m2, g, r, j, T, {})
      PROVE  Same(m, m2, g, r, k, T, {})
  <2> SUFFICES ASSUME NEW t, NEW v \in Nat, IsTable(g, k, r, t)
               PROVE  At(m2, k, t, v) = At(m, k, t, v)
    BY DEF Same
  <2>1. Ent(m2, t, Idx(k, v)) = Ent(m, t, Idx(k, v))
    BY <1>1, <1>3, IdxType
  <2>2. v \notin {}
    OBVIOUS
  <2> QED BY <1>3, <2>1, <2>2, UpOne
<1>4. ASSUME l \notin {1, 2} PROVE Same(m, m2, g, r, 2, T, {})
  BY <1>2, <1>3, <1>4, LevelsBelow
<1>5. ASSUME l = 4 PROVE Same(m, m2, g, r, 3, T, {})
  <2>1. Same(m, m2, g, r, 2, T, {}) /\ l # 3
    BY <1>4, <1>5
  <2> QED BY <1>3, <2>1, LevelsBelow
<1> QED BY <1>2, <1>4, <1>5

\* A change of an entry of a table of level l that does not change what is
\* found there changes no translation.
LEMMA SameAbove ==
  ASSUME NEW m, NEW m2, NEW g, NEW r, Tree(m, g, r), NEW l, NEW T, IsTable(g, l, r, T),
         NEW I, OnlyEntry(m, m2, g, r, T, I), Same(m, m2, g, r, l, T, {})
  PROVE  \A v \in Nat : Translate(m2, r, v) = Translate(m, r, v)
<1>1. ASSUME NEW k, NEW t, IsTable(g, k, r, t), k # l, NEW j \in Indices
      PROVE  Ent(m2, t, j) = Ent(m, t, j)
  BY <1>1, Kinds DEF OnlyEntry
<1>2. ASSUME NEW j, NEW k, Below(j, k), k # l, Same(m, m2, g, r, j, T, {})
      PROVE  Same(m, m2, g, r, k, T, {})
  <2> SUFFICES ASSUME NEW t, NEW v \in Nat, IsTable(g, k, r, t)
               PROVE  At(m2, k, t, v) = At(m, k, t, v)
    BY DEF Same
  <2>1. Ent(m2, t, Idx(k, v)) = Ent(m, t, Idx(k, v))
    BY <1>1, <1>2, IdxType
  <2>2. v \notin {}
    OBVIOUS
  <2> QED BY <1>2, <2>1, <2>2, UpOne
<1>3. l \in 1 .. 4
  BY DEF IsTable
<1>4. l = 1 => Same(m, m2, g, r, 2, T, {})
  BY <1>2, LevelsBelow
<1>5. l \in {1, 2} => Same(m, m2, g, r, 3, T, {})
  BY <1>2, <1>4, LevelsBelow
<1>6. l \in {1, 2, 3} => Same(m, m2, g, r, 4, T, {})
  BY <1>2, <1>5, LevelsBelow
<1>7. Same(m, m2, g, r, 4, T, {}) /\ IsTable(g, 4, r, r)
  BY <1>3, <1>6 DEF Tree
<1> QED BY <1>7 DEF Same, At

\* m2 has every table of m, differs from it in entry i of table t at most, and
\* marks what it marks.
Changes(m, m2, g, t, i) ==
  /\ IsMachine(m2) /\ ~m2.starved
  /\ Consistent(m2.pmm)
  /\ m2.mem \in Memories
  /\ \A a \in PhysPages : Marked(m.pmm, a) => Marked(m2.pmm, a)
  /\ \A r : OnlyEntry(m, m2, g, r, t, i)

\* From m and g to m2 and g2 only tables of root r have changed, only the pages
\* in F have been unmarked, and only these and pages that were not marked have
\* become tables.
Grows(m, g, m2, g2, r, F) ==
  /\ Extends(g, g2)
  /\ \A l, q, t, i : q # r /\ IsTable(g, l, q, t) /\ i \in Indices => Ent(m2, t, i) = Ent(m, t, i)
  /\ \A l, q, t : IsTable(g2, l, q, t) =>
       IsTable(g, l, q, t) \/ (q = r /\ (t \in F \/ ~Marked(m.pmm, t)))
  /\ \A a \in PhysPages : a \notin F /\ Marked(m.pmm, a) => Marked(m2.pmm, a)

\* The tree of r has grown and its map is the same.
Keeps(m, g, m2, g2, r) ==
  /\ Sound(m2, g2) /\ Tree(m2, g2, r) /\ Grows(m, g, m2, g2, r, {})
  /\ \A v \in Nat : Translate(m2, r, v) = Translate(m, r, v)

LEMMA KeepsSelf ==
  ASSUME NEW m, NEW g, NEW r, Sound(m, g), Tree(m, g, r)
  PROVE  Keeps(m, g, m, g, r)
BY DEF Keeps, Grows, Extends

LEMMA GrowsOn ==
  ASSUME NEW m, NEW g, NEW m1, NEW g1, NEW m2, NEW g2, NEW r, NEW F,
         Grows(m, g, m1, g1, r, F), Grows(m1, g1, m2, g2, r, {})
  PROVE  Grows(m, g, m2, g2, r, F)
<1>1. Extends(g, g2)
  BY DEF Grows, Extends
<1>2. ASSUME NEW l, NEW q, NEW t, NEW i \in Indices, q # r, IsTable(g, l, q, t)
      PROVE  Ent(m2, t, i) = Ent(m, t, i)
  <2>1. IsTable(g1, l, q, t)
    BY <1>2 DEF Grows, Extends
  <2> QED BY <1>2, <2>1 DEF Grows
<1>3. ASSUME NEW l, NEW q, NEW t, IsTable(g2, l, q, t)
      PROVE  IsTable(g, l, q, t) \/ (q = r /\ (t \in F \/ ~Marked(m.pmm, t)))
  BY <1>3, Kinds DEF Grows
<1>4. \A a \in PhysPages : a \notin F /\ Marked(m.pmm, a) => Marked(m2.pmm, a)
  BY DEF Grows
<1> QED BY <1>1, <1>2, <1>3, <1>4 DEF Grows

LEMMA KeepsOn ==
  ASSUME NEW m, NEW g, NEW m1, NEW g1, NEW m2, NEW g2, NEW r,
         Keeps(m, g, m1, g1, r), Keeps(m1, g1, m2, g2, r)
  PROVE  Keeps(m, g, m2, g2, r)
BY GrowsOn DEF Keeps

\* A page that is not marked is no table.
LEMMA NotMarked ==
  ASSUME NEW m, NEW g, Sound(m, g), NEW n \in PhysPages, ~Marked(m.pmm, n)
  PROVE  NoTable(g, n)
<1>1. g[n].lev \in 0 .. 4
  BY DEF Sound, Ghosts
<1>2. g[n].lev # 0 => IsTable(g, g[n].lev, g[n].root, n)
  BY <1>1 DEF IsTable
<1> QED BY <1>2 DEF Sound, NoTable

\* A table of the level below, put where there was none, that finds what its
\* entry found: the tree stays one and its map the same.
LEMMA Graft ==
  ASSUME NEW m, NEW g, NEW r, Sound(m, g), Tree(m, g, r),
         NEW T, NEW k, NEW l, Below(k, l), IsTable(g, l, r, T),
         NEW I \in Indices, \A c : ~Leads(Ent(m, T, I), c),
         NEW m2, Changes(m, m2, g, T, I),
         NEW n \in PhysPages, ~Marked(m.pmm, n), Marked(m2.pmm, n), Leads(Ent(m2, T, I), n),
         k # 1 => \A i \in Indices : ~Ent(m2, n, i).present /\ ~Ent(m2, n, i).larger,
         \A v \in Nat : Idx(l, v) = I => At(m2, k, n, v) = At(m, l, T, v)
  PROVE  Keeps(m, g, m2, [g EXCEPT ![n] = Node(k, r, T, I)], r)
<1> DEFINE g2 == [g EXCEPT ![n] = Node(k, r, T, I)]
<1>1. g \in Ghosts /\ r \in PhysPages /\ IsTable(g, 4, r, r) /\ NoTable(g, n)
  BY NotMarked DEF Sound, Tree, IsTable
<1>2. /\ g2 \in Ghosts /\ Extends(g, g2) /\ IsChild(g2, k, r, T, I, n)
      /\ \A j, q, t : IsTable(g2, j, q, t) => t = n \/ IsTable(g, j, q, t)
  BY <1>1, Adopt
<1> HIDE DEF g2
<1>3. IsTable(g2, k, r, n) /\ \A j, q, t : IsTable(g, j, q, t) => t # n
  BY <1>1, <1>2, Kinds
<1>4. OnlyEntry(m, m2, g, r, T, I)
  BY DEF Changes
<1>5. Sound(m2, g2)
  <2>1. ASSUME NEW j, NEW q, NEW t, IsTable(g2, j, q, t) PROVE Marked(m2.pmm, t)
    BY <1>2, <2>1, Kinds DEF Sound, Changes
  <2> QED BY <1>2, <2>1 DEF Sound, Changes
<1>6. ASSUME NEW j, NEW h, NEW t, NEW i \in Indices, Below(j, h), IsTable(g2, h, r, t)
      PROVE  EntryOK(g2, j, r, t, i, Ent(m2, t, i))
  <2>1. CASE t = n
    <3>1. h = k
      BY <1>3, <1>6, <2>1, Kinds
    <3>2. k # 1
      BY <1>6, <3>1 DEF Below
    <3> QED BY <2>1, <3>2 DEF EntryOK
  <2>2. CASE t # n
    <3>1. IsTable(g, h, r, t)
      BY <1>2, <1>6, <2>2
    <3>2. CASE t = T /\ i = I
      <4>1. h = l
        BY <3>1, <3>2, Kinds
      <4>2. j = k
        BY <1>6, <4>1 DEF Below
      <4> QED BY <1>2, <3>2, <4>2 DEF EntryOK, Leads
    <3>3. CASE ~(t = T /\ i = I)
      <4>1. Ent(m2, t, i) = Ent(m, t, i)
        BY <1>4, <3>1, <3>3 DEF OnlyEntry
      <4>2. EntryOK(g, j, r, t, i, Ent(m, t, i))
        BY <1>6, <3>1 DEF Tree
      <4>3. EntryOK(g2, j, r, t, i, Ent(m, t, i))
        BY <1>2, <4>2 DEF EntryOK, Extends
      <4> QED BY <4>1, <4>3
    <3> QED BY <3>2, <3>3
  <2> QED BY <2>1, <2>2
<1>7. ASSUME NEW j, NEW h, NEW c, Below(j, h), IsTable(g2, j, r, c)
      PROVE  \E t, i : IsTable(g2, h, r, t) /\ IsChild(g2, j, r, t, i, c) /\ Leads(Ent(m2, t, i), c)
  <2>1. CASE c = n
    <3>1. j = k
      BY <1>3, <1>7, <2>1, Kinds
    <3>2. h = l
      BY <1>7, <3>1 DEF Below
    <3>3. IsTable(g2, l, r, T)
      BY <1>2 DEF Extends
    <3> QED BY <1>2, <2>1, <3>1, <3>2, <3>3
  <2>2. CASE c # n
    <3>1. IsTable(g, j, r, c)
      BY <1>2, <1>7, <2>2
    <3>2. PICK t, i : IsTable(g, h, r, t) /\ IsChild(g, j, r, t, i, c) /\ Leads(Ent(m, t, i), c)
      BY <1>7, <3>1 DEF Tree
    <3>3. i \in Indices /\ ~(t = T /\ i = I)
      BY <3>2, Kinds
    <3>4. Ent(m2, t, i) = Ent(m, t, i)
      BY <1>4, <3>2, <3>3 DEF OnlyEntry
    <3>5. IsTable(g2, h, r, t) /\ IsChild(g2, j, r, t, i, c)
      BY <1>2, <3>2 DEF Extends
    <3> QED BY <3>2, <3>4, <3>5
  <2> QED BY <2>1, <2>2
<1>8. Tree(m2, g2, r)
  <2>1. IsTable(g2, 4, r, r)
    BY <1>1, <1>2 DEF Extends
  <2> QED BY <1>6, <1>7, <2>1 DEF Tree
<1>9. Same(m, m2, g, r, k, T, {})
  <2>1. (k = 1 /\ l = 2) \/ (k = 2 /\ l = 3) \/ (k = 3 /\ l = 4)
    BY DEF Below
  <2> QED BY <1>4, <2>1, SameUpTo
<1>10. Same(m, m2, g, r, l, T, {})
  <2> SUFFICES ASSUME NEW t, NEW v \in Nat, IsTable(g, l, r, t)
               PROVE  At(m2, l, t, v) = At(m, l, t, v)
    BY DEF Same
  <2>1. CASE t = T /\ Idx(l, v) = I
    <3>1. EntryOK(g2, k, r, T, I, Ent(m2, T, I))
      BY <1>2, <1>6 DEF Extends
    <3>2. At(m2, l, t, v) = Found(m2, k, Ent(m2, T, I), v)
      BY <2>1, <3>1, AtUnfold
    <3>3. Found(m2, k, Ent(m2, T, I), v) = At(m2, k, n, v)
      BY DEF Found, Leads
    <3> QED BY <2>1, <3>2, <3>3
  <2>2. CASE ~(t = T /\ Idx(l, v) = I)
    <3>1. Ent(m2, t, Idx(l, v)) = Ent(m, t, Idx(l, v))
      BY <1>4, <2>2, IdxType DEF OnlyEntry
    <3>2. v \notin {}
      OBVIOUS
    <3> QED BY <1>9, <3>1, <3>2, UpOne
  <2> QED BY <2>1, <2>2
<1>11. \A v \in Nat : Translate(m2, r, v) = Translate(m, r, v)
  BY <1>4, <1>10, SameAbove
<1>12. Grows(m, g, m2, g2, r, {})
  <2>1. ASSUME NEW h, NEW q, NEW t, NEW i \in Indices, q # r, IsTable(g, h, q, t)
        PROVE  Ent(m2, t, i) = Ent(m, t, i)
    <3>1. t # T
      BY <2>1, Kinds
    <3> QED BY <2>1, <3>1 DEF Changes, OnlyEntry
  <2>2. ASSUME NEW h, NEW q, NEW t, IsTable(g2, h, q, t)
        PROVE  IsTable(g, h, q, t) \/ (q = r /\ ~Marked(m.pmm, t))
    BY <1>2, <1>3, <2>2, Kinds
  <2> QED BY <1>2, <2>1, <2>2 DEF Grows, Changes
<1> QED BY <1>5, <1>8, <1>11, <1>12 DEF g2, Keeps

\* What happens to one tree does not touch another.
LEMMA OtherRoot ==
  ASSUME NEW m, NEW g, NEW m2, NEW g2, NEW r, NEW F, Grows(m, g, m2, g2, r, F),
         NEW q, q # r, Tree(m, g, q)
  PROVE  Tree(m2, g2, q) /\ \A v \in Nat : Translate(m2, q, v) = Translate(m, q, v)
<1>1. \A l, t, i : IsTable(g, l, q, t) /\ i \in Indices => Ent(m2, t, i) = Ent(m, t, i)
  BY DEF Grows
<1>2. \A l, t : IsTable(g2, l, q, t) <=> IsTable(g, l, q, t)
  BY DEF Grows, Extends
<1>3. ASSUME NEW k, NEW l, NEW t, NEW i \in Indices, Below(k, l), IsTable(g2, l, q, t)
      PROVE  EntryOK(g2, k, q, t, i, Ent(m2, t, i))
  <2>1. EntryOK(g, k, q, t, i, Ent(m, t, i)) /\ Ent(m2, t, i) = Ent(m, t, i)
    BY <1>1, <1>2, <1>3 DEF Tree
  <2>2. EntryOK(g2, k, q, t, i, Ent(m, t, i))
    BY <2>1 DEF EntryOK, Grows, Extends
  <2> QED BY <2>1, <2>2
<1>4. ASSUME NEW k, NEW l, NEW c, Below(k, l), IsTable(g2, k, q, c)
      PROVE  \E t, i : IsTable(g2, l, q, t) /\ IsChild(g2, k, q, t, i, c) /\ Leads(Ent(m2, t, i), c)
  <2>1. PICK t, i : IsTable(g, l, q, t) /\ IsChild(g, k, q, t, i, c) /\ Leads(Ent(m, t, i), c)
    BY <1>2, <1>4 DEF Tree
  <2>2. IsTable(g2, l, q, t) /\ IsChild(g2, k, q, t, i, c) /\ i \in Indices
    BY <2>1, Kinds DEF Grows, Extends
  <2>3. Ent(m2, t, i) = Ent(m, t, i)
    BY <1>1, <2>1, <2>2
  <2> QED BY <2>1, <2>2, <2>3
<1>5. IsTable(g, 4, q, q) /\ Tree(m2, g2, q)
  BY <1>2, <1>3, <1>4 DEF Tree
<1>6. OnlyEntry(m, m2, g, q, q, 0)
  BY <1>1 DEF OnlyEntry
<1>7. Same(m, m2, g, q, 3, q, {})
  BY <1>5, <1>6, SameUpTo
<1>8. Same(m, m2, g, q, 4, q, {})
  <2> SUFFICES ASSUME NEW t, NEW v \in Nat, IsTable(g, 4, q, t)
               PROVE  At(m2, 4, t, v) = At(m, 4, t, v)
    BY DEF Same
  <2>1. Ent(m2, t, Idx(4, v)) = Ent(m, t, Idx(4, v)) /\ v \notin {}
    BY <1>1, IdxType
  <2> QED BY <1>7, <2>1, LevelsBelow, UpOne
<1> QED BY <1>5, <1>8 DEF Same, At

-----------------------------------------------------------------------------
\* Tables on demand

Put(m, t, i, e) == [m EXCEPT !.mem[t][i] = e]

\* Writing one entry.
LEMMA PutEntry ==
  ASSUME NEW m, IsMachine(m), m.mem \in Memories,
         NEW T \in PhysPages, NEW I \in Indices, NEW e \in EntryStates
  PROVE  LET m2 == Put(m, T, I, e)
         IN  /\ IsMachine(m2) /\ m2.pmm = m.pmm /\ m2.starved = m.starved /\ m2.flushed = m.flushed
             /\ m2.mem \in Memories
             /\ Ent(m2, T, I) = e
             /\ \A t \in PhysPages, i \in Indices : ~(t = T /\ i = I) => Ent(m2, t, i) = Ent(m, t, i)
<1> DEFINE m2 == Put(m, T, I, e)
<1>1. m2 = [pmm |-> m.pmm, mem |-> [m.mem EXCEPT ![T][I] = e], flushed |-> m.flushed,
            starved |-> m.starved]
  BY DEF IsMachine, Put
<1> HIDE DEF m2
<1>2. /\ m2.pmm = m.pmm /\ m2.starved = m.starved /\ m2.flushed = m.flushed
      /\ m2.mem = [m.mem EXCEPT ![T][I] = e]
  BY <1>1
<1>3. IsMachine(m2)
  BY <1>1, <1>2 DEF IsMachine
<1>4. /\ m2.mem \in Memories
      /\ m2.mem[T][I] = e
      /\ \A t \in PhysPages, i \in Indices : ~(t = T /\ i = I) => m2.mem[t][i] = m.mem[t][i]
  BY <1>2 DEF Memories
<1> QED BY <1>2, <1>3, <1>4 DEF Ent, m2

\* A page for a table was not marked, is now, and holds no entry.
LEMMA AllocTakes ==
  ASSUME NEW m, IsMachine(m), Consistent(m.pmm), m.mem \in Memories, ~AllocTable(m).s.starved
  PROVE  LET a == AllocTable(m)
         IN  /\ IsMachine(a.s) /\ Consistent(a.s.pmm) /\ a.s.mem \in Memories
             /\ a.page \in PhysPages /\ ~Marked(m.pmm, a.page) /\ Marked(a.s.pmm, a.page)
             /\ a.page # 0 /\ ~m.starved
             /\ \A p \in PhysPages : Marked(m.pmm, p) => Marked(a.s.pmm, p)
             /\ \A i \in Indices : Ent(a.s, a.page, i) = NoEntry
             /\ \A t \in PhysPages, i \in Indices : t # a.page => Ent(a.s, t, i) = Ent(m, t, i)
<1> DEFINE a == AllocTable(m)
           r == pmm_alloc_phys(m.pmm)
           z == pmm_allocz(m.pmm)
<1>1. r = [pmm |-> r.pmm, page |-> r.page]
  BY DEF pmm_alloc_phys, TakePage
<1>2. z.page = r.page
  BY <1>1 DEF pmm_allocz, Zeroed
<1> HIDE DEF r, z
<1>3. /\ a.page = z.page
      /\ a.s = [pmm |-> z.pmm, mem |-> [m.mem EXCEPT ![z.page] = EmptyTable],
                flushed |-> m.flushed, starved |-> (m.starved \/ z.page = 0)]
  BY DEF AllocTable, TablePage, IsMachine, z
<1> HIDE DEF a
<1>4. /\ a.s.pmm = z.pmm /\ a.s.mem = [m.mem EXCEPT ![z.page] = EmptyTable]
      /\ IsMachine(a.s) /\ a.s.starved = (m.starved \/ z.page = 0)
  BY <1>3 DEF IsMachine
<1>5. ~m.starved /\ r.page # 0
  BY <1>2, <1>4 DEF a
<1>6. /\ z = r /\ Consistent(r.pmm)
      /\ Granted(r.pmm, r.page) /\ ~Marked(m.pmm, r.page)
      /\ \A p \in PhysPages : Marked(m.pmm, p) => Marked(r.pmm, p)
  BY <1>5, AllocGrants DEF r, z
<1>7. a.page = r.page /\ a.s.pmm = r.pmm /\ r.page \in PhysPages /\ Marked(r.pmm, r.page)
  BY <1>3, <1>4, <1>6 DEF Granted
<1>8. EmptyTable \in [Indices -> EntryStates] /\ \A i \in Indices : EmptyTable[i] = NoEntry
  BY DEF EmptyTable, NoEntry, EntryStates
<1>9. /\ a.s.mem \in Memories /\ a.s.mem[a.page] = EmptyTable
      /\ \A t \in PhysPages : t # a.page => a.s.mem[t] = m.mem[t]
  BY <1>2, <1>4, <1>7, <1>8 DEF Memories
<1> QED BY <1>4, <1>5, <1>6, <1>7, <1>8, <1>9 DEF Ent, a

\* A table without entries finds nothing.
LEMMA EmptyFinds ==
  ASSUME NEW m, NEW n, \A i \in Indices : ~Ent(m, n, i).present, NEW k, NEW l, Below(k, l),
         NEW v \in Nat
  PROVE  At(m, k, n, v) = UINT64_MAX
<1>1. ~Ent(m, n, Idx(k, v)).present
  BY IdxType
<1>2. k \in {1, 2, 3}
  BY DEF Below
<1> QED BY <1>1, <1>2 DEF At, AtPt, AtPd, AtPdpt, Idx, Ent

LEMMA NoEntryIs == ~NoEntry.present /\ ~NoEntry.larger /\ NoEntry \in EntryStates
BY DEF NoEntry, EntryStates

\* An entry of a table above the lowest level gets a table if it had nothing.
LEMMA EnsureStep ==
  ASSUME NEW m, NEW g, NEW r, Sound(m, g), Tree(m, g, r),
         NEW T, NEW k, NEW l, Below(k, l), IsTable(g, l, r, T), NEW I \in Indices,
         ~Ensure(m, T, I).starved
  PROVE  \E g2 : Keeps(m, g, Ensure(m, T, I), g2, r) /\ Ent(Ensure(m, T, I), T, I).present
<1>1. CASE Ent(m, T, I).present
  <2>1. Ensure(m, T, I) = m
    BY <1>1 DEF Ensure, Ent
  <2> QED BY <1>1, <2>1, KeepsSelf
<1>2. CASE ~Ent(m, T, I).present
  <2> DEFINE a == AllocTable(m)
             n == a.page
             f == [Ent(a.s, T, I) EXCEPT !.present = TRUE, !.address = n]
             m2 == Ensure(m, T, I)
  <2>1. m2 = Put(a.s, T, I, f)
    BY <1>2 DEF Ensure, vmm_init_pt_entry, LinkTable, Ent, Put
  <2>2. IsMachine(m) /\ Consistent(m.pmm) /\ m.mem \in Memories /\ T \in PhysPages
    BY Kinds DEF Sound
  <2>3. ~a.s.starved
    <3>1. a.s = [pmm |-> a.s.pmm, mem |-> a.s.mem, flushed |-> a.s.flushed, starved |-> a.s.starved]
      BY <2>2 DEF AllocTable, TablePage, IsMachine
    <3> HIDE DEF a, f
    <3>2. m2.starved = a.s.starved
      BY <2>1, <3>1 DEF Put
    <3> QED BY <3>2
  <2>4. /\ IsMachine(a.s) /\ Consistent(a.s.pmm) /\ a.s.mem \in Memories
        /\ n \in PhysPages /\ ~Marked(m.pmm, n) /\ Marked(a.s.pmm, n)
        /\ \A p \in PhysPages : Marked(m.pmm, p) => Marked(a.s.pmm, p)
        /\ \A i \in Indices : Ent(a.s, n, i) = NoEntry
        /\ \A t \in PhysPages, i \in Indices : t # n => Ent(a.s, t, i) = Ent(m, t, i)
    BY <2>2, <2>3, AllocTakes
  <2> HIDE DEF a, n, m2
  <2>5. NoTable(g, n) /\ T # n
    BY <2>4, NotMarked, Kinds
  <2>6. Ent(a.s, T, I) = Ent(m, T, I) /\ Ent(m, T, I) \in EntryStates
    BY <2>2, <2>4, <2>5 DEF Memories, Ent
  <2>7. ~Ent(m, T, I).larger
    BY <1>2 DEF Tree, EntryOK
  <2>8. f \in EntryStates /\ f.present /\ ~f.larger /\ f.address = n
    BY <2>4, <2>6, <2>7, PhysType DEF EntryStates
  <2> HIDE DEF f
  <2>9. /\ IsMachine(m2) /\ m2.pmm = a.s.pmm /\ m2.starved = a.s.starved
        /\ m2.mem \in Memories
        /\ Ent(m2, T, I) = f
        /\ \A t \in PhysPages, i \in Indices : ~(t = T /\ i = I) => Ent(m2, t, i) = Ent(a.s, t, i)
    BY <2>1, <2>2, <2>4, <2>8, PutEntry
  <2>10. Changes(m, m2, g, T, I)
    <3>1. ASSUME NEW q, NEW h, NEW u, NEW j \in Indices, IsTable(g, h, q, u), ~(u = T /\ j = I)
          PROVE  Ent(m2, u, j) = Ent(m, u, j)
      <4>1. u \in PhysPages /\ u # n
        BY <2>5, <3>1, Kinds
      <4> QED BY <2>4, <2>9, <3>1, <4>1
    <3> QED BY <2>3, <2>4, <2>9, <3>1 DEF Changes, OnlyEntry
  <2>11. Leads(Ent(m2, T, I), n) /\ \A c : ~Leads(Ent(m, T, I), c)
    BY <1>2, <2>8, <2>9 DEF Leads
  <2>12. \A i \in Indices : ~Ent(m2, n, i).present /\ ~Ent(m2, n, i).larger
    BY <2>4, <2>5, <2>9, NoEntryIs
  <2>13. ASSUME NEW v \in Nat, Idx(l, v) = I PROVE At(m2, k, n, v) = At(m, l, T, v)
    <3>1. At(m2, k, n, v) = UINT64_MAX
      BY <2>12, EmptyFinds
    <3>2. At(m, l, T, v) = Found(m, k, Ent(m, T, I), v)
      BY <2>13, AtUnfold DEF Tree
    <3> QED BY <1>2, <3>1, <3>2 DEF Found
  <2>14. Marked(m2.pmm, n)
    BY <2>4, <2>9
  <2>15. Keeps(m, g, m2, [g EXCEPT ![n] = Node(k, r, T, I)], r)
    BY <2>4, <2>10, <2>11, <2>12, <2>13, <2>14, Graft
  <2>16. Ent(m2, T, I).present
    BY <2>8, <2>9
  <2> QED BY <2>15, <2>16 DEF m2
<1> QED BY <1>1, <1>2

\* A 2 MiB page becomes a table of the same pages.
LEMMA SplitStep ==
  ASSUME NEW m, NEW g, NEW r, Sound(m, g), Tree(m, g, r),
         NEW T, IsTable(g, 2, r, T), NEW I \in Indices, Ent(m, T, I).present,
         ~Split(m, T, I, PtSpan).starved
  PROVE  LET m2 == Split(m, T, I, PtSpan)
         IN  \E g2 : Keeps(m, g, m2, g2, r) /\ Ent(m2, T, I).present /\ ~Ent(m2, T, I).larger
<1>1. CASE ~Ent(m, T, I).larger
  <2>1. Split(m, T, I, PtSpan) = m
    BY <1>1 DEF Split, Ent
  <2> QED BY <1>1, <2>1, KeepsSelf
<1>2. CASE Ent(m, T, I).larger
  <2> DEFINE a == AllocTable(m)
             n == a.page
             b == Ent(a.s, T, I).address
             f == Entry(n, FALSE)
             pages == [k \in Indices |-> Entry(b + (k * PtSpan), FALSE)]
             m2 == Split(m, T, I, PtSpan)
  <2>1. m2 = [a.s EXCEPT !.mem = [@ EXCEPT ![n] = pages, ![T][I] = f]]
    BY <1>2 DEF Split, LinkPages, Ent
  <2>2. IsMachine(m) /\ Consistent(m.pmm) /\ m.mem \in Memories /\ T \in PhysPages
    BY Kinds DEF Sound
  <2>3. a.s = [pmm |-> a.s.pmm, mem |-> a.s.mem, flushed |-> a.s.flushed, starved |-> a.s.starved]
    BY <2>2 DEF AllocTable, TablePage, IsMachine
  <2> HIDE DEF a, n, b, f, pages
  <2>4. m2 = [pmm |-> a.s.pmm, mem |-> [a.s.mem EXCEPT ![n] = pages, ![T][I] = f],
              flushed |-> a.s.flushed, starved |-> a.s.starved]
    BY <2>1, <2>3
  <2> HIDE DEF m2
  <2>5. /\ IsMachine(m2) /\ m2.pmm = a.s.pmm /\ m2.starved = a.s.starved
        /\ m2.mem = [a.s.mem EXCEPT ![n] = pages, ![T][I] = f]
    BY <2>4 DEF IsMachine
  <2>6. ~a.s.starved
    BY <2>5 DEF m2
  <2>7. /\ IsMachine(a.s) /\ Consistent(a.s.pmm) /\ a.s.mem \in Memories
        /\ n \in PhysPages /\ ~Marked(m.pmm, n) /\ Marked(a.s.pmm, n)
        /\ \A p \in PhysPages : Marked(m.pmm, p) => Marked(a.s.pmm, p)
        /\ \A t \in PhysPages, i \in Indices : t # n => Ent(a.s, t, i) = Ent(m, t, i)
    BY <2>2, <2>6, AllocTakes DEF a, n
  <2>8. NoTable(g, n) /\ T # n
    BY <2>7, NotMarked, Kinds
  <2>9. Ent(a.s, T, I) = Ent(m, T, I) /\ Ent(m, T, I) \in EntryStates
    BY <2>2, <2>7, <2>8 DEF Memories, Ent
  <2>10. EntryOK(g, 1, r, T, I, Ent(m, T, I))
    BY LevelsBelow DEF Tree
  <2>11. b = Ent(m, T, I).address /\ b \in Nat /\ b % PdSpan = 0
    BY <1>2, <2>9, <2>10 DEF EntryOK, b, EntryStates
  <2>12. b % PAGE = 0
    <3>1. b % PdSpan = (PAGE * PT_INDEX(b)) + (b % PAGE)
      BY <2>11, OffsetInPd
    <3>2. PT_INDEX(b) \in Nat
      BY <2>11, IndexType, Spans DEF Indices
    <3>3. PAGE * PT_INDEX(b) \in Nat
      BY <3>2, Scale, Spans
    <3>4. b % PAGE \in Nat
      BY <2>11, Spans, DivMod
    <3> QED BY <2>11, <3>1, <3>3, <3>4
  <2>13. ASSUME NEW i \in Indices
         PROVE  /\ pages[i] \in EntryStates /\ pages[i].present
                /\ pages[i].address = b + (PAGE * i)
    <3>1. i \in Nat /\ PAGE \in Nat
      BY Spans DEF Indices
    <3>2. i * PtSpan = PAGE * i
      BY <3>1 DEF PtSpan
    <3>3. pages[i] = Entry(b + (PAGE * i), FALSE)
      BY <3>2 DEF pages
    <3>4. b + (PAGE * i) \in Nat /\ (b + (PAGE * i)) % PAGE = 0
      BY <2>11, <2>12, <3>1, Aligned
    <3> QED BY <3>3, <3>4, EntryIs
  <2>14. pages \in [Indices -> EntryStates]
    BY <2>13 DEF pages
  <2>15. f \in EntryStates /\ f.present /\ ~f.larger /\ f.address = n
    BY <2>7, PhysType, EntryIs DEF f
  <2>16. /\ m2.mem \in Memories /\ m2.mem[n] = pages /\ m2.mem[T][I] = f
         /\ \A t \in PhysPages, i \in Indices : t # n /\ ~(t = T /\ i = I) => m2.mem[t][i] = a.s.mem[t][i]
    <3> DEFINE mem == a.s.mem
               one == [mem EXCEPT ![n] = pages]
               two == [one EXCEPT ![T][I] = f]
    <3>1. m2.mem = two
      BY <2>5
    <3>2. mem \in Memories
      BY <2>7
    <3> HIDE DEF mem
    <3>3. one \in Memories /\ one[n] = pages /\ \A t \in PhysPages : t # n => one[t] = mem[t]
      BY <2>7, <2>14, <3>2 DEF Memories
    <3> HIDE DEF one
    <3>4. /\ two \in Memories /\ two[n] = one[n] /\ two[T][I] = f
          /\ \A t \in PhysPages, i \in Indices : ~(t = T /\ i = I) => two[t][i] = one[t][i]
      BY <2>2, <2>7, <2>8, <2>15, <3>3 DEF Memories
    <3> HIDE DEF two
    <3> QED BY <3>1, <3>3, <3>4 DEF mem
  <2>17. Changes(m, m2, g, T, I)
    <3>1. ASSUME NEW q, NEW h, NEW u, NEW j \in Indices, IsTable(g, h, q, u), ~(u = T /\ j = I)
          PROVE  Ent(m2, u, j) = Ent(m, u, j)
      <4>1. u \in PhysPages /\ u # n
        BY <2>8, <3>1, Kinds
      <4>2. Ent(m2, u, j) = Ent(a.s, u, j)
        BY <2>16, <3>1, <4>1 DEF Ent
      <4> QED BY <2>7, <4>1, <4>2
    <3> QED BY <2>5, <2>6, <2>7, <2>16, <3>1 DEF Changes, OnlyEntry
  <2>18. Leads(Ent(m2, T, I), n) /\ \A c : ~Leads(Ent(m, T, I), c)
    BY <1>2, <2>15, <2>16 DEF Leads, Ent
  <2>19. ASSUME NEW v \in Nat, Idx(2, v) = I PROVE At(m2, 1, n, v) = At(m, 2, T, v)
    <3>1. PT_INDEX(v) \in Indices /\ At(m2, 1, n, v) = AtPt(m2, n, v)
      BY IndexType DEF At
    <3>2. At(m2, 1, n, v) = (b + (PAGE * PT_INDEX(v))) + (v % PAGE)
      <4>1. PICK e : e = m2.mem[n][PT_INDEX(v)]
        OBVIOUS
      <4>2. e.present /\ e.address = b + (PAGE * PT_INDEX(v))
        BY <2>13, <2>16, <3>1, <4>1
      <4> QED BY <3>1, <4>1, <4>2 DEF AtPt
    <3>3. At(m, 2, T, v) = Found(m, 1, Ent(m, T, I), v)
      BY <2>10, <2>19, AtUnfold, LevelsBelow
    <3>4. At(m, 2, T, v) = b + (v % PdSpan)
      BY <1>2, <2>11, <3>3 DEF Found
    <3>5. v % PdSpan = (PAGE * PT_INDEX(v)) + (v % PAGE)
      BY OffsetInPd
    <3>6. PAGE * PT_INDEX(v) \in Nat /\ v % PAGE \in Nat
      BY <3>1, Scale, Spans, DivMod DEF Indices
    <3> QED BY <2>11, <3>2, <3>4, <3>5, <3>6
  <2>20. Marked(m2.pmm, n)
    BY <2>5, <2>7
  <2>21. Keeps(m, g, m2, [g EXCEPT ![n] = Node(1, r, T, I)], r)
    BY <2>7, <2>17, <2>18, <2>19, <2>20, LevelsBelow, Graft
  <2>22. Ent(m2, T, I).present /\ ~Ent(m2, T, I).larger
    BY <2>15, <2>16 DEF Ent
  <2> QED BY <2>21, <2>22 DEF m2
<1> QED BY <1>1, <1>2

-----------------------------------------------------------------------------
\* Walks

\* Table t is the one of level 3, 2 or 1 on the way to v.
Reach3(g, r, v, t) == IsChild(g, 3, r, r, Idx(4, v), t)
Reach2(g, r, v, t) == \E u : Reach3(g, r, v, u) /\ IsChild(g, 2, r, u, Idx(3, v), t)
Reach1(g, r, v, t) == \E u : Reach2(g, r, v, u) /\ IsChild(g, 1, r, u, Idx(2, v), t)

LEMMA ReachExtends ==
  ASSUME NEW g, NEW g2, Extends(g, g2), NEW r, NEW v, NEW t
  PROVE  /\ Reach3(g, r, v, t) => Reach3(g2, r, v, t)
         /\ Reach2(g, r, v, t) => Reach2(g2, r, v, t)
         /\ Reach1(g, r, v, t) => Reach1(g2, r, v, t)
BY DEF Extends, Reach3, Reach2, Reach1

LEMMA ReachTable ==
  ASSUME NEW g, NEW r, NEW v, NEW t
  PROVE  /\ Reach3(g, r, v, t) => IsTable(g, 3, r, t)
         /\ Reach2(g, r, v, t) => IsTable(g, 2, r, t)
         /\ Reach1(g, r, v, t) => IsTable(g, 1, r, t)
BY Kinds DEF Reach3, Reach2, Reach1

\* An entry that leads to a table leads to a child, and only a page directory
\* has entries for larger pages.
LEMMA Children ==
  ASSUME NEW m, NEW g, NEW r, Tree(m, g, r), NEW k, NEW l, Below(k, l),
         NEW T, IsTable(g, l, r, T), NEW I \in Indices
  PROVE  /\ Ent(m, T, I).present /\ ~Ent(m, T, I).larger =>
              IsChild(g, k, r, T, I, Ent(m, T, I).address)
         /\ k # 1 => ~Ent(m, T, I).larger
<1>1. EntryOK(g, k, r, T, I, Ent(m, T, I))
  BY DEF Tree
<1> QED BY <1>1 DEF EntryOK

\* The walk goes on from the child.
LEMMA Descend ==
  ASSUME NEW m, NEW g, NEW r, Tree(m, g, r), NEW k, NEW l, Below(k, l), NEW v \in Nat,
         NEW T, IsTable(g, l, r, T), NEW c, IsChild(g, k, r, T, Idx(l, v), c)
  PROVE  At(m, l, T, v) = At(m, k, c, v) /\ Leads(Ent(m, T, Idx(l, v)), c)
<1>1. IsTable(g, k, r, c)
  BY Kinds
<1>2. PICK t, i : IsChild(g, k, r, t, i, c) /\ Leads(Ent(m, t, i), c)
  BY <1>1 DEF Tree
<1>3. t = T /\ i = Idx(l, v)
  BY <1>2, Kinds
<1>4. Leads(Ent(m, T, Idx(l, v)), c)
  BY <1>2, <1>3
<1>5. EntryOK(g, k, r, T, Idx(l, v), Ent(m, T, Idx(l, v)))
  BY IdxType DEF Tree
<1>6. At(m, l, T, v) = Found(m, k, Ent(m, T, Idx(l, v)), v)
  BY <1>5, AtUnfold
<1> QED BY <1>4, <1>6 DEF Found, Leads

LEMMA Translates ==
  ASSUME NEW m, NEW g, NEW r, Tree(m, g, r), NEW v \in Nat, NEW t
  PROVE  /\ Reach3(g, r, v, t) => At(m, 3, t, v) = Translate(m, r, v)
         /\ Reach2(g, r, v, t) => At(m, 2, t, v) = Translate(m, r, v)
         /\ Reach1(g, r, v, t) => At(m, 1, t, v) = Translate(m, r, v)
<1>1. IsTable(g, 4, r, r) /\ At(m, 4, r, v) = Translate(m, r, v)
  BY DEF Tree, At
<1>2. \A u : Reach3(g, r, v, u) => At(m, 3, u, v) = Translate(m, r, v)
  BY <1>1, LevelsBelow, Descend DEF Reach3
<1>3. \A u : Reach2(g, r, v, u) => At(m, 2, u, v) = Translate(m, r, v)
  BY <1>2, LevelsBelow, Descend, ReachTable DEF Reach2
<1>4. \A u : Reach1(g, r, v, u) => At(m, 1, u, v) = Translate(m, r, v)
  BY <1>3, LevelsBelow, Descend, ReachTable DEF Reach1
<1> QED BY <1>2, <1>3, <1>4

\* Whatever happens, a machine that is starved stays so.
LEMMA StaysStarved ==
  ASSUME NEW m, IsMachine(m), NEW t, NEW i, NEW span
  PROVE  /\ IsMachine(Ensure(m, t, i)) /\ (m.starved => Ensure(m, t, i).starved)
         /\ IsMachine(Split(m, t, i, span)) /\ (m.starved => Split(m, t, i, span).starved)
<1> DEFINE a == AllocTable(m)
           z == pmm_allocz(m.pmm)
<1>1. a.s = [pmm |-> z.pmm, mem |-> [m.mem EXCEPT ![z.page] = EmptyTable],
             flushed |-> m.flushed, starved |-> (m.starved \/ z.page = 0)]
  BY DEF AllocTable, TablePage, IsMachine
<1> HIDE DEF a, z
<1>2. IsMachine(a.s) /\ (m.starved => a.s.starved)
  <2>1. a.s.starved = (m.starved \/ z.page = 0)
    BY <1>1
  <2>2. m.starved => a.s.starved
    BY <2>1, Zenon
  <2>3. IsMachine(a.s)
    BY <1>1 DEF IsMachine
  <2> QED BY <2>2, <2>3
<1>3. ASSUME NEW mem PROVE LET m2 == [a.s EXCEPT !.mem = mem]
                           IN  IsMachine(m2) /\ (m.starved => m2.starved)
  BY <1>2 DEF IsMachine
<1>4. IsMachine(LinkTable(a, t, i)) /\ (m.starved => LinkTable(a, t, i).starved)
  <2> DEFINE f == [a.s.mem[t][i] EXCEPT !.present = TRUE, !.address = a.page]
  <2>1. LinkTable(a, t, i) = [pmm |-> a.s.pmm, mem |-> [a.s.mem EXCEPT ![t][i] = f],
                              flushed |-> a.s.flushed, starved |-> a.s.starved]
    BY <1>2 DEF LinkTable, IsMachine
  <2> HIDE DEF f
  <2> QED BY <1>2, <2>1 DEF IsMachine
<1>5. IsMachine(LinkPages(a, t, i, span)) /\ (m.starved => LinkPages(a, t, i, span).starved)
  BY <1>3 DEF LinkPages
<1> QED BY <1>4, <1>5 DEF Ensure, Split, vmm_init_pt_entry, a

LEMMA DownStep ==
  ASSUME NEW m, NEW g, NEW r, Sound(m, g), Tree(m, g, r),
         NEW T, NEW k, NEW l, Below(k, l), IsTable(g, l, r, T), NEW I \in Indices,
         ~Ensure(m, T, I).starved
  PROVE  \E g2 : /\ Keeps(m, g, Ensure(m, T, I), g2, r)
                 /\ Ent(Ensure(m, T, I), T, I).present
                 /\ ~Ent(Ensure(m, T, I), T, I).larger =>
                      IsChild(g2, k, r, T, I, Ent(Ensure(m, T, I), T, I).address)
                 /\ k # 1 => ~Ent(Ensure(m, T, I), T, I).larger
<1> DEFINE m2 == Ensure(m, T, I)
<1>1. PICK g2 : Keeps(m, g, m2, g2, r) /\ Ent(m2, T, I).present
  BY EnsureStep
<1> HIDE DEF m2
<1>2. Tree(m2, g2, r) /\ IsTable(g2, l, r, T)
  BY <1>1 DEF Keeps, Grows, Extends
<1>3. /\ ~Ent(m2, T, I).larger => IsChild(g2, k, r, T, I, Ent(m2, T, I).address)
      /\ k # 1 => ~Ent(m2, T, I).larger
  BY <1>1, <1>2, Children
<1> QED BY <1>1, <1>3 DEF m2

\* The walk of vmm_map_page and vmm_unmap_page ends at the page table of v.
LEMMA WalkSplits ==
  ASSUME NEW m, NEW g, NEW r, Sound(m, g), Tree(m, g, r), NEW v \in Nat,
         ~WalkSplitting(m, r, v).s.starved
  PROVE  LET w == WalkSplitting(m, r, v)
         IN  \E g2 : Keeps(m, g, w.s, g2, r) /\ Reach1(g2, r, v, w.table)
<1> DEFINE i4 == Idx(4, v)
           i3 == Idx(3, v)
           i2 == Idx(2, v)
           m1 == Ensure(m, r, i4)
           t3 == Ent(m1, r, i4).address
           m2 == Ensure(m1, t3, i3)
           p2 == Split(m2, t3, i3, PdSpan)
           t2 == Ent(p2, t3, i3).address
           m3 == Ensure(p2, t2, i2)
           p3 == Split(m3, t2, i2, PtSpan)
           t1 == Ent(p3, t2, i2).address
<1>1. WalkSplitting(m, r, v) = [s |-> p3, table |-> t1]
  <2>1. Down(Start(m, r), PML4_INDEX(v)) = [s |-> m1, table |-> t3]
    BY DEF Down, Start, Follow, Ent, Idx
  <2> HIDE DEF m1, t3
  <2>2. DownSplitting([s |-> m1, table |-> t3], PDPT_INDEX(v), PdSpan) = [s |-> p2, table |-> t2]
    BY DEF DownSplitting, Follow, Ent, Idx
  <2> HIDE DEF p2, t2
  <2>3. DownSplitting([s |-> p2, table |-> t2], PD_INDEX(v), PtSpan) = [s |-> p3, table |-> t1]
    BY DEF DownSplitting, Follow, Ent, Idx
  <2> QED BY <2>1, <2>2, <2>3 DEF WalkSplitting
<1>2. ~p3.starved /\ i4 \in Indices /\ i3 \in Indices /\ i2 \in Indices
  BY <1>1, IdxType
<1> HIDE DEF i4, i3, i2, t3, t2, t1
<1>3. ~m3.starved /\ ~p2.starved /\ ~m2.starved /\ ~m1.starved
  <2>1. IsMachine(m) /\ IsMachine(m1)
    BY StaysStarved DEF Sound
  <2> HIDE DEF m1
  <2>2. IsMachine(m2) /\ (m1.starved => m2.starved)
    BY <2>1, StaysStarved
  <2> HIDE DEF m2
  <2>3. IsMachine(p2) /\ (m2.starved => p2.starved)
    BY <2>2, StaysStarved
  <2> HIDE DEF p2
  <2>4. IsMachine(m3) /\ (p2.starved => m3.starved)
    BY <2>3, StaysStarved
  <2> HIDE DEF m3
  <2>5. m3.starved => p3.starved
    BY <2>4, StaysStarved
  <2> QED BY <1>2, <2>2, <2>3, <2>4, <2>5
<1>4. PICK g1 : Keeps(m, g, m1, g1, r) /\ IsChild(g1, 3, r, r, i4, t3)
  <2>1. IsTable(g, 4, r, r)
    BY DEF Tree
  <2>2. PICK g1 : /\ Keeps(m, g, m1, g1, r)
                  /\ ~Ent(m1, r, i4).larger => IsChild(g1, 3, r, r, i4, t3)
                  /\ 3 # 1 => ~Ent(m1, r, i4).larger
    BY <1>2, <1>3, <2>1, LevelsBelow, DownStep DEF t3
  <2> QED BY <2>2
<1>5. Sound(m1, g1) /\ Tree(m1, g1, r) /\ IsTable(g1, 3, r, t3)
  BY <1>4, Kinds DEF Keeps
<1> HIDE DEF m1
<1>6. PICK g2 : /\ Keeps(m1, g1, m2, g2, r) /\ IsChild(g2, 2, r, t3, i3, Ent(m2, t3, i3).address)
                /\ ~Ent(m2, t3, i3).larger
  <2>1. PICK g2 : /\ Keeps(m1, g1, m2, g2, r)
                  /\ ~Ent(m2, t3, i3).larger => IsChild(g2, 2, r, t3, i3, Ent(m2, t3, i3).address)
                  /\ 2 # 1 => ~Ent(m2, t3, i3).larger
    BY <1>2, <1>3, <1>5, LevelsBelow, DownStep
  <2> QED BY <2>1
<1> HIDE DEF m2
<1>7. p2 = m2 /\ t2 = Ent(m2, t3, i3).address
  BY <1>6 DEF Split, Ent, t2
<1>8. Sound(p2, g2) /\ Tree(p2, g2, r) /\ IsTable(g2, 2, r, t2)
  BY <1>6, <1>7, Kinds DEF Keeps
<1> HIDE DEF p2
<1>9. PICK g3 : Keeps(p2, g2, m3, g3, r) /\ Ent(m3, t2, i2).present
  BY <1>2, <1>3, <1>8, LevelsBelow, EnsureStep
<1>10. Sound(m3, g3) /\ Tree(m3, g3, r) /\ IsTable(g3, 2, r, t2)
  BY <1>8, <1>9 DEF Keeps, Grows, Extends
<1> HIDE DEF m3
<1>11. PICK g4 : Keeps(m3, g3, p3, g4, r) /\ Ent(p3, t2, i2).present /\ ~Ent(p3, t2, i2).larger
  BY <1>2, <1>9, <1>10, SplitStep
<1>12. Keeps(m, g, p3, g4, r)
  <2>1. Keeps(m, g, p2, g2, r)
    BY <1>4, <1>6, <1>7, KeepsOn
  <2>2. Keeps(m, g, m3, g3, r)
    BY <1>9, <2>1, KeepsOn
  <2> QED BY <1>11, <2>2, KeepsOn
<1>13. Tree(p3, g4, r) /\ IsTable(g4, 2, r, t2)
  BY <1>10, <1>11 DEF Keeps, Grows, Extends
<1>14. IsChild(g4, 1, r, t2, i2, t1)
  BY <1>2, <1>11, <1>13, LevelsBelow, Children DEF t1
<1>15. Reach1(g4, r, v, t1)
  <2>1. Extends(g1, g2) /\ Extends(g2, g3) /\ Extends(g3, g4)
    BY <1>6, <1>9, <1>11 DEF Keeps, Grows
  <2>2. IsChild(g4, 3, r, r, i4, t3) /\ IsChild(g4, 2, r, t3, i3, t2)
    BY <1>4, <1>6, <1>7, <2>1 DEF Extends
  <2> QED BY <1>14, <2>2 DEF Reach1, Reach2, Reach3, i4, i3, i2
<1> QED BY <1>1, <1>12, <1>15

\* A 2 MiB page translates every address in it.
LEMMA LargerTranslates ==
  ASSUME NEW m, NEW g, NEW r, Sound(m, g), Tree(m, g, r), NEW v \in Nat,
         NEW T, Reach2(g, r, v, T), Ent(m, T, Idx(2, v)).larger
  PROVE  Translate(m, r, v) # UINT64_MAX
<1> DEFINE i == Idx(2, v)
<1>1. IsTable(g, 2, r, T) /\ T \in PhysPages /\ i \in Indices
  BY ReachTable, Kinds, IdxType
<1>2. PICK e : e = Ent(m, T, i)
  OBVIOUS
<1>3. EntryOK(g, 1, r, T, i, Ent(m, T, i))
  BY <1>1, LevelsBelow DEF Tree
<1>4. At(m, 2, T, v) = Found(m, 1, Ent(m, T, i), v)
  BY <1>3, LevelsBelow, AtUnfold
<1>5. e.address \in Nat
  BY <1>1, <1>2 DEF Sound, Memories, EntryStates, Ent
<1>6. e.larger /\ e.present /\ e.address % PdSpan = 0 /\ e.address < higher_half_offset
  BY <1>2, <1>3 DEF EntryOK
<1>7. e.address + (v % PdSpan) \in Nat /\ e.address + (v % PdSpan) < higher_half_offset
  BY <1>5, <1>6, LargerEnds
<1>8. Translate(m, r, v) = e.address + (v % PdSpan)
  BY <1>2, <1>4, <1>6, Translates DEF Found
<1> QED BY <1>7, <1>8, SpaceOrder

\* The walk of vmm_map_pages_pml4 ends at the page table of v if nothing is
\* mapped at v.
LEMMA WalksDown ==
  ASSUME NEW m, NEW g, NEW r, Sound(m, g), Tree(m, g, r), NEW v \in Nat,
         Translate(m, r, v) = UINT64_MAX, ~ToPt(m, r, v).s.starved
  PROVE  LET w == ToPt(m, r, v)
         IN  \E g2 : /\ Keeps(m, g, w.s, g2, r)
                     /\ Reach2(g2, r, v, ToPd(m, r, v).table)
                     /\ IsChild(g2, 1, r, ToPd(m, r, v).table, Idx(2, v), w.table)
<1> DEFINE i4 == Idx(4, v)
           i3 == Idx(3, v)
           i2 == Idx(2, v)
           m1 == Ensure(m, r, i4)
           t3 == Ent(m1, r, i4).address
           m2 == Ensure(m1, t3, i3)
           t2 == Ent(m2, t3, i3).address
           m3 == Ensure(m2, t2, i2)
           t1 == Ent(m3, t2, i2).address
<1>1. ToPt(m, r, v) = [s |-> m3, table |-> t1] /\ ToPd(m, r, v).table = t2
  <2>1. ToPdpt(m, r, v) = [s |-> m1, table |-> t3]
    BY DEF ToPdpt, Down, Start, Follow, Ent, Idx
  <2> HIDE DEF m1, t3
  <2>2. Down([s |-> m1, table |-> t3], PDPT_INDEX(v)) = [s |-> m2, table |-> t2]
    BY DEF Down, Follow, Ent, Idx
  <2> HIDE DEF m2, t2
  <2>3. Down([s |-> m2, table |-> t2], PD_INDEX(v)) = [s |-> m3, table |-> t1]
    BY DEF Down, Follow, Ent, Idx
  <2> HIDE DEF m3, t1
  <2> QED BY <2>1, <2>2, <2>3 DEF ToPt, ToPd
<1>2. ~m3.starved /\ i4 \in Indices /\ i3 \in Indices /\ i2 \in Indices
  BY <1>1, IdxType
<1> HIDE DEF i4, i3, i2, t3, t2, t1
<1>3. ~m2.starved /\ ~m1.starved
  <2>1. IsMachine(m) /\ IsMachine(m1)
    BY StaysStarved DEF Sound
  <2> HIDE DEF m1
  <2>2. IsMachine(m2) /\ (m1.starved => m2.starved)
    BY <2>1, StaysStarved
  <2> HIDE DEF m2
  <2>3. m2.starved => m3.starved
    BY <2>2, StaysStarved
  <2> QED BY <1>2, <2>2, <2>3
<1>4. PICK g1 : Keeps(m, g, m1, g1, r) /\ IsChild(g1, 3, r, r, i4, t3)
  <2>1. IsTable(g, 4, r, r)
    BY DEF Tree
  <2>2. PICK g1 : /\ Keeps(m, g, m1, g1, r)
                  /\ ~Ent(m1, r, i4).larger => IsChild(g1, 3, r, r, i4, t3)
                  /\ 3 # 1 => ~Ent(m1, r, i4).larger
    BY <1>2, <1>3, <2>1, LevelsBelow, DownStep DEF t3
  <2> QED BY <2>2
<1>5. Sound(m1, g1) /\ Tree(m1, g1, r) /\ IsTable(g1, 3, r, t3)
  BY <1>4, Kinds DEF Keeps
<1> HIDE DEF m1
<1>6. PICK g2 : Keeps(m1, g1, m2, g2, r) /\ IsChild(g2, 2, r, t3, i3, t2)
  <2>1. PICK g2 : /\ Keeps(m1, g1, m2, g2, r)
                  /\ ~Ent(m2, t3, i3).larger => IsChild(g2, 2, r, t3, i3, t2)
                  /\ 2 # 1 => ~Ent(m2, t3, i3).larger
    BY <1>2, <1>3, <1>5, LevelsBelow, DownStep DEF t2
  <2> QED BY <2>1
<1>7. Sound(m2, g2) /\ Tree(m2, g2, r) /\ IsTable(g2, 2, r, t2)
  BY <1>6, Kinds DEF Keeps
<1> HIDE DEF m2
<1>8. PICK g3 : /\ Keeps(m2, g2, m3, g3, r)
                /\ ~Ent(m3, t2, i2).larger => IsChild(g3, 1, r, t2, i2, t1)
  BY <1>2, <1>7, LevelsBelow, DownStep DEF t1
<1> HIDE DEF m3
<1>9. Keeps(m, g, m3, g3, r)
  <2>1. Keeps(m, g, m2, g2, r)
    BY <1>4, <1>6, KeepsOn
  <2> QED BY <1>8, <2>1, KeepsOn
<1>10. Reach2(g3, r, v, t2)
  <2>1. Extends(g1, g2) /\ Extends(g2, g3)
    BY <1>6, <1>8 DEF Keeps, Grows
  <2>2. IsChild(g3, 3, r, r, i4, t3) /\ IsChild(g3, 2, r, t3, i3, t2)
    BY <1>4, <1>6, <2>1 DEF Extends
  <2> QED BY <2>2 DEF Reach2, Reach3, i4, i3
<1>11. ~Ent(m3, t2, i2).larger
  <2>1. Sound(m3, g3) /\ Tree(m3, g3, r) /\ Translate(m3, r, v) = UINT64_MAX
    BY <1>9 DEF Keeps
  <2> QED BY <1>10, <2>1, LargerTranslates DEF i2
<1> QED BY <1>1, <1>8, <1>9, <1>10, <1>11 DEF i2

-----------------------------------------------------------------------------
\* Setting entries that map pages

\* What changes at a page directory on the way to v is found by no address with
\* another path.
LEMMA PdOthers ==
  ASSUME NEW m, NEW m2, NEW g, NEW r, Tree(m, g, r), NEW v, NEW T, Reach2(g, r, v, T),
         NEW V, Same(m, m2, g, r, 2, T, V),
         \A l, t, j : l \in {3, 4} /\ IsTable(g, l, r, t) /\ j \in Indices => Ent(m2, t, j) = Ent(m, t, j)
  PROVE  \A u \in Nat :
           ~(u \in V /\ Idx(3, u) = Idx(3, v) /\ Idx(4, u) = Idx(4, v)) =>
             Translate(m2, r, u) = Translate(m, r, u)
<1> DEFINE V3 == {u \in Nat : u \in V /\ Idx(3, u) = Idx(3, v)}
           V4 == {u \in V3 : Idx(4, u) = Idx(4, v)}
<1>1. PICK t3 : IsChild(g, 3, r, r, Idx(4, v), t3) /\ IsChild(g, 2, r, t3, Idx(3, v), T)
  BY DEF Reach2, Reach3
<1>2. \A u \in Nat : u \in V /\ Idx(3, u) = Idx(3, v) => u \in V3
  OBVIOUS
<1>3. \A u \in Nat : u \in V3 /\ Idx(4, u) = Idx(4, v) => u \in V4
  OBVIOUS
<1>4. \A u \in V4 : u \in V /\ Idx(3, u) = Idx(3, v) /\ Idx(4, u) = Idx(4, v)
  OBVIOUS
<1> HIDE DEF V3, V4
<1>5. Same(m, m2, g, r, 3, t3, V3)
  BY <1>1, <1>2, LevelsBelow, Up
<1>6. Same(m, m2, g, r, 4, r, V4)
  BY <1>1, <1>3, <1>5, LevelsBelow, Up
<1>7. IsTable(g, 4, r, r)
  BY DEF Tree
<1> QED BY <1>4, <1>6, <1>7 DEF Same, At

\* An entry of the page table of v changes: only v is found elsewhere.
LEMMA PtOthers ==
  ASSUME NEW m, NEW m2, NEW g, NEW r, Tree(m, g, r), NEW v, IsPage(v), NEW T, Reach1(g, r, v, T),
         OnlyEntry(m, m2, g, r, T, Idx(1, v))
  PROVE  \A u : IsPage(u) /\ u # v => Translate(m2, r, u) = Translate(m, r, u)
<1> DEFINE V1 == {u \in Nat : Idx(1, u) = Idx(1, v)}
           V2 == {u \in V1 : Idx(2, u) = Idx(2, v)}
<1>1. PICK t2 : Reach2(g, r, v, t2) /\ IsChild(g, 1, r, t2, Idx(2, v), T)
  BY DEF Reach1
<1>2. \A u \in Nat : u \in V1 /\ Idx(2, u) = Idx(2, v) => u \in V2
  OBVIOUS
<1>3. \A u \in V2 : u \in Nat /\ Idx(1, u) = Idx(1, v) /\ Idx(2, u) = Idx(2, v)
  OBVIOUS
<1>4. \A u \in Nat : u \notin V1 => Idx(1, u) # Idx(1, v)
  OBVIOUS
<1> HIDE DEF V1, V2
<1>5. IsTable(g, 1, r, T)
  BY ReachTable
<1>6. Same(m, m2, g, r, 1, T, V1)
  <2> SUFFICES ASSUME NEW t, NEW u \in Nat, IsTable(g, 1, r, t), ~(t = T /\ u \in V1)
               PROVE  At(m2, 1, t, u) = At(m, 1, t, u)
    BY DEF Same
  <2>1. Ent(m2, t, Idx(1, u)) = Ent(m, t, Idx(1, u))
    BY <1>4, IdxType DEF OnlyEntry
  <2> QED BY <2>1 DEF At, AtPt, Ent, Idx
<1>7. ASSUME NEW l, l # 1, NEW t, IsTable(g, l, r, t), NEW j \in Indices
      PROVE  Ent(m2, t, j) = Ent(m, t, j)
  BY <1>5, <1>7, Kinds DEF OnlyEntry
<1>8. Same(m, m2, g, r, 2, t2, V2)
  BY <1>1, <1>2, <1>6, <1>7, LevelsBelow, Up
<1>9. \A u \in Nat :
        ~(u \in V2 /\ Idx(3, u) = Idx(3, v) /\ Idx(4, u) = Idx(4, v)) =>
          Translate(m2, r, u) = Translate(m, r, u)
  BY <1>1, <1>7, <1>8, PdOthers
<1>10. ASSUME NEW u, IsPage(u), u \in V2, Idx(3, u) = Idx(3, v), Idx(4, u) = Idx(4, v)
       PROVE  u = v
  <2>1. /\ PT_INDEX(u) = PT_INDEX(v) /\ PD_INDEX(u) = PD_INDEX(v)
        /\ PDPT_INDEX(u) = PDPT_INDEX(v) /\ PML4_INDEX(u) = PML4_INDEX(v)
    BY <1>3, <1>10 DEF Idx
  <2> QED BY <1>10, <2>1, SamePage
<1> QED BY <1>9, <1>10 DEF IsPage

\* So the tree stays one, and its map is the same but for v.
LEMMA LeafChange ==
  ASSUME NEW m, NEW g, NEW r, Sound(m, g), Tree(m, g, r), NEW v, IsPage(v),
         NEW T, Reach1(g, r, v, T), NEW m2, Changes(m, m2, g, T, Idx(1, v))
  PROVE  /\ Sound(m2, g) /\ Tree(m2, g, r) /\ Grows(m, g, m2, g, r, {})
         /\ \A u : IsPage(u) /\ u # v => Translate(m2, r, u) = Translate(m, r, u)
         /\ LET e == Ent(m2, T, Idx(1, v))
            IN  Translate(m2, r, v) = IF e.present THEN e.address ELSE UINT64_MAX
<1>1. IsTable(g, 1, r, T)
  BY ReachTable
<1>2. ASSUME NEW l, NEW q, ~(l = 1 /\ q = r), NEW t, IsTable(g, l, q, t), NEW j \in Indices
      PROVE  Ent(m2, t, j) = Ent(m, t, j)
  BY <1>1, <1>2, Kinds DEF Changes, OnlyEntry
<1>3. Sound(m2, g)
  BY Kinds DEF Sound, Changes
<1>4. Tree(m2, g, r)
  <2>1. ASSUME NEW j, NEW h, NEW t, NEW i \in Indices, Below(j, h), IsTable(g, h, r, t)
        PROVE  EntryOK(g, j, r, t, i, Ent(m2, t, i))
    <3>1. h # 1
      BY <2>1 DEF Below
    <3>2. Ent(m2, t, i) = Ent(m, t, i)
      BY <1>2, <2>1, <3>1
    <3>3. EntryOK(g, j, r, t, i, Ent(m, t, i))
      BY <2>1 DEF Tree
    <3> QED BY <3>2, <3>3
  <2>2. ASSUME NEW j, NEW h, NEW c, Below(j, h), IsTable(g, j, r, c)
        PROVE  \E t, i : IsTable(g, h, r, t) /\ IsChild(g, j, r, t, i, c) /\ Leads(Ent(m2, t, i), c)
    <3>1. PICK t, i : IsTable(g, h, r, t) /\ IsChild(g, j, r, t, i, c) /\ Leads(Ent(m, t, i), c)
      BY <2>2 DEF Tree
    <3>2. h # 1 /\ i \in Indices
      BY <2>2, <3>1, Kinds DEF Below
    <3>3. Ent(m2, t, i) = Ent(m, t, i)
      BY <1>2, <3>1, <3>2
    <3> QED BY <3>1, <3>3
  <2> QED BY <2>1, <2>2 DEF Tree
<1>5. Grows(m, g, m2, g, r, {})
  BY <1>2 DEF Grows, Extends, Changes
<1>6. \A u : IsPage(u) /\ u # v => Translate(m2, r, u) = Translate(m, r, u)
  BY PtOthers DEF Changes
<1>7. v \in Nat /\ v % PAGE = 0
  BY DEF IsPage
<1>8. Translate(m2, r, v) = At(m2, 1, T, v)
  BY <1>4, <1>7, Translates
<1>9. PICK e : e = Ent(m2, T, Idx(1, v))
  OBVIOUS
<1>10. e.address \in Nat
  <2>1. T \in PhysPages /\ Idx(1, v) \in Indices
    BY <1>1, <1>7, IdxType, Kinds
  <2> QED BY <1>3, <1>9, <2>1, EntType
<1>11. At(m2, 1, T, v) = IF e.present THEN e.address ELSE UINT64_MAX
  BY <1>7, <1>9, <1>10 DEF At, AtPt, Ent, Idx
<1> QED BY <1>3, <1>4, <1>5, <1>6, <1>8, <1>9, <1>11

\* vmm_virt_to_phys finds what the processor does.
LEMMA VirtToPhys ==
  ASSUME NEW m, NEW g, NEW r, Sound(m, g), Tree(m, g, r), NEW v, IsPage(v)
  PROVE  vmm_virt_to_phys(m, r, v) = Translate(m, r, v)
<1>1. v \in Nat /\ v % PAGE = 0
  BY DEF IsPage
<1>2. IsTable(g, 4, r, r) /\ At(m, 4, r, v) = Translate(m, r, v)
  BY DEF Tree, At
<1> DEFINE e4 == Ent(m, r, Idx(4, v))
           e3 == Ent(m, e4.address, Idx(3, v))
           e2 == Ent(m, e3.address, Idx(2, v))
           e1 == Ent(m, e2.address, Idx(1, v))
<1>3. vmm_virt_to_phys(m, r, v) =
        IF ~e4.present THEN UINT64_MAX
        ELSE IF ~e3.present THEN UINT64_MAX
        ELSE IF e3.larger THEN e3.address + (v % PdptSpan)
        ELSE IF ~e2.present THEN UINT64_MAX
        ELSE IF e2.larger THEN e2.address + (v % PdSpan)
        ELSE IF ~e1.present THEN UINT64_MAX
        ELSE e1.address
  BY DEF vmm_virt_to_phys, Ent, Idx
<1>4. ASSUME NEW k, NEW l, Below(k, l), NEW t, IsTable(g, l, r, t), NEW e, e = Ent(m, t, Idx(l, v))
      PROVE  /\ At(m, l, t, v) = Found(m, k, e, v)
             /\ e.present /\ ~e.larger => IsTable(g, k, r, e.address)
             /\ k # 1 => ~e.larger
  <2>1. EntryOK(g, k, r, t, Idx(l, v), Ent(m, t, Idx(l, v)))
    BY <1>1, <1>4, IdxType DEF Tree
  <2>2. At(m, l, t, v) = Found(m, k, Ent(m, t, Idx(l, v)), v)
    BY <1>4, <2>1, AtUnfold
  <2> QED BY <1>4, <2>1, <2>2, Kinds DEF EntryOK
<1> HIDE DEF e4, e3, e2, e1
<1>5. /\ At(m, 4, r, v) = Found(m, 3, e4, v)
      /\ e4.present /\ ~e4.larger => IsTable(g, 3, r, e4.address)
      /\ ~e4.larger
  BY <1>2, <1>4, LevelsBelow DEF e4
<1>6. CASE ~e4.present
  BY <1>2, <1>3, <1>5, <1>6 DEF Found
<1>7. CASE e4.present
  <2>1. IsTable(g, 3, r, e4.address) /\ Translate(m, r, v) = At(m, 3, e4.address, v)
    BY <1>2, <1>5, <1>7 DEF Found
  <2>2. /\ At(m, 3, e4.address, v) = Found(m, 2, e3, v)
        /\ e3.present /\ ~e3.larger => IsTable(g, 2, r, e3.address)
        /\ ~e3.larger
    BY <1>4, <2>1, LevelsBelow DEF e3
  <2>3. CASE ~e3.present
    BY <1>3, <1>7, <2>1, <2>2, <2>3 DEF Found
  <2>4. CASE e3.present
    <3>1. IsTable(g, 2, r, e3.address) /\ Translate(m, r, v) = At(m, 2, e3.address, v)
      BY <2>1, <2>2, <2>4 DEF Found
    <3>2. /\ At(m, 2, e3.address, v) = Found(m, 1, e2, v)
          /\ e2.present /\ ~e2.larger => IsTable(g, 1, r, e2.address)
      BY <1>4, <3>1, LevelsBelow DEF e2
    <3>3. CASE ~e2.present
      BY <1>3, <1>7, <2>2, <2>4, <3>1, <3>2, <3>3 DEF Found
    <3>4. CASE e2.present /\ e2.larger
      BY <1>3, <1>7, <2>2, <2>4, <3>1, <3>2, <3>4 DEF Found
    <3>5. CASE e2.present /\ ~e2.larger
      <4>1. IsTable(g, 1, r, e2.address) /\ Translate(m, r, v) = At(m, 1, e2.address, v)
        BY <3>1, <3>2, <3>5 DEF Found
      <4>2. e1.address \in Nat
        <5>1. e2.address \in PhysPages /\ Idx(1, v) \in Indices
          BY <1>1, <4>1, IdxType, Kinds
        <5> QED BY <5>1, EntType DEF e1
      <4>3. At(m, 1, e2.address, v) = IF e1.present THEN e1.address + (v % PAGE) ELSE UINT64_MAX
        BY DEF At, AtPt, e1, Ent, Idx
      <4>4. e1.address + (v % PAGE) = e1.address
        BY <1>1, <4>2
      <4> QED BY <1>3, <1>7, <2>2, <2>4, <3>5, <4>1, <4>3, <4>4
    <3> QED BY <3>3, <3>4, <3>5
  <2> QED BY <2>3, <2>4
<1> QED BY <1>6, <1>7

-----------------------------------------------------------------------------
\* Mapping, unmapping and freeing pages

LEMMA WalkStarves ==
  ASSUME NEW m, IsMachine(m), NEW r, NEW v
  PROVE  LET w == WalkSplitting(m, r, v)
         IN  IsMachine(w.s) /\ (m.starved => w.s.starved)
<1> DEFINE w3 == Down(Start(m, r), PML4_INDEX(v))
           w2 == DownSplitting(w3, PDPT_INDEX(v), PdSpan)
<1>1. w3.s = Ensure(m, r, PML4_INDEX(v))
  BY DEF Down, Follow, Start
<1>2. IsMachine(w3.s) /\ (m.starved => w3.s.starved)
  BY <1>1, StaysStarved
<1> HIDE DEF w3
<1>3. w2.s = Split(Ensure(w3.s, w3.table, PDPT_INDEX(v)), w3.table, PDPT_INDEX(v), PdSpan)
  BY DEF DownSplitting, Follow
<1>4. IsMachine(Ensure(w3.s, w3.table, PDPT_INDEX(v)))
      /\ (w3.s.starved => Ensure(w3.s, w3.table, PDPT_INDEX(v)).starved)
  BY <1>2, StaysStarved
<1>5. IsMachine(w2.s) /\ (w3.s.starved => w2.s.starved)
  BY <1>3, <1>4, StaysStarved
<1> HIDE DEF w2
<1>6. WalkSplitting(m, r, v).s
        = Split(Ensure(w2.s, w2.table, PD_INDEX(v)), w2.table, PD_INDEX(v), PtSpan)
  BY DEF WalkSplitting, DownSplitting, Follow, w2, w3
<1>7. IsMachine(Ensure(w2.s, w2.table, PD_INDEX(v)))
      /\ (w2.s.starved => Ensure(w2.s, w2.table, PD_INDEX(v)).starved)
  BY <1>5, StaysStarved
<1>8. IsMachine(WalkSplitting(m, r, v).s) /\ (w2.s.starved => WalkSplitting(m, r, v).s.starved)
  BY <1>6, <1>7, StaysStarved
<1> QED BY <1>2, <1>5, <1>8

\* Writing an entry and invalidating pages
Write(m, t, i, e, A) == vmm_invlpg(Put(m, t, i, e), A)

LEMMA WriteIs ==
  ASSUME NEW m, IsMachine(m), NEW t, NEW i, NEW e, NEW A
  PROVE  LET m2 == Write(m, t, i, e, A)
         IN  /\ IsMachine(m2) /\ m2.starved = m.starved /\ m2.pmm = m.pmm
             /\ m2.mem = Put(m, t, i, e).mem
             /\ \A a \in A : PageBase(a) \in m2.flushed
<1> DEFINE p == Put(m, t, i, e)
<1>1. IsMachine(p) /\ p.starved = m.starved /\ p.pmm = m.pmm
  BY DEF IsMachine, Put
<1> HIDE DEF p
<1>2. LET m2 == vmm_invlpg(p, A)
      IN  /\ IsMachine(m2) /\ m2.starved = p.starved /\ m2.pmm = p.pmm /\ m2.mem = p.mem
          /\ m2.flushed = p.flushed \cup {PageBase(a) : a \in A}
  BY <1>1 DEF IsMachine, vmm_invlpg
<1> QED BY <1>1, <1>2 DEF Write, p

LEMMA WriteChanges ==
  ASSUME NEW m, NEW g, Sound(m, g), NEW t \in PhysPages, NEW i \in Indices, NEW e \in EntryStates,
         NEW A
  PROVE  Changes(m, Write(m, t, i, e, A), g, t, i) /\ Ent(Write(m, t, i, e, A), t, i) = e
<1>1. IsMachine(m) /\ m.mem \in Memories /\ ~m.starved /\ Consistent(m.pmm)
  BY DEF Sound
<1>2. PICK p : p = Put(m, t, i, e)
  OBVIOUS
<1>3. PICK m2 : m2 = Write(m, t, i, e, A)
  OBVIOUS
<1>4. /\ p.mem \in Memories /\ Ent(p, t, i) = e
      /\ \A u \in PhysPages, j \in Indices : ~(u = t /\ j = i) => Ent(p, u, j) = Ent(m, u, j)
  BY <1>1, <1>2, PutEntry
<1>5. IsMachine(m2) /\ m2.starved = m.starved /\ m2.pmm = m.pmm /\ m2.mem = p.mem
  BY <1>1, <1>2, <1>3, WriteIs
<1>6. \A u, j : Ent(m2, u, j) = Ent(p, u, j)
  BY <1>5 DEF Ent
<1>7. \A r : OnlyEntry(m, m2, g, r, t, i)
  BY <1>4, <1>6, Kinds DEF OnlyEntry
<1> QED BY <1>1, <1>3, <1>4, <1>5, <1>6, <1>7 DEF Changes

\* The tree of r has grown, and of its map only page v has changed: it leads to x.
Mapped(m, g, m2, g2, r, v, x) ==
  /\ Sound(m2, g2) /\ Tree(m2, g2, r) /\ Grows(m, g, m2, g2, r, {})
  /\ \A u : IsPage(u) => Translate(m2, r, u) = IF u = v THEN x ELSE Translate(m, r, u)

\* The walk to v and the write of its entry in the page table.
LEMMA WalkAndWrite ==
  ASSUME NEW m, NEW g, NEW r, Sound(m, g), Tree(m, g, r), NEW v, IsPage(v),
         NEW w, w = WalkSplitting(m, r, v), ~w.s.starved, NEW e \in EntryStates, NEW A,
         NEW x, e.present => x = e.address, ~e.present => x = UINT64_MAX
  PROVE  \E g2 : Mapped(m, g, Write(w.s, w.table, PT_INDEX(v), e, A), g2, r, v, x)
<1>2. v \in Nat
  BY DEF IsPage
<1>3. PICK g2 : Keeps(m, g, w.s, g2, r) /\ Reach1(g2, r, v, w.table)
  BY <1>2, WalkSplits
<1>4. Sound(w.s, g2) /\ Tree(w.s, g2, r) /\ Grows(m, g, w.s, g2, r, {})
      /\ \A u \in Nat : Translate(w.s, r, u) = Translate(m, r, u)
  BY <1>3 DEF Keeps
<1>5. w.table \in PhysPages /\ Idx(1, v) \in Indices
  BY <1>2, <1>3, IdxType, Kinds, ReachTable
<1>6. PICK m2 : m2 = Write(w.s, w.table, Idx(1, v), e, A)
  OBVIOUS
<1>7. Changes(w.s, m2, g2, w.table, Idx(1, v)) /\ Ent(m2, w.table, Idx(1, v)) = e
  BY <1>4, <1>5, <1>6, WriteChanges
<1>8. /\ Sound(m2, g2) /\ Tree(m2, g2, r) /\ Grows(w.s, g2, m2, g2, r, {})
      /\ \A u : IsPage(u) /\ u # v => Translate(m2, r, u) = Translate(w.s, r, u)
      /\ Translate(m2, r, v) = x
  BY <1>3, <1>4, <1>7, LeafChange
<1>9. Grows(m, g, m2, g2, r, {})
  BY <1>4, <1>8, GrowsOn
<1>10. ASSUME NEW u, IsPage(u)
       PROVE  Translate(m2, r, u) = IF u = v THEN x ELSE Translate(m, r, u)
  BY <1>4, <1>8, <1>10 DEF IsPage
<1>11. Mapped(m, g, m2, g2, r, v, x)
  BY <1>8, <1>9, <1>10 DEF Mapped
<1> QED BY <1>6, <1>11 DEF Idx

\* vmm_map_page and vmm_unmap_page on a machine of any kind
LEMMA MapStarves ==
  ASSUME NEW m, IsMachine(m), NEW c, NEW r, NEW a, NEW v
  PROVE  LET m2 == vmm_map_page_pml4(m, c, r, a, v)
             w  == WalkSplitting(m, r, v)
             e  == Entry(Physical(m, c, a), FALSE)
         IN  /\ \E A : m2 = Write(w.s, w.table, PT_INDEX(v), e, A)
             /\ IsMachine(m2) /\ m2.starved = w.s.starved /\ (IsPage(v) => v \in m2.flushed)
             /\ m.starved => m2.starved
<1>1. PICK w : w = WalkSplitting(m, r, v)
  OBVIOUS
<1>2. PICK A : A = {Physical(m, c, a), v}
  OBVIOUS
<1>3. PICK e : e = Entry(Physical(m, c, a), FALSE)
  OBVIOUS
<1>4. IsMachine(w.s) /\ (m.starved => w.s.starved)
  BY <1>1, WalkStarves
<1>5. v \in A /\ (IsPage(v) => PageBase(v) = v)
  BY <1>2, SizeAssumption DEF PageBase, IsPage
<1>6. vmm_map_page_pml4(m, c, r, a, v) = Write(w.s, w.table, PT_INDEX(v), e, A)
  BY <1>1, <1>2, <1>3 DEF vmm_map_page_pml4, SetLeaf, Write, Put
<1>7. LET m2 == Write(w.s, w.table, PT_INDEX(v), e, A)
      IN  IsMachine(m2) /\ m2.starved = w.s.starved /\ (IsPage(v) => v \in m2.flushed)
  BY <1>4, <1>5, WriteIs
<1> QED BY <1>1, <1>3, <1>4, <1>6, <1>7

LEMMA UnmapStarves ==
  ASSUME NEW m, IsMachine(m), NEW r, NEW v
  PROVE  LET m2 == vmm_unmap_page(m, r, v)
             w  == WalkSplitting(m, r, v)
         IN  /\ \E A : m2 = Write(w.s, w.table, PT_INDEX(v), NoEntry, A)
             /\ IsMachine(m2) /\ m2.starved = w.s.starved /\ (IsPage(v) => v \in m2.flushed)
             /\ m.starved => m2.starved
<1>1. PICK w : w = WalkSplitting(m, r, v)
  OBVIOUS
<1>2. PICK A : A = {w.s.mem[w.table][PT_INDEX(v)].address, v}
  OBVIOUS
<1>3. IsMachine(w.s) /\ (m.starved => w.s.starved)
  BY <1>1, WalkStarves
<1>4. v \in A /\ (IsPage(v) => PageBase(v) = v)
  BY <1>2, SizeAssumption DEF PageBase, IsPage
<1>5. vmm_unmap_page(m, r, v) = Write(w.s, w.table, PT_INDEX(v), NoEntry, A)
  BY <1>1, <1>2 DEF vmm_unmap_page, ClearLeaf, Write, Put
<1>6. LET m2 == Write(w.s, w.table, PT_INDEX(v), NoEntry, A)
      IN  IsMachine(m2) /\ m2.starved = w.s.starved /\ (IsPage(v) => v \in m2.flushed)
  BY <1>3, <1>4, WriteIs
<1> QED BY <1>1, <1>3, <1>5, <1>6

\* vmm_map_page: v leads to the page the argument names.
LEMMA MapStep ==
  ASSUME NEW m, NEW g, NEW r, Sound(m, g), Tree(m, g, r), NEW v, IsPage(v),
         NEW c, NEW a, NEW x \in PhysPages, Physical(m, c, a) = x,
         ~vmm_map_page_pml4(m, c, r, a, v).starved
  PROVE  \E g2 : Mapped(m, g, vmm_map_page_pml4(m, c, r, a, v), g2, r, v, x)
<1>1. x \in Nat /\ x % PAGE = 0
  BY PhysType
<1>2. PICK e : e = Entry(x, FALSE)
  OBVIOUS
<1>3. e \in EntryStates /\ e.present /\ e.address = x
  BY <1>1, <1>2, EntryIs
<1>4. PICK w : w = WalkSplitting(m, r, v)
  OBVIOUS
<1>5. PICK A : vmm_map_page_pml4(m, c, r, a, v) = Write(w.s, w.table, PT_INDEX(v), e, A)
  <2>1. IsMachine(m)
    BY DEF Sound
  <2>2. LET u == WalkSplitting(m, r, v)
        IN  \E A : vmm_map_page_pml4(m, c, r, a, v)
                    = Write(u.s, u.table, PT_INDEX(v), Entry(Physical(m, c, a), FALSE), A)
    BY <2>1, MapStarves
  <2> QED BY <1>2, <1>4, <2>2
<1>6. ~w.s.starved
  BY <1>4, MapStarves DEF Sound
<1>7. \E g2 : Mapped(m, g, Write(w.s, w.table, PT_INDEX(v), e, A), g2, r, v, x)
  BY <1>3, <1>4, <1>6, WalkAndWrite
<1> QED BY <1>5, <1>7

\* vmm_unmap_page: v leads nowhere.
LEMMA UnmapStep ==
  ASSUME NEW m, NEW g, NEW r, Sound(m, g), Tree(m, g, r), NEW v, IsPage(v),
         ~vmm_unmap_page(m, r, v).starved
  PROVE  \E g2 : Mapped(m, g, vmm_unmap_page(m, r, v), g2, r, v, UINT64_MAX)
<1>1. PICK e : e = NoEntry
  OBVIOUS
<1>2. e \in EntryStates /\ ~e.present
  BY <1>1, NoEntryIs
<1>3. PICK w : w = WalkSplitting(m, r, v)
  OBVIOUS
<1>4. PICK A : vmm_unmap_page(m, r, v) = Write(w.s, w.table, PT_INDEX(v), e, A)
  BY <1>1, <1>3, UnmapStarves DEF Sound
<1>5. ~w.s.starved
  BY <1>3, UnmapStarves DEF Sound
<1>6. \E g2 : Mapped(m, g, Write(w.s, w.table, PT_INDEX(v), e, A), g2, r, v, UINT64_MAX)
  BY <1>2, <1>3, <1>5, WalkAndWrite
<1> QED BY <1>4, <1>6

\* Two machines with the same memory translate alike.
LEMMA SameMemory ==
  ASSUME NEW m, NEW m2, m2.mem = m.mem, NEW g, NEW r
  PROVE  /\ Tree(m, g, r) => Tree(m2, g, r)
         /\ \A v : Translate(m2, r, v) = Translate(m, r, v)
<1>1. \A t, i : Ent(m2, t, i) = Ent(m, t, i)
  BY DEF Ent
<1>2. Tree(m, g, r) => Tree(m2, g, r)
  BY <1>1 DEF Tree
<1>3. \A t, v : AtPt(m2, t, v) = AtPt(m, t, v)
  BY DEF AtPt
<1>4. \A t, v : AtPd(m2, t, v) = AtPd(m, t, v)
  BY <1>3 DEF AtPd
<1>5. \A t, v : AtPdpt(m2, t, v) = AtPdpt(m, t, v)
  BY <1>4 DEF AtPdpt
<1>6. \A v : Translate(m2, r, v) = Translate(m, r, v)
  BY <1>5 DEF Translate
<1> QED BY <1>2, <1>6

Unmark(m, a) ==
  [m EXCEPT !.pmm = pmm_set_usable_page_allocated_by_index(@, pmm_get_index_by_address(a), FALSE)]

LEMMA FreePhysIs ==
  ASSUME NEW m, NEW r, NEW a
  PROVE  LET kept == a = UINT64_MAX \/ pmm_get_index_by_address(a) < pmm_bitmap_pages
         IN  /\ kept => FreePhys(m, r, a) = m
             /\ ~kept => FreePhys(m, r, a)
                           = vmm_map_page_pml4(Unmark(m, a), r, r, a, pmm_phys_to_virt(a))
BY DEF FreePhys, Unmark

LEMMA UnmarkIs ==
  ASSUME NEW m, IsMachine(m), NEW a
  PROVE  LET m2 == Unmark(m, a)
         IN  /\ IsMachine(m2) /\ m2.mem = m.mem /\ m2.starved = m.starved
             /\ m2.pmm = pmm_set_usable_page_allocated_by_index(m.pmm, pmm_get_index_by_address(a), FALSE)
<1>1. PICK q : q = pmm_set_usable_page_allocated_by_index(m.pmm, pmm_get_index_by_address(a), FALSE)
  OBVIOUS
<1>2. Unmark(m, a) = [m EXCEPT !.pmm = q]
  BY <1>1 DEF Unmark
<1>3. LET m2 == [m EXCEPT !.pmm = q]
      IN  IsMachine(m2) /\ m2.mem = m.mem /\ m2.starved = m.starved /\ m2.pmm = q
  BY DEF IsMachine
<1> QED BY <1>1, <1>2, <1>3

LEMMA FreeStarves ==
  ASSUME NEW m, IsMachine(m), NEW r, NEW a
  PROVE  LET m2 == FreePhys(m, r, a)
         IN  IsMachine(m2) /\ (m.starved => m2.starved)
<1>1. IsMachine(Unmark(m, a)) /\ Unmark(m, a).starved = m.starved
  BY UnmarkIs
<1>2. LET m2 == vmm_map_page_pml4(Unmark(m, a), r, r, a, pmm_phys_to_virt(a))
      IN  IsMachine(m2) /\ (Unmark(m, a).starved => m2.starved)
  BY <1>1, MapStarves
<1> QED BY <1>1, <1>2, FreePhysIs

\* The tree of r has grown and its map is the same; at most page a has been
\* unmarked.
Frees(m, g, m2, g2, r, a) ==
  /\ Sound(m2, g2) /\ Tree(m2, g2, r) /\ Grows(m, g, m2, g2, r, {a})
  /\ \A u : IsPage(u) => Translate(m2, r, u) = Translate(m, r, u)

\* pmm_free of a page that is no table, and is in its place in the direct map.
LEMMA FreeStep ==
  ASSUME NEW m, NEW g, NEW r, Sound(m, g), Tree(m, g, r), NEW a \in PhysPages, NoTable(g, a),
         Translate(m, r, a) = UINT64_MAX, Translate(m, r, pmm_phys_to_virt(a)) = a,
         ~FreePhys(m, r, a).starved
  PROVE  \E g2 : Frees(m, g, FreePhys(m, r, a), g2, r, a)
<1>1. a # UINT64_MAX
  BY PhysType
<1>2. Grows(m, g, m, g, r, {a})
  BY DEF Grows, Extends
<1>3. CASE pmm_get_index_by_address(a) < pmm_bitmap_pages
  <2>1. FreePhys(m, r, a) = m
    BY <1>3, FreePhysIs
  <2> QED BY <1>2, <2>1 DEF Frees
<1>4. CASE ~(pmm_get_index_by_address(a) < pmm_bitmap_pages)
  <2>1. PICK v : v = pmm_phys_to_virt(a)
    OBVIOUS
  <2>2. IsPage(a) /\ IsPage(v)
    BY <2>1, PhysPageIs
  <2>3. PICK m1 : m1 = Unmark(m, a)
    OBVIOUS
  <2>4. FreePhys(m, r, a) = vmm_map_page_pml4(m1, r, r, a, v)
    BY <1>1, <1>4, <2>1, <2>3, FreePhysIs
  <2>5. /\ IsMachine(m1) /\ m1.mem = m.mem /\ m1.starved = m.starved
        /\ m1.pmm = pmm_set_usable_page_allocated_by_index(m.pmm, pmm_get_index_by_address(a), FALSE)
    BY <2>3, UnmarkIs DEF Sound
  <2>6. Consistent(m1.pmm) /\ \A b \in PhysPages : b # a /\ Marked(m.pmm, b) => Marked(m1.pmm, b)
    BY <1>4, <2>5, FreeUnmarks DEF Sound
  <2>7. Sound(m1, g)
    BY <2>5, <2>6, Kinds DEF Sound
  <2>8. Tree(m1, g, r) /\ \A u : Translate(m1, r, u) = Translate(m, r, u)
    BY <2>5, SameMemory
  <2>9. Grows(m, g, m1, g, r, {a})
    <3>1. \A t, i : Ent(m1, t, i) = Ent(m, t, i)
      BY <2>5 DEF Ent
    <3> QED BY <2>6, <3>1 DEF Grows, Extends
  <2>10. Physical(m1, r, a) = a
    <3>1. vmm_virt_to_phys(m1, r, a) = UINT64_MAX
      BY <2>2, <2>7, <2>8, VirtToPhys
    <3> QED BY <3>1 DEF Physical
  <2>11. PICK m2 : m2 = vmm_map_page_pml4(m1, r, r, a, v)
    OBVIOUS
  <2>12. PICK g2 : Mapped(m1, g, m2, g2, r, v, a)
    BY <2>2, <2>4, <2>7, <2>8, <2>10, <2>11, MapStep
  <2>13. /\ Sound(m2, g2) /\ Tree(m2, g2, r) /\ Grows(m1, g, m2, g2, r, {})
         /\ \A u : IsPage(u) => Translate(m2, r, u) = IF u = v THEN a ELSE Translate(m1, r, u)
    BY <2>12 DEF Mapped
  <2>14. Grows(m, g, m2, g2, r, {a})
    BY <2>9, <2>13, GrowsOn
  <2>15. \A u : IsPage(u) => Translate(m2, r, u) = Translate(m, r, u)
    BY <2>1, <2>8, <2>13
  <2>16. Frees(m, g, m2, g2, r, a)
    BY <2>13, <2>14, <2>15 DEF Frees
  <2> QED BY <2>4, <2>11, <2>16
<1> QED BY <1>3, <1>4

-----------------------------------------------------------------------------
\* The rounds of vmm_map_pages_pml4

\* Giving an entry of a page table a page of its own changes that entry only.
LEMMA EnsureLeaf ==
  ASSUME NEW m, NEW g, Sound(m, g), NEW T \in PhysPages, NEW I \in Indices,
         ~Ensure(m, T, I).starved
  PROVE  Changes(m, Ensure(m, T, I), g, T, I)
<1>1. IsMachine(m) /\ ~m.starved /\ Consistent(m.pmm) /\ m.mem \in Memories
  BY DEF Sound
<1>2. CASE Ent(m, T, I).present
  <2>1. Ensure(m, T, I) = m
    BY <1>2 DEF Ensure, Ent
  <2> QED BY <1>1, <2>1 DEF Changes, OnlyEntry
<1>3. CASE ~Ent(m, T, I).present
  <2>1. PICK a : a = AllocTable(m)
    OBVIOUS
  <2>2. PICK e : e = [a.s.mem[T][I] EXCEPT !.present = TRUE, !.address = a.page]
    OBVIOUS
  <2>3. Ensure(m, T, I) = Put(a.s, T, I, e)
    BY <1>3, <2>1, <2>2 DEF Ensure, vmm_init_pt_entry, LinkTable, Put, Ent
  <2>4. IsMachine(a.s)
    BY <1>1, <2>1 DEF IsMachine, AllocTable, TablePage
  <2>5. Put(a.s, T, I, e).starved = a.s.starved
    BY <2>4 DEF IsMachine, Put
  <2>6. ~AllocTable(m).s.starved
    BY <2>1, <2>3, <2>5
  <2>7. /\ IsMachine(a.s) /\ Consistent(a.s.pmm) /\ a.s.mem \in Memories
        /\ a.page \in PhysPages /\ ~Marked(m.pmm, a.page)
        /\ \A p \in PhysPages : Marked(m.pmm, p) => Marked(a.s.pmm, p)
        /\ \A t \in PhysPages, i \in Indices : t # a.page => Ent(a.s, t, i) = Ent(m, t, i)
    BY <1>1, <2>1, <2>6, AllocTakes
  <2>8. e \in EntryStates
    <3>1. a.s.mem[T][I] \in EntryStates
      BY <2>7 DEF Memories
    <3>2. a.page \in Nat
      BY <2>7, PhysType
    <3> QED BY <2>2, <3>1, <3>2 DEF EntryStates
  <2>9. PICK m2 : m2 = Put(a.s, T, I, e)
    OBVIOUS
  <2>10. /\ IsMachine(m2) /\ m2.pmm = a.s.pmm /\ m2.starved = a.s.starved
         /\ m2.mem \in Memories
         /\ \A t \in PhysPages, i \in Indices : ~(t = T /\ i = I) => Ent(m2, t, i) = Ent(a.s, t, i)
    BY <2>7, <2>8, <2>9, PutEntry
  <2>11. NoTable(g, a.page)
    BY <2>7, NotMarked
  <2>12. \A r : OnlyEntry(m, m2, g, r, T, I)
    BY <2>7, <2>10, <2>11, Kinds DEF OnlyEntry
  <2>13. ~m2.starved
    BY <2>1, <2>6, <2>10
  <2>14. Changes(m, m2, g, T, I)
    BY <2>7, <2>10, <2>12, <2>13 DEF Changes
  <2> QED BY <2>3, <2>9, <2>14
<1> QED BY <1>2, <1>3

LEMMA ToPtStarves ==
  ASSUME NEW m, IsMachine(m), NEW r, NEW v
  PROVE  LET w == ToPt(m, r, v)
         IN  IsMachine(w.s) /\ (m.starved => w.s.starved)
<1>1. PICK a : a = ToPdpt(m, r, v)
  OBVIOUS
<1>2. PICK b : b = ToPd(m, r, v)
  OBVIOUS
<1>3. a.s = Ensure(m, r, PML4_INDEX(v))
  BY <1>1 DEF ToPdpt, Down, Follow, Start
<1>4. b.s = Ensure(a.s, a.table, PDPT_INDEX(v))
  BY <1>1, <1>2 DEF ToPd, Down, Follow
<1>5. ToPt(m, r, v).s = Ensure(b.s, b.table, PD_INDEX(v))
  BY <1>2 DEF ToPt, Down, Follow
<1>6. IsMachine(a.s) /\ (m.starved => a.s.starved)
  BY <1>3, StaysStarved
<1>7. IsMachine(b.s) /\ (a.s.starved => b.s.starved)
  BY <1>4, <1>6, StaysStarved
<1>8. IsMachine(ToPt(m, r, v).s) /\ (b.s.starved => ToPt(m, r, v).s.starved)
  BY <1>5, <1>7, StaysStarved
<1> QED BY <1>6, <1>7, <1>8

\* The walk of a round: the tree has grown, and the map is the same but for v.
LEMMA RoundWalk ==
  ASSUME NEW m, NEW g, NEW r, Sound(m, g), Tree(m, g, r), NEW v, IsPage(v),
         Translate(m, r, v) = UINT64_MAX, NEW w, w = WalkTables(m, r, v), ~w.s.starved
  PROVE  \E g2 : /\ Sound(w.s, g2) /\ Tree(w.s, g2, r) /\ Grows(m, g, w.s, g2, r, {})
                 /\ Reach2(g2, r, v, w.pd) /\ IsChild(g2, 1, r, w.pd, Idx(2, v), w.pt)
                 /\ \A u : IsPage(u) /\ u # v => Translate(w.s, r, u) = Translate(m, r, u)
<1>1. PICK p : p = ToPt(m, r, v)
  OBVIOUS
<1>2. w.pd = ToPd(m, r, v).table /\ w.pt = p.table
  BY <1>1 DEF WalkTables
<1>3. w.s = Ensure(p.s, p.table, Idx(1, v))
  BY <1>1 DEF WalkTables, Down, Follow, Idx
<1>4. v \in Nat
  BY DEF IsPage
<1>5. IsMachine(p.s) /\ ~p.s.starved
  <2>1. IsMachine(p.s)
    BY <1>1, ToPtStarves DEF Sound
  <2> QED BY <1>3, <2>1, StaysStarved
<1>6. PICK g2 : /\ Keeps(m, g, p.s, g2, r)
                /\ Reach2(g2, r, v, w.pd) /\ IsChild(g2, 1, r, w.pd, Idx(2, v), w.pt)
  BY <1>1, <1>2, <1>4, <1>5, WalksDown
<1>7. /\ Sound(p.s, g2) /\ Tree(p.s, g2, r) /\ Grows(m, g, p.s, g2, r, {})
      /\ \A u \in Nat : Translate(p.s, r, u) = Translate(m, r, u)
  BY <1>6 DEF Keeps
<1>8. Reach1(g2, r, v, p.table)
  BY <1>2, <1>6 DEF Reach1
<1>9. p.table \in PhysPages /\ Idx(1, v) \in Indices
  BY <1>4, <1>8, ReachTable, Kinds, IdxType
<1>10. Changes(p.s, w.s, g2, p.table, Idx(1, v))
  BY <1>3, <1>7, <1>9, EnsureLeaf
<1>11. /\ Sound(w.s, g2) /\ Tree(w.s, g2, r) /\ Grows(p.s, g2, w.s, g2, r, {})
       /\ \A u : IsPage(u) /\ u # v => Translate(w.s, r, u) = Translate(p.s, r, u)
  BY <1>7, <1>8, <1>10, LeafChange
<1>12. Grows(m, g, w.s, g2, r, {})
  BY <1>7, <1>11, GrowsOn
<1>13. \A u : IsPage(u) /\ u # v => Translate(w.s, r, u) = Translate(m, r, u)
  BY <1>7, <1>11 DEF IsPage
<1> QED BY <1>6, <1>11, <1>12, <1>13

\* A round that maps one page.
LEMMA LeafRound ==
  ASSUME NEW m, NEW g, NEW r, Sound(m, g), Tree(m, g, r), NEW v, IsPage(v),
         Translate(m, r, v) = UINT64_MAX, NEW w, w = WalkTables(m, r, v), ~w.s.starved,
         NEW to \in Nat, to % PAGE = 0
  PROVE  \E g2 : Mapped(m, g, Put(w.s, w.pt, PT_INDEX(v), Entry(to, FALSE)), g2, r, v, to)
<1>1. PICK g2 : /\ Sound(w.s, g2) /\ Tree(w.s, g2, r) /\ Grows(m, g, w.s, g2, r, {})
                /\ Reach2(g2, r, v, w.pd) /\ IsChild(g2, 1, r, w.pd, Idx(2, v), w.pt)
                /\ \A u : IsPage(u) /\ u # v => Translate(w.s, r, u) = Translate(m, r, u)
  BY RoundWalk
<1>2. PICK e : e = Entry(to, FALSE)
  OBVIOUS
<1>3. e \in EntryStates /\ e.present /\ e.address = to
  BY <1>2, EntryIs
<1>4. PICK m2 : m2 = Put(w.s, w.pt, Idx(1, v), e)
  OBVIOUS
<1>5. Reach1(g2, r, v, w.pt) /\ w.pt \in PhysPages /\ Idx(1, v) \in Indices
  <2>1. Reach1(g2, r, v, w.pt) /\ v \in Nat
    BY <1>1 DEF Reach1, IsPage
  <2> QED BY <2>1, ReachTable, Kinds, IdxType
<1>6. Changes(w.s, m2, g2, w.pt, Idx(1, v)) /\ Ent(m2, w.pt, Idx(1, v)) = e
  <2>1. IsMachine(w.s) /\ w.s.mem \in Memories /\ ~w.s.starved /\ Consistent(w.s.pmm)
    BY <1>1 DEF Sound
  <2>2. /\ IsMachine(m2) /\ m2.pmm = w.s.pmm /\ m2.starved = w.s.starved /\ m2.mem \in Memories
        /\ Ent(m2, w.pt, Idx(1, v)) = e
        /\ \A t \in PhysPages, i \in Indices :
             ~(t = w.pt /\ i = Idx(1, v)) => Ent(m2, t, i) = Ent(w.s, t, i)
    BY <1>3, <1>4, <1>5, <2>1, PutEntry
  <2>3. \A q : OnlyEntry(w.s, m2, g2, q, w.pt, Idx(1, v))
    BY <2>2, Kinds DEF OnlyEntry
  <2> QED BY <2>1, <2>2, <2>3 DEF Changes
<1>7. /\ Sound(m2, g2) /\ Tree(m2, g2, r) /\ Grows(w.s, g2, m2, g2, r, {})
      /\ \A u : IsPage(u) /\ u # v => Translate(m2, r, u) = Translate(w.s, r, u)
      /\ Translate(m2, r, v) = to
  BY <1>1, <1>3, <1>5, <1>6, LeafChange
<1>8. Grows(m, g, m2, g2, r, {})
  BY <1>1, <1>7, GrowsOn
<1>9. ASSUME NEW u, IsPage(u)
      PROVE  Translate(m2, r, u) = IF u = v THEN to ELSE Translate(m, r, u)
  BY <1>1, <1>7, <1>9
<1>10. Mapped(m, g, m2, g2, r, v, to)
  BY <1>7, <1>8, <1>9 DEF Mapped
<1> QED BY <1>2, <1>4, <1>10 DEF Idx

\* A page stops being a table.
Drop(g, t) == [g EXCEPT ![t] = [@ EXCEPT !.lev = 0]]

LEMMA DropIs ==
  ASSUME NEW g \in Ghosts, NEW p \in PhysPages
  PROVE  LET g2 == Drop(g, p)
         IN  /\ g2 \in Ghosts /\ NoTable(g2, p)
             /\ \A l, r, t : IsTable(g2, l, r, t) <=> IsTable(g, l, r, t) /\ t # p
             /\ \A k, r, t, i, c : IsChild(g2, k, r, t, i, c) <=> IsChild(g, k, r, t, i, c) /\ c # p
<1>1. PICK g2 : g2 = Drop(g, p)
  OBVIOUS
<1>2. /\ g[p] \in [lev : 0 .. 4, root : PhysPages, up : PhysPages, at : Indices]
      /\ DOMAIN g = PhysPages
  BY DEF Ghosts
<1>3. PICK n : n = [g[p] EXCEPT !.lev = 0]
  OBVIOUS
<1>4. n \in [lev : 0 .. 4, root : PhysPages, up : PhysPages, at : Indices] /\ n.lev = 0
  BY <1>2, <1>3
<1>5. g2 = [g EXCEPT ![p] = n]
  BY <1>1, <1>3 DEF Drop
<1>6. g2 \in Ghosts /\ g2[p] = n /\ \A t \in PhysPages : t # p => g2[t] = g[t]
  BY <1>4, <1>5 DEF Ghosts
<1>7. NoTable(g2, p)
  BY <1>4, <1>6 DEF NoTable
<1>8. \A l, r, t : IsTable(g2, l, r, t) <=> IsTable(g, l, r, t) /\ t # p
  BY <1>4, <1>6 DEF IsTable
<1>9. ASSUME NEW k, NEW r, NEW t, NEW i
      PROVE  ~IsChild(g2, k, r, t, i, p)
  <2>1. SUFFICES ASSUME IsChild(g2, k, r, t, i, p) PROVE FALSE
    OBVIOUS
  <2>2. IsTable(g2, k, r, p)
    BY <2>1, Kinds
  <2> QED BY <1>8, <2>2
<1>10. \A k, r, t, i, c : c # p => (IsChild(g2, k, r, t, i, c) <=> IsChild(g, k, r, t, i, c))
  BY <1>6 DEF IsChild
<1> QED BY <1>1, <1>6, <1>7, <1>8, <1>9, <1>10

\* An entry of a page directory that led to a page table becomes a 2 MiB page.
LEMMA LargeEntry ==
  ASSUME NEW m, NEW g, NEW r, Sound(m, g), Tree(m, g, r), NEW v, IsPage(v), PT_INDEX(v) = 0,
         NEW pd, Reach2(g, r, v, pd), NEW pt, IsChild(g, 1, r, pd, Idx(2, v), pt),
         NEW to \in Nat, to % PdSpan = 0, to < higher_half_offset,
         NEW m2, OnlyEntry(m, m2, g, r, pd, Idx(2, v)),
         NEW e, e = Ent(m2, pd, Idx(2, v)), e.present, e.larger, e.address = to
  PROVE  /\ Tree(m2, Drop(g, pt), r)
         /\ \A u : IsPage(u) =>
              Translate(m2, r, u) = IF InPd(u, v) THEN to + (u - v) ELSE Translate(m, r, u)
<1>1. PICK g2 : g2 = Drop(g, pt)
  OBVIOUS
<1>2. v \in Nat /\ g \in Ghosts
  BY DEF IsPage, Sound
<1>3. PICK I \in Indices : I = Idx(2, v)
  BY <1>2, IdxType
<1>4. IsTable(g, 1, r, pt) /\ IsTable(g, 2, r, pd) /\ pt \in PhysPages
  BY ReachTable, Kinds
<1>5. /\ \A l, q, t : IsTable(g2, l, q, t) <=> IsTable(g, l, q, t) /\ t # pt
      /\ \A k, q, t, i, c : IsChild(g2, k, q, t, i, c) <=> IsChild(g, k, q, t, i, c) /\ c # pt
  BY <1>1, <1>2, <1>4, DropIs
<1>6. IsTable(g, 4, r, r)
  BY DEF Tree
<1>7. Leads(Ent(m, pd, I), pt)
  BY <1>2, <1>3, <1>4, Descend, LevelsBelow
<1>8. ASSUME NEW l, NEW t, IsTable(g, l, r, t), NEW i \in Indices, ~(t = pd /\ i = I)
      PROVE  Ent(m2, t, i) = Ent(m, t, i)
  BY <1>3, <1>8 DEF OnlyEntry
<1>9. \A k, l, t : Below(k, l) /\ IsTable(g, l, r, t) => t # pt
  <2>1. \A k : ~Below(k, 1)
    BY DEF Below
  <2> QED BY <1>4, <2>1, Kinds
<1>10. ASSUME NEW k, NEW l, NEW t, NEW i \in Indices, Below(k, l), IsTable(g, l, r, t)
       PROVE  EntryOK(g2, k, r, t, i, Ent(m2, t, i))
  <2>1. CASE t = pd /\ i = I
    <3>1. k = 1
      <4>1. l = 2
        BY <1>4, <1>10, <2>1, Kinds
      <4> QED BY <1>10, <4>1 DEF Below
    <3> QED BY <1>3, <2>1, <3>1 DEF EntryOK
  <2>2. CASE ~(t = pd /\ i = I)
    <3>1. PICK d : d = Ent(m, t, i)
      OBVIOUS
    <3>2. EntryOK(g, k, r, t, i, d)
      BY <1>10, <3>1 DEF Tree
    <3>3. Ent(m2, t, i) = d
      BY <1>8, <1>10, <2>2, <3>1
    <3>4. IsChild(g, k, r, t, i, d.address) => d.address # pt
      BY <1>3, <2>2, Kinds
    <3>5. EntryOK(g2, k, r, t, i, d)
      BY <1>5, <3>2, <3>4 DEF EntryOK
    <3> QED BY <3>3, <3>5
  <2> QED BY <2>1, <2>2
<1>11. ASSUME NEW k, NEW l, NEW c, Below(k, l), IsTable(g, k, r, c), c # pt
       PROVE  \E t, i : IsTable(g2, l, r, t) /\ IsChild(g2, k, r, t, i, c) /\ Leads(Ent(m2, t, i), c)
  <2>1. PICK t, i : IsTable(g, l, r, t) /\ IsChild(g, k, r, t, i, c) /\ Leads(Ent(m, t, i), c)
    BY <1>11 DEF Tree
  <2>2. i \in Indices /\ t # pt
    BY <1>9, <1>11, <2>1, Kinds
  <2>3. ~(t = pd /\ i = I)
    BY <1>7, <1>11, <2>1 DEF Leads
  <2>4. Ent(m2, t, i) = Ent(m, t, i)
    BY <1>8, <2>1, <2>2, <2>3
  <2>5. IsTable(g2, l, r, t) /\ IsChild(g2, k, r, t, i, c)
    BY <1>5, <1>11, <2>1, <2>2
  <2> QED BY <2>1, <2>4, <2>5
<1>12. IsTable(g2, 4, r, r)
  BY <1>5, <1>6, <1>9, LevelsBelow
<1>13. Tree(m2, g2, r)
  <2>1. \A k, l, t, i : Below(k, l) /\ IsTable(g2, l, r, t) /\ i \in Indices =>
                       EntryOK(g2, k, r, t, i, Ent(m2, t, i))
    BY <1>5, <1>10
  <2>2. \A k, l, c : Below(k, l) /\ IsTable(g2, k, r, c) =>
       \E t, i : IsTable(g2, l, r, t) /\ IsChild(g2, k, r, t, i, c) /\ Leads(Ent(m2, t, i), c)
    BY <1>5, <1>11
  <2> QED BY <1>12, <2>1, <2>2 DEF Tree
<1> DEFINE V == {u \in Nat : Idx(2, u) = I}
<1>14. \A u \in Nat : u \in V <=> Idx(2, u) = I
  OBVIOUS
<1> HIDE DEF V
<1>15. Same(m, m2, g, r, 1, pd, {})
  BY <1>4, SameUpTo
<1>16. Same(m, m2, g, r, 2, pd, V)
  <2> SUFFICES ASSUME NEW t, NEW u \in Nat, IsTable(g, 2, r, t), ~(t = pd /\ u \in V)
               PROVE  At(m2, 2, t, u) = At(m, 2, t, u)
    BY DEF Same
  <2>1. Ent(m2, t, Idx(2, u)) = Ent(m, t, Idx(2, u))
    BY <1>8, <1>14, IdxType
  <2> QED BY <1>15, <2>1, LevelsBelow, UpOne
<1>17. \A l, t, j : l \in {3, 4} /\ IsTable(g, l, r, t) /\ j \in Indices => Ent(m2, t, j) = Ent(m, t, j)
  <2>1. ASSUME NEW l, l # 2, NEW t, IsTable(g, l, r, t), NEW j \in Indices
        PROVE  Ent(m2, t, j) = Ent(m, t, j)
    BY <1>4, <1>8, <2>1, Kinds
  <2> QED BY <2>1
<1>18. \A u \in Nat : ~(u \in V /\ Idx(3, u) = Idx(3, v) /\ Idx(4, u) = Idx(4, v)) =>
                        Translate(m2, r, u) = Translate(m, r, u)
  BY <1>16, <1>17, PdOthers
<1>19. ASSUME NEW u, IsPage(u)
       PROVE  /\ InPd(u, v) => u % PdSpan = u - v
              /\ InPd(u, v) <=> Idx(2, u) = I /\ Idx(3, u) = Idx(3, v) /\ Idx(4, u) = Idx(4, v)
  <2>1. /\ Idx(2, u) = PD_INDEX(u) /\ Idx(3, u) = PDPT_INDEX(u) /\ Idx(4, u) = PML4_INDEX(u)
        /\ I = PD_INDEX(v) /\ Idx(3, v) = PDPT_INDEX(v) /\ Idx(4, v) = PML4_INDEX(v)
    BY <1>3 DEF Idx
  <2> QED BY <1>19, <2>1, PagesInPd
<1>20. ASSUME NEW u, IsPage(u), InPd(u, v)
       PROVE  Translate(m2, r, u) = to + (u - v)
  <2>1. u \in Nat
    BY <1>20 DEF IsPage
  <2>2. /\ Idx(2, u) = I /\ Idx(3, u) = Idx(3, v) /\ Idx(4, u) = Idx(4, v)
        /\ u % PdSpan = u - v
    BY <1>19, <1>20
  <2>3. PICK t3 : IsChild(g, 3, r, r, Idx(4, v), t3) /\ IsChild(g, 2, r, t3, Idx(3, v), pd)
    BY DEF Reach2, Reach3
  <2>4. t3 # pt /\ pd # pt
    BY <1>4, <1>9, <2>3, Kinds, LevelsBelow
  <2>5. Reach2(g2, r, u, pd)
    BY <1>5, <2>2, <2>3, <2>4 DEF Reach2, Reach3
  <2>6. Translate(m2, r, u) = At(m2, 2, pd, u)
    BY <1>13, <2>1, <2>5, Translates
  <2>7. EntryOK(g2, 1, r, pd, Idx(2, u), Ent(m2, pd, Idx(2, u)))
    BY <1>4, <1>10, <2>2, LevelsBelow
  <2>8. At(m2, 2, pd, u) = Found(m2, 1, Ent(m2, pd, Idx(2, u)), u)
    BY <2>7, LevelsBelow, AtUnfold
  <2>9. Ent(m2, pd, Idx(2, u)) = e
    BY <1>3, <2>2
  <2>10. Found(m2, 1, e, u) = to + (u % PdSpan)
    BY DEF Found
  <2> QED BY <2>2, <2>6, <2>8, <2>9, <2>10
<1>21. ASSUME NEW u, IsPage(u), ~InPd(u, v)
       PROVE  Translate(m2, r, u) = Translate(m, r, u)
  <2>1. u \in Nat
    BY <1>21 DEF IsPage
  <2> QED BY <1>14, <1>18, <1>19, <1>21, <2>1
<1> QED BY <1>1, <1>13, <1>20, <1>21

\* Every physical page is in its place in the direct map of the tree of c, and
\* nothing is mapped at its own address.
Direct(m, c) ==
  \A p \in PhysPages : /\ Translate(m, c, p) = UINT64_MAX
                       /\ Translate(m, c, pmm_phys_to_virt(p)) = p

\* The map of r leads n bytes from v on to the address to; the rest of it, and
\* the map of c, are the same.
Maps(m, m2, g2, r, c, v, n, to) ==
  /\ Sound(m2, g2) /\ Tree(m2, g2, r) /\ Tree(m2, g2, c)
  /\ \A u : IsPage(u) => Translate(m2, c, u) = Translate(m, c, u)
  /\ \A u : IsPage(u) =>
       Translate(m2, r, u) = IF v <= u /\ u < v + n THEN to + (u - v) ELSE Translate(m, r, u)

\* A round that maps a 2 MiB page: its page table, which the walk has made, is
\* freed first, and may become a table of c.
LEMMA LargeRound ==
  ASSUME NEW m, NEW g, NEW r, NEW c, r # c, Sound(m, g), Tree(m, g, r), Tree(m, g, c),
         Direct(m, c), NEW v, IsPage(v), PT_INDEX(v) = 0, Translate(m, r, v) = UINT64_MAX,
         NEW w, w = WalkTables(m, r, v), ~w.s.starved, ~FreePt(w, c).starved,
         NEW to \in Nat, to % PdSpan = 0, to % PAGE = 0, to < higher_half_offset
  PROVE  \E g2 : Maps(m, Put(FreePt(w, c), w.pd, PD_INDEX(v), Entry(to, TRUE)), g2, r, c, v, PdSpan, to)
<1>1. PICK g1 : /\ Sound(w.s, g1) /\ Tree(w.s, g1, r) /\ Grows(m, g, w.s, g1, r, {})
                /\ Reach2(g1, r, v, w.pd) /\ IsChild(g1, 1, r, w.pd, Idx(2, v), w.pt)
                /\ \A u : IsPage(u) /\ u # v => Translate(w.s, r, u) = Translate(m, r, u)
  BY RoundWalk
<1>2. Tree(w.s, g1, c) /\ \A u \in Nat : Translate(w.s, c, u) = Translate(m, c, u)
  BY <1>1, OtherRoot
<1>3. IsTable(g1, 1, r, w.pt) /\ IsTable(g1, 2, r, w.pd) /\ w.pt \in PhysPages /\ w.pd \in PhysPages
  BY <1>1, ReachTable, Kinds
<1>4. PICK I \in Indices : I = Idx(2, v)
  BY IdxType DEF IsPage
<1>5. PICK e : e = Entry(to, TRUE)
  OBVIOUS
<1>6. e \in EntryStates /\ e.present /\ e.larger /\ e.address = to
  BY <1>5, EntryIs
<1>7. PICK g2 : g2 = Drop(g1, w.pt)
  OBVIOUS
<1>8. /\ g2 \in Ghosts /\ NoTable(g2, w.pt)
      /\ \A l, q, t : IsTable(g2, l, q, t) <=> IsTable(g1, l, q, t) /\ t # w.pt
      /\ \A k, q, t, i, d : IsChild(g2, k, q, t, i, d) <=> IsChild(g1, k, q, t, i, d) /\ d # w.pt
  BY <1>1, <1>3, <1>7, DropIs DEF Sound
<1>9. Sound(w.s, g2)
  BY <1>1, <1>8 DEF Sound
<1>10. Tree(w.s, g2, c)
  <2>1. \A l, t : IsTable(g1, l, c, t) => t # w.pt
    BY <1>3, Kinds
  <2>2. \A l, t : IsTable(g2, l, c, t) <=> IsTable(g1, l, c, t)
    BY <1>8, <2>1
  <2>3. \A k, t, i, d : IsChild(g2, k, c, t, i, d) <=> IsChild(g1, k, c, t, i, d)
    BY <1>8, <2>1, Kinds
  <2>4. \A k, t, i, d : EntryOK(g1, k, c, t, i, d) => EntryOK(g2, k, c, t, i, d)
    BY <2>3 DEF EntryOK
  <2> QED BY <1>2, <2>2, <2>3, <2>4 DEF Tree
<1>11. /\ Translate(w.s, c, w.pt) = UINT64_MAX
       /\ Translate(w.s, c, pmm_phys_to_virt(w.pt)) = w.pt
       /\ IsPage(pmm_phys_to_virt(w.pt))
  BY <1>2, <1>3, PhysPageIs DEF Direct, IsPage
<1>12. FreePt(w, c) = FreePhys(w.s, c, w.pt)
  <2>1. vmm_virt_to_phys(w.s, c, pmm_phys_to_virt(w.pt)) = w.pt
    BY <1>9, <1>10, <1>11, VirtToPhys
  <2> QED BY <2>1 DEF FreePt, FreeTable, FreePage
<1>13. PICK m3 : m3 = FreePhys(w.s, c, w.pt)
  OBVIOUS
<1>14. PICK g3 : Frees(w.s, g2, m3, g3, c, w.pt)
  BY <1>3, <1>8, <1>9, <1>10, <1>11, <1>12, <1>13, FreeStep
<1>15. /\ Sound(m3, g3) /\ Tree(m3, g3, c) /\ Grows(w.s, g2, m3, g3, c, {w.pt})
       /\ \A u : IsPage(u) => Translate(m3, c, u) = Translate(w.s, c, u)
  BY <1>14 DEF Frees
<1>16. IsTable(g2, 2, r, w.pd) /\ IsTable(g3, 2, r, w.pd)
  <2>1. w.pd # w.pt
    <3>1. ~(1 = 2)
      OBVIOUS
    <3> QED BY <1>3, <3>1, Kinds
  <2>2. IsTable(g2, 2, r, w.pd)
    BY <1>3, <1>8, <2>1
  <2> QED BY <1>15, <2>2 DEF Grows, Extends
<1>17. PICK m2 : m2 = Put(w.s, w.pd, I, e)
  OBVIOUS
<1>18. PICK m4 : m4 = Put(m3, w.pd, I, e)
  OBVIOUS
<1>19. /\ m2.pmm = w.s.pmm /\ Ent(m2, w.pd, I) = e
       /\ \A t \in PhysPages, i \in Indices : ~(t = w.pd /\ i = I) => Ent(m2, t, i) = Ent(w.s, t, i)
  BY <1>1, <1>3, <1>6, <1>17, PutEntry DEF Sound
<1>20. /\ IsMachine(m4) /\ m4.pmm = m3.pmm /\ m4.starved = m3.starved /\ m4.mem \in Memories
       /\ Ent(m4, w.pd, I) = e
       /\ \A t \in PhysPages, i \in Indices : ~(t = w.pd /\ i = I) => Ent(m4, t, i) = Ent(m3, t, i)
  BY <1>3, <1>6, <1>15, <1>18, PutEntry DEF Sound
<1>21. Tree(m2, g2, r) /\ \A u : IsPage(u) =>
         Translate(m2, r, u) = IF InPd(u, v) THEN to + (u - v) ELSE Translate(w.s, r, u)
  <2>1. OnlyEntry(w.s, m2, g1, r, w.pd, I)
    BY <1>19, Kinds DEF OnlyEntry
  <2> QED BY <1>1, <1>4, <1>6, <1>7, <1>19, <2>1, LargeEntry
<1>22. Sound(m4, g3)
  BY <1>15, <1>20 DEF Sound
<1>23. Grows(m2, g2, m4, g3, c, {w.pt})
  <2>1. ASSUME NEW l, NEW q, NEW t, NEW i \in Indices, q # c, IsTable(g2, l, q, t)
        PROVE  Ent(m4, t, i) = Ent(m2, t, i)
    <3>1. Ent(m3, t, i) = Ent(w.s, t, i) /\ t \in PhysPages
      BY <1>15, <2>1, Kinds DEF Grows
    <3> QED BY <1>19, <1>20, <3>1
  <2> QED BY <1>15, <1>19, <1>20, <2>1 DEF Grows
<1>24. Tree(m4, g3, r) /\ \A u \in Nat : Translate(m4, r, u) = Translate(m2, r, u)
  BY <1>21, <1>23, OtherRoot
<1>25. Grows(m3, g3, m4, g3, r, {})
  <2>1. ASSUME NEW l, NEW q, NEW t, NEW i \in Indices, q # r, IsTable(g3, l, q, t)
        PROVE  Ent(m4, t, i) = Ent(m3, t, i)
    BY <1>16, <1>20, <2>1, Kinds
  <2> QED BY <1>20, <2>1 DEF Grows, Extends
<1>26. Tree(m4, g3, c) /\ \A u \in Nat : Translate(m4, c, u) = Translate(m3, c, u)
  BY <1>15, <1>25, OtherRoot
<1>27. ASSUME NEW u, IsPage(u)
       PROVE  Translate(m4, c, u) = Translate(m, c, u)
  BY <1>2, <1>15, <1>26, <1>27 DEF IsPage
<1>28. ASSUME NEW u, IsPage(u)
       PROVE  Translate(m4, r, u) = IF InPd(u, v) THEN to + (u - v) ELSE Translate(m, r, u)
  <2>1. Translate(m4, r, u) = IF InPd(u, v) THEN to + (u - v) ELSE Translate(w.s, r, u)
    BY <1>21, <1>24, <1>28 DEF IsPage
  <2>2. InPd(v, v)
    BY Spans DEF InPd, IsPage
  <2> QED BY <1>1, <1>28, <2>1, <2>2
<1>29. Maps(m, m4, g3, r, c, v, PdSpan, to)
  BY <1>22, <1>24, <1>26, <1>27, <1>28 DEF Maps, InPd
<1>30. m4 = Put(FreePt(w, c), w.pd, PD_INDEX(v), Entry(to, TRUE))
  <2>1. I = PD_INDEX(v)
    BY <1>4 DEF Idx
  <2> QED BY <1>5, <1>12, <1>13, <1>18, <2>1
<1> QED BY <1>29, <1>30

LEMMA PutStarves ==
  ASSUME NEW m, IsMachine(m), NEW t, NEW i, NEW e
  PROVE  IsMachine(Put(m, t, i, e)) /\ Put(m, t, i, e).starved = m.starved
BY DEF IsMachine, Put

LEMMA WalkTablesStarves ==
  ASSUME NEW m, IsMachine(m), NEW r, NEW v
  PROVE  LET w == WalkTables(m, r, v)
         IN  IsMachine(w.s) /\ (m.starved => w.s.starved)
<1>1. PICK p : p = ToPt(m, r, v)
  OBVIOUS
<1>2. WalkTables(m, r, v).s = Ensure(p.s, p.table, PT_INDEX(v))
  BY <1>1 DEF WalkTables, Down, Follow
<1>3. IsMachine(p.s) /\ (m.starved => p.s.starved)
  BY <1>1, ToPtStarves
<1> QED BY <1>2, <1>3, StaysStarved

\* What a round comes to, by the kind of page it maps.
LEMMA RoundIs ==
  ASSUME NEW w, IsMachine(w.s), NEW c, NEW v, NEW left, NEW to, NEW i
  PROVE  LET n == MapOne(w, c, v, left, to, i)
         IN  /\ IsMachine(n.s) /\ (w.s.starved => n.s.starved)
             /\ ~TakesPdpt(v, left) /\ TakesPd(v, left) =>
                  /\ n.s = Put(FreePt(w, c), w.pd, PD_INDEX(v), Entry(to, TRUE)) /\ n.i = i + ENTRIES
                  /\ n.s.starved = FreePt(w, c).starved
             /\ ~TakesPdpt(v, left) /\ ~TakesPd(v, left) =>
                  n.s = Put(w.s, w.pt, PT_INDEX(v), Entry(to, FALSE)) /\ n.i = i + 1
<1>1. IsMachine(FreePt(w, c)) /\ (w.s.starved => FreePt(w, c).starved)
  BY FreeStarves DEF FreePt, FreeTable, FreePage
<1>2. IsMachine(FreePtAndPd(w, c)) /\ (FreePt(w, c).starved => FreePtAndPd(w, c).starved)
  BY <1>1, FreeStarves DEF FreePtAndPd, FreeTable, FreePage
<1>3. PICK n : n = MapOne(w, c, v, left, to, i)
  OBVIOUS
<1>4. CASE TakesPdpt(v, left)
  <2>1. PICK e : e = Entry(to, TRUE)
    OBVIOUS
  <2>2. n.s = Put(FreePtAndPd(w, c), w.pdpt, PDPT_INDEX(v), e)
    BY <1>3, <1>4, <2>1 DEF MapOne, Put
  <2>3. IsMachine(n.s) /\ n.s.starved = FreePtAndPd(w, c).starved
    BY <1>2, <2>2, PutStarves
  <2> QED BY <1>1, <1>2, <1>3, <1>4, <2>3
<1>5. CASE ~TakesPdpt(v, left) /\ TakesPd(v, left)
  <2>1. PICK e : e = Entry(to, TRUE)
    OBVIOUS
  <2>2. n.s = Put(FreePt(w, c), w.pd, PD_INDEX(v), e) /\ n.i = i + ENTRIES
    BY <1>3, <1>5, <2>1 DEF MapOne, Put
  <2>3. IsMachine(n.s) /\ n.s.starved = FreePt(w, c).starved
    BY <1>1, <2>2, PutStarves
  <2> QED BY <1>1, <1>3, <1>5, <2>1, <2>2, <2>3
<1>6. CASE ~TakesPdpt(v, left) /\ ~TakesPd(v, left)
  <2>1. PICK e : e = Entry(to, FALSE)
    OBVIOUS
  <2>2. n.s = Put(w.s, w.pt, PT_INDEX(v), e) /\ n.i = i + 1
    BY <1>3, <1>6, <2>1 DEF MapOne, Put
  <2>3. IsMachine(n.s) /\ n.s.starved = w.s.starved
    BY <2>2, PutStarves
  <2> QED BY <1>3, <1>6, <2>1, <2>2, <2>3
<1> QED BY <1>4, <1>5, <1>6

\* A round maps j pages from v on, one or a whole page table of them.
LEMMA RoundStep ==
  ASSUME NEW m, NEW g, NEW r, NEW c, r # c, Sound(m, g), Tree(m, g, r), Tree(m, g, c),
         Direct(m, c), NEW v, IsPage(v), Translate(m, r, v) = UINT64_MAX,
         NEW to \in Nat, to % PAGE = 0, to < higher_half_offset, NEW left \in Int,
         ~TakesPdpt(v, left), TakesPd(v, left) => to % PdSpan = 0,
         NEW i \in Nat, NEW n, n = MapOne(WalkTables(m, r, v), c, v, left, to, i), ~n.s.starved
  PROVE  \E g2, j : /\ j \in Nat \ {0} /\ n.i = i + j /\ (j = 1 \/ j < left)
                    /\ Maps(m, n.s, g2, r, c, v, PAGE * j, to)
<1>1. PICK w : w = WalkTables(m, r, v)
  OBVIOUS
<1>2. IsMachine(w.s)
  BY <1>1, WalkTablesStarves DEF Sound
<1>3. n = MapOne(w, c, v, left, to, i)
  BY <1>1
<1>4. ~w.s.starved
  BY <1>2, <1>3, RoundIs
<1>5. CASE TakesPd(v, left)
  <2>1. /\ n.s = Put(FreePt(w, c), w.pd, PD_INDEX(v), Entry(to, TRUE)) /\ n.i = i + ENTRIES
        /\ n.s.starved = FreePt(w, c).starved
    <3>1. LET o == MapOne(w, c, v, left, to, i)
          IN  /\ o.s = Put(FreePt(w, c), w.pd, PD_INDEX(v), Entry(to, TRUE)) /\ o.i = i + ENTRIES
              /\ o.s.starved = FreePt(w, c).starved
      BY <1>2, <1>5, RoundIs
    <3> QED BY <1>3, <3>1
  <2>2. PT_INDEX(v) = 0 /\ ENTRIES < left
    BY <1>5, TableAssumption DEF TakesPd
  <2>3. ~FreePt(w, c).starved
    BY <2>1
  <2>4. \E g2 : Maps(m, Put(FreePt(w, c), w.pd, PD_INDEX(v), Entry(to, TRUE)), g2, r, c, v, PdSpan, to)
    BY <1>1, <1>4, <1>5, <2>2, <2>3, LargeRound
  <2>5. PICK g2 : Maps(m, n.s, g2, r, c, v, PAGE * ENTRIES, to)
    BY <2>1, <2>4 DEF PdSpan
  <2> QED BY <2>1, <2>2, <2>5, TableAssumption
<1>6. CASE ~TakesPd(v, left)
  <2>1. n.s = Put(w.s, w.pt, PT_INDEX(v), Entry(to, FALSE)) /\ n.i = i + 1
    <3>1. LET o == MapOne(w, c, v, left, to, i)
          IN  o.s = Put(w.s, w.pt, PT_INDEX(v), Entry(to, FALSE)) /\ o.i = i + 1
      BY <1>6 DEF MapOne, Put
    <3> QED BY <1>3, <3>1
  <2>2. \E g2 : Mapped(m, g, Put(w.s, w.pt, PT_INDEX(v), Entry(to, FALSE)), g2, r, v, to)
    BY <1>1, <1>4, LeafRound
  <2>3. PICK g2 : Mapped(m, g, n.s, g2, r, v, to)
    BY <2>1, <2>2
  <2>4. /\ Sound(n.s, g2) /\ Tree(n.s, g2, r) /\ Grows(m, g, n.s, g2, r, {})
        /\ \A u : IsPage(u) => Translate(n.s, r, u) = IF u = v THEN to ELSE Translate(m, r, u)
    BY <2>3 DEF Mapped
  <2>5. Tree(n.s, g2, c) /\ \A u \in Nat : Translate(n.s, c, u) = Translate(m, c, u)
    BY <2>4, OtherRoot
  <2>6. ASSUME NEW u, IsPage(u)
        PROVE  /\ v <= u /\ u < v + PAGE <=> u = v
               /\ u = v => to + (u - v) = to
    <3>1. u \in Nat /\ v \in Nat /\ PAGE \in Nat \ {0}
      BY <2>6, SizeAssumption DEF IsPage
    <3>2. v <= u /\ u < v + PAGE => u = v
      BY <2>6, NextPage
    <3> QED BY <3>1, <3>2
  <2>7. Maps(m, n.s, g2, r, c, v, PAGE, to)
    BY <2>4, <2>5, <2>6 DEF Maps, IsPage
  <2>8. PAGE * 1 = PAGE
    BY SizeAssumption
  <2>9. Maps(m, n.s, g2, r, c, v, PAGE * 1, to)
    BY <2>7, <2>8
  <2>10. PICK j \in Nat \ {0} : j = 1
    OBVIOUS
  <2>11. n.i = i + j /\ Maps(m, n.s, g2, r, c, v, PAGE * j, to)
    BY <2>1, <2>9, <2>10
  <2> QED BY <2>10, <2>11
<1> QED BY <1>5, <1>6

-----------------------------------------------------------------------------
\* The ranges memory_init maps: number k is the k-th area, or the kernel image.
First == Translate(BootMap, boot_cr3, kernel_start)

Ranges == 1 .. KernelCall

RangePhys(k) == IF k = KernelCall THEN First ELSE memmap_entries[k].base
RangeVirt(k) == IF k = KernelCall THEN kernel_start ELSE pmm_phys_to_virt(memmap_entries[k].base)
RangePages(k) == IF k = KernelCall THEN kernel_pages ELSE PagesIn(k)
RangeEnd(k) == RangeVirt(k) + (PAGE * RangePages(k))

LEMMA RangeKinds ==
  /\ KernelCall \in Nat \ {0} /\ Load = KernelCall + 1
  /\ \A k : k \in Ranges <=> k = KernelCall \/ k \in DOMAIN memmap_entries
  /\ KernelCall \notin DOMAIN memmap_entries
<1>1. Len(memmap_entries) \in Nat /\ DOMAIN memmap_entries = 1 .. Len(memmap_entries)
  BY MemmapAssumption
<1> QED BY <1>1 DEF KernelCall, Load, Ranges

LEMMA KernelIs ==
  /\ kernel_start \in Nat /\ kernel_start % PAGE = 0
  /\ kernel_pages \in Nat \ {0} /\ PAGE * kernel_pages \in Nat
  /\ First \in Nat /\ First % PAGE = 0
  /\ First + (PAGE * kernel_pages) <= higher_half_offset
  /\ kernel_start + (PAGE * kernel_pages) <= Top
  /\ \A k \in 0 .. kernel_pages - 1 :
       Translate(BootMap, boot_cr3, kernel_start + (PAGE * k)) = First + (PAGE * k)
  /\ kernel_pages > ENTRIES + 1 => First % PdSpan = kernel_start % PdSpan
<1>1. PAGE \in Nat \ {0} /\ kernel_size \in Nat \ {0}
  BY SizeAssumption, KernelAssumption
<1>2. /\ kernel_size \div PAGE \in Nat /\ kernel_size % PAGE \in 0 .. PAGE - 1
      /\ kernel_size = (PAGE * (kernel_size \div PAGE)) + (kernel_size % PAGE)
  BY <1>1, DivMod
<1>3. kernel_pages \in Nat \ {0}
  <2>1. kernel_size % PAGE = 0 => kernel_size \div PAGE # 0
    BY <1>1, <1>2
  <2> QED BY <1>2, <2>1 DEF kernel_pages
<1>4. PAGE * kernel_pages \in Nat
  BY <1>1, <1>3, Scale
<1> QED BY <1>3, <1>4, KernelAssumption DEF First

\* Every range is one of whole pages, below the end of the address space, and
\* its physical pages lie below the direct map.
LEMMA RangeIs ==
  ASSUME NEW k \in Ranges
  PROVE  /\ RangePhys(k) \in Nat /\ RangePhys(k) % PAGE = 0
         /\ RangeVirt(k) \in Nat /\ RangeVirt(k) % PAGE = 0
         /\ RangePages(k) \in Nat \ {0} /\ PAGE * RangePages(k) \in Nat
         /\ RangePhys(k) + (PAGE * RangePages(k)) <= higher_half_offset
         /\ RangeEnd(k) \in Nat /\ RangeEnd(k) <= Top
<1>1. CASE k = KernelCall
  BY <1>1, KernelIs DEF RangePhys, RangeVirt, RangePages, RangeEnd
<1>2. CASE k # KernelCall
  <2>1. k \in DOMAIN memmap_entries
    BY <1>2, RangeKinds
  <2>2. RangePhys(k) = memmap_entries[k].base /\ RangePages(k) = PagesIn(k)
        /\ RangeVirt(k) = memmap_entries[k].base + higher_half_offset
    BY <1>2 DEF RangePhys, RangePages, RangeVirt, pmm_phys_to_virt
  <2>3. /\ memmap_entries[k].base \in Nat /\ memmap_entries[k].length \in Nat
        /\ PagesIn(k) \in Nat \ {0}
        /\ memmap_entries[k].length = PAGE * PagesIn(k)
        /\ memmap_entries[k].base % PAGE = 0
    BY <2>1, AreaType
  <2>4. memmap_entries[k].base + memmap_entries[k].length <= higher_half_offset
    BY <2>1, AreaAssumption
  <2>5. memmap_entries[k].base + memmap_entries[k].length + higher_half_offset <= kernel_start
    BY <2>1, KernelAssumption DEF pmm_phys_to_virt
  <2>6. kernel_start \in Nat /\ kernel_start <= Top /\ Top \in Nat /\ higher_half_offset \in Nat
    BY KernelIs, SpaceOrder
  <2>7. PICK q \in Nat : higher_half_offset = PAGE * q
    BY OffsetAligned
  <2>8. (memmap_entries[k].base + (PAGE * q)) % PAGE = 0
    BY <2>3, Aligned
  <2>9. RangeEnd(k) = memmap_entries[k].base + higher_half_offset + memmap_entries[k].length
    BY <2>2, <2>3, <2>6 DEF RangeEnd
  <2>10. RangeVirt(k) % PAGE = 0
    BY <2>2, <2>7, <2>8
  <2>11. RangeEnd(k) \in Nat /\ RangeEnd(k) <= Top
    BY <2>3, <2>5, <2>6, <2>9
  <2> QED BY <2>2, <2>3, <2>4, <2>6, <2>10, <2>11
<1> QED BY <1>1, <1>2

\* The ranges are in address order.
LEMMA RangeOrder ==
  ASSUME NEW k \in Ranges, NEW n \in Ranges, k < n
  PROVE  RangeEnd(k) <= RangeVirt(n)
<1>1. k # KernelCall /\ k \in DOMAIN memmap_entries
  BY RangeKinds DEF Ranges
<1>2. /\ memmap_entries[k].base \in Nat /\ memmap_entries[k].length \in Nat
      /\ memmap_entries[k].length = PAGE * PagesIn(k)
  BY <1>1, AreaType
<1>3. RangeEnd(k) = memmap_entries[k].base + memmap_entries[k].length + higher_half_offset
  BY <1>1, <1>2, SpaceOrder DEF RangeEnd, RangeVirt, RangePages, pmm_phys_to_virt
<1>4. CASE n = KernelCall
  BY <1>1, <1>3, <1>4, KernelAssumption DEF RangeVirt, pmm_phys_to_virt
<1>5. CASE n # KernelCall
  <2>1. n \in DOMAIN memmap_entries
    BY <1>5, RangeKinds
  <2>2. memmap_entries[k].base + memmap_entries[k].length <= memmap_entries[n].base
    BY <1>1, <2>1, AreaAssumption
  <2>3. memmap_entries[n].base \in Nat /\ higher_half_offset \in Nat
    BY <2>1, AreaType, SpaceOrder
  <2>4. RangeVirt(n) = memmap_entries[n].base + higher_half_offset
    BY <1>5 DEF RangeVirt, pmm_phys_to_virt
  <2> QED BY <1>2, <1>3, <2>2, <2>3, <2>4
<1> QED BY <1>4, <1>5

\* Page i of range k: the address it goes to is aligned if it is the first of a
\* 2 MiB page.
LEMMA RangeLarge ==
  ASSUME NEW k \in Ranges, NEW i \in 0 .. RangePages(k) - 1,
         TakesPd(RangeVirt(k) + (PAGE * i), RangePages(k) - 1 - i)
  PROVE  (RangePhys(k) + (PAGE * i)) % PdSpan = 0
<1>1. /\ RangePhys(k) \in Nat /\ RangeVirt(k) \in Nat /\ RangeVirt(k) % PAGE = 0
      /\ RangePages(k) \in Nat /\ RangeEnd(k) <= Top /\ RangeEnd(k) \in Nat
  BY RangeIs
<1>2. PAGE \in Nat \ {0} /\ ENTRIES \in Nat \ {0} /\ PdSpan \in Nat \ {0} /\ i \in Nat
  BY <1>1, SizeAssumption, TableAssumption, Spans
<1>3. PICK x \in Nat : x = PAGE * i
  BY <1>2, Scale
<1>4. PT_INDEX(RangeVirt(k) + x) = 0 /\ RangePages(k) > ENTRIES + 1
  BY <1>1, <1>2, <1>3 DEF TakesPd
<1>5. (RangeVirt(k) + x) % PAGE = 0
  BY <1>1, <1>2, <1>3, Aligned
<1>6. (RangeVirt(k) + x) % PdSpan = 0
  <2>1. RangeVirt(k) + x \in Nat
    BY <1>1
  <2>2. (RangeVirt(k) + x) % PdSpan = (PAGE * PT_INDEX(RangeVirt(k) + x)) + ((RangeVirt(k) + x) % PAGE)
    BY <2>1, OffsetInPd
  <2> QED BY <1>2, <1>4, <1>5, <2>2
<1>7. RangePhys(k) % PdSpan = RangeVirt(k) % PdSpan
  <2>1. CASE k = KernelCall
    BY <1>4, <2>1, KernelIs DEF RangePhys, RangeVirt, RangePages
  <2>2. CASE k # KernelCall
    <3>1. RangeVirt(k) = RangePhys(k) + higher_half_offset
      BY <2>2 DEF RangeVirt, RangePhys, pmm_phys_to_virt
    <3>2. higher_half_offset % PdSpan = 0 /\ higher_half_offset \in Nat
      BY AreaAssumption, SpaceOrder
    <3>3. PICK q \in Nat : higher_half_offset = PdSpan * q
      BY <1>2, <3>2, MultipleOf
    <3>4. (RangePhys(k) + (PdSpan * q)) % PdSpan = RangePhys(k) % PdSpan
      BY <1>1, <1>2, AddMultiple
    <3> QED BY <3>1, <3>3, <3>4
  <2> QED BY <2>1, <2>2
<1>8. (RangePhys(k) + x) % PdSpan = 0
  BY <1>1, <1>2, <1>3, <1>6, <1>7, AddSame
<1> QED BY <1>3, <1>8

\* No page of a range takes a 1 GiB page.
LEMMA RangeSmall ==
  ASSUME NoHugePages, NEW k \in Ranges, NEW i \in 0 .. RangePages(k) - 1
  PROVE  ~TakesPdpt(RangeVirt(k) + (PAGE * i), RangePages(k) - 1 - i)
<1>1. CASE k = KernelCall
  BY <1>1 DEF NoHugePages, RangeVirt, RangePages
<1>2. CASE k # KernelCall
  <2>1. k \in DOMAIN memmap_entries /\ RangePages(k) = PagesIn(k)
        /\ RangeVirt(k) = pmm_phys_to_virt(memmap_entries[k].base)
    BY <1>2, RangeKinds DEF RangeVirt, RangePages
  <2>2. memmap_entries[k].base \in Nat /\ higher_half_offset \in Nat /\ PAGE * i \in Nat
    BY <2>1, AreaType, SpaceOrder, SizeAssumption, Scale
  <2>3. pmm_phys_to_virt(memmap_entries[k].base + (PAGE * i)) = RangeVirt(k) + (PAGE * i)
    BY <2>1, <2>2 DEF pmm_phys_to_virt
  <2>4. ~TakesPdpt(pmm_phys_to_virt(memmap_entries[k].base + (PAGE * i)), PagesIn(k) - 1 - i)
    BY <2>1 DEF NoHugePages
  <2> QED BY <2>1, <2>3, <2>4
<1> QED BY <1>1, <1>2

\* The addresses the new map is for, and where each leads.
InRange(k, v) == k \in Ranges /\ RangeVirt(k) <= v /\ v < RangeEnd(k)

Wanted(v) == \E k : InRange(k, v)

Goal(v) == IF v < kernel_start THEN v - higher_half_offset ELSE First + (v - kernel_start)

LEMMA GoalIs ==
  ASSUME NEW k, NEW v \in Nat, InRange(k, v)
  PROVE  /\ Goal(v) = RangePhys(k) + (v - RangeVirt(k))
         /\ Goal(v) \in Nat /\ Goal(v) < higher_half_offset
<1>1. k \in Ranges /\ RangeVirt(k) <= v /\ v < RangeVirt(k) + (PAGE * RangePages(k))
  BY DEF InRange, RangeEnd
<1>2. /\ RangePhys(k) \in Nat /\ RangeVirt(k) \in Nat /\ PAGE * RangePages(k) \in Nat
      /\ RangePhys(k) + (PAGE * RangePages(k)) <= higher_half_offset
      /\ higher_half_offset \in Nat
  BY <1>1, RangeIs, SpaceOrder
<1>3. Goal(v) = RangePhys(k) + (v - RangeVirt(k))
  <2>1. CASE k = KernelCall
    <3>1. RangePhys(k) = First /\ RangeVirt(k) = kernel_start
      BY <2>1 DEF RangePhys, RangeVirt
    <3>2. ~(v < kernel_start)
      BY <1>1, <1>2, <3>1
    <3> QED BY <3>1, <3>2 DEF Goal
  <2>2. CASE k # KernelCall
    <3>1. RangeVirt(k) = RangePhys(k) + higher_half_offset
      BY <2>2 DEF RangeVirt, RangePhys, pmm_phys_to_virt
    <3>2. KernelCall \in Ranges /\ k < KernelCall
      BY <1>1, <2>2, RangeKinds DEF Ranges
    <3>3. RangeEnd(k) <= kernel_start /\ kernel_start \in Nat
      BY <1>1, <3>2, RangeOrder, KernelIs DEF RangeVirt
    <3>4. v < kernel_start
      BY <1>1, <1>2, <3>3 DEF RangeEnd
    <3> QED BY <1>2, <3>1, <3>4 DEF Goal
  <2> QED BY <2>1, <2>2
<1>4. PICK x : x = PAGE * RangePages(k)
  OBVIOUS
<1> QED BY <1>1, <1>2, <1>3, <1>4

\* The map of r has the wanted addresses below f, and no others.
Built(m, r, f) ==
  \A v : IsPage(v) => Translate(m, r, v) = IF Wanted(v) /\ v < f THEN Goal(v) ELSE UINT64_MAX

\* b is the call for range k, under way or returned.
CallIs(k, b) ==
  /\ b = [phys |-> RangePhys(k), virt |-> RangeVirt(k), num_pages |-> RangePages(k), i |-> b.i]
  /\ b.i \in 0 .. RangePages(k)

LEMMA CallFields ==
  ASSUME NEW k \in Ranges, NEW b, CallIs(k, b)
  PROVE  /\ b.phys = RangePhys(k) /\ b.virt = RangeVirt(k) /\ b.num_pages = RangePages(k)
         /\ b.i \in Nat /\ b.i <= RangePages(k)
         /\ VirtAt(b) = RangeVirt(k) + (PAGE * b.i) /\ VirtAt(b) \in Nat /\ VirtAt(b) % PAGE = 0
         /\ Returned(b) <=> b.i = RangePages(k)
         /\ ~Returned(b) => InRange(k, VirtAt(b)) /\ IsPage(VirtAt(b))
         /\ Returned(b) => VirtAt(b) = RangeEnd(k)
<1>1. /\ b.phys = RangePhys(k) /\ b.virt = RangeVirt(k) /\ b.num_pages = RangePages(k)
      /\ b.i \in 0 .. RangePages(k)
  BY DEF CallIs
<1>2. /\ RangeVirt(k) \in Nat /\ RangeVirt(k) % PAGE = 0 /\ RangePages(k) \in Nat \ {0}
      /\ PAGE * RangePages(k) \in Nat /\ RangeEnd(k) \in Nat /\ RangeEnd(k) <= Top /\ Top \in Nat
  BY RangeIs, SpaceOrder
<1>3. b.i \in Nat /\ b.i <= RangePages(k) /\ PAGE \in Nat \ {0}
  BY <1>1, <1>2, SizeAssumption
<1>4. VirtAt(b) = RangeVirt(k) + (PAGE * b.i)
  BY <1>1 DEF VirtAt
<1>5. VirtAt(b) \in Nat /\ VirtAt(b) % PAGE = 0
  <2>1. RangeVirt(k) + (PAGE * b.i) \in Nat /\ (RangeVirt(k) + (PAGE * b.i)) % PAGE = 0
    BY <1>2, <1>3, Aligned
  <2> QED BY <1>4, <2>1
<1>6. PAGE * b.i \in Nat /\ (b.i < RangePages(k) => PAGE * b.i < PAGE * RangePages(k))
  BY <1>2, <1>3, Scale
<1>7. PICK x \in Nat, y \in Nat : x = PAGE * b.i /\ y = PAGE * RangePages(k)
  BY <1>2, <1>6
<1>8. b.i < RangePages(k) => VirtAt(b) < RangeEnd(k) /\ RangeVirt(k) <= VirtAt(b)
  BY <1>2, <1>4, <1>6, <1>7 DEF RangeEnd
<1>9. b.i < RangePages(k) => VirtAt(b) < Top
  BY <1>2, <1>5, <1>8
<1>10. Returned(b) <=> b.i = RangePages(k)
  <2>1. Returned(b) <=> b.i >= RangePages(k) \/ VirtAt(b) >= Top
    BY <1>1 DEF Returned
  <2> QED BY <1>2, <1>3, <1>5, <1>9, <2>1
<1>11. ~Returned(b) => InRange(k, VirtAt(b)) /\ IsPage(VirtAt(b))
  <2>1. ~Returned(b) => b.i < RangePages(k)
    BY <1>2, <1>3, <1>10
  <2> QED BY <1>5, <1>8, <1>9, <2>1 DEF InRange, IsPage
<1>12. Returned(b) => VirtAt(b) = RangeEnd(k)
  BY <1>4, <1>10 DEF RangeEnd
<1> QED BY <1>1, <1>3, <1>4, <1>5, <1>10, <1>11, <1>12

LEMMA BeforeRange ==
  ASSUME NEW n \in Ranges, NEW f \in Nat, n = 1 => f = 0, n # 1 => f = RangeEnd(n - 1)
  PROVE  f <= RangeVirt(n)
<1>1. RangeVirt(n) \in Nat /\ n \in Nat /\ n >= 1
  BY RangeIs, RangeKinds DEF Ranges
<1>2. CASE n = 1
  BY <1>1, <1>2
<1>3. CASE n # 1
  <2>1. n - 1 \in Ranges /\ n - 1 < n
    BY <1>1, <1>3, RangeKinds DEF Ranges
  <2> QED BY <1>3, <2>1, RangeOrder
<1> QED BY <1>2, <1>3

\* Between two ranges nothing is wanted, so that the next call may begin.
LEMMA NextRange ==
  ASSUME NEW n \in Ranges, NEW f \in Nat, n = 1 => f = 0, n # 1 => f = RangeEnd(n - 1),
         NEW m, NEW r, Built(m, r, f)
  PROVE  Built(m, r, RangeVirt(n))
<1>1. ASSUME NEW v \in Nat, Wanted(v)
      PROVE  v < f <=> v < RangeVirt(n)
  <2>1. PICK k : InRange(k, v)
    BY <1>1 DEF Wanted
  <2>2. k \in Ranges /\ RangeVirt(k) <= v /\ v < RangeEnd(k)
    BY <2>1 DEF InRange
  <2>3. /\ RangeVirt(n) \in Nat /\ RangeVirt(k) \in Nat /\ RangeEnd(k) \in Nat /\ RangeEnd(n) \in Nat
        /\ RangeVirt(n) <= RangeEnd(n)
    BY <2>2, RangeIs DEF RangeEnd
  <2>4. k \in Nat /\ n \in Nat /\ k >= 1 /\ n >= 1
    BY <2>2, RangeKinds DEF Ranges
  <2>5. CASE k >= n
    <3>1. RangeVirt(n) <= RangeVirt(k)
      <4>1. CASE k = n
        BY <2>3, <4>1
      <4>2. CASE n < k
        <5>1. RangeEnd(n) <= RangeVirt(k)
          BY <2>2, <4>2, RangeOrder
        <5> QED BY <2>3, <5>1
      <4> QED BY <2>4, <2>5, <4>1, <4>2
    <3>2. f <= RangeVirt(n)
      BY <2>3, BeforeRange
    <3> QED BY <2>2, <2>3, <3>1, <3>2
  <2>6. CASE k < n
    <3>1. n - 1 \in Ranges /\ n # 1
      BY <2>4, <2>6, RangeKinds DEF Ranges
    <3>2. RangeVirt(n - 1) \in Nat /\ RangeEnd(n - 1) \in Nat /\ RangeVirt(n - 1) <= RangeEnd(n - 1)
      BY <3>1, RangeIs DEF RangeEnd
    <3>3. RangeEnd(k) <= f
      <4>1. CASE k = n - 1
        BY <2>3, <3>1, <4>1
      <4>2. CASE k < n - 1
        <5>1. RangeEnd(k) <= RangeVirt(n - 1)
          BY <2>2, <3>1, <4>2, RangeOrder
        <5> QED BY <2>3, <3>1, <3>2, <5>1
      <4> QED BY <2>4, <2>6, <4>1, <4>2
    <3>4. RangeEnd(k) <= RangeVirt(n)
      BY <2>2, <2>6, RangeOrder
    <3> QED BY <2>2, <2>3, <3>3, <3>4
  <2> QED BY <2>4, <2>5, <2>6
<1>2. ASSUME NEW v, IsPage(v)
      PROVE  Translate(m, r, v) = IF Wanted(v) /\ v < RangeVirt(n) THEN Goal(v) ELSE UINT64_MAX
  BY <1>1, <1>2 DEF Built, IsPage
<1> QED BY <1>2 DEF Built

\* After the last range, all that is wanted is there.
LEMMA LastRange ==
  ASSUME NEW v \in Nat, Wanted(v)
  PROVE  v < RangeEnd(KernelCall)
<1>1. PICK k : InRange(k, v)
  BY DEF Wanted
<1>2. k \in Ranges /\ v < RangeEnd(k)
  BY <1>1 DEF InRange
<1>3. KernelCall \in Ranges /\ (k = KernelCall \/ k < KernelCall)
  BY <1>2, RangeKinds DEF Ranges
<1>4. /\ RangeEnd(k) \in Nat /\ RangeEnd(KernelCall) \in Nat /\ RangeVirt(KernelCall) \in Nat
      /\ RangeVirt(KernelCall) <= RangeEnd(KernelCall)
  BY <1>2, <1>3, RangeIs DEF RangeEnd
<1>5. CASE k = KernelCall
  BY <1>2, <1>5
<1>6. CASE k < KernelCall
  <2>1. RangeEnd(k) <= RangeVirt(KernelCall)
    BY <1>2, <1>3, <1>6, RangeOrder
  <2> QED BY <1>2, <1>4, <2>1
<1> QED BY <1>3, <1>5, <1>6

\* A round moves the frontier by the pages it maps.
LEMMA RoundBuilds ==
  ASSUME NEW k \in Ranges, NEW b, CallIs(k, b), ~Returned(b), NEW m, NEW r, Built(m, r, VirtAt(b)),
         NEW j \in Nat \ {0}, b.i + j <= RangePages(k),
         NEW m2, NEW g2, NEW c,
         Maps(m, m2, g2, r, c, VirtAt(b), PAGE * j, RangePhys(k) + (PAGE * b.i)),
         NEW b2, b2 = [b EXCEPT !.i = b.i + j]
  PROVE  CallIs(k, b2) /\ Built(m2, r, VirtAt(b2))
<1>1. PICK i \in Nat : i = b.i /\ i < RangePages(k) /\ RangePages(k) \in Nat
  BY CallFields, RangeIs
<1>2. CallIs(k, b2) /\ b2.i = i + j
  <2>1. b = [phys |-> RangePhys(k), virt |-> RangeVirt(k), num_pages |-> RangePages(k), i |-> b.i]
    BY DEF CallIs
  <2>2. /\ b2 = [phys |-> RangePhys(k), virt |-> RangeVirt(k), num_pages |-> RangePages(k), i |-> i + j]
        /\ b2.i = i + j
    BY <1>1, <2>1
  <2>3. i + j \in 0 .. RangePages(k)
    BY <1>1
  <2> QED BY <2>2, <2>3 DEF CallIs
<1>3. PICK v \in Nat : v = VirtAt(b) /\ v = RangeVirt(k) + (PAGE * i)
  BY <1>1, CallFields
<1>4. PICK f \in Nat : f = VirtAt(b2) /\ f = RangeVirt(k) + (PAGE * (i + j))
  BY <1>2, CallFields
<1>5. PAGE \in Nat \ {0} /\ RangeVirt(k) \in Nat /\ RangePhys(k) \in Nat
  BY SizeAssumption, RangeIs
<1>6. f = v + (PAGE * j) /\ PAGE * i \in Nat /\ PAGE * j \in Nat
  BY <1>1, <1>3, <1>4, <1>5
<1>7. RangeVirt(k) <= v /\ f <= RangeEnd(k) /\ RangeEnd(k) \in Nat
  <2>1. PAGE * (i + j) <= PAGE * RangePages(k)
    <3>1. i + j < RangePages(k) \/ i + j = RangePages(k)
      BY <1>1
    <3>2. i + j < RangePages(k) => PAGE * (i + j) < PAGE * RangePages(k)
      <4>1. PICK x \in Nat : x = i + j
        BY <1>1
      <4>2. x < RangePages(k) => PAGE * x < PAGE * RangePages(k)
        BY <1>1, <1>5, Scale
      <4> QED BY <4>1, <4>2
    <3>3. PAGE * (i + j) \in Nat /\ PAGE * RangePages(k) \in Nat
      BY <1>1, <1>5, Scale
    <3> QED BY <3>1, <3>2, <3>3
  <2>2. PICK x \in Nat, y \in Nat : x = PAGE * (i + j) /\ y = PAGE * RangePages(k)
    BY <1>1, <1>5, Scale
  <2> QED BY <1>3, <1>4, <1>5, <1>6, <2>1, <2>2 DEF RangeEnd
<1>8. PICK to \in Nat : to = RangePhys(k) + (PAGE * b.i) /\ to = RangePhys(k) + (PAGE * i)
  BY <1>1, <1>5, <1>6
<1>9. \A u : IsPage(u) =>
        Translate(m2, r, u) = IF v <= u /\ u < v + (PAGE * j) THEN to + (u - v) ELSE Translate(m, r, u)
  BY <1>3, <1>8 DEF Maps
<1>10. ASSUME NEW u, IsPage(u)
       PROVE  Translate(m2, r, u) = IF Wanted(u) /\ u < f THEN Goal(u) ELSE UINT64_MAX
  <2>1. u \in Nat
    BY <1>10 DEF IsPage
  <2>2. Translate(m, r, u) = IF Wanted(u) /\ u < v THEN Goal(u) ELSE UINT64_MAX
    BY <1>3, <1>10 DEF Built
  <2>3. CASE v <= u /\ u < f
    <3>1. InRange(k, u)
      BY <1>5, <1>7, <2>1, <2>3 DEF InRange
    <3>2. Wanted(u) /\ Goal(u) = RangePhys(k) + (u - RangeVirt(k))
      BY <2>1, <3>1, GoalIs DEF Wanted
    <3>3. to + (u - v) = RangePhys(k) + (u - RangeVirt(k))
      <4>1. PICK x \in Nat : x = PAGE * i
        BY <1>6
      <4> QED BY <1>3, <1>5, <1>8, <2>1, <4>1
    <3> QED BY <1>6, <1>9, <1>10, <2>3, <3>2, <3>3
  <2>4. CASE ~(v <= u /\ u < f)
    <3>1. Translate(m2, r, u) = Translate(m, r, u)
      BY <1>6, <1>9, <1>10, <2>4
    <3>2. u < f <=> u < v
      <4>1. v <= f
        BY <1>6
      <4> QED BY <2>1, <2>4, <4>1
    <3> QED BY <2>2, <3>1, <3>2
  <2> QED BY <2>3, <2>4
<1> QED BY <1>2, <1>4, <1>10 DEF Built

-----------------------------------------------------------------------------
\* The bootloader's tables as a tree

\* Entry i of table t of the bootloader's tree leads to table c.
Linked(t, i, c) == t \in Inner(BootMap, boot_cr3) /\ i \in Indices /\ Leads(boot_mem[t][i], c)

BootLevel(l) ==
  IF l = 4 THEN {boot_cr3}
  ELSE IF l = 3 THEN Pdpts(BootMap, boot_cr3)
  ELSE IF l = 2 THEN Pds(BootMap, boot_cr3) ELSE Pts(BootMap, boot_cr3)

LEMMA LinksAre ==
  ASSUME NEW S, NEW m
  PROVE  /\ \A t \in S, i \in Indices :
              m.mem[t][i].present /\ ~m.mem[t][i].larger =>
                <<t, i>> \in Links(m, S) /\ Target(m, <<t, i>>) = m.mem[t][i].address
         /\ \A x \in Links(m, S) :
              \E t \in S, i \in Indices :
                x = <<t, i>> /\ Leads(m.mem[t][i], Target(m, x))
         /\ \A c : c \in Targets(m, S) <=> \E t \in S, i \in Indices : Leads(m.mem[t][i], c)
<1>1. ASSUME NEW t \in S, NEW i \in Indices, m.mem[t][i].present, ~m.mem[t][i].larger
      PROVE  <<t, i>> \in Links(m, S) /\ Target(m, <<t, i>>) = m.mem[t][i].address
  BY <1>1 DEF Links, Target
<1>2. ASSUME NEW x \in Links(m, S)
      PROVE  \E t \in S, i \in Indices : x = <<t, i>> /\ Leads(m.mem[t][i], Target(m, x))
  <2>1. x \in S \X Indices /\ m.mem[x[1]][x[2]].present /\ ~m.mem[x[1]][x[2]].larger
    BY DEF Links
  <2>2. PICK t \in S, i \in Indices : x = <<t, i>>
    BY <2>1
  <2>3. x[1] = t /\ x[2] = i
    BY <2>2
  <2> QED BY <2>1, <2>2, <2>3 DEF Leads, Target
<1>3. ASSUME NEW c \in Targets(m, S)
      PROVE  \E t \in S, i \in Indices : Leads(m.mem[t][i], c)
  <2>1. PICK x \in Links(m, S) : c = Target(m, x)
    BY DEF Targets
  <2> QED BY <1>2, <2>1
<1>4. ASSUME NEW c, NEW t \in S, NEW i \in Indices, Leads(m.mem[t][i], c)
      PROVE  c \in Targets(m, S)
  <2>1. <<t, i>> \in Links(m, S) /\ Target(m, <<t, i>>) = c
    BY <1>1, <1>4 DEF Leads
  <2> QED BY <2>1 DEF Targets
<1> QED BY <1>1, <1>2, <1>3, <1>4

LEMMA BootLevels ==
  /\ \A k, l : Below(k, l) => BootLevel(l) \subseteq Inner(BootMap, boot_cr3)
  /\ \A k, l : Below(k, l) => BootLevel(k) = Targets(BootMap, BootLevel(l))
  /\ \A l : BootLevel(l) \subseteq DOMAIN boot_mem
<1>1. ASSUME NEW k, NEW l, Below(k, l)
      PROVE  (l = 4 /\ k = 3) \/ (l = 3 /\ k = 2) \/ (l = 2 /\ k = 1)
  BY <1>1 DEF Below
<1>2. \A k, l : Below(k, l) => BootLevel(l) \subseteq Inner(BootMap, boot_cr3)
  BY <1>1 DEF BootLevel, Inner
<1>3. /\ BootLevel(4) = {boot_cr3} /\ BootLevel(3) = Targets(BootMap, {boot_cr3})
      /\ BootLevel(2) = Targets(BootMap, Pdpts(BootMap, boot_cr3))
      /\ BootLevel(1) = Targets(BootMap, Pds(BootMap, boot_cr3))
      /\ BootLevel(3) = Pdpts(BootMap, boot_cr3) /\ BootLevel(2) = Pds(BootMap, boot_cr3)
  BY DEF BootLevel, Pdpts, Pds, Pts
<1>4. \A k, l : Below(k, l) => BootLevel(k) = Targets(BootMap, BootLevel(l))
  BY <1>1, <1>3
<1>5. \A l : BootLevel(l) \subseteq Tables(BootMap, boot_cr3)
  BY DEF BootLevel, Tables, Inner
<1> QED BY <1>2, <1>4, <1>5, BootMapAssumption

LEMMA BootLinks ==
  /\ \A k, l, t, i, c : Below(k, l) /\ t \in BootLevel(l) /\ Linked(t, i, c) => c \in BootLevel(k)
  /\ \A k, l, c : Below(k, l) /\ c \in BootLevel(k) => \E t, i : t \in BootLevel(l) /\ Linked(t, i, c)
  /\ \A t, i, u, j, c : Linked(t, i, c) /\ Linked(u, j, c) => t = u /\ i = j
  /\ \A t, i : ~Linked(t, i, boot_cr3)
<1>1. BootMap.mem = boot_mem
  BY DEF BootMap
<1>2. ASSUME NEW k, NEW l, NEW t, NEW i, NEW c, Below(k, l), t \in BootLevel(l), Linked(t, i, c)
      PROVE  c \in BootLevel(k)
  <2>1. BootLevel(k) = Targets(BootMap, BootLevel(l))
    BY <1>2, BootLevels
  <2>2. i \in Indices /\ Leads(BootMap.mem[t][i], c)
    BY <1>1, <1>2 DEF Linked
  <2> QED BY <1>2, <2>1, <2>2, LinksAre
<1>3. ASSUME NEW k, NEW l, NEW c, Below(k, l), c \in BootLevel(k)
      PROVE  \E t, i : t \in BootLevel(l) /\ Linked(t, i, c)
  <2>1. BootLevel(k) = Targets(BootMap, BootLevel(l))
    BY <1>3, BootLevels
  <2>2. PICK t \in BootLevel(l), i \in Indices : Leads(BootMap.mem[t][i], c)
    BY <1>3, <2>1, LinksAre
  <2>3. t \in Inner(BootMap, boot_cr3)
    BY <1>3, BootLevels
  <2> QED BY <1>1, <2>2, <2>3 DEF Linked
<1> DEFINE N == Inner(BootMap, boot_cr3)
<1>4. ASSUME NEW t, NEW i, NEW c, Linked(t, i, c)
      PROVE  <<t, i>> \in Links(BootMap, N) /\ Target(BootMap, <<t, i>>) = c /\ c \in Targets(BootMap, N)
  <2>1. t \in N /\ i \in Indices /\ Leads(BootMap.mem[t][i], c)
    BY <1>1, <1>4 DEF Linked
  <2> HIDE DEF N
  <2>2. BootMap.mem[t][i].present /\ ~BootMap.mem[t][i].larger /\ BootMap.mem[t][i].address = c
    BY <2>1 DEF Leads
  <2> QED BY <2>1, <2>2, LinksAre
<1>5. /\ boot_cr3 \notin Targets(BootMap, N)
      /\ \A x, y \in Links(BootMap, N) : Target(BootMap, x) = Target(BootMap, y) => x = y
  BY BootMapAssumption DEF IsTree
<1> HIDE DEF N
<1>6. ASSUME NEW t, NEW i, NEW u, NEW j, NEW c, Linked(t, i, c), Linked(u, j, c)
      PROVE  t = u /\ i = j
  <2>1. PICK x : x = <<t, i>>
    OBVIOUS
  <2>2. PICK y : y = <<u, j>>
    OBVIOUS
  <2>3. x \in Links(BootMap, N) /\ Target(BootMap, x) = c
    BY <1>4, <1>6, <2>1
  <2>4. y \in Links(BootMap, N) /\ Target(BootMap, y) = c
    BY <1>4, <1>6, <2>2
  <2>5. x = y
    BY <1>5, <2>3, <2>4
  <2> QED BY <2>1, <2>2, <2>5
<1>7. \A t, i : ~Linked(t, i, boot_cr3)
  BY <1>4, <1>5
<1> QED BY <1>2, <1>3, <1>6, <1>7

\* No table is of two levels.
LEMMA BootDisjoint ==
  ASSUME NEW t, NEW l \in 1 .. 4, NEW h \in 1 .. 4, t \in BootLevel(l), t \in BootLevel(h)
  PROVE  l = h
<1>1. Below(1, 2) /\ Below(2, 3) /\ Below(3, 4)
  BY LevelsBelow
<1>2. BootLevel(4) = {boot_cr3}
  BY DEF BootLevel
<1>3. ASSUME NEW c, NEW k, NEW j, Below(k, j), c \in BootLevel(k)
      PROVE  c \notin BootLevel(4)
  BY <1>2, <1>3, BootLinks
<1>4. ASSUME NEW c, NEW k, NEW j, NEW p, NEW q, Below(k, j), Below(p, q),
             c \in BootLevel(k), c \in BootLevel(p)
      PROVE  \E u : u \in BootLevel(j) /\ u \in BootLevel(q)
  <2>1. PICK u, i : u \in BootLevel(j) /\ Linked(u, i, c)
    BY <1>4, BootLinks
  <2>2. PICK w, n : w \in BootLevel(q) /\ Linked(w, n, c)
    BY <1>4, BootLinks
  <2>3. u = w
    BY <2>1, <2>2, BootLinks
  <2> QED BY <2>1, <2>2, <2>3
<1>5. \A c : ~(c \in BootLevel(3) /\ c \in BootLevel(2))
  BY <1>1, <1>3, <1>4
<1>6. \A c : ~(c \in BootLevel(3) /\ c \in BootLevel(1))
  BY <1>1, <1>3, <1>4
<1>7. \A c : ~(c \in BootLevel(2) /\ c \in BootLevel(1))
  BY <1>1, <1>4, <1>5
<1>8. (l = 1 \/ l = 2 \/ l = 3 \/ l = 4) /\ (h = 1 \/ h = 2 \/ h = 3 \/ h = 4)
  OBVIOUS
<1> QED BY <1>1, <1>3, <1>5, <1>6, <1>7, <1>8

\* The entry that leads to a table
Parent(c) == CHOOSE x \in Inner(BootMap, boot_cr3) \X Indices : Linked(x[1], x[2], c)

LevelOf(c) ==
  IF c \in BootLevel(4) THEN 4 ELSE IF c \in BootLevel(3) THEN 3
  ELSE IF c \in BootLevel(2) THEN 2 ELSE IF c \in BootLevel(1) THEN 1 ELSE 0

BootNode(c) ==
  IF LevelOf(c) \in 1 .. 3 THEN Node(LevelOf(c), boot_cr3, Parent(c)[1], Parent(c)[2])
  ELSE Node(LevelOf(c), boot_cr3, boot_cr3, 0)

BootGhost == [c \in PhysPages |-> BootNode(c)]

LEMMA ParentIs ==
  ASSUME NEW t, NEW i, NEW c, Linked(t, i, c)
  PROVE  Parent(c)[1] = t /\ Parent(c)[2] = i
<1> DEFINE S == Inner(BootMap, boot_cr3) \X Indices
<1>1. <<t, i>> \in S /\ <<t, i>>[1] = t /\ <<t, i>>[2] = i
  BY DEF Linked
<1>2. \E x \in S : Linked(x[1], x[2], c)
  BY <1>1
<1>3. Parent(c) \in S /\ Linked(Parent(c)[1], Parent(c)[2], c)
  BY <1>2 DEF Parent
<1> QED BY <1>3, BootLinks

LEMMA LevelOfIs ==
  ASSUME NEW c, NEW l \in 1 .. 4
  PROVE  LevelOf(c) = l <=> c \in BootLevel(l)
<1>1. l = 1 \/ l = 2 \/ l = 3 \/ l = 4
  OBVIOUS
<1>2. LevelOf(c) = l => c \in BootLevel(l)
  BY <1>1 DEF LevelOf
<1>3. LevelOf(c) \in 0 .. 4 /\ (LevelOf(c) = 0 => c \notin BootLevel(l))
  BY <1>1 DEF LevelOf
<1>4. LevelOf(c) \in 1 .. 4 => c \in BootLevel(LevelOf(c))
  BY DEF LevelOf
<1>5. ASSUME c \in BootLevel(l)
      PROVE  LevelOf(c) = l
  <2>1. LevelOf(c) \in 1 .. 4
    BY <1>3, <1>5
  <2> QED BY <1>4, <1>5, <2>1, BootDisjoint
<1> QED BY <1>2, <1>5

LEMMA BootTree ==
  /\ BootGhost \in Ghosts
  /\ \A l, r, t : IsTable(BootGhost, l, r, t) <=> l \in 1 .. 4 /\ r = boot_cr3 /\ t \in BootLevel(l)
  /\ Tree(BootMap, BootGhost, boot_cr3)
<1>1. boot_cr3 \in PhysPages /\ 0 \in Indices /\ \A l : BootLevel(l) \subseteq PhysPages
  <2>1. 0 \in Indices
    BY TableAssumption DEF Indices
  <2> QED BY <2>1, BootLevels, BootMapAssumption
<1>2. ASSUME NEW k, NEW l, Below(k, l), NEW t, NEW i, t \in BootLevel(l), NEW c, Linked(t, i, c)
      PROVE  c \in BootLevel(k) /\ BootNode(c) = Node(k, boot_cr3, t, i)
  <2>1. c \in BootLevel(k)
    BY <1>2, BootLinks
  <2>2. k \in 1 .. 3
    BY <1>2 DEF Below
  <2>3. LevelOf(c) = k
    BY <2>1, <2>2, LevelOfIs
  <2>4. Parent(c)[1] = t /\ Parent(c)[2] = i
    BY <1>2, ParentIs
  <2>5. BootNode(c) = Node(LevelOf(c), boot_cr3, Parent(c)[1], Parent(c)[2])
    BY <2>2, <2>3 DEF BootNode
  <2> QED BY <2>1, <2>3, <2>4, <2>5
<1>3. \A c : LevelOf(c) \in 0 .. 4 /\ BootNode(c).lev = LevelOf(c) /\ BootNode(c).root = boot_cr3
  BY DEF LevelOf, BootNode, Node
<1>4. ASSUME NEW c \in PhysPages
      PROVE  BootNode(c) \in [lev : 0 .. 4, root : PhysPages, up : PhysPages, at : Indices]
  <2>1. CASE LevelOf(c) \in 1 .. 3
    <3>1. PICK k \in 1 .. 3 : k = LevelOf(c)
      BY <2>1
    <3>2. PICK l : Below(k, l)
      <4>1. k + 1 \in 2 .. 4 /\ k = (k + 1) - 1
        OBVIOUS
      <4> QED BY <4>1 DEF Below
    <3>3. c \in BootLevel(k)
      BY <3>1, LevelOfIs
    <3>4. PICK t, i : t \in BootLevel(l) /\ Linked(t, i, c)
      BY <3>2, <3>3, BootLinks
    <3>5. BootNode(c) = Node(k, boot_cr3, t, i) /\ i \in Indices /\ t \in PhysPages
      BY <1>1, <1>2, <3>2, <3>4 DEF Linked
    <3>6. k \in 0 .. 4
      OBVIOUS
    <3> QED BY <1>1, <3>5, <3>6 DEF Node
  <2>2. CASE LevelOf(c) \notin 1 .. 3
    <3>1. BootNode(c) = Node(LevelOf(c), boot_cr3, boot_cr3, 0)
      BY <2>2 DEF BootNode
    <3>2. LevelOf(c) \in 0 .. 4
      BY <1>3
    <3> QED BY <1>1, <3>1, <3>2 DEF Node
  <2> QED BY <2>1, <2>2
<1>5. BootGhost \in Ghosts /\ \A c \in PhysPages : BootGhost[c] = BootNode(c)
  BY <1>4 DEF BootGhost, Ghosts
<1>6. ASSUME NEW l, NEW r, NEW t
      PROVE  IsTable(BootGhost, l, r, t) <=> l \in 1 .. 4 /\ r = boot_cr3 /\ t \in BootLevel(l)
  <2>1. t \in PhysPages => BootGhost[t].lev = LevelOf(t) /\ BootGhost[t].root = boot_cr3
    BY <1>3, <1>5
  <2>2. t \in BootLevel(l) => t \in PhysPages
    BY <1>1
  <2>3. l \in 1 .. 4 => (LevelOf(t) = l <=> t \in BootLevel(l))
    BY LevelOfIs
  <2> QED BY <2>1, <2>2, <2>3 DEF IsTable
<1>7. ASSUME NEW k, NEW l, Below(k, l), NEW t, NEW i, t \in BootLevel(l), NEW c, Linked(t, i, c)
      PROVE  IsChild(BootGhost, k, boot_cr3, t, i, c)
  <2>1. BootNode(c) = Node(k, boot_cr3, t, i) /\ c \in PhysPages /\ t \in PhysPages /\ i \in Indices
    BY <1>1, <1>2, <1>7 DEF Linked
  <2>2. k \in 1 .. 3
    BY <1>7 DEF Below
  <2> QED BY <1>5, <2>1, <2>2 DEF IsChild
<1>8. \A t, i : Ent(BootMap, t, i) = boot_mem[t][i]
  BY DEF Ent, BootMap
<1>9. ASSUME NEW k, NEW l, Below(k, l), NEW t, NEW i \in Indices, t \in BootLevel(l)
      PROVE  EntryOK(BootGhost, k, boot_cr3, t, i, Ent(BootMap, t, i))
  <2>1. PICK e : e = boot_mem[t][i]
    OBVIOUS
  <2>2. t \in Inner(BootMap, boot_cr3)
    BY <1>9, BootLevels
  <2>3. e.present /\ ~e.larger => IsChild(BootGhost, k, boot_cr3, t, i, e.address)
    <3>1. e.present /\ ~e.larger => Linked(t, i, e.address)
      BY <2>1, <2>2 DEF Linked, Leads
    <3> QED BY <1>7, <1>9, <3>1
  <2>4. e.larger =>
          k = 1 /\ e.present /\ e.address % PdSpan = 0 /\ e.address < higher_half_offset
    <3>1. (l = 4 /\ k = 3) \/ (l = 3 /\ k = 2) \/ (l = 2 /\ k = 1)
      BY <1>9 DEF Below
    <3>2. CASE l # 2
      <4>1. t \in {boot_cr3} \cup Pdpts(BootMap, boot_cr3)
        BY <1>9, <3>1, <3>2 DEF BootLevel
      <4>2. ~boot_mem[t][i].larger
        BY <4>1, BootMapAssumption
      <4> QED BY <2>1, <4>2
    <3>3. CASE l = 2
      <4>1. t \in Pds(BootMap, boot_cr3) /\ k = 1
        BY <1>9, <3>1, <3>3 DEF BootLevel
      <4>2. boot_mem[t][i].larger =>
              /\ boot_mem[t][i].present
              /\ boot_mem[t][i].address % PdSpan = 0 /\ boot_mem[t][i].address < higher_half_offset
        BY <4>1, BootMapAssumption
      <4> QED BY <2>1, <4>1, <4>2
    <3> QED BY <3>2, <3>3
  <2>5. EntryOK(BootGhost, k, boot_cr3, t, i, e)
    BY <2>3, <2>4 DEF EntryOK
  <2> QED BY <1>8, <2>1, <2>5
<1>10. ASSUME NEW k, NEW l, NEW c, Below(k, l), c \in BootLevel(k)
       PROVE  \E t, i : /\ t \in BootLevel(l) /\ IsChild(BootGhost, k, boot_cr3, t, i, c)
                        /\ Leads(Ent(BootMap, t, i), c)
  <2>1. PICK t, i : t \in BootLevel(l) /\ Linked(t, i, c)
    BY <1>10, BootLinks
  <2>2. Leads(Ent(BootMap, t, i), c)
    BY <1>8, <2>1 DEF Linked
  <2> QED BY <1>7, <1>10, <2>1, <2>2
<1>11. \A k, l : Below(k, l) => k \in 1 .. 4 /\ l \in 1 .. 4
  BY DEF Below
<1>12. IsTable(BootGhost, 4, boot_cr3, boot_cr3)
  BY <1>6 DEF BootLevel
<1>13. Tree(BootMap, BootGhost, boot_cr3)
  <2>1. \A k, l, t, i : Below(k, l) /\ IsTable(BootGhost, l, boot_cr3, t) /\ i \in Indices =>
                       EntryOK(BootGhost, k, boot_cr3, t, i, Ent(BootMap, t, i))
    BY <1>6, <1>9
  <2>2. \A k, l, c : Below(k, l) /\ IsTable(BootGhost, k, boot_cr3, c) =>
          \E t, i : /\ IsTable(BootGhost, l, boot_cr3, t)
                    /\ IsChild(BootGhost, k, boot_cr3, t, i, c) /\ Leads(Ent(BootMap, t, i), c)
    BY <1>6, <1>10, <1>11
  <2> QED BY <1>12, <2>1, <2>2 DEF Tree
<1> QED BY <1>5, <1>6, <1>13

\* A page for a new PML4 is the root of a tree without tables, which maps nothing.
LEMMA NewRoot ==
  ASSUME NEW m, NEW g, NEW c, Sound(m, g), Tree(m, g, c), \A l, r, t : IsTable(g, l, r, t) => r = c,
         NEW a, a = AllocTable(m), ~a.s.starved
  PROVE  \E g2 : /\ Sound(a.s, g2) /\ Tree(a.s, g2, a.page) /\ Tree(a.s, g2, c)
                 /\ a.page \in PhysPages /\ a.page # c
                 /\ \A v \in Nat : Translate(a.s, a.page, v) = UINT64_MAX
                 /\ \A v \in Nat : Translate(a.s, c, v) = Translate(m, c, v)
<1>1. PICK n : n = a.page
  OBVIOUS
<1>2. /\ IsMachine(m) /\ Consistent(m.pmm) /\ m.mem \in Memories /\ g \in Ghosts
      /\ \A l, r, t : IsTable(g, l, r, t) => Marked(m.pmm, t)
  BY DEF Sound
<1>3. /\ IsMachine(a.s) /\ Consistent(a.s.pmm) /\ a.s.mem \in Memories
      /\ n \in PhysPages /\ ~Marked(m.pmm, n) /\ Marked(a.s.pmm, n)
      /\ \A p \in PhysPages : Marked(m.pmm, p) => Marked(a.s.pmm, p)
      /\ \A i \in Indices : Ent(a.s, n, i) = NoEntry
      /\ \A t \in PhysPages, i \in Indices : t # n => Ent(a.s, t, i) = Ent(m, t, i)
  BY <1>1, <1>2, AllocTakes
<1>4. \A l, r, t : IsTable(g, l, r, t) => t # n
  BY <1>2, <1>3
<1>5. n # c
  BY <1>4 DEF Tree
<1>6. PICK g2 : g2 = [g EXCEPT ![n] = Node(4, n, n, 0)]
  OBVIOUS
<1>7. g2 \in Ghosts /\ g2[n] = Node(4, n, n, 0) /\ \A t \in PhysPages : t # n => g2[t] = g[t]
  <2>1. Node(4, n, n, 0) \in [lev : 0 .. 4, root : PhysPages, up : PhysPages, at : Indices]
    BY <1>3, TableAssumption DEF Node, Indices
  <2>2. PICK d : d = Node(4, n, n, 0)
    OBVIOUS
  <2> QED BY <1>2, <1>3, <1>6, <2>1, <2>2 DEF Ghosts
<1>8. \A l, r, t : IsTable(g2, l, r, t) <=> (t = n /\ l = 4 /\ r = n) \/ IsTable(g, l, r, t)
  <2>1. \A l, r : IsTable(g2, l, r, n) <=> l = 4 /\ r = n
    BY <1>3, <1>7 DEF IsTable, Node
  <2>2. \A l, r, t : t # n => (IsTable(g2, l, r, t) <=> IsTable(g, l, r, t))
    BY <1>7 DEF IsTable
  <2> QED BY <1>4, <2>1, <2>2
<1>9. Extends(g, g2)
  <2>1. ASSUME NEW k, NEW r, NEW t, NEW i, NEW d, IsChild(g, k, r, t, i, d)
        PROVE  IsChild(g2, k, r, t, i, d)
    <3>1. d # n
      BY <1>4, <2>1, Kinds
    <3> QED BY <1>7, <2>1, <3>1 DEF IsChild
  <2> QED BY <1>8, <2>1 DEF Extends
<1>10. Sound(a.s, g2)
  BY <1>2, <1>3, <1>7, <1>8, Kinds DEF Sound
<1>11. Grows(m, g, a.s, g2, n, {})
  <2>1. \A l, q, t, i : q # n /\ IsTable(g, l, q, t) /\ i \in Indices => Ent(a.s, t, i) = Ent(m, t, i)
    BY <1>3, <1>4, Kinds
  <2>2. \A l, q, t : IsTable(g2, l, q, t) =>
          IsTable(g, l, q, t) \/ (q = n /\ (t \in {} \/ ~Marked(m.pmm, t)))
    BY <1>3, <1>8
  <2> QED BY <1>3, <1>9, <2>1, <2>2 DEF Grows
<1>12. Tree(a.s, g2, c) /\ \A v \in Nat : Translate(a.s, c, v) = Translate(m, c, v)
  BY <1>5, <1>11, OtherRoot
<1>13. Tree(a.s, g2, n)
  <2>1. \A l, t : IsTable(g2, l, n, t) <=> t = n /\ l = 4
    BY <1>5, <1>8
  <2>2. \A k : ~Below(4, k)
    BY DEF Below
  <2>3. \A k, t, i : EntryOK(g2, k, n, t, i, NoEntry)
    BY NoEntryIs DEF EntryOK
  <2> QED BY <1>3, <2>1, <2>2, <2>3 DEF Tree
<1>14. ASSUME NEW v \in Nat
       PROVE  Translate(a.s, n, v) = UINT64_MAX
  <2>1. PML4_INDEX(v) \in Indices
    BY IndexType
  <2>2. ~a.s.mem[n][PML4_INDEX(v)].present
    BY <1>3, <2>1, NoEntryIs DEF Ent
  <2> QED BY <2>2 DEF Translate
<1> QED BY <1>1, <1>3, <1>5, <1>10, <1>12, <1>13, <1>14

-----------------------------------------------------------------------------
\* The inductive invariant

\* The bootloader's map is as it was.
BootKept(m) == \A u : IsPage(u) => Translate(m, boot_cr3, u) = Translate(BootMap, boot_cr3, u)

\* memory_init is building its map: the calls before the last are done, the last
\* has mapped its range up to the frontier, and there are two trees of tables.
Building ==
  /\ pml4 = boot_cr3 /\ cr3 = boot_cr3 /\ new_pml4 \in PhysPages /\ new_pml4 # boot_cr3
  /\ owned = {} /\ request = NoRequest
  /\ next \in 1 .. Load
  /\ next = 1 => call = NoCall
  /\ next # 1 => CallIs(next - 1, call)
  /\ BootKept(s) /\ Built(s, new_pml4, VirtAt(call))
  /\ \E g : Sound(s, g) /\ Tree(s, g, boot_cr3) /\ Tree(s, g, new_pml4)

\* The map of r is as memory_init built it, but for the pages the kernel maps.
Served(m, r) ==
  \A v : IsPage(v) /\ v \notin ClientVirt =>
    Translate(m, r, v) = IF Wanted(v) THEN Goal(v) ELSE UINT64_MAX

\* The kernel runs on the new map: the tables form a tree, and the pages the
\* kernel holds are marked and no tables.
Running ==
  /\ pml4 \in PhysPages /\ cr3 = pml4 /\ new_pml4 = pml4
  /\ next = Load + 1
  /\ CallIs(KernelCall, call) /\ Returned(call)
  /\ Served(s, pml4)
  /\ request # NoRequest => Translate(s, pml4, request.virt) = request.phys
  /\ \A p \in owned : Granted(s.pmm, p)
  /\ \E g : Sound(s, g) /\ Tree(s, g, pml4) /\ \A p \in owned : NoTable(g, p)

VmmInv == IsMachine(s) /\ (s.starved \/ Init \/ Building \/ Running)

\* Forgetting what was flushed changes nothing else.
LEMMA FreshIs ==
  ASSUME IsMachine(s)
  PROVE  /\ IsMachine(Fresh) /\ Fresh.mem = s.mem /\ Fresh.pmm = s.pmm /\ Fresh.starved = s.starved
         /\ \A g : Sound(s, g) => Sound(Fresh, g)
         /\ \A g, r : Tree(s, g, r) => Tree(Fresh, g, r)
         /\ \A r, v : Translate(Fresh, r, v) = Translate(s, r, v)
<1>1. IsMachine(Fresh) /\ Fresh.mem = s.mem /\ Fresh.pmm = s.pmm /\ Fresh.starved = s.starved
  BY DEF IsMachine, Fresh
<1>2. \A g : Sound(s, g) => Sound(Fresh, g)
  BY <1>1 DEF Sound
<1>3. \A g, r : Tree(s, g, r) => Tree(Fresh, g, r)
  BY <1>1, SameMemory
<1>4. \A r, v : Translate(Fresh, r, v) = Translate(s, r, v)
  BY <1>1, SameMemory
<1> QED BY <1>1, <1>2, <1>3, <1>4

LEMMA BootDirect ==
  ASSUME NEW m, BootKept(m)
  PROVE  /\ Direct(m, boot_cr3)
         /\ Translate(m, boot_cr3, kernel_start) = First
         /\ IsPage(kernel_start)
         /\ \A a \in Nat : a % PAGE = 0 /\ a < higher_half_offset =>
              IsPage(a) /\ Translate(m, boot_cr3, a) = UINT64_MAX
<1>1. ASSUME NEW a \in Nat, a % PAGE = 0, a < higher_half_offset
      PROVE  IsPage(a) /\ Translate(m, boot_cr3, a) = UINT64_MAX
  <2>1. higher_half_offset \in Nat /\ Top \in Nat /\ higher_half_offset < Top
    BY SpaceOrder
  <2>2. IsPage(a)
    BY <1>1, <2>1 DEF IsPage
  <2>3. a \in 0 .. higher_half_offset - 1
    BY <1>1, <2>1
  <2>4. Translate(BootMap, boot_cr3, a) = UINT64_MAX
    BY <2>3, BootMapAssumption
  <2> QED BY <2>2, <2>4 DEF BootKept
<1>2. Direct(m, boot_cr3)
  <2> SUFFICES ASSUME NEW p \in PhysPages
               PROVE  /\ Translate(m, boot_cr3, p) = UINT64_MAX
                      /\ Translate(m, boot_cr3, pmm_phys_to_virt(p)) = p
    BY DEF Direct
  <2>1. Translate(m, boot_cr3, p) = UINT64_MAX
    BY <1>1, PhysType
  <2>2. IsPage(pmm_phys_to_virt(p)) /\ Translate(BootMap, boot_cr3, pmm_phys_to_virt(p)) = p
    BY PhysPageIs, BootMapAssumption
  <2> QED BY <2>1, <2>2 DEF BootKept
<1>3. IsPage(kernel_start)
  <2>1. /\ kernel_start \in Nat /\ kernel_start % PAGE = 0
        /\ kernel_pages \in Nat \ {0} /\ kernel_start + (PAGE * kernel_pages) <= Top /\ Top \in Nat
    BY KernelIs, SpaceOrder
  <2>2. PAGE * kernel_pages \in Nat \ {0}
    BY <2>1, SizeAssumption
  <2>3. PICK x \in Nat \ {0} : x = PAGE * kernel_pages
    BY <2>2
  <2> QED BY <2>1, <2>3 DEF IsPage
<1>4. Translate(m, boot_cr3, kernel_start) = First
  BY <1>3 DEF BootKept, First
<1> QED BY <1>1, <1>2, <1>3, <1>4

LEMMA InitInv == Init => VmmInv
BY DEF Init, VmmInv, IsMachine

\* pmm_init, and the root of the new map
LEMMA MemoryInitInv ==
  ASSUME VmmInv, memory_init
  PROVE  VmmInv'
<1> DEFINE m0 == [s EXCEPT !.pmm = InitialPmm(s.pmm.num)]
           a == AllocTable(m0)
<1>1. IsMachine(s) /\ s' = a.s /\ new_pml4' = a.page /\ next = 0 /\ next' = 1
      /\ UNCHANGED <<pml4, cr3, call, owned, request>>
  BY DEF VmmInv, memory_init, NewMap
<1>2. IsMachine(m0) /\ m0.mem = s.mem /\ m0.starved = s.starved /\ m0.pmm = InitialPmm(s.pmm.num)
  BY <1>1 DEF IsMachine
<1> HIDE DEF m0
<1>3. IsMachine(a.s) /\ (m0.starved => a.s.starved)
  BY <1>2 DEF IsMachine, AllocTable, TablePage
<1> HIDE DEF a
<1>4. CASE a.s.starved
  BY <1>1, <1>3, <1>4 DEF VmmInv
<1>5. CASE ~a.s.starved
  <2>1. Init
    <3>1. ~Building /\ ~Running
      BY <1>1, RangeKinds DEF Building, Running
    <3> QED BY <1>2, <1>3, <1>5, <3>1 DEF VmmInv
  <2>2. /\ pml4 = boot_cr3 /\ cr3 = boot_cr3 /\ call = NoCall /\ owned = {} /\ request = NoRequest
        /\ s.pmm.num = 0 /\ ~s.starved
        /\ s.mem = [p \in PhysPages |-> IF p \in DOMAIN boot_mem THEN boot_mem[p] ELSE EmptyTable]
    BY <2>1 DEF Init
  <2>3. m0.mem \in Memories
    <3>1. EmptyTable \in [Indices -> EntryStates]
      BY NoEntryIs DEF EmptyTable
    <3>2. \A p \in DOMAIN boot_mem : boot_mem[p] \in [Indices -> EntryStates]
      BY BootMapAssumption
    <3>3. \A p \in PhysPages : (IF p \in DOMAIN boot_mem THEN boot_mem[p] ELSE EmptyTable)
                                 \in [Indices -> EntryStates]
      BY <3>1, <3>2
    <3> QED BY <1>2, <2>2, <3>3 DEF Memories
  <2>4. /\ BootGhost \in Ghosts /\ Tree(BootMap, BootGhost, boot_cr3)
        /\ \A l, r, t : IsTable(BootGhost, l, r, t) => r = boot_cr3 /\ t \in BootLevel(l)
    BY BootTree
  <2>5. \A l, t : t \in BootLevel(l) => t \in DOMAIN boot_mem /\ t \in PhysPages
    BY BootLevels, BootMapAssumption
  <2>6. Sound(m0, BootGhost)
    <3>1. Consistent(m0.pmm)
      BY <1>2, <2>2, InitialIsConsistent
    <3>2. ASSUME NEW l, NEW r, NEW t, IsTable(BootGhost, l, r, t)
          PROVE  Marked(m0.pmm, t)
      <4>1. t \in PhysPages /\ pmm_get_index_by_address(t) = UINT64_MAX
        BY <2>4, <2>5, <3>2, BootMapAssumption
      <4> QED BY <4>1, MarkedIs
    <3> QED BY <1>2, <2>2, <2>3, <2>4, <3>1, <3>2 DEF Sound
  <2>7. ASSUME NEW l, NEW t, NEW i, IsTable(BootGhost, l, boot_cr3, t)
        PROVE  Ent(m0, t, i) = Ent(BootMap, t, i)
    <3>1. t \in DOMAIN boot_mem /\ t \in PhysPages
      BY <2>4, <2>5, <2>7
    <3> QED BY <1>2, <2>2, <3>1 DEF Ent, BootMap
  <2>8. PICK r : r # boot_cr3
    <3>1. {boot_cr3} # boot_cr3 \/ {} # boot_cr3
      OBVIOUS
    <3> QED BY <3>1
  <2>9. Grows(BootMap, BootGhost, m0, BootGhost, r, PhysPages)
    BY <2>4, <2>7 DEF Grows, Extends
  <2>10. Tree(m0, BootGhost, boot_cr3)
         /\ \A v \in Nat : Translate(m0, boot_cr3, v) = Translate(BootMap, boot_cr3, v)
    BY <2>4, <2>8, <2>9, OtherRoot
  <2>11. PICK g2 : /\ Sound(a.s, g2) /\ Tree(a.s, g2, a.page) /\ Tree(a.s, g2, boot_cr3)
                   /\ a.page \in PhysPages /\ a.page # boot_cr3
                   /\ \A v \in Nat : Translate(a.s, a.page, v) = UINT64_MAX
                   /\ \A v \in Nat : Translate(a.s, boot_cr3, v) = Translate(m0, boot_cr3, v)
    BY <1>5, <2>4, <2>6, <2>10, NewRoot DEF a
  <2>12. BootKept(s')
    BY <1>1, <2>10, <2>11 DEF BootKept, IsPage
  <2>13. VirtAt(NoCall) = 0
    BY SizeAssumption DEF VirtAt, NoCall
  <2>14. Built(s', new_pml4', 0)
    BY <1>1, <2>11 DEF Built, IsPage
  <2>15. Built(s', new_pml4', VirtAt(call'))
    BY <1>1, <2>2, <2>13, <2>14
  <2>16. 1 \in 1 .. Load
    BY RangeKinds
  <2>17. Building'
    BY <1>1, <2>2, <2>11, <2>12, <2>15, <2>16 DEF Building
  <2> QED BY <1>1, <1>3, <2>17 DEF VmmInv
<1> QED BY <1>4, <1>5

\* The call for the next range
RangeCall(k) ==
  [phys |-> RangePhys(k), virt |-> RangeVirt(k), num_pages |-> RangePages(k), i |-> 0]

LEMMA NextCallInv ==
  ASSUME Building, IsMachine(s), next \in Ranges, Returned(call), s' = Fresh,
         call' = RangeCall(next), next' = next + 1,
         UNCHANGED <<pml4, cr3, new_pml4, owned, request>>
  PROVE  VmmInv'
<1>1. next \in Nat /\ next >= 1 /\ next <= KernelCall
  BY RangeKinds DEF Ranges
<1>2. PICK g : Sound(s, g) /\ Tree(s, g, boot_cr3) /\ Tree(s, g, new_pml4)
  BY DEF Building
<1>3. /\ IsMachine(s') /\ Sound(s', g) /\ Tree(s', g, boot_cr3) /\ Tree(s', g, new_pml4)
      /\ \A r, v : Translate(s', r, v) = Translate(s, r, v)
  BY <1>2, FreshIs
<1>4. PICK f \in Nat : /\ f = VirtAt(call)
                       /\ next = 1 => f = 0
                       /\ next # 1 => f = RangeEnd(next - 1)
  <2>1. CASE next = 1
    <3>1. VirtAt(call) = 0
      BY <2>1, SizeAssumption DEF Building, VirtAt, NoCall
    <3> QED BY <2>1, <3>1
  <2>2. CASE next # 1
    <3>1. next - 1 \in Ranges
      BY <1>1, <2>2, RangeKinds DEF Ranges
    <3>2. CallIs(next - 1, call)
      BY <2>2 DEF Building
    <3>3. VirtAt(call) = RangeEnd(next - 1) /\ VirtAt(call) \in Nat
      BY <3>1, <3>2, CallFields
    <3> QED BY <2>2, <3>3
  <2> QED BY <2>1, <2>2
<1>5. Built(s, new_pml4, f)
  BY <1>4 DEF Building
<1>6. Built(s, new_pml4, RangeVirt(next))
  BY <1>4, <1>5, NextRange
<1>7. CallIs(next, call') /\ VirtAt(call') = RangeVirt(next)
  <2>1. RangePages(next) \in Nat /\ RangeVirt(next) \in Nat
    BY RangeIs
  <2>2. PICK b : b = RangeCall(next)
    OBVIOUS
  <2>3. b.i = 0 /\ b.virt = RangeVirt(next)
        /\ b = [phys |-> RangePhys(next), virt |-> RangeVirt(next),
                num_pages |-> RangePages(next), i |-> b.i]
    BY <2>2 DEF RangeCall
  <2>4. CallIs(next, b)
    BY <2>1, <2>3 DEF CallIs
  <2>5. VirtAt(b) = RangeVirt(next)
    BY <2>1, <2>3, SizeAssumption DEF VirtAt
  <2> QED BY <2>2, <2>4, <2>5
<1>8. next' \in 1 .. Load /\ next' # 1 /\ next' - 1 = next
  BY <1>1, RangeKinds
<1>9. BootKept(s')
  BY <1>3 DEF BootKept, Building
<1>10. Built(s', new_pml4', VirtAt(call'))
  BY <1>3, <1>6, <1>7 DEF Built
<1>11. Building'
  BY <1>3, <1>7, <1>8, <1>9, <1>10 DEF Building
<1> QED BY <1>3, <1>11 DEF VmmInv

\* The call up to its loop
LEMMA CallIsRange ==
  ASSUME NEW m, NEW c, NEW r, NEW a, NEW v, NEW n, n # 0
  PROVE  LET o == vmm_map_pages_pml4(m, c, r, a, v, n)
         IN  /\ o.s = m
             /\ o.call = [phys |-> Physical(m, c, a), virt |-> v, num_pages |-> n, i |-> 0]
BY DEF vmm_map_pages_pml4

\* memory_init is under way when it makes a call.
LEMMA StillBuilding ==
  ASSUME VmmInv, ~s.starved, next \in 1 .. Load
  PROVE  Building /\ IsMachine(s)
<1>1. ~Init
  BY DEF Init
<1>2. ~Running
  BY RangeKinds DEF Running
<1> QED BY <1>1, <1>2 DEF VmmInv

LEMMA MapEntryInv ==
  ASSUME VmmInv, MapEntry
  PROVE  VmmInv'
<1> DEFINE a == memmap_entries[next].base
           o == vmm_map_pages_pml4(Fresh, pml4, new_pml4, a, pmm_phys_to_virt(a), PagesIn(next))
<1>1. next \in DOMAIN memmap_entries
  BY DEF MapEntry
<1>2. /\ next \in Ranges /\ next # KernelCall /\ next \in 1 .. Load
      /\ PagesIn(next) # 0 /\ a \in Nat /\ a % PAGE = 0
  <2>1. next \in Ranges /\ next # KernelCall
    BY <1>1, RangeKinds
  <2>2. next \in 1 .. Load
    BY <2>1, RangeKinds DEF Ranges
  <2> QED BY <1>1, <2>1, <2>2, AreaType
<1>3. IsMachine(s) /\ IsMachine(Fresh) /\ Fresh.starved = s.starved
  BY FreshIs DEF VmmInv
<1>4. o.s = Fresh
      /\ o.call = [phys |-> Physical(Fresh, pml4, a), virt |-> pmm_phys_to_virt(a),
                   num_pages |-> PagesIn(next), i |-> 0]
  BY <1>2, CallIsRange
<1>5. s' = Fresh /\ call' = o.call /\ next' = next + 1 /\ Returned(call)
      /\ UNCHANGED <<pml4, cr3, new_pml4, owned, request>>
  BY <1>4 DEF MapEntry, Calls
<1> HIDE DEF o
<1>6. CASE s.starved
  BY <1>3, <1>5, <1>6 DEF VmmInv
<1>7. CASE ~s.starved
  <2>1. Building
    BY <1>2, <1>7, StillBuilding
  <2>2. PICK g : Sound(s, g) /\ Tree(s, g, boot_cr3)
    BY <2>1 DEF Building
  <2>3. Sound(Fresh, g) /\ Tree(Fresh, g, boot_cr3)
        /\ Translate(Fresh, boot_cr3, a) = Translate(s, boot_cr3, a)
    BY <1>3, <2>2, FreshIs
  <2>4. a < higher_half_offset
    <3>1. /\ memmap_entries[next].length \in Nat /\ memmap_entries[next].length > 0
          /\ a + memmap_entries[next].length <= higher_half_offset
      BY <1>1, AreaType, AreaAssumption
    <3> QED BY <1>2, <3>1, SpaceOrder
  <2>5. IsPage(a) /\ Translate(s, boot_cr3, a) = UINT64_MAX
    BY <1>2, <2>1, <2>4, BootDirect DEF Building
  <2>6. vmm_virt_to_phys(Fresh, boot_cr3, a) = UINT64_MAX
    BY <2>3, <2>5, VirtToPhys
  <2>7. Physical(Fresh, pml4, a) = a
    BY <2>1, <2>6 DEF Physical, Building
  <2>8. call' = RangeCall(next)
    BY <1>2, <1>4, <1>5, <2>7 DEF RangeCall, RangePhys, RangeVirt, RangePages
  <2> QED BY <1>2, <1>3, <1>5, <2>1, <2>8, NextCallInv
<1> QED BY <1>6, <1>7

LEMMA MapKernelInv ==
  ASSUME VmmInv, MapKernel
  PROVE  VmmInv'
<1> DEFINE x == vmm_virt_to_phys(Fresh, pml4, kernel_start)
           o == vmm_map_pages_pml4(Fresh, pml4, new_pml4, x, kernel_start, kernel_pages)
<1>1. next = KernelCall
  BY DEF MapKernel
<1>2. next \in Ranges /\ next \in 1 .. Load /\ kernel_pages # 0
  BY <1>1, RangeKinds, KernelIs DEF Ranges
<1>3. IsMachine(s) /\ IsMachine(Fresh) /\ Fresh.starved = s.starved
  BY FreshIs DEF VmmInv
<1>4. o.s = Fresh
      /\ o.call = [phys |-> Physical(Fresh, pml4, x), virt |-> kernel_start,
                   num_pages |-> kernel_pages, i |-> 0]
  BY <1>2, CallIsRange
<1>5. s' = Fresh /\ call' = o.call /\ next' = next + 1 /\ Returned(call)
      /\ UNCHANGED <<pml4, cr3, new_pml4, owned, request>>
  BY <1>4 DEF MapKernel, Calls, KernelRange
<1> HIDE DEF o
<1>6. CASE s.starved
  BY <1>3, <1>5, <1>6 DEF VmmInv
<1>7. CASE ~s.starved
  <2>1. Building
    BY <1>2, <1>7, StillBuilding
  <2>2. PICK g : Sound(s, g) /\ Tree(s, g, boot_cr3)
    BY <2>1 DEF Building
  <2>3. Sound(Fresh, g) /\ Tree(Fresh, g, boot_cr3)
        /\ \A v : Translate(Fresh, boot_cr3, v) = Translate(s, boot_cr3, v)
    BY <1>3, <2>2, FreshIs
  <2>4. IsPage(kernel_start) /\ Translate(s, boot_cr3, kernel_start) = First
    BY <2>1, BootDirect DEF Building
  <2>5. x = First
    BY <2>1, <2>3, <2>4, VirtToPhys DEF Building
  <2>6. First \in Nat /\ First % PAGE = 0 /\ First < higher_half_offset
    <3>1. /\ First \in Nat /\ First % PAGE = 0 /\ kernel_pages \in Nat \ {0}
          /\ First + (PAGE * kernel_pages) <= higher_half_offset
      BY KernelIs
    <3>2. PICK y \in Nat \ {0} : y = PAGE * kernel_pages
      BY <3>1, SizeAssumption
    <3> QED BY <3>1, <3>2, SpaceOrder
  <2>7. IsPage(First) /\ Translate(s, boot_cr3, First) = UINT64_MAX
    BY <2>1, <2>6, BootDirect DEF Building
  <2>8. vmm_virt_to_phys(Fresh, boot_cr3, First) = UINT64_MAX
    BY <2>3, <2>7, VirtToPhys
  <2>9. Physical(Fresh, pml4, x) = First
    BY <2>1, <2>5, <2>8 DEF Physical, Building
  <2>10. call' = RangeCall(next)
    BY <1>1, <1>4, <1>5, <2>9 DEF RangeCall, RangePhys, RangeVirt, RangePages
  <2> QED BY <1>2, <1>3, <1>5, <2>1, <2>10, NextCallInv
<1> QED BY <1>6, <1>7

\* A round of the loop moves the frontier.
LEMMA MapRoundInv ==
  ASSUME NoHugePages, VmmInv, map_round
  PROVE  VmmInv'
<1> DEFINE v == VirtAt(call)
           left == call.num_pages - 1 - call.i
           to == call.phys + (PAGE * call.i)
           n == MapOne(WalkTables(Fresh, new_pml4, v), pml4, v, left, to, call.i)
<1>1. s' = n.s /\ call' = [call EXCEPT !.i = n.i] /\ ~Returned(call)
      /\ UNCHANGED <<pml4, cr3, new_pml4, next, owned, request>>
  BY DEF map_round, MapRound
<1>2. IsMachine(s) /\ IsMachine(Fresh) /\ Fresh.starved = s.starved
  BY FreshIs DEF VmmInv
<1>3. IsMachine(n.s) /\ (s.starved => n.s.starved)
  <2>1. LET w == WalkTables(Fresh, new_pml4, v)
        IN  IsMachine(w.s) /\ (Fresh.starved => w.s.starved)
    BY <1>2, WalkTablesStarves
  <2> QED BY <1>2, <2>1, RoundIs
<1>4. CASE n.s.starved
  BY <1>1, <1>3, <1>4 DEF VmmInv
<1>5. CASE ~n.s.starved
  <2>1. ~(call = NoCall)
    <3>1. Returned(NoCall)
      BY DEF Returned, NoCall
    <3> QED BY <1>1, <3>1
  <2>2. Building
    <3>1. ~Init
      BY <2>1 DEF Init
    <3>2. ~Running
      BY <1>1 DEF Running
    <3> QED BY <1>3, <1>5, <3>1, <3>2 DEF VmmInv
  <2>3. PICK k : k = next - 1
    OBVIOUS
  <2>4. k \in Ranges /\ next # 1 /\ next \in 1 .. Load
    <3>1. next # 1 /\ next \in 1 .. Load
      BY <2>1, <2>2 DEF Building
    <3> QED BY <2>3, <3>1, RangeKinds DEF Ranges
  <2>5. CallIs(k, call)
    BY <2>2, <2>3, <2>4 DEF Building
  <2>6. /\ call.phys = RangePhys(k) /\ call.num_pages = RangePages(k)
        /\ call.i \in Nat /\ call.i <= RangePages(k) /\ call.i # RangePages(k)
        /\ v = RangeVirt(k) + (PAGE * call.i) /\ v \in Nat /\ InRange(k, v) /\ IsPage(v)
    BY <1>1, <2>4, <2>5, CallFields
  <2>7. /\ RangePhys(k) \in Nat /\ RangePhys(k) % PAGE = 0 /\ RangePages(k) \in Nat
        /\ PAGE * RangePages(k) \in Nat /\ RangeVirt(k) \in Nat
        /\ RangePhys(k) + (PAGE * RangePages(k)) <= higher_half_offset /\ higher_half_offset \in Nat
    BY <2>4, RangeIs, SpaceOrder
  <2>8. call.i \in 0 .. RangePages(k) - 1
    BY <2>6, <2>7
  <2>9. left = RangePages(k) - 1 - call.i /\ left \in Int /\ to = RangePhys(k) + (PAGE * call.i)
    BY <2>6, <2>7
  <2>10. to \in Nat /\ to % PAGE = 0
    <3>1. LET x == RangePhys(k) + (PAGE * call.i) IN x \in Nat /\ x % PAGE = 0
      BY <2>6, <2>7, Aligned
    <3> QED BY <2>9, <3>1
  <2>11. to < higher_half_offset
    <3>1. PAGE * call.i < PAGE * RangePages(k) /\ PAGE * call.i \in Nat
      BY <2>6, <2>7, <2>8, SizeAssumption, Scale
    <3>2. PICK x \in Nat, y \in Nat : x = PAGE * call.i /\ y = PAGE * RangePages(k)
      BY <2>7, <3>1
    <3> QED BY <2>7, <2>9, <3>1, <3>2
  <2>12. ~TakesPdpt(v, left)
    <3>1. ~TakesPdpt(RangeVirt(k) + (PAGE * call.i), RangePages(k) - 1 - call.i)
      BY <2>4, <2>8, RangeSmall
    <3> QED BY <2>6, <2>9, <3>1
  <2>13. TakesPd(v, left) => to % PdSpan = 0
    <3>1. TakesPd(RangeVirt(k) + (PAGE * call.i), RangePages(k) - 1 - call.i) =>
            (RangePhys(k) + (PAGE * call.i)) % PdSpan = 0
      BY <2>4, <2>8, RangeLarge
    <3> QED BY <2>6, <2>9, <3>1
  <2>14. PICK g : Sound(s, g) /\ Tree(s, g, boot_cr3) /\ Tree(s, g, new_pml4)
    BY <2>2 DEF Building
  <2>15. /\ Sound(Fresh, g) /\ Tree(Fresh, g, boot_cr3) /\ Tree(Fresh, g, new_pml4)
         /\ \A r, u : Translate(Fresh, r, u) = Translate(s, r, u)
    BY <1>2, <2>14, FreshIs
  <2>16. Direct(Fresh, boot_cr3)
    BY <2>2, <2>15, BootDirect DEF Building, Direct
  <2>17. Translate(Fresh, new_pml4, v) = UINT64_MAX
    <3>1. Translate(s, new_pml4, v) = IF Wanted(v) /\ v < v THEN Goal(v) ELSE UINT64_MAX
      BY <2>2, <2>6 DEF Building, Built
    <3>2. ~(v < v)
      BY <2>6
    <3> QED BY <2>15, <3>1, <3>2
  <2>18. new_pml4 # boot_cr3 /\ pml4 = boot_cr3 /\ Built(Fresh, new_pml4, v) /\ BootKept(Fresh)
    BY <2>2, <2>15 DEF Building, Built, BootKept
  <2>19. PICK i \in Nat : i = call.i
    BY <2>6
  <2>20. PICK m2 : m2 = n
    OBVIOUS
  <2>21. m2 = MapOne(WalkTables(Fresh, new_pml4, v), boot_cr3, v, left, to, i)
    BY <2>18, <2>19, <2>20
  <2> HIDE DEF v, left, to, n
  <2>22. ~m2.s.starved
    BY <1>5, <2>20
  <2>23. PICK g2, j : /\ j \in Nat \ {0} /\ m2.i = i + j /\ (j = 1 \/ j < left)
                      /\ Maps(Fresh, m2.s, g2, new_pml4, boot_cr3, v, PAGE * j, to)
    BY <2>6, <2>9, <2>10, <2>11, <2>12, <2>13, <2>15, <2>16, <2>17, <2>18, <2>21, <2>22, RoundStep
  <2>24. call' = [call EXCEPT !.i = call.i + j]
    BY <1>1, <2>19, <2>20, <2>23
  <2>25. call.i + j <= RangePages(k)
    BY <2>7, <2>8, <2>9, <2>19, <2>23
  <2>26. Maps(Fresh, m2.s, g2, new_pml4, boot_cr3, VirtAt(call), PAGE * j, RangePhys(k) + (PAGE * call.i))
    BY <2>9, <2>23 DEF v
  <2>27. Built(Fresh, new_pml4, VirtAt(call))
    BY <2>18 DEF v
  <2>28. CallIs(k, call') /\ Built(m2.s, new_pml4, VirtAt(call'))
    BY <1>1, <2>4, <2>5, <2>23, <2>24, <2>25, <2>26, <2>27, RoundBuilds
  <2>29. /\ Sound(m2.s, g2) /\ Tree(m2.s, g2, new_pml4) /\ Tree(m2.s, g2, boot_cr3)
         /\ \A u : IsPage(u) => Translate(m2.s, boot_cr3, u) = Translate(Fresh, boot_cr3, u)
    BY <2>23 DEF Maps
  <2>30. BootKept(m2.s)
    BY <2>18, <2>29 DEF BootKept
  <2>31. s' = m2.s
    BY <1>1, <2>20
  <2>32. Building'
    BY <1>1, <2>2, <2>3, <2>4, <2>28, <2>29, <2>30, <2>31 DEF Building
  <2> QED BY <1>1, <1>3, <2>32 DEF VmmInv
<1> QED BY <1>4, <1>5

\* cr3 gets the page of the new PML4, and the kernel runs on the new map.
LEMMA SetPml4Inv ==
  ASSUME VmmInv, vmm_set_pml4
  PROVE  VmmInv'
<1>1. next = Load /\ Returned(call) /\ cr3' = LoadedCr3(new_pml4) /\ pml4' = new_pml4 /\ s' = Fresh
      /\ next' = next + 1 /\ UNCHANGED <<new_pml4, call, owned, request>>
  BY DEF vmm_set_pml4
<1>2. IsMachine(s) /\ IsMachine(Fresh) /\ Fresh.starved = s.starved
  BY FreshIs DEF VmmInv
<1>3. CASE s.starved
  BY <1>1, <1>2, <1>3 DEF VmmInv
<1>4. CASE ~s.starved
  <2>1. KernelCall \in Ranges /\ Load - 1 = KernelCall /\ Load # 1 /\ Load \in 1 .. Load
    BY RangeKinds DEF Ranges
  <2>2. Building
    BY <1>1, <1>4, <2>1, StillBuilding
  <2>3. /\ pml4 = boot_cr3 /\ new_pml4 \in PhysPages /\ owned = {} /\ request = NoRequest
        /\ CallIs(KernelCall, call) /\ BootKept(s) /\ Built(s, new_pml4, VirtAt(call))
    BY <1>1, <2>1, <2>2 DEF Building
  <2>4. PICK g : Sound(s, g) /\ Tree(s, g, boot_cr3) /\ Tree(s, g, new_pml4)
    BY <2>2 DEF Building
  <2>5. /\ Sound(s', g) /\ Tree(s', g, new_pml4)
        /\ \A r, u : Translate(s', r, u) = Translate(s, r, u)
    BY <1>1, <1>2, <2>4, FreshIs
  <2>6. cr3' = new_pml4
    <3>1. IsPage(pmm_phys_to_virt(new_pml4))
      BY <2>3, PhysPageIs
    <3>2. Translate(s, boot_cr3, pmm_phys_to_virt(new_pml4)) = new_pml4
      BY <2>3, BootDirect DEF Direct
    <3>3. vmm_virt_to_phys(s, boot_cr3, pmm_phys_to_virt(new_pml4)) = new_pml4
      BY <2>4, <3>1, <3>2, VirtToPhys
    <3> QED BY <1>1, <2>3, <3>3 DEF LoadedCr3
  <2>7. VirtAt(call) = RangeEnd(KernelCall)
    BY <1>1, <2>1, <2>3, CallFields
  <2>8. Served(s', new_pml4)
    <3> SUFFICES ASSUME NEW v, IsPage(v)
                 PROVE  Translate(s', new_pml4, v) = IF Wanted(v) THEN Goal(v) ELSE UINT64_MAX
      BY DEF Served
    <3>1. Wanted(v) => v < VirtAt(call)
      BY <2>7, LastRange DEF IsPage
    <3>2. Translate(s, new_pml4, v) = IF Wanted(v) /\ v < VirtAt(call) THEN Goal(v) ELSE UINT64_MAX
      BY <2>3 DEF Built
    <3> QED BY <2>5, <3>1, <3>2
  <2>9. Running'
    BY <1>1, <2>3, <2>5, <2>6, <2>8 DEF Running
  <2> QED BY <1>1, <1>2, <2>9 DEF VmmInv
<1> QED BY <1>3, <1>4

-----------------------------------------------------------------------------
\* The pages of the map that the kernel runs on

\* A multiple of a page in range k is page number j of it.
LEMMA PageOfRange ==
  ASSUME NEW k, NEW v, IsPage(v), InRange(k, v)
  PROVE  \E j \in 0 .. RangePages(k) - 1 : v = RangeVirt(k) + (PAGE * j)
<1>1. k \in Ranges /\ RangeVirt(k) <= v /\ v < RangeVirt(k) + (PAGE * RangePages(k))
  BY DEF InRange, RangeEnd
<1>2. /\ v \in Nat /\ v % PAGE = 0 /\ PAGE \in Nat \ {0}
      /\ RangeVirt(k) \in Nat /\ RangeVirt(k) % PAGE = 0 /\ RangePages(k) \in Nat
      /\ PAGE * RangePages(k) \in Nat
  BY <1>1, RangeIs, SizeAssumption DEF IsPage
<1>3. PICK a \in Nat, b \in Nat : v = PAGE * a /\ RangeVirt(k) = PAGE * b
  BY <1>2, MultipleOf
<1>4. PAGE * b <= PAGE * a /\ PAGE * a < (PAGE * b) + (PAGE * RangePages(k))
  BY <1>1, <1>3
<1>5. b <= a
  <2> SUFFICES ASSUME a < b PROVE FALSE
    BY <1>3
  <2>1. PAGE * a < PAGE * b /\ PAGE * a \in Nat /\ PAGE * b \in Nat
    BY <1>2, <1>3, Scale
  <2> QED BY <1>4, <2>1
<1>6. PICK j \in Nat : a = b + j
  <2>1. a - b \in Nat /\ a = b + (a - b)
    BY <1>3, <1>5
  <2> QED BY <2>1
<1>7. PAGE * a = (PAGE * b) + (PAGE * j)
  BY <1>2, <1>3, <1>6
<1>8. j < RangePages(k)
  <2> SUFFICES ASSUME RangePages(k) <= j PROVE FALSE
    BY <1>2, <1>6
  <2>1. PAGE * RangePages(k) <= PAGE * j /\ PAGE * j \in Nat
    BY <1>2, <1>6, Scale
  <2>2. PICK x \in Nat, y \in Nat, z \in Nat : x = PAGE * RangePages(k) /\ y = PAGE * j /\ z = PAGE * b
    BY <1>2, <1>3, <2>1
  <2> QED BY <1>4, <1>7, <2>1, <2>2
<1>9. v = RangeVirt(k) + (PAGE * j) /\ j \in 0 .. RangePages(k) - 1
  BY <1>2, <1>3, <1>6, <1>7, <1>8
<1> QED BY <1>9

\* Page number j of range k.
LEMMA RangePage ==
  ASSUME NEW k \in Ranges, NEW j \in 0 .. RangePages(k) - 1
  PROVE  LET v == RangeVirt(k) + (PAGE * j)
         IN  IsPage(v) /\ InRange(k, v) /\ Wanted(v) /\ Goal(v) = RangePhys(k) + (PAGE * j)
<1>1. /\ RangeVirt(k) \in Nat /\ RangeVirt(k) % PAGE = 0 /\ RangePages(k) \in Nat
      /\ PAGE * RangePages(k) \in Nat /\ RangeEnd(k) \in Nat /\ RangeEnd(k) <= Top /\ Top \in Nat
      /\ PAGE \in Nat \ {0} /\ j \in Nat /\ j < RangePages(k) /\ RangePhys(k) \in Nat
  BY RangeIs, SpaceOrder, SizeAssumption
<1>2. PAGE * j \in Nat /\ PAGE * j < PAGE * RangePages(k)
  BY <1>1, Scale
<1>3. PICK x \in Nat, y \in Nat : x = PAGE * j /\ y = PAGE * RangePages(k)
  BY <1>1, <1>2
<1>4. PICK v : v = RangeVirt(k) + x
  OBVIOUS
<1>5. v \in Nat /\ v % PAGE = 0
  <2>1. RangeVirt(k) + (PAGE * j) \in Nat /\ (RangeVirt(k) + (PAGE * j)) % PAGE = 0
    BY <1>1, Aligned
  <2> QED BY <1>3, <1>4, <2>1
<1>6. v < RangeEnd(k) /\ RangeVirt(k) <= v
  BY <1>1, <1>2, <1>3, <1>4 DEF RangeEnd
<1>7. IsPage(v) /\ InRange(k, v)
  BY <1>1, <1>5, <1>6 DEF IsPage, InRange
<1>8. Goal(v) = RangePhys(k) + (v - RangeVirt(k))
  BY <1>5, <1>7, GoalIs
<1>9. Goal(v) = RangePhys(k) + x
  BY <1>1, <1>3, <1>4, <1>8
<1> QED BY <1>3, <1>4, <1>7, <1>9 DEF Wanted

\* The kernel image and the direct map are the pages wanted.
LEMMA WantedPages ==
  /\ \A v : IsPage(v) /\ Wanted(v) => v \in KernelImage \cup DirectPages
  /\ \A v \in KernelImage :
       IsPage(v) /\ Wanted(v) /\ Goal(v) = Translate(BootMap, boot_cr3, v)
  /\ \A p \in MappedPages :
       LET v == pmm_phys_to_virt(p) IN IsPage(v) /\ Wanted(v) /\ Goal(v) = p
<1>1. KernelCall \in Ranges /\ RangeVirt(KernelCall) = kernel_start
      /\ RangePages(KernelCall) = kernel_pages /\ RangePhys(KernelCall) = First
  BY RangeKinds DEF RangeVirt, RangePages, RangePhys
<1>2. ASSUME NEW i \in DOMAIN memmap_entries
      PROVE  /\ i \in Ranges /\ RangePages(i) = PagesIn(i) /\ RangePhys(i) = memmap_entries[i].base
             /\ memmap_entries[i].base \in Nat
             /\ \A j \in Nat : pmm_phys_to_virt(memmap_entries[i].base + (PAGE * j))
                                = RangeVirt(i) + (PAGE * j)
  <2>1. i \in Ranges /\ i # KernelCall /\ memmap_entries[i].base \in Nat /\ higher_half_offset \in Nat
    BY RangeKinds, AreaType, SpaceOrder
  <2>2. ASSUME NEW j \in Nat
        PROVE  pmm_phys_to_virt(memmap_entries[i].base + (PAGE * j)) = RangeVirt(i) + (PAGE * j)
    <3>1. PICK x \in Nat : x = PAGE * j
      BY SizeAssumption, Scale
    <3> QED BY <2>1, <3>1 DEF RangeVirt, pmm_phys_to_virt
  <2> QED BY <2>1, <2>2 DEF RangePages, RangePhys
<1>3. ASSUME NEW v, IsPage(v), Wanted(v) PROVE v \in KernelImage \cup DirectPages
  <2>1. PICK k : InRange(k, v)
    BY <1>3 DEF Wanted
  <2>2. PICK j \in 0 .. RangePages(k) - 1 : v = RangeVirt(k) + (PAGE * j)
    BY <1>3, <2>1, PageOfRange
  <2>3. CASE k = KernelCall
    BY <1>1, <2>2, <2>3 DEF KernelImage
  <2>4. CASE k # KernelCall
    <3>1. k \in DOMAIN memmap_entries
      BY <2>1, <2>4, RangeKinds DEF InRange
    <3>2. j \in 0 .. PagesIn(k) - 1 /\ j \in Nat
      BY <1>2, <2>2, <3>1, AreaType
    <3>3. memmap_entries[k].base + (PAGE * j) \in MappedPages
      BY <3>1, <3>2 DEF MappedPages
    <3>4. v = pmm_phys_to_virt(memmap_entries[k].base + (PAGE * j))
      BY <1>2, <2>2, <3>1, <3>2
    <3> QED BY <3>3, <3>4 DEF DirectPages
  <2> QED BY <2>3, <2>4
<1>4. ASSUME NEW v \in KernelImage
      PROVE  IsPage(v) /\ Wanted(v) /\ Goal(v) = Translate(BootMap, boot_cr3, v)
  <2>1. PICK j \in 0 .. kernel_pages - 1 : v = kernel_start + (PAGE * j)
    BY DEF KernelImage
  <2>2. IsPage(v) /\ Wanted(v) /\ Goal(v) = First + (PAGE * j)
    BY <1>1, <2>1, RangePage
  <2> QED BY <2>1, <2>2, KernelIs
<1>5. ASSUME NEW p \in MappedPages
      PROVE  IsPage(pmm_phys_to_virt(p)) /\ Wanted(pmm_phys_to_virt(p)) /\ Goal(pmm_phys_to_virt(p)) = p
  <2>1. PICK i \in DOMAIN memmap_entries : \E j \in 0 .. PagesIn(i) - 1 :
          p = memmap_entries[i].base + (PAGE * j)
    BY DEF MappedPages
  <2>2. PICK j \in 0 .. PagesIn(i) - 1 : p = memmap_entries[i].base + (PAGE * j)
    BY <2>1
  <2>3. j \in Nat /\ i \in Ranges /\ j \in 0 .. RangePages(i) - 1
    BY <1>2, <2>2, AreaType
  <2>4. pmm_phys_to_virt(p) = RangeVirt(i) + (PAGE * j)
    BY <1>2, <2>2, <2>3
  <2>5. LET v == RangeVirt(i) + (PAGE * j)
        IN  IsPage(v) /\ Wanted(v) /\ Goal(v) = RangePhys(i) + (PAGE * j)
    BY <2>3, RangePage
  <2> QED BY <1>2, <2>2, <2>4, <2>5
<1> QED BY <1>3, <1>4, <1>5

\* The pages of the address space are virtual pages.
LEMMA VirtPageIs ==
  ASSUME NEW v \in VirtPages
  PROVE  IsPage(v)
<1>1. PICK n : n = ENTRIES * ENTRIES * ENTRIES * ENTRIES
  OBVIOUS
<1>2. PICK k \in 0 .. n - 1 : v = PAGE * k
  BY <1>1 DEF VirtPages
<1>3. PAGE \in Nat \ {0} /\ ENTRIES \in Nat \ {0}
  BY SizeAssumption, TableAssumption
<1>4. n \in Nat
  <2>1. ENTRIES * ENTRIES \in Nat
    BY <1>3
  <2>2. ENTRIES * ENTRIES * ENTRIES \in Nat
    BY <1>3, <2>1
  <2> QED BY <1>1, <1>3, <2>2
<1>5. Top = PAGE * n
  BY <1>1, <1>3 DEF Top, Pml4Span
<1>6. k \in Nat /\ k < n
  BY <1>2, <1>4
<1>7. PAGE * k \in Nat /\ PAGE * k < PAGE * n
  BY <1>3, <1>4, <1>6, Scale
<1>8. (PAGE * k) % PAGE = 0
  <2>1. ((PAGE * k) + 0) % PAGE = 0
    BY <1>3, <1>6, RestOfMultiple
  <2>2. (PAGE * k) + 0 = PAGE * k
    BY <1>7
  <2> QED BY <2>1, <2>2
<1> QED BY <1>2, <1>5, <1>7, <1>8 DEF IsPage

\* The kernel maps pages where the map has none.
LEMMA ClientPage ==
  ASSUME NEW v \in ClientVirt
  PROVE  IsPage(v) /\ ~Wanted(v) /\ v \notin KernelImage /\ v \notin DirectPages /\ v \notin PhysPages
<1>1. v \in VirtPages /\ v \notin KernelImage /\ v \notin DirectPages /\ v \notin PhysPages
  BY ClientAssumption
<1>2. IsPage(v)
  BY <1>1, VirtPageIs
<1> QED BY <1>1, <1>2, WantedPages

\* The map has every page of the memory map in its place.
LEMMA ServedDirect ==
  ASSUME NEW m, NEW r, Served(m, r), NEW p \in MappedPages
  PROVE  Translate(m, r, pmm_phys_to_virt(p)) = p
<1>1. pmm_phys_to_virt(p) \in DirectPages
  BY DEF DirectPages
<1>2. pmm_phys_to_virt(p) \notin ClientVirt
  BY <1>1, ClientPage
<1> QED BY <1>2, WantedPages DEF Served

\* A page the allocator can grant is there, and its physical address is not
\* mapped.
LEMMA GrantedPlace ==
  ASSUME NEW m, NEW r, Served(m, r), NEW p, NEW a, Granted(p, a)
  PROVE  /\ Translate(m, r, pmm_phys_to_virt(a)) = a /\ Translate(m, r, a) = UINT64_MAX
         /\ IsPage(a) /\ IsPage(pmm_phys_to_virt(a)) /\ a \in PhysPages /\ a # UINT64_MAX
<1>1. a \in PhysPages /\ pmm_get_index_by_address(a) \in pmm_bitmap_pages .. pmm_usable_pages - 1
  BY DEF Granted
<1>2. pmm_get_index_by_address(a) \in 0 .. pmm_usable_pages - 1
  BY <1>1, BitmapFits
<1>3. PICK i : i = pmm_get_index_by_address(a)
  OBVIOUS
<1>4. a = pmm_get_address_by_index(i)
  BY <1>1, <1>2, <1>3, IndexInjective
<1>5. a \in MappedPages
  <2>1. PICK h \in UsableEntries :
          /\ current_index[h] <= i /\ i < current_index[h] + PagesIn(h)
          /\ a = memmap_entries[h].base + (PAGE * (i - current_index[h]))
    BY <1>2, <1>3, <1>4, AddressInEntry
  <2>2. current_index[h] \in Nat /\ PagesIn(h) \in Nat /\ i \in Nat
    BY <1>2, <1>3, EntryPages, LenType, CurrentIndexNat, UsableNat
  <2>3. i - current_index[h] \in 0 .. PagesIn(h) - 1 /\ h \in DOMAIN memmap_entries
    BY <2>1, <2>2 DEF UsableEntries
  <2> QED BY <2>1, <2>3 DEF MappedPages
<1>6. Translate(m, r, pmm_phys_to_virt(a)) = a
  BY <1>5, ServedDirect
<1>7. ~Wanted(a)
  <2> SUFFICES ASSUME NEW k, InRange(k, a) PROVE FALSE
    BY DEF Wanted
  <2>1. k \in Ranges /\ RangeVirt(k) <= a
    BY DEF InRange
  <2>2. a \in Nat /\ a < higher_half_offset /\ higher_half_offset \in Nat /\ RangeVirt(k) \in Nat
    BY <1>1, <2>1, PhysType, SpaceOrder, RangeIs
  <2>3. higher_half_offset <= RangeVirt(k)
    <3>1. CASE k # KernelCall
      <4>1. k \in DOMAIN memmap_entries
        BY <2>1, <3>1, RangeKinds
      <4> QED BY <2>2, <3>1, <4>1, AreaType DEF RangeVirt, pmm_phys_to_virt
    <3>2. CASE k = KernelCall
      <4>1. PICK h \in UsableEntries : PagesIn(h) >= 1
        BY MemmapAssumption
      <4>2. h \in DOMAIN memmap_entries
        BY DEF UsableEntries
      <4>3. memmap_entries[h].base \in Nat /\ memmap_entries[h].length \in Nat
        BY <4>2, AreaType
      <4>4. memmap_entries[h].base + memmap_entries[h].length + higher_half_offset <= kernel_start
        BY <4>2, KernelAssumption DEF pmm_phys_to_virt
      <4> QED BY <2>2, <3>2, <4>3, <4>4 DEF RangeVirt
    <3> QED BY <3>1, <3>2
  <2> QED BY <2>1, <2>2, <2>3
<1>8. IsPage(a) /\ IsPage(pmm_phys_to_virt(a)) /\ a \notin ClientVirt /\ a # UINT64_MAX
  BY <1>1, PhysPageIs, ClientPage, PhysType
<1> QED BY <1>1, <1>6, <1>7, <1>8 DEF Served

-----------------------------------------------------------------------------
\* The kernel's use of pages keeps the invariant

\* What NoStaleTranslation says of a step
Flushes ==
  booted /\ ~s'.starved =>
    \A v \in ClientVirt :
      Translate(s, cr3, v) \notin {UINT64_MAX, Translate(s', cr3', v)} => v \in s'.flushed

LEMMA AfterBoot ==
  ASSUME VmmInv, booted, ~s.starved
  PROVE  Running
<1>1. Load \in Nat /\ next > Load
  BY RangeKinds DEF booted
<1>2. ~Init
  BY <1>1 DEF Init
<1>3. ~Building
  BY <1>1 DEF Building
<1> QED BY <1>2, <1>3 DEF VmmInv

LEMMA KeepsRunning ==
  ASSUME Running, UNCHANGED <<pml4, cr3, new_pml4, next, call>>, Served(s', pml4),
         request' # NoRequest => Translate(s', pml4, request'.virt) = request'.phys,
         NEW g2, Sound(s', g2), Tree(s', g2, pml4),
         \A p \in owned' : Granted(s'.pmm, p) /\ NoTable(g2, p)
  PROVE  VmmInv'
<1>1. Running'
  BY DEF Running
<1>2. IsMachine(s')
  BY DEF Sound
<1> QED BY <1>1, <1>2 DEF VmmInv

\* A marked page that is no table and is not freed stays both.
LEMMA StaysGranted ==
  ASSUME NEW m, NEW g, NEW m2, NEW g2, NEW r, NEW F, Grows(m, g, m2, g2, r, F), g2 \in Ghosts,
         NEW p, p \notin F, Granted(m.pmm, p), NoTable(g, p)
  PROVE  Granted(m2.pmm, p) /\ NoTable(g2, p)
<1>1. p \in PhysPages /\ Marked(m.pmm, p) /\ Marked(m2.pmm, p)
  BY DEF Granted, Grows
<1>2. g2[p].lev \in 0 .. 4
  BY <1>1 DEF Ghosts
<1>3. g2[p].lev # 0 => IsTable(g2, g2[p].lev, g2[p].root, p)
  BY <1>1, <1>2 DEF IsTable
<1>4. ASSUME NEW l, NEW q, IsTable(g2, l, q, p) PROVE FALSE
  <2>1. IsTable(g, l, q, p)
    BY <1>1, <1>4 DEF Grows
  <2> QED BY <2>1, Kinds
<1> QED BY <1>1, <1>3, <1>4 DEF Granted, NoTable

\* pmm_alloc: the page was not marked, so it is no table.
LEMMA AllocInv ==
  ASSUME VmmInv, alloc_page
  PROVE  VmmInv' /\ Flushes
<1> DEFINE r == pmm_alloc_phys(s.pmm)
<1>1. /\ booted /\ s' = [Fresh EXCEPT !.pmm = r.pmm, !.starved = @ \/ r.page = 0]
      /\ owned' = owned \cup {r.page} /\ request' = NoRequest
      /\ UNCHANGED <<pml4, cr3, new_pml4, next, call>>
  BY DEF alloc_page
<1> HIDE DEF r
<1>2. /\ IsMachine(s) /\ IsMachine(Fresh) /\ Fresh.starved = s.starved /\ Fresh.mem = s.mem
  BY FreshIs DEF VmmInv
<1>3. IsMachine(s') /\ s'.pmm = r.pmm /\ s'.mem = s.mem /\ (s'.starved <=> s.starved \/ r.page = 0)
  BY <1>1, <1>2 DEF IsMachine
<1>4. CASE s.starved \/ r.page = 0
  BY <1>3, <1>4 DEF VmmInv, Flushes
<1>5. CASE ~(s.starved \/ r.page = 0)
  <2>1. Running
    BY <1>1, <1>5, AfterBoot
  <2>2. PICK g : Sound(s, g) /\ Tree(s, g, pml4) /\ \A p \in owned : NoTable(g, p)
    BY <2>1 DEF Running
  <2>3. Consistent(s.pmm) /\ s.mem \in Memories /\ g \in Ghosts
        /\ \A l, q, t : IsTable(g, l, q, t) => Marked(s.pmm, t)
    BY <2>2 DEF Sound
  <2>4. /\ Consistent(r.pmm) /\ Granted(r.pmm, r.page) /\ ~Marked(s.pmm, r.page)
        /\ \A a \in PhysPages : Marked(s.pmm, a) => Marked(r.pmm, a)
    BY <1>5, <2>3, AllocGrants DEF r
  <2>5. Sound(s', g)
    BY <1>3, <1>5, <2>3, <2>4, Kinds DEF Sound
  <2>6. Tree(s', g, pml4) /\ \A v : Translate(s', pml4, v) = Translate(s, pml4, v)
    BY <1>3, <2>2, SameMemory
  <2>7. NoTable(g, r.page)
    BY <2>2, <2>4, NotMarked DEF Granted
  <2>8. \A p \in owned' : Granted(s'.pmm, p) /\ NoTable(g, p)
    <3>1. \A p \in owned : Granted(s.pmm, p)
      BY <2>1 DEF Running
    <3>2. \A p \in owned : Granted(r.pmm, p)
      BY <2>4, <3>1 DEF Granted
    <3> QED BY <1>1, <1>3, <2>2, <2>4, <2>7, <3>2
  <2>9. Served(s', pml4)
    BY <2>1, <2>6 DEF Running, Served
  <2>10. Flushes
    BY <1>1, <2>1, <2>6 DEF Running, Flushes
  <2> QED BY <1>1, <2>1, <2>5, <2>6, <2>8, <2>9, <2>10, KeepsRunning
<1> QED BY <1>4, <1>5

\* The tree has grown, and of its map only a page of the kernel's has changed.
LEMMA ClientStep ==
  ASSUME Running, UNCHANGED <<pml4, cr3, new_pml4, next, call, owned>>,
         NEW v \in ClientVirt, NEW x, NEW m, m.pmm = s.pmm, m.mem = s.mem,
         \A g : Sound(s, g) /\ Tree(s, g, pml4) => \E g2 : Mapped(m, g, s', g2, pml4, v, x),
         request' # NoRequest => request'.virt = v /\ request'.phys = x
  PROVE  VmmInv' /\ (v \in s'.flushed => Flushes)
<1>1. PICK g : Sound(s, g) /\ Tree(s, g, pml4) /\ \A p \in owned : NoTable(g, p)
  BY DEF Running
<1>2. PICK g2 : Mapped(m, g, s', g2, pml4, v, x)
  BY <1>1
<1>3. /\ Sound(s', g2) /\ Tree(s', g2, pml4) /\ Grows(m, g, s', g2, pml4, {})
      /\ \A u : IsPage(u) => Translate(s', pml4, u) = IF u = v THEN x ELSE Translate(m, pml4, u)
  BY <1>2 DEF Mapped
<1>4. \A u : Translate(m, pml4, u) = Translate(s, pml4, u)
  BY SameMemory
<1>5. Served(s', pml4)
  BY <1>3, <1>4 DEF Running, Served
<1>6. request' # NoRequest => Translate(s', pml4, request'.virt) = request'.phys
  BY <1>3, ClientPage
<1>7. g2 \in Ghosts
  BY <1>3 DEF Sound
<1>8. \A p \in owned : Granted(m.pmm, p)
  BY DEF Running
<1>9. \A p \in owned' : Granted(s'.pmm, p) /\ NoTable(g2, p)
  <2>1. PICK F : F = {}
    OBVIOUS
  <2>2. \A p : p \notin F
    BY <2>1
  <2>3. Grows(m, g, s', g2, pml4, F)
    BY <1>3, <2>1
  <2>4. \A p \in owned : Granted(s'.pmm, p) /\ NoTable(g2, p)
    BY <1>1, <1>7, <1>8, <2>2, <2>3, StaysGranted
  <2> QED BY <2>4
<1>10. v \in s'.flushed => Flushes
  <2>1. cr3 = pml4 /\ cr3' = pml4
    BY DEF Running
  <2> QED BY <1>3, <1>4, <2>1, ClientPage DEF Flushes
<1> QED BY <1>3, <1>5, <1>6, <1>9, <1>10, KeepsRunning

\* vmm_map_page, given the page by either of its addresses
LEMMA MapPageInv ==
  ASSUME VmmInv, NEW page \in owned, NEW v \in ClientVirt,
         NEW address \in {page, pmm_phys_to_virt(page)}, vmm_map_page(page, address, v)
  PROVE  VmmInv' /\ Flushes
<1>1. /\ booted /\ s' = vmm_map_page_pml4(Fresh, pml4, pml4, address, v)
      /\ request' = [phys |-> page, virt |-> v]
      /\ UNCHANGED <<pml4, cr3, new_pml4, next, call, owned>>
  BY DEF vmm_map_page
<1>2. /\ IsMachine(s) /\ IsMachine(Fresh) /\ Fresh.starved = s.starved
      /\ Fresh.mem = s.mem /\ Fresh.pmm = s.pmm
  BY FreshIs DEF VmmInv
<1>3. IsMachine(s') /\ (s.starved => s'.starved) /\ v \in s'.flushed
  BY <1>1, <1>2, MapStarves, ClientPage
<1>4. CASE s'.starved
  BY <1>3, <1>4 DEF VmmInv, Flushes
<1>5. CASE ~s'.starved
  <2>1. Running
    BY <1>1, <1>3, <1>5, AfterBoot
  <2>2. Served(s, pml4) /\ Granted(s.pmm, page)
    BY <2>1 DEF Running
  <2>3. /\ Translate(s, pml4, pmm_phys_to_virt(page)) = page /\ Translate(s, pml4, page) = UINT64_MAX
        /\ IsPage(page) /\ IsPage(pmm_phys_to_virt(page)) /\ page \in PhysPages /\ page # UINT64_MAX
    BY <2>2, GrantedPlace
  <2>4. IsPage(v)
    BY ClientPage
  <2>5. PICK m : m = Fresh
    OBVIOUS
  <2>6. ASSUME NEW g, Sound(s, g), Tree(s, g, pml4)
        PROVE  \E g2 : Mapped(m, g, s', g2, pml4, v, page)
    <3>1. Sound(m, g) /\ Tree(m, g, pml4) /\ \A u : Translate(m, pml4, u) = Translate(s, pml4, u)
      BY <1>2, <2>5, <2>6, FreshIs
    <3>2. vmm_virt_to_phys(m, pml4, address) = IF address = page THEN UINT64_MAX ELSE page
      <4>1. vmm_virt_to_phys(m, pml4, page) = UINT64_MAX
        BY <2>3, <3>1, VirtToPhys
      <4>2. vmm_virt_to_phys(m, pml4, pmm_phys_to_virt(page)) = page
        BY <2>3, <3>1, VirtToPhys
      <4>3. address = page \/ address = pmm_phys_to_virt(page)
        OBVIOUS
      <4> QED BY <4>1, <4>2, <4>3
    <3>3. Physical(m, pml4, address) = page
      BY <2>3, <3>2 DEF Physical
    <3>4. s' = vmm_map_page_pml4(m, pml4, pml4, address, v)
      BY <1>1, <2>5
    <3> QED BY <1>5, <2>3, <2>4, <3>1, <3>3, <3>4, MapStep
  <2>7. request'.virt = v /\ request'.phys = page
    BY <1>1
  <2>8. m.pmm = s.pmm /\ m.mem = s.mem
    BY <1>2, <2>5
  <2> QED BY <1>1, <1>3, <2>1, <2>6, <2>7, <2>8, ClientStep
<1> QED BY <1>4, <1>5

LEMMA UnmapInv ==
  ASSUME VmmInv, NEW v \in ClientVirt, unmap_page(v)
  PROVE  VmmInv' /\ Flushes
<1>1. /\ booted /\ s' = vmm_unmap_page(Fresh, pml4, v) /\ request' = NoRequest
      /\ UNCHANGED <<pml4, cr3, new_pml4, next, call, owned>>
  BY DEF unmap_page
<1>2. /\ IsMachine(s) /\ IsMachine(Fresh) /\ Fresh.starved = s.starved
      /\ Fresh.mem = s.mem /\ Fresh.pmm = s.pmm
  BY FreshIs DEF VmmInv
<1>3. IsMachine(s') /\ (s.starved => s'.starved) /\ v \in s'.flushed
  BY <1>1, <1>2, UnmapStarves, ClientPage
<1>4. CASE s'.starved
  BY <1>3, <1>4 DEF VmmInv, Flushes
<1>5. CASE ~s'.starved
  <2>1. Running
    BY <1>1, <1>3, <1>5, AfterBoot
  <2>2. IsPage(v)
    BY ClientPage
  <2>3. PICK m : m = Fresh
    OBVIOUS
  <2>4. ASSUME NEW g, Sound(s, g), Tree(s, g, pml4)
        PROVE  \E g2 : Mapped(m, g, s', g2, pml4, v, UINT64_MAX)
    <3>1. Sound(m, g) /\ Tree(m, g, pml4)
      BY <1>2, <2>3, <2>4, FreshIs
    <3>2. s' = vmm_unmap_page(m, pml4, v)
      BY <1>1, <2>3
    <3> QED BY <1>5, <2>2, <3>1, <3>2, UnmapStep
  <2>5. m.pmm = s.pmm /\ m.mem = s.mem
    BY <1>2, <2>3
  <2> QED BY <1>1, <1>3, <2>1, <2>4, <2>5, ClientStep
<1> QED BY <1>4, <1>5

\* pmm_free: the page may become a table at once, but no page the kernel still
\* holds does.
LEMMA FreeInv ==
  ASSUME VmmInv, NEW page \in owned, NEW address, free_page(page, address)
  PROVE  VmmInv' /\ Flushes
<1>1. /\ booted /\ vmm_virt_to_phys(s, pml4, address) = page /\ s' = FreePage(Fresh, pml4, address)
      /\ owned' = owned \ {page} /\ request' = NoRequest
      /\ UNCHANGED <<pml4, cr3, new_pml4, next, call>>
  BY DEF free_page
<1>2. /\ IsMachine(s) /\ IsMachine(Fresh) /\ Fresh.starved = s.starved
      /\ Fresh.mem = s.mem /\ Fresh.pmm = s.pmm
  BY FreshIs DEF VmmInv
<1>3. s' = FreePhys(Fresh, pml4, page)
  <2>1. vmm_virt_to_phys(Fresh, pml4, address) = vmm_virt_to_phys(s, pml4, address)
    BY <1>2 DEF vmm_virt_to_phys
  <2> QED BY <1>1, <2>1 DEF FreePage
<1>4. IsMachine(s') /\ (s.starved => s'.starved)
  BY <1>2, <1>3, FreeStarves
<1>5. CASE s'.starved
  BY <1>4, <1>5 DEF VmmInv, Flushes
<1>6. CASE ~s'.starved
  <2>1. Running
    BY <1>1, <1>4, <1>6, AfterBoot
  <2>2. Served(s, pml4) /\ \A p \in owned : Granted(s.pmm, p)
    BY <2>1 DEF Running
  <2>3. /\ Translate(s, pml4, pmm_phys_to_virt(page)) = page /\ Translate(s, pml4, page) = UINT64_MAX
        /\ page \in PhysPages
    BY <2>2, GrantedPlace
  <2>4. PICK g : Sound(s, g) /\ Tree(s, g, pml4) /\ \A p \in owned : NoTable(g, p)
    BY <2>1 DEF Running
  <2>5. PICK m : m = Fresh
    OBVIOUS
  <2>6. /\ Sound(m, g) /\ Tree(m, g, pml4) /\ m.pmm = s.pmm
        /\ \A u : Translate(m, pml4, u) = Translate(s, pml4, u)
    BY <1>2, <2>4, <2>5, FreshIs
  <2>7. PICK g2 : Frees(m, g, s', g2, pml4, page)
    BY <1>3, <1>6, <2>3, <2>4, <2>5, <2>6, FreeStep
  <2>8. /\ Sound(s', g2) /\ Tree(s', g2, pml4) /\ Grows(m, g, s', g2, pml4, {page})
        /\ \A u : IsPage(u) => Translate(s', pml4, u) = Translate(m, pml4, u)
    BY <2>7 DEF Frees
  <2>9. g2 \in Ghosts
    BY <2>8 DEF Sound
  <2>10. \A p \in owned' : Granted(s'.pmm, p) /\ NoTable(g2, p)
    <3>1. PICK F : F = {page}
      OBVIOUS
    <3>2. \A p \in owned' : p \in owned /\ p \notin F
      BY <1>1, <3>1
    <3>3. Grows(m, g, s', g2, pml4, F)
      BY <2>8, <3>1
    <3> QED BY <2>2, <2>4, <2>6, <2>9, <3>2, <3>3, StaysGranted
  <2>11. Served(s', pml4)
    BY <2>2, <2>6, <2>8 DEF Served
  <2>12. VmmInv'
    BY <1>1, <2>1, <2>8, <2>10, <2>11, KeepsRunning
  <2>13. Flushes
    BY <1>1, <2>1, <2>6, <2>8, ClientPage DEF Running, Flushes
  <2> QED BY <2>12, <2>13
<1> QED BY <1>5, <1>6

\* memory_init's steps come before the kernel runs.
LEMMA BootSteps ==
  ASSUME VmmInv, memory_init \/ MapEntry \/ MapKernel \/ map_round \/ vmm_set_pml4, booted
  PROVE  s.starved
<1>1. KernelCall \in Nat /\ Load = KernelCall + 1 /\ next > Load
  BY RangeKinds DEF booted
<1>2. \A k : k \in DOMAIN memmap_entries => k \in 1 .. KernelCall
  BY RangeKinds DEF Ranges
<1>3. CASE memory_init \/ MapEntry \/ MapKernel \/ vmm_set_pml4
  BY <1>1, <1>2, <1>3 DEF memory_init, MapEntry, MapKernel, vmm_set_pml4
<1>4. CASE map_round
  BY <1>4, AfterBoot DEF map_round, Running
<1> QED BY <1>3, <1>4

LEMMA StutterInv ==
  ASSUME VmmInv, UNCHANGED vars
  PROVE  VmmInv' /\ Flushes
<1>1. VmmInv'
  BY DEF VmmInv, vars, Init, Building, Running
<1>2. s' = s /\ cr3' = cr3
  BY DEF vars
<1> QED BY <1>1, <1>2 DEF Flushes

\* Once an allocation has found no page, that is remembered.
LEMMA StarvedStays ==
  ASSUME VmmInv, s.starved, memory_init \/ MapEntry \/ MapKernel \/ map_round \/ vmm_set_pml4, booted
  PROVE  s'.starved
<1>1. KernelCall \in Nat /\ Load = KernelCall + 1 /\ next > Load
  BY RangeKinds DEF booted
<1>2. \A k : k \in DOMAIN memmap_entries => k \in 1 .. KernelCall
  BY RangeKinds DEF Ranges
<1>3. map_round
  BY <1>1, <1>2 DEF memory_init, MapEntry, MapKernel, vmm_set_pml4
<1>4. IsMachine(Fresh) /\ Fresh.starved = s.starved
  BY FreshIs DEF VmmInv
<1> DEFINE w == WalkTables(Fresh, new_pml4, VirtAt(call))
           n == MapOne(w, pml4, VirtAt(call), call.num_pages - 1 - call.i,
                       call.phys + (PAGE * call.i), call.i)
<1>5. IsMachine(w.s) /\ (Fresh.starved => w.s.starved)
  BY <1>4, WalkTablesStarves
<1>6. s' = n.s
  BY <1>3 DEF map_round, MapRound
<1>7. w.s.starved => n.s.starved
  BY <1>5, RoundIs
<1> QED BY <1>4, <1>5, <1>6, <1>7

LEMMA BootFlushes ==
  ASSUME VmmInv, memory_init \/ MapEntry \/ MapKernel \/ map_round \/ vmm_set_pml4
  PROVE  Flushes
BY BootSteps, StarvedStays DEF Flushes

LEMMA VmmNextPreserves ==
  ASSUME NoHugePages, VmmInv, [Next]_vars
  PROVE  VmmInv' /\ Flushes
<1>1. CASE memory_init
  BY <1>1, MemoryInitInv, BootFlushes
<1>2. CASE MapEntry
  BY <1>2, MapEntryInv, BootFlushes
<1>3. CASE MapKernel
  BY <1>3, MapKernelInv, BootFlushes
<1>4. CASE map_round
  BY <1>4, MapRoundInv, BootFlushes
<1>5. CASE vmm_set_pml4
  BY <1>5, SetPml4Inv, BootFlushes
<1>6. CASE alloc_page
  BY <1>6, AllocInv
<1>7. ASSUME NEW page \in owned, NEW v \in ClientVirt,
             NEW address \in {page, pmm_phys_to_virt(page)}, vmm_map_page(page, address, v)
      PROVE  VmmInv' /\ Flushes
  BY <1>7, MapPageInv
<1>8. ASSUME NEW v \in ClientVirt, unmap_page(v) PROVE VmmInv' /\ Flushes
  BY <1>8, UnmapInv
<1>9. ASSUME NEW page \in owned, NEW address, free_page(page, address) PROVE VmmInv' /\ Flushes
  BY <1>9, FreeInv
<1>10. CASE UNCHANGED vars
  BY <1>10, StutterInv
<1> QED BY <1>1, <1>2, <1>3, <1>4, <1>5, <1>6, <1>7, <1>8, <1>9, <1>10 DEF Next

-----------------------------------------------------------------------------
\* What the invariant says

\* The tables of each level of the tree that memory holds are those of g.
LEMMA TablesAre ==
  ASSUME NEW m, NEW g, NEW r, Tree(m, g, r)
  PROVE  /\ \A t \in Inner(m, r) : \E k, l : Below(k, l) /\ IsTable(g, l, r, t)
         /\ \A t \in Tables(m, r) : \E l : IsTable(g, l, r, t)
         /\ \A x \in Links(m, Inner(m, r)) :
              \E k, t, i : x = <<t, i>> /\ IsChild(g, k, r, t, i, Target(m, x))
<1>1. IsTable(g, 4, r, r)
  BY DEF Tree
<1>2. ASSUME NEW k, NEW l, Below(k, l), NEW t, IsTable(g, l, r, t), NEW i \in Indices, NEW c,
             Leads(m.mem[t][i], c)
      PROVE  IsChild(g, k, r, t, i, c)
  BY <1>2 DEF Tree, EntryOK, Ent, Leads
<1>3. ASSUME NEW S, NEW k, NEW l, Below(k, l), \A t \in S : IsTable(g, l, r, t),
             NEW c \in Targets(m, S)
      PROVE  IsTable(g, k, r, c)
  <2>1. PICK t \in S, i \in Indices : Leads(m.mem[t][i], c)
    BY LinksAre
  <2>2. IsChild(g, k, r, t, i, c)
    BY <1>2, <1>3, <2>1
  <2> QED BY <2>2, Kinds
<1>4. \A t \in Pdpts(m, r) : IsTable(g, 3, r, t)
  <2>1. PICK S : S = {r}
    OBVIOUS
  <2>2. \A t \in S : IsTable(g, 4, r, t)
    BY <1>1, <2>1
  <2> QED BY <1>3, <2>1, <2>2, LevelsBelow DEF Pdpts
<1>5. \A t \in Pds(m, r) : IsTable(g, 2, r, t)
  BY <1>3, <1>4, LevelsBelow DEF Pds
<1>6. \A t \in Pts(m, r) : IsTable(g, 1, r, t)
  BY <1>3, <1>5, LevelsBelow DEF Pts
<1>7. \A t \in Inner(m, r) : \E k, l : Below(k, l) /\ IsTable(g, l, r, t)
  BY <1>1, <1>4, <1>5, LevelsBelow DEF Inner
<1>8. \A t \in Tables(m, r) : \E l : IsTable(g, l, r, t)
  BY <1>6, <1>7 DEF Tables
<1>9. ASSUME NEW x \in Links(m, Inner(m, r))
      PROVE  \E k, t, i : x = <<t, i>> /\ IsChild(g, k, r, t, i, Target(m, x))
  <2>1. PICK t \in Inner(m, r), i \in Indices : x = <<t, i>> /\ Leads(m.mem[t][i], Target(m, x))
    BY <1>9, LinksAre
  <2>2. PICK k, l : Below(k, l) /\ IsTable(g, l, r, t)
    BY <1>7
  <2>3. IsChild(g, k, r, t, i, Target(m, x))
    BY <1>2, <2>1, <2>2
  <2> QED BY <2>1, <2>3
<1> QED BY <1>7, <1>8, <1>9

\* They form a tree.
LEMMA TablesFormTree ==
  ASSUME NEW m, NEW g, NEW r, Tree(m, g, r)
  PROVE  IsTree(m, r)
<1>1. IsTable(g, 4, r, r)
  BY DEF Tree
<1>2. ASSUME r \in Targets(m, Inner(m, r)) PROVE FALSE
  <2>1. PICK x \in Links(m, Inner(m, r)) : r = Target(m, x)
    BY <1>2 DEF Targets
  <2>2. PICK k, t, i : IsChild(g, k, r, t, i, r)
    BY <2>1, TablesAre
  <2>3. k \in 1 .. 3 /\ IsTable(g, k, r, r)
    BY <2>2, Kinds DEF IsChild
  <2>4. k = 4
    BY <1>1, <2>3, Kinds
  <2> QED BY <2>3, <2>4
<1>3. ASSUME NEW x \in Links(m, Inner(m, r)), NEW y \in Links(m, Inner(m, r)),
             Target(m, x) = Target(m, y)
      PROVE  x = y
  <2>1. PICK k, t, i : x = <<t, i>> /\ IsChild(g, k, r, t, i, Target(m, x))
    BY TablesAre
  <2>2. PICK l, u, j : y = <<u, j>> /\ IsChild(g, l, r, u, j, Target(m, y))
    BY TablesAre
  <2>3. t = u /\ i = j
    BY <1>3, <2>1, <2>2, Kinds
  <2> QED BY <2>1, <2>2, <2>3
<1> QED BY <1>2, <1>3 DEF IsTree

LEMMA InvDirectMap ==
  ASSUME VmmInv
  PROVE  DirectMap
<1> SUFFICES ASSUME booted, ~s.starved
             PROVE  /\ cr3 = pml4
                    /\ \A p \in MappedPages : Translate(s, cr3, pmm_phys_to_virt(p)) = p
  BY DEF DirectMap
<1>1. cr3 = pml4 /\ Served(s, pml4)
  BY AfterBoot DEF Running
<1> QED BY <1>1, ServedDirect

LEMMA InvKernelMapped ==
  ASSUME VmmInv
  PROVE  KernelMapped
<1> SUFFICES ASSUME booted, ~s.starved, NEW v \in KernelImage
             PROVE  Translate(s, cr3, v) = Translate(BootMap, boot_cr3, v)
  BY DEF KernelMapped
<1>1. cr3 = pml4 /\ Served(s, pml4)
  BY AfterBoot DEF Running
<1>2. v \notin ClientVirt
  BY ClientPage
<1> QED BY <1>1, <1>2, WantedPages DEF Served

LEMMA InvTablesReserved ==
  ASSUME VmmInv
  PROVE  TablesReserved
<1> SUFFICES ASSUME booted, ~s.starved
             PROVE  /\ \A p \in owned : Reserved(p)
                    /\ \A t \in Tables(s, pml4) : Reserved(t) /\ t \notin owned
                    /\ IsTree(s, pml4)
  BY DEF TablesReserved
<1>1. Running
  BY AfterBoot
<1>2. PICK g : Sound(s, g) /\ Tree(s, g, pml4) /\ \A p \in owned : NoTable(g, p)
  BY <1>1 DEF Running
<1>3. \A p \in owned : Reserved(p)
  BY <1>1 DEF Running, Granted, Marked, Reserved
<1>4. ASSUME NEW t \in Tables(s, pml4) PROVE Reserved(t) /\ t \notin owned
  <2>1. PICK l : IsTable(g, l, pml4, t)
    BY <1>2, TablesAre
  <2>2. Marked(s.pmm, t) /\ t \notin owned
    BY <1>2, <2>1, Kinds DEF Sound
  <2> QED BY <2>2 DEF Marked, Reserved
<1>5. IsTree(s, pml4)
  BY <1>2, TablesFormTree
<1> QED BY <1>3, <1>4, <1>5

LEMMA InvMapsWhatWasAsked ==
  ASSUME VmmInv
  PROVE  MapsWhatWasAsked
<1> SUFFICES ASSUME booted, ~s.starved
             PROVE  /\ request # NoRequest => Translate(s, cr3, request.virt) = request.phys
                    /\ \A v \in VirtPages \ (ClientVirt \cup KernelImage \cup DirectPages) :
                         Translate(s, cr3, v) = UINT64_MAX
  BY DEF MapsWhatWasAsked
<1>1. Running
  BY AfterBoot
<1>2. cr3 = pml4 /\ Served(s, pml4)
      /\ (request # NoRequest => Translate(s, pml4, request.virt) = request.phys)
  BY <1>1 DEF Running
<1>3. ASSUME NEW v \in VirtPages, v \notin ClientVirt, v \notin KernelImage, v \notin DirectPages
      PROVE  Translate(s, cr3, v) = UINT64_MAX
  <2>1. IsPage(v)
    BY <1>3, VirtPageIs
  <2>2. ~Wanted(v)
    BY <1>3, <2>1, WantedPages
  <2> QED BY <1>2, <1>3, <2>1, <2>2 DEF Served
<1> QED BY <1>2, <1>3

LEMMA CallType ==
  ASSUME NEW k \in Ranges, NEW b, CallIs(k, b)
  PROVE  b \in [phys : Nat, virt : Nat, num_pages : Nat, i : Nat]
<1>1. b.i \in Nat /\ RangePhys(k) \in Nat /\ RangeVirt(k) \in Nat /\ RangePages(k) \in Nat
  BY CallFields, RangeIs
<1>2. b = [phys |-> RangePhys(k), virt |-> RangeVirt(k), num_pages |-> RangePages(k), i |-> b.i]
  BY DEF CallIs
<1> QED BY <1>1, <1>2

LEMMA InvTypeOK ==
  ASSUME VmmInv
  PROVE  TypeOK
<1> DEFINE Calls4 == [phys : Nat, virt : Nat, num_pages : Nat, i : Nat]
<1>1. NoCall \in Calls4
  BY DEF NoCall
<1>2. ASSUME NEW g, Sound(s, g)
      PROVE  /\ s.pmm \in [bitmap : [BitmapCells -> BOOLEAN], num : Nat]
             /\ s.mem \in [PhysPages -> [Indices -> EntryStates]]
  <2>1. s.pmm \in PmmStates /\ s.mem \in Memories
    BY <1>2 DEF Sound, Consistent
  <2> QED BY <2>1 DEF PmmStates, Memories
<1>3. boot_cr3 \in PhysPages
  BY BootMapAssumption
<1> HIDE DEF Calls4
<1>4. ASSUME Init, ~s.starved PROVE TypeOK
  <2>1. s.pmm = [bitmap |-> [c \in BitmapCells |-> FALSE], num |-> 0]
        /\ s.mem = [p \in PhysPages |-> IF p \in DOMAIN boot_mem THEN boot_mem[p] ELSE EmptyTable]
    BY <1>4 DEF Init
  <2>2. s.pmm \in [bitmap : [BitmapCells -> BOOLEAN], num : Nat]
    BY <2>1
  <2>3. s.mem \in [PhysPages -> [Indices -> EntryStates]]
    <3>1. EmptyTable \in [Indices -> EntryStates]
      BY NoEntryIs DEF EmptyTable
    <3>2. \A p \in DOMAIN boot_mem : boot_mem[p] \in [Indices -> EntryStates]
      BY BootMapAssumption
    <3> QED BY <2>1, <3>1, <3>2
  <2>4. /\ pml4 = boot_cr3 /\ cr3 = boot_cr3 /\ new_pml4 = 0 /\ next = 0 /\ call = NoCall
        /\ owned = {}
    BY <1>4 DEF Init
  <2>5. 0 \in PhysPages
    BY TableAssumption
  <2> QED BY <1>1, <1>3, <2>2, <2>3, <2>4, <2>5 DEF TypeOK, Calls4
<1>5. ASSUME Building, ~s.starved PROVE TypeOK
  <2>1. /\ pml4 = boot_cr3 /\ cr3 = boot_cr3 /\ new_pml4 \in PhysPages /\ owned = {}
        /\ next \in 1 .. Load /\ (next = 1 => call = NoCall) /\ (next # 1 => CallIs(next - 1, call))
    BY <1>5 DEF Building
  <2>2. next \in Nat /\ (next # 1 => next - 1 \in Ranges)
    BY <2>1, RangeKinds DEF Ranges
  <2>3. call \in Calls4
    BY <1>1, <2>1, <2>2, CallType DEF Calls4
  <2>4. PICK g : Sound(s, g)
    BY <1>5 DEF Building
  <2> QED BY <1>2, <1>3, <2>1, <2>2, <2>3, <2>4 DEF TypeOK, Calls4
<1>6. ASSUME Running, ~s.starved PROVE TypeOK
  <2>1. /\ pml4 \in PhysPages /\ cr3 = pml4 /\ new_pml4 = pml4 /\ next = Load + 1
        /\ CallIs(KernelCall, call) /\ \A p \in owned : Granted(s.pmm, p)
    BY <1>6 DEF Running
  <2>2. next \in Nat /\ KernelCall \in Ranges
    BY <2>1, RangeKinds DEF Ranges
  <2>3. call \in Calls4
    BY <2>1, <2>2, CallType DEF Calls4
  <2>4. PICK g : Sound(s, g)
    BY <1>6 DEF Running
  <2>5. owned \subseteq PhysPages
    BY <2>1 DEF Granted
  <2> QED BY <1>2, <2>1, <2>2, <2>3, <2>4, <2>5 DEF TypeOK, Calls4
<1> QED BY <1>4, <1>5, <1>6 DEF VmmInv, TypeOK

-----------------------------------------------------------------------------
\* The theorems

\* Paging keeps its invariant, whatever the kernel allocates, maps, unmaps and
\* frees, if memory_init takes no 1 GiB pages.
THEOREM VmmInvariance ==
  ASSUME NoHugePages
  PROVE  Spec => []VmmInv
<1>1. Init => VmmInv
  BY InitInv
<1>2. VmmInv /\ [Next]_vars => VmmInv'
  BY VmmNextPreserves
<1> QED BY <1>1, <1>2, PTL DEF Spec

\* Every variable of the VMM has its type, and cr3 holds a physical page
\* (vmm.c:441-447), as long as pmm_allocz finds pages for the tables.
THEOREM VmmTypeCorrect ==
  ASSUME NoHugePages
  PROVE  Spec => []TypeOK
<1>1. VmmInv => TypeOK
  BY InvTypeOK
<1> QED BY <1>1, VmmInvariance, PTL

\* After memory_init the processor walks the tree the VMM edits, and every page
\* of the memory map stays at its place in the direct map.
THEOREM DirectMapKept ==
  ASSUME NoHugePages
  PROVE  Spec => []DirectMap
<1>1. VmmInv => DirectMap
  BY InvDirectMap
<1> QED BY <1>1, VmmInvariance, PTL

\* The kernel image stays where the bootloader had put it: the instruction after
\* the load of cr3 in vmm_set_pml4 is still mapped.
THEOREM KernelStaysMapped ==
  ASSUME NoHugePages
  PROVE  Spec => []KernelMapped
<1>1. VmmInv => KernelMapped
  BY InvKernelMapped
<1> QED BY <1>1, VmmInvariance, PTL

\* The page tables form a tree of pages that pmm_alloc does not hand out, none
\* of which the kernel holds, although pmm_free maps the page it has freed.
THEOREM TablesStayReserved ==
  ASSUME NoHugePages
  PROVE  Spec => []TablesReserved
<1>1. VmmInv => TablesReserved
  BY InvTablesReserved
<1> QED BY <1>1, VmmInvariance, PTL

\* vmm_map_page maps the page it was asked for, and no page is mapped that
\* nobody asked for.
THEOREM MapsAsAsked ==
  ASSUME NoHugePages
  PROVE  Spec => []MapsWhatWasAsked
<1>1. VmmInv => MapsWhatWasAsked
  BY InvMapsWhatWasAsked
<1> QED BY <1>1, VmmInvariance, PTL

\* No step of vmm_map_page, vmm_unmap_page, pmm_alloc or pmm_free changes the
\* translation of a mapped page without invalidating it.
THEOREM TranslationsFlushed ==
  ASSUME NoHugePages
  PROVE  Spec => NoStaleTranslation
<1>1. VmmInv /\ [Next]_vars =>
        [booted /\ ~s'.starved =>
           \A v \in ClientVirt :
             Translate(s, cr3, v) \notin {UINT64_MAX, Translate(s', cr3', v)} => v \in s'.flushed]_vars
  BY VmmNextPreserves DEF Flushes
<1> QED BY <1>1, VmmInvariance, PTL DEF Spec, NoStaleTranslation

=============================================================================
