# BambooOS: a verification project

TLA+ models of the BambooOS kernel (`src/src/`), TLC configurations that check
them on small machines, and TLAPS proofs for machines of every size.

BambooOS is a single threaded x86-64 kernel booted by Limine. Interrupts only
report faults and hang; only device controllers run beside it. What is hard in
it is therefore seldom concurrency and mostly long sequences of legal calls over shared, low level data structures: page
tables that are edited through the mappings they define, an allocator whose
bitmap lives in the pages it allocates, a heap whose headers lie between the
clients' bytes, and boundary arithmetic in all of them.

## Inventory

| Part | Source | State | Operations | Interacts with |
|---|---|---|---|---|
| Physical memory manager | `mem/pmm.c` | bitmap in the first usable pages, `pmm_num_allocated_pages` | `pmm_init`, `pmm_alloc`, `pmm_allocz`, `pmm_free`, lookups by index and address | `pmm_free` maps the page again (VMM) |
| Virtual memory manager | `mem/vmm.c` | the page tables, current PML4, cr3, TLB | `vmm_map_page`, `vmm_map_pages_pml4`, `vmm_unmap_page`, `vmm_virt_to_phys`, `vmm_set_pml4` | allocates and frees tables (PMM), reaches them through the direct map it builds |
| Memory initialisation | `mem/memory.c` | none | `memory_init` | builds a page map and switches to it |
| Heap | `mem/heap.c` | segment list, `heap_size` | `heap_init`, `malloc`, `realloc`, `free` | PMM and VMM for new pages |
| Vectors | `inc/vector.c` | length, items | `vector_add`, `vector_insert`, `vector_delete_at`, ... | heap |
| ACPI | `acpi/*.c` | RSDP, RSDT/XSDT, parsed tables, MADT and MCFG vectors | `acpi_init`, table handlers, getters | vectors, heap; read by APIC and PCI code |
| PCI Express | `pci/pcie.c`, `pci/pci.c` | `pci_devices` | `pcie_probe` and its recursion, `pci_register_device`, driver dispatch | MCFG vectors, `vmm_map_page_flags` |
| Drivers | `dev/` | device registers | `ahci_init`, `nvme_init` | PCI |
| Interrupts | `int/*.c` | IDT | `int_init`, `lapic_init`, handlers that hang | MADT vectors |
| Text output | `rendering/*.c`, `inc/stdio.c` | cursor, framebuffer, font | `printf`, `font_load`, wrapping, the two columns | called by all |
| Boot | `kentry.c`, `kernel.c`, `inc/faults.c` | `boot_data_t` | `kentry`: framebuffer, font, the bootloader's answers; `kernel_init`: memory, heap, test, ACPI, interrupts, PCI; `faults_hang`, `faults_panic` | fixes the order of all of the above |

The behaviours that are hard to test, each at its line, are the `hazards` of
`PROJECT.json`. The ones that matter most:

* `pmm_free` clears the page's bit and then maps the page, which may allocate
  tables, among them the page being freed.
* Larger pages are taken and split in the very map through which the tables
  are reached.
* Tables are freed by a loop that still holds pointers into their parents.
* The new page map is loaded while code, stack and tables are used through
  the old one.
* The heap extends its last segment without knowing whether it is free, and
  merging touches the header after the one it absorbs.
* Out of memory is reported as physical page 0, which every caller uses.
* A failed or repeated parse of an ACPI table leaves state behind that later
  code reads without asking whether the parse succeeded.
* The PCI probe recurses through bridges and has no memory of where it has been.
* An AHCI controller resets itself while the driver waits for it.
* Wrapping, the change of column and the clearing of the screen happen inside of
  one drawn character.
* A vector's items are moved over each other inside of their block.

## Modules

| Module | Models | How |
|---|---|---|
| `PmmBitmap` | the algorithms of `pmm.c` | pure operators on `[bitmap, num]`; a bit is `<<bitmap page, bit>>`, so that bits of different pages of the bitmap, and bits in cleared pages, are told apart |
| `PageAllocator` | what the allocator promises | abstract specification: a set of pages, owned or not |
| `Pmm` | `pmm.c` as a state machine | one action per function; `pmm_free` with its three outcomes (refused, before the VMM, after it) |
| `PageTables` | the algorithms of `vmm.c` | pure operators on `[pmm, mem, flushed, starved]`: the allocator, the table in each physical page, the pages passed to `invlpg`, whether an allocation has found no page |
| `Vmm` | `memory_init` and the use of the VMM afterwards | composes `PmmBitmap` and `PageTables`; `memory_init` a call of `vmm_map_pages_pml4` at a time (`memory_init`, `MapEntry`, `MapKernel`, `vmm_set_pml4`) and each call a round of its loop at a time (`map_round`), then `alloc_page`, `vmm_map_page`, `unmap_page`, `free_page` |
| `MapPages` | the loop of `vmm_map_pages_pml4` | one action per call (`map_range`), over ranges at every boundary, and one per round of the loop (`map_round`) |
| `Heap` | `heap.c` | headers by address; one action per function |
| `Acpi` | `acpi.c`, `madt.c`, `mcfg.c` and `lapic_init` | the boot's single thread: a step per function, per table of the RSDT and per entry of the MADT and the MCFG |
| `PciTables` | `pci_tables.c` | the tables as sequences of keys, the lookups as operators; a string is the row that holds it |
| `Pci` | `pcie.c`, `pci.c`, `ahci.c`, `nvme.c` | the probe with its recursion as an explicit stack, a step per function looked at; the drivers; the AHCI controllers' resets as steps beside them |
| `Text` | `renderer.c` and `printf` | the cursor and its two columns; a step per character of a format or of a conversion's text; a panic is a call of `printf` after which the machine hangs |
| `Boot` | `kentry.c`, `framebuffer.c`, `font.c` | the bootloader's answers one by one; `font_load`'s scan a byte at a time |
| `VectorSpec` | what a vector promises | abstract specification: a sequence of addresses |
| `Vector` | `vector.c` | one action per function, one per item moved or freed; implements `VectorSpec` |
| `PmmProofs`, `VmmProofs`, `HeapProofs`, `VectorProofs`, `AcpiProofs`, `PciProofs`, `TextProofs`, `BootProofs` | proofs about the module each is named after | lemmas about its operators, the inductive invariant, a lemma per action, the theorems |
| `MC...` | TLC instances | constants; `MCVmm` also has TLC check that its memory map needs no 1 GiB page |

Definitions have the names of the functions they model. Operators whose name is
that of another with a suffix (`TakesPd_Unaligned`) are mutants: plausible bugs
that a property must detect.

### Correspondence and abstractions

* Sizes are parameters: `PAGE` bytes in a page, `BITS` bits in a bitmap page,
  `ENTRIES` entries in a table, `HDR` bytes in a header. `UINT64_MAX` is any
  number above all addresses and indices.
* A bit is one bit, not a byte and a mask: `page[byte] & (1 << bit)` at
  `index / 8` and `index % 8` is the bit `index`.
* A table entry keeps the present and larger pages flags and its address. The
  other flags (write, cache) change no walk. `vmm_map_page_flags` differs from
  `vmm_map_page` in those flags alone.
* The tables are addressed by physical page. The code adds
  `vmm_page_tables_offset`; that this reaches the table is the invariant
  `DirectMap`, so the abstraction is checked.
* `Translate` is the processor's walk (external), written apart from
  `vmm_virt_to_phys`: it keeps the offset in the page and faults on a larger
  page that is not aligned.
* In `Vmm` a page not passed to `invlpg` in a step that changes its translation
  may be stale in the TLB; `flushed` holds the pages passed in the last step.
* `call` is the call of `vmm_map_pages_pml4` under way: its arguments and how far
  it is. The code looks up the next entry's tables at the end of a round, the model
  at the start of the next: nothing runs in between.
* `starved` is history: an allocation has found no page, and since its result is not
  checked, physical page 0 is now a table or a page in use. The properties of `Vmm`
  are stated up to that moment, since from there on the map is whatever page 0 holds.
* In `Heap` the walk along `next` is replaced by what it finds; `SegmentsTile`
  says it finds that. A step after which header bytes and clients' bytes are
  the same bytes sets `health` to `corrupt`, a write through NULL to `fault`,
  and the model goes no further: the kernel's behaviour from there on depends
  on the clients' data.
* `free` and `realloc` get a block the client holds. Any other pointer is
  rejected by the walk (`free` returns, `realloc` is `malloc`).
* In `Acpi` a firmware is chosen at the start and never changes. A vector is a
  sequence. `MadtEntry` walks over byte offsets, as the code does, so that an
  advance by the wrong length reads inside an entry; a table's `starts` are the
  offsets of its entries, the running sum of their lengths (`TableOK`). `handlers[]` is searched
  past its end (`acpi.c:143` counts bytes): `stray` is whatever the bytes there
  read as, and a match is a call into nowhere.
* `Pci` takes the segment groups as `Acpi` leaves them (`TablesAsListed`). Addresses
  count pages: a function's configuration space is one page. Machines are chosen
  at the start. `Place` is where the host bridge decodes a function (external),
  written apart from `FunctionAddress`, which is the code's. A read where there is
  no function gives ones. Firmware has numbered the buses (`NumberingAssumption`):
  a bridge leads to a bus above its own. With one that does not, `pcie_probe_bus`
  calls itself for ever.
* `pci_register_device` allocates a device whose unset pointers read as NULL: the
  heap's pages come cleared, and the kernel has freed nothing by then.
* In `Text` a glyph is the rectangle at the place it is drawn, a character a one
  letter string, and `uint64_t` and `uint32_t` are 10 and 8 bits wide. `last`, `page`,
  `number` and `lines` are history: the place drawn last, which screenful, the last
  number converted, and the line each character of the format went to. The panic
  message is the inline form (`FAULTS_PANIC_INLINE`), shortened.
* In `Boot` a font is the list of the characters each glyph stands for, from which
  `UnicodeTable` makes the bytes of the PSF2 table (external). Glyph bitmaps and
  pixels are left out.
* `Vector` takes the heap for sound: a new block holds anything, `realloc` keeps what
  both blocks have room for. That is what `Heap` shows as long as its `health` is
  ok. After an access outside of the block nothing more is said (`broken`).
* The boot memory map is what the Limine protocol guarantees (`MemmapAssumption`):
  usable entries are page aligned, disjoint, never contain page 0, and there is
  at least one.

## Runs

Those that pass:

| Run | Instance | Shows |
|---|---|---|
| `pmm` | 7 usable pages in two entries with holes between them, 3 bits per bitmap page (so the bitmap spans both entries), any address freed | `ImplementsAllocator`: the bitmap is an allocator of pages. `CountMatchesBitmap` and `BitmapPagesReserved` through double and foreign frees and with memory full |
| `vmm` | tables of 4 entries, 112 physical pages, 8 memory map entries, boot map of 2 MiB pages, 2 client pages | boot, round by round, and every order of map, unmap, free: `DirectMap`, `KernelMapped`, `TablesReserved` (also of the clients' pages), `MapsWhatWasAsked` (and nothing else), `NoStaleTranslation` |
| `map_pages` | same machine, one or two ranges from 5 bases and 18 lengths around every threshold | `MapsExactly`, `BothMapsKept` (the map in the making and the current one) |
| `heap` | 3 clients, pages of 8 bytes, headers of 2, 3 pages; sizes that leave room for a header, no room, fit exactly, or need a second page | `SegmentsTile`, `BlocksSound`, `ReallocCopies`; `ListUntilFreed` until the first `free`, which the kernel does not call today: why the bugs of `free` have not been seen; `BreaksOnlyWhere`, the complete list of the ways in which a legal call breaks the heap |
| `acpi` | every revision with valid and broken roots; every list of up to 3 of 9 tables (whole, empty, broken, with an unknown entry, repeated) | `TablesAsListed` (MADT and MCFG), `FaultsExplained`, and the liveness `BootEnds` |
| `pci` | 5 bus numbers, 2 slots of 2 functions; every wiring of up to 4 bridges with disks on the buses; two segment groups, one up to the highest bus; a function of every kind in the tables | `FoundOncePerWay`, `MapsOnlyDevices`, `NestingBounded`, `ControllersEnabled`, `DescriptorsAsListed`, and the liveness `ProbeEnds` |
| `text` | three screens (a line that is a multiple of a character wide, one that is not, columns of one line), 18 calls with every conversion, one panic | `NoOverdraw`, `InItsColumn`, `WordsWhole`, `NumberReadsBack` |
| `boot` | every combination of base revision, framebuffers and 11 lists of modules with six sets of other answers; every font of up to 4 glyphs over 5 kinds of line, 3 characters | `MappingsAsListed`, `OutcomeExplained`, and the liveness `BootDecided`; `TypeOK` says that the scan stays in the file |
| `vector` | up to 4 items of 2 kinds, 4 bit arithmetic, indices past the end and the largest | `ImplementsSequence` |

What `FoundOncePerWay` means for the kernel: a device behind a bridge whose bus is
in the group's range is registered twice or more, since the loop over the buses
comes to it again, and its driver is started as often; a device on the last bus
of a group is found only if a bridge leads there. `ControllersEnabled` shows that
the repeated start of `ahci_init` does no harm.

Those that show a disagreement between a comment and the code (see `findings` in
`PROJECT.json`): `vmm_large` (the parts of a split 1 GiB page lose the larger pages
flag), `heap_twice` (a block in use is extended and handed out again) and
`pci_bridge` (a bridge never gets its header).

Other disagreements that the models contain, as the code does, and that no run
is about:

* with memory full `pmm_alloc` returns the direct map address of page 0;
* `vmm_map_pages_pml4` keeps a page allocated for every leaf entry it makes;
* `vmm_map_page` translates a physical address again if it is also mapped as a
  virtual one (`MapsWhatWasAsked` is checked where it is not);
* `heap_merge_forward` clears the header after the one it absorbs, and after a split
  in the middle of the list a stale back link lets `free` merge with a segment that
  is no neighbour (both are cases of `BreaksOnlyWhere`);
* with a revision 2 RSDP the kernel faults on the RSDT (a case of `FaultsExplained`).

The bounds. With four entries per table every index carries within the range
of addresses used, and a range can be shorter than, equal to and longer than
what an entry of each level maps. The memory maps are laid out so that an area
ends on and inside tables; in `vmm` no area is long enough for a 1 GiB page,
since splitting one breaks the map (`vmm_large`), while `map_pages` takes 1 GiB
pages and does not split them. Three heap clients are enough for a segment
between two others. All models are finite without state constraints, but for
`MaxOwned`, `MaxHeapPages` and `MaxRanges`, which are guards.

Three tables in a row are enough for a table before, between and after the two
that have handlers, and for one listed twice.

In `pci` five bus numbers with the range 0 to 3 leave a bus for every way a bridge
can lead: in the range, on its excluded end, over another bridge, and twice to
the same bus; the second group's range ends with the last number an 8 bit
counter has. In `text` a line holds five or six characters, so that words are
shorter than, as long as and longer than a line, and a column one to three
lines, so that both columns fill and the screen is cleared; `MaxY` bounds where a
call starts, since newlines alone move the cursor down without end. In `boot`
three characters stand for the 128: fonts are smaller, equal and larger than
that. In `vector` four items are enough for several to be moved either way.

Deadlock is checked for `pmm`, `vmm`, `text` and `boot`. The others may stop: a full
or broken heap or vector takes no further step, all ranges may be mapped, the
parts of the boot that `acpi` and `pci` model end.

Fairness is assumed in three modules. In `Acpi` (of `Next`), `Boot` (of `Step`) and
`Pci` (of `Kernel`) it is weak fairness of the one thread: interrupts are off, and it
goes on as long as it has a next instruction. In `Pci` there is also weak fairness
of the controllers' resets, an assumption about the hardware which `ahci_init`
makes and cannot enforce, as its wait has no bound.
`BootEnds` then says that the walk over the MADT ends; `FirmwareAssumption` (an
entry is at least as long as its header) is needed for it, since `madt.c:115`
advances by whatever the firmware says. `BootDecided` says the same of the search
for the font's file and the scans of its table, `ProbeEnds` of the loop over the
buses, of the recursion, for which `NumberingAssumption` is needed, and of the
drivers. The memory modules have no liveness: every function there is one
terminating step, but for the loop of `vmm_map_pages_pml4`, whose counter every round
raises.

## Proofs

The runs check small machines, the theorems hold for all of them: every value of
the constants that satisfies the named assumptions. TLC evaluates the assumptions
on the instances of the runs. A theorem that states a property of a run has that
property's name in its statement, and is listed with it in `PROJECT.json`.

| Module | Theorem | Property |
|---|---|---|
| `PmmProofs` | `PmmTypeCorrect`, `CountCorrect`, `BitmapSafe`, `AllocatorImplemented` | `PmmTypeOK`, `CountMatchesBitmap`, `BitmapPagesReserved`, `ImplementsAllocator` |
| `VmmProofs` | `VmmTypeCorrect`, `DirectMapKept`, `KernelStaysMapped`, `TablesStayReserved`, `MapsAsAsked`, `TranslationsFlushed` | `TypeOK`, `DirectMap`, `KernelMapped`, `TablesReserved`, `MapsWhatWasAsked`, `NoStaleTranslation` |
| `HeapProofs` | `TypeCorrect`, `HeapTiled`, `BlocksApart`, `ListSoundUntilFreed`, `CopySafe`, `BreaksExplained` | `TypeOK`, `SegmentsTile`, `BlocksSound`, `ListUntilFreed`, `ReallocCopies`, `BreaksOnlyWhere` |
| `VectorProofs` | `TypeCorrect`, `SequenceImplemented` | `TypeOK`, `ImplementsSequence` |
| `AcpiProofs` | `TypeCorrect`, `CopiesFaithful`, `FaultsAccounted` | `TypeOK`, `TablesAsListed`, `FaultsExplained` |
| `PciProofs` | `TypeCorrect`, `RecursionBounded`, `MapsDevicesOnly`, `AllEnabled` | `TypeOK`, `NestingBounded`, `MapsOnlyDevices`, `ControllersEnabled` |
| `TextProofs` | `TypeCorrect`, `GlyphsInside`, `NothingOverdrawn` | `TypeOK`, `InItsColumn`, `NoOverdraw` |
| `BootProofs` | `TypeCorrect`, `EndsExplained` | `TypeOK`, `OutcomeExplained` |

In every module `IInv` (`PmmInv`, `VmmInv`) is the inductive invariant: `Init`
implies it (`InitInv`), one lemma per action says that the action keeps it, and the
theorems follow from it. Induction over a list is by the first place where a claim fails:
every nonempty set of natural numbers has a least element, from the library's
theorem on well-founded relations.

**`PmmProofs`**, for every memory map that satisfies `MemmapAssumption`, every page
size, bitmap page size (at least 2 bits) and set of addresses. `PmmInv` is the
types, a counter of 0 before `pmm_init`, and after it `Consistent(pmm)`, which holds
three properties together. They need each other: the counter stays natural
because it counts the set bits and is only decremented for one that was set; an
allocation leaves the bitmap alone, and the zeroing in `pmm_allocz` clears no bit,
only because the pages of the bitmap are marked and therefore never found by
the search. Below it are lemmas about the lookups. `current_index` grows by the
pages of each usable entry (`CurrentIndexStep`); every index below
`pmm_usable_pages` lies in an entry (`EntryReached`); the search by index stops there
(`AddressOfIndex`); different indices have different addresses (`AddressInjective`)
and different bits (`CellInjective`); the search by address yields the sentinel or
the index of a usable page (`IndexOfAddress`); no page of the bitmap is page 0 or
can be handed out (`BitmapPagesApart`). `BitmapFits` is where at least two bits per
bitmap page are needed. `AllocatorImplemented` is the refinement: the owned pages
are the addresses of the set bits, and each action maps to an allocation, a
failed allocation, a free or no step of `PageAllocator`.

**`VmmProofs`**, for every memory map, page size, table size, boot map, kernel image
and set of pages the kernel maps that satisfy the assumptions of `Vmm`:

* `AreaAssumption`: areas are page aligned, in order and disjoint, usable ones are
  memory, and the direct map starts at a multiple of 2 MiB;
* `BootMapAssumption`: the bootloader's map is a tree outside of usable memory,
  without 1 GiB pages, that has the direct map and nothing below it;
* `KernelAssumption`: the image is above the direct map, in consecutive pages, and if it
  is larger than 2 MiB its physical and virtual addresses agree modulo 2 MiB (the
  loop looks at the virtual one only);
* `ClientAssumption`: the kernel maps pages at addresses that nothing else uses and
  that are no physical ones.

Each theorem also has the hypothesis `NoHugePages`: no range of the memory map is so
long and so placed that the loop takes a 1 GiB page for it. It cannot be dropped,
since `vmm_large` shows that `DirectMap` is false where a 1 GiB page is split, and
TLC evaluates that the memory map of `vmm` satisfies it (`MCNoHugePages`).

`VmmInv` says that the system is in one of four situations: before `memory_init`;
`Building`, up to the load of the new map; `Running`, after it; or `starved`, of which
nothing is claimed.

* *Tables.* `Sound` and `Tree` speak of a ghost: a function that gives each physical page
  the level it is a table of, its root, and the one entry that leads to it. Each table
  is marked allocated, each entry of a tree is empty, leads to the table the ghost
  has there, or maps a page. So every table is reached once, and writing an entry
  changes the translation of the addresses below it and of no other (`LeafChange`).
  The marks are what makes it inductive: the allocator finds only pages that are
  not marked, so a page it gives is no table, and may be added to the ghost
  (`Graft`). `pmm_free` clears the mark of a page that is no table before the page is
  mapped back, which may then take the page as a table (`FreeStep`).
* *Building.* Both trees exist, apart from each other. The bootloader's translates
  the direct map as at the start, through the splits that freeing a page causes in it
  (`SplitStep`). The new one maps, of the pages that are wanted (`Goal`), those below
  the place the current call has come to, and nothing above: ranges come in address
  order (`RangeOrder`). A round maps one page (`LeafRound`) or a 2 MiB page
  (`LargeRound`), which it takes only where the range is aligned and long enough
  (`LargeEntry`), and moves that place on (`RoundBuilds`).
* *Running.* Every page outside of `ClientVirt` translates as built (`Served`); the pages
  the kernel holds are marked and no tables.

Walks are functions of one level each (`AtPt`, `AtPd`, `AtPdpt`, `Translate`). `AtUnfold`
says at once for the four of them what a level contributes, and the lemmas about walks
are stated by level. `TablesFormTree` leads from the ghost to `IsTree`, which is stated
about the tables alone. `NoStaleTranslation` needs of the invariant that a step changes
no translation but that of the page it writes: mapping and unmapping pass that page
to `invlpg`, and a split of a larger page translates as before.

**`HeapProofs`**, for every size of page and header and every set of clients and
sizes. `IInv` says that while the heap is in order (`health`) its headers tile it
(`Tiling`: each segment ends where the next begins, the last at the heap's end)
and each client's block is held by a segment of its own, and it includes
`ListUntilFreed`, since a free segment that is not the last is what makes a split
leave a stale back link. Tiling is stated by ends and neighbours, so that splitting,
extending and merging change two headers of it and nothing has to be said about
walks. `BreaksExplained` is proved from it case by case: a call breaks the heap in the
listed cases and in no other.

**`VectorProofs`**, for every set of addresses, width of the arithmetic and order of
calls. `IInv` relates the block to the sequence it stands for in the middle of the
loops: while items are moved up or down, those before the hole and those behind it
are the old ones, shifted or not (`Items` is the refinement mapping), so that every
step of a loop is a stutter of `VectorSpec` and its last one an insertion or deletion.

**`AcpiProofs`**, for every firmware that satisfies `FirmwareAssumption`: entries lie
end to end and are at least as long as their header, and the bytes past `handlers[]`
do not read as the signature of a handled table. The invariant `Walked(n)` ties the
three things the walk over the MADT changes together: the vectors hold the first n
entries, the address is that of the last override among them, and the offset is
where entry n + 1 starts. That offsets increase (`StartsIncrease`) makes the entry
read there the next one (`EntryIs`). A table that was parsed once has entries of
known types only, and so a second handler call for it cannot fail and leave half of
it behind: this is why `TablesAsListed` holds where the RSDT lists a table twice.

**`PciProofs`**, for every machine that satisfies `SizesAssumption` and
`NumberingAssumption` (bridges lead to higher buses, windows lie apart). `ProbeInv`: each
frame of the recursion is on a bus of the group, above its caller's and at least as
far into the group as it is deep, so that depth is bounded by the buses left. An
address found by the code's arithmetic is that of one function only (`DigitsUnique`,
`OffsetUnique`, `PlaceUnique`: mixed radix numbers have one representation).
`DriverInv`: a reset is pending only for the controller the driver waits for, and the
controllers before it are enabled; a repeated start goes through the same reset.

**`TextProofs`**, for every screen, character size and set of calls that satisfies
`ScreenAssumption` and `CallsAssumption` (no format ends within a conversion and each
conversion has its argument, which is true of the kernel's calls and not checked by
`printf`). The cursor is in its column or at most one character past its end, and
after the glyph drawn last in the order in which the columns fill; drawing, breaking a
line, changing the column and clearing the screen each keep that. The number of
arguments taken is bounded by the number of conversions passed.

**`BootProofs`**, for every set of answers that satisfies `BootAssumption` (lists are
sequences, a font has a glyph). `SearchInv`: no module passed is the font's, so
that the one found is the first (`FontModuleIs`; `EndIsSuffix` says that the
comparison from the end on is the one with a suffix), and the search that finds none
was over all of them. `AnswersInv`: what has been checked so far, by the place `kentry`
is at.

Only model checked:

* liveness (`BootEnds`, `BootDecided`, `ProbeEnds`): fairness is out of the prover's reach;
* what recursive definitions compute for every input: `Text.NumberReadsBack` (digits of
  a number), `Boot.MappingsAsListed` (the bytes of the table are put together by
  `FlattenSeq`), `Pci.FoundOncePerWay` (counts ways through the bridges);
* `MapPages.MapsExactly` and `BothMapsKept`: ranges of any order and length, with 1 GiB
  pages, which `NoHugePages` excludes in `VmmProofs`. Of the ranges that need none,
  `VmmInv` says the same for the calls `memory_init` makes;
* `Pci.DescriptorsAsListed` and `Text.WordsWhole`, which have not been tried.

## Plan

The system's own logic is modelled. What is left is to prove more of it:

1. `Text.WordsWhole`: a word that was found to fit stays on its line; the invariant
   has to carry the room that is left for the rest of the word.
2. `Pci.DescriptorsAsListed` and `Boot.MappingsAsListed`, with the tables restated by
   where each row and each line begins, as `Acpi` does for the MADT.
3. `MapPages`: rounds that take 1 GiB pages, as `LargeRound` does for 2 MiB pages.

## Not modelled

* The XSDT functions of `acpi.c` cannot be reached, and `acpi_table_exists`, the
  getters of `madt.h` but for the local APICs, and `memmove` have no caller. (Called
  with overlapping ranges to be moved up, `memmove` would not return: it counts
  down in an unsigned type.)
* The IDT is filled once, with handlers that print and hang: data layout. A page
  fault is an end of the boot in `Acpi`.
* Pixels, glyph bitmaps, colours other than the current one, and the text of
  messages.
* `kernel_init` as a whole: each module starts where the one before it ends, and
  what it needs of it is an assumption there (`Pci` of `Acpi`, `Vector` of `Heap`).
  The product of the parts is out of TLC's reach and would show little, as they
  share no state but the page map.
* `test.c`: the steps of `test_vmm` are behaviours of `Vmm`.
* `vmm_virt_to_phys` drops the offset in the page for 4 KiB pages, and an empty
  range gives its first page an entry: both are in the model, as they are in the
  code, and no property is stated about them.
