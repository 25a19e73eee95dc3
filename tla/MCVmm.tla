-------------------------------- MODULE MCVmm --------------------------------
(***************************************************************************)
(* TLC instance of Vmm: tables of four entries, so that a PD entry maps 4  *)
(* pages, a PDPT entry 16 and a PML4 entry 64. The machine has 112 pages.  *)
(* The bootloader maps them from 128 on with PD entries, and the kernel    *)
(* image at 248 with single pages.                                         *)
(***************************************************************************)
EXTENDS Vmm

MCPhysPages == {PAGE * k : k \in 0 .. 111}

Area(b, n, t) == [base |-> PAGE * b, length |-> PAGE * n, type |-> t]

\* Areas of one page, of less than a table, of whole tables, and ones that
\* start and end inside a table; the first usable one has exactly one page
\* more than a PDPT entry maps, and the second has that many left when it
\* reaches page 48, both one page too few for a PDPT entry.
MCMemmap ==
  << Area(0, 1, "RESERVED"),
     Area(1, 3, "EXECUTABLE_AND_MODULES"),
     Area(4, 12, "BOOTLOADER_RECLAIMABLE"),
     Area(16, 17, "USABLE"),
     Area(33, 32, "USABLE"),
     Area(65, 29, "USABLE"),
     Area(94, 16, "USABLE"),
     Area(110, 2, "ACPI_RECLAIMABLE") >>

\* One usable area, large enough for PDPT entries
MCMemmapLarge ==
  << Area(0, 1, "RESERVED"),
     Area(1, 3, "EXECUTABLE_AND_MODULES"),
     Area(4, 12, "BOOTLOADER_RECLAIMABLE"),
     Area(16, 94, "USABLE"),
     Area(110, 2, "ACPI_RECLAIMABLE") >>

MCHigherHalf == PAGE * 128
MCKernelStart == PAGE * 248
MCCr3 == PAGE * 4

\* PML4 at 4; direct map: PDPTs at 5 and 6, PDs at 7 to 13; kernel: PD and PT
\* at 14 and 15, mapping pages 1 and 2.
MCBootMem ==
  LET Pointers(f) == [i \in Indices |-> IF i \in DOMAIN f THEN Entry(PAGE * f[i], FALSE) ELSE NoEntry]
  IN  [p \in {PAGE * k : k \in 4 .. 15} |->
         LET k == p \div PAGE
         IN  CASE k = 4 -> Pointers([i \in 2 .. 3 |-> 3 + i])
               [] k = 5 -> Pointers([i \in 0 .. 3 |-> 7 + i])
               [] k = 6 -> Pointers([i \in 0 .. 3 |-> 11 + i])
               [] k \in 7 .. 13 -> [i \in Indices |-> Entry(PAGE * ((16 * (k - 7)) + (4 * i)), TRUE)]
               [] k = 14 -> Pointers([i \in {2} |-> 15])
               [] k = 15 -> Pointers([i \in {0, 1} |-> 1 + i])]

\* Two pages of one table, away from the direct map and from the kernel
MCClientVirt == {PAGE * 116, PAGE * 117}

\* The hypothesis of the theorems about Vmm holds for the first memory map.
ASSUME MCNoHugePages == memmap_entries = MCMemmap => NoHugePages
=============================================================================
