-------------------------------- MODULE MCAcpi -------------------------------
(***************************************************************************)
(* TLC instance of Acpi: firmwares of every revision with valid and broken *)
(* root tables, and lists of up to three tables among MADTs, MCFGs and one *)
(* that has no handler, in any order and with repetitions.                 *)
(***************************************************************************)
EXTENDS Acpi

E(type, length, value) == [type |-> type, length |-> length, value |-> value]

\* The running sum of the lengths
Starts(entries) ==
  [k \in 1 .. Len(entries) + 1 |->
     FoldLeft(LAMBDA sum, e : sum + e.length, 0, SubSeq(entries, 1, k - 1))]

Madt(valid, entries) ==
  [signature |-> "APIC", valid |-> valid, address |-> 7, entries |-> entries,
   starts |-> Starts(entries), groups |-> << >>]

Mcfg(valid, groups) ==
  [signature |-> "MCFG", valid |-> valid, address |-> 0, entries |-> << >>,
   starts |-> <<0>>, groups |-> groups]

Facp == [signature |-> "FACP", valid |-> TRUE, address |-> 0, entries |-> << >>,
         starts |-> <<0>>, groups |-> << >>]

\* Two local APICs and one entry of every other type; two overrides of the
\* address; an entry of a type madt.c does not know.
Whole ==
  << E(0, 3, "l1"), E(9, 4, "x"), E(1, 4, "io"), E(2, 3, "ov"), E(0, 3, "l2"),
     E(3, 3, "n"), E(10, 2, "x"), E(4, 3, "ln"), E(5, 4, 8), E(5, 4, 9) >>

Unknown == << E(0, 3, "l3"), E(5, 4, 8), E(11, 2, "u"), E(0, 3, "l4") >>

MCTables ==
  {Madt(TRUE, Whole), Madt(TRUE, Unknown), Madt(FALSE, Whole), Madt(TRUE, << >>),
   Madt(TRUE, <<E(0, 3, "l5")>>),
   Mcfg(TRUE, <<"g1", "g2">>), Mcfg(FALSE, <<"g3">>), Mcfg(TRUE, << >>), Facp}

Firmware(revision, v1, v2, rsdt_ok, tables) ==
  [revision |-> revision, rsdp_valid |-> v1, rsdp_v2_valid |-> v2, rsdt_valid |-> rsdt_ok,
   tables |-> tables]

\* The broken roots with one list of tables, every list with good roots
MCFirmwares ==
  {Firmware(r, v1, v2, ok, <<Facp, Madt(TRUE, Whole)>>) :
     r \in 0 .. 3, v1 \in BOOLEAN, v2 \in BOOLEAN, ok \in BOOLEAN}
  \cup {Firmware(0, TRUE, FALSE, TRUE, tables) : tables \in SeqOf(MCTables, 3)}
=============================================================================
