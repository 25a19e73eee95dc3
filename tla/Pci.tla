--------------------------------- MODULE Pci ---------------------------------
(***************************************************************************)
(* PCI Express enumeration and the drivers it starts: pcie_probe and its   *)
(* recursion through bridges (src/pci/pcie.c), the list of devices and the *)
(* choice of drivers (src/pci/pci.c), ahci_init and nvme_init (src/dev).   *)
(* One thread runs it after acpi_init; the AHCI controllers run beside it. *)
(*                                                                         *)
(* Addresses are in pages: a function's configuration space is one page.   *)
(* The segment groups are those Acpi's TablesAsListed is about.              *)
(***************************************************************************)
EXTENDS PciTables

CONSTANTS
  Machines,    \* the machines, see below
  SLOTS,       \* slots of a bus (32)
  FUNCTIONS,   \* functions of a slot (8)
  BUSES,       \* values of a bus number (256)
  PAGES,       \* pages of the address space: addresses wrap there
  NULL

VARIABLES
  machine,      \* [parsed, groups, space]: the MCFG has been parsed; its segment
                \* groups [base, start_bus, end_bus]; and the header of each
                \* function present, by <<group, bus, slot, function>>
  pc,           \* where the thread is
  i,            \* pcie_probe: the segment group, 0 before the first
  bus,          \* pcie_probe: the bus, an 8 bit counter
  stack,        \* the calls of pcie_probe_bus under way: [bus, slot, function]
  mapped,       \* pages identity mapped by vmm_map_page_flags
  pci_devices,  \* the vector of devices
  d,            \* pci_init_builtin_drivers: the device
  command,      \* command register of each function, a set of flags
  ghc           \* external: the GHC register of each AHCI controller, by bar5

probeVars == <<i, bus, stack>>
vars == <<machine, pc, probeVars, mapped, pci_devices, d, command, ghc>>

-----------------------------------------------------------------------------
\* Configuration space

GroupSize(group) == (group.end_bus - group.start_bus + 1) * SLOTS * FUNCTIONS

\* External: where the host bridge puts a function
Place(m, at) ==
  m.groups[at[1]].base + ((((at[2] - m.groups[at[1]].start_bus) * SLOTS) + at[3]) * FUNCTIONS) + at[4]

\* External: an address where there is no function reads as ones.
NoFunction == [device_id |-> 65535]

ReadHeader(address) ==
  LET here == {at \in DOMAIN machine.space : Place(machine, at) = address}
  IN  IF here = {} THEN NoFunction ELSE machine.space[CHOOSE at \in here : TRUE]

\* Mutant: the bus number counts from 0 in every segment group.
FunctionAddress_FromBusZero(group, b, slot, function) ==
  (group.base + (((b * SLOTS) + slot) * FUNCTIONS) + function) % PAGES

FunctionAddress(group, b, slot, function) ==
  (group.base + ((((b - group.start_bus) * SLOTS) + slot) * FUNCTIONS) + function) % PAGES

\* The type without the bit that says there are several functions
HeaderType(hdr) == hdr.hdr_type % 128

IsNvme(hdr) == hdr.class_ = 1 /\ hdr.subclass = 8 /\ hdr.prog_if = 2
IsAhci(hdr) == hdr.class_ = 1 /\ hdr.subclass = 6 /\ hdr.prog_if = 1

\* External: the controllers, by the page of their registers
Controllers == {machine.space[at].bar5 : at \in {x \in DOMAIN machine.space : IsAhci(machine.space[x])}}

Group == machine.groups[i]

Top == stack[Len(stack)]

TopAddress == FunctionAddress(Group, Top.bus, Top.slot, Top.function)

-----------------------------------------------------------------------------
\* pci_register_device

\* The test for bridges repeats the one for ordinary functions (pci.c:56), so
\* a bridge's pointers are never set. They read as NULL: malloc's memory comes
\* cleared from pmm_allocz, and nothing has ever been freed.
Device(address) ==
  [header            |-> address,
   descriptors       |-> pci_get_descriptors(ReadHeader(address)),
   extended_header   |-> IF HeaderType(ReadHeader(address)) = 0 THEN address ELSE NULL,
   bridge_0x1_header |-> NULL]

pci_register_device(address) == pci_devices' = Append(pci_devices, Device(address))

-----------------------------------------------------------------------------
\* The probe

Init ==
  /\ machine \in Machines
  /\ pc = "probe"
  /\ i = 0 /\ bus = 0 /\ stack = << >>
  /\ mapped = {}
  /\ pci_devices = << >>
  /\ d = 1
  /\ command = [at \in DOMAIN machine.space |-> {"IO_SPACE", "INT_DISABLE"}]
  /\ \E left \in {{}, {"AE", "IE"}} : ghc = [bar5 \in Controllers |-> left]

\* Mutant: the last bus is probed too.
InRange_Inclusive(b) == b <= Group.end_bus

\* The loop over the buses leaves out end_bus.
InRange(b) == b < Group.end_bus

\* Between two buses of pcie_probe
Outer == pc = "probe" /\ stack = << >>

GroupDone == i > 0 => ~InRange(bus)

next_group ==
  /\ Outer /\ machine.parsed
  /\ GroupDone /\ i < Len(machine.groups)
  /\ i' = i + 1
  /\ bus' = machine.groups[i + 1].start_bus
  /\ UNCHANGED <<machine, pc, stack, mapped, pci_devices, d, command, ghc>>

\* All groups done, or no MCFG: pci_init returns.
probe_done ==
  /\ Outer
  /\ machine.parsed => GroupDone /\ i = Len(machine.groups)
  /\ pc' = "drivers"
  /\ UNCHANGED <<machine, probeVars, mapped, pci_devices, d, command, ghc>>

Frame(b) == [bus |-> b, slot |-> 0, function |-> 0]

pcie_probe_bus ==
  /\ Outer /\ machine.parsed /\ i > 0 /\ InRange(bus)
  /\ stack' = <<Frame(bus)>>
  /\ UNCHANGED <<machine, pc, i, bus, mapped, pci_devices, d, command, ghc>>

\* Mutant: a slot has one function more than there are.
Step_OneMore(f) ==
  IF f.function < FUNCTIONS
  THEN [f EXCEPT !.function = @ + 1]
  ELSE [f EXCEPT !.function = 0, !.slot = @ + 1]

\* The two loops: the next function, or the next slot's first
Step(f) ==
  IF f.function + 1 < FUNCTIONS
  THEN [f EXCEPT !.function = @ + 1]
  ELSE [f EXCEPT !.function = 0, !.slot = @ + 1]

Advanced(frames) == [frames EXCEPT ![Len(frames)] = Step(@)]

Probing == pc = "probe" /\ stack # << >> /\ Top.slot < SLOTS

Absent(hdr) == hdr.device_id \in {0, 65535}

IsBridge(hdr) == HeaderType(hdr) = 1

\* pcie_probe_function, by what it finds at the address it has mapped
probe_absent ==
  /\ Probing /\ Absent(ReadHeader(TopAddress))
  /\ mapped' = mapped \cup {TopAddress}
  /\ stack' = Advanced(stack)
  /\ UNCHANGED <<machine, pc, i, bus, pci_devices, d, command, ghc>>

probe_device ==
  /\ Probing /\ ~Absent(ReadHeader(TopAddress)) /\ ~IsBridge(ReadHeader(TopAddress))
  /\ mapped' = mapped \cup {TopAddress}
  /\ pci_register_device(TopAddress)
  /\ stack' = Advanced(stack)
  /\ UNCHANGED <<machine, pc, i, bus, d, command, ghc>>

\* Mutant: the byte before it, the primary bus.
BehindBridge_Primary(hdr) == Top.bus

BehindBridge(hdr) == hdr.secondary_bus_num

\* A bridge is registered when the buses behind it have been probed.
probe_bridge ==
  /\ Probing /\ ~Absent(ReadHeader(TopAddress)) /\ IsBridge(ReadHeader(TopAddress))
  /\ mapped' = mapped \cup {TopAddress}
  /\ stack' = Append(stack, Frame(BehindBridge(ReadHeader(TopAddress))))
  /\ UNCHANGED <<machine, pc, i, bus, pci_devices, d, command, ghc>>

BusDone == pc = "probe" /\ stack # << >> /\ Top.slot = SLOTS

return_to_bridge ==
  /\ BusDone /\ Len(stack) > 1
  /\ LET caller == stack[Len(stack) - 1]
     IN  pci_register_device(FunctionAddress(Group, caller.bus, caller.slot, caller.function))
  /\ stack' = Advanced(Front(stack))
  /\ UNCHANGED <<machine, pc, i, bus, mapped, d, command, ghc>>

return_to_probe ==
  /\ BusDone /\ Len(stack) = 1
  /\ stack' = << >>
  /\ bus' = (bus + 1) % BUSES
  /\ UNCHANGED <<machine, pc, i, mapped, pci_devices, d, command, ghc>>

-----------------------------------------------------------------------------
\* The drivers

Header == ReadHeader(pci_devices[d].header)

AtDevice == pc = "drivers" /\ d <= Len(pci_devices)

no_driver ==
  /\ AtDevice /\ ~IsNvme(Header) /\ ~IsAhci(Header)
  /\ d' = d + 1
  /\ UNCHANGED <<machine, pc, probeVars, mapped, pci_devices, command, ghc>>

\* Says that there is no support yet.
nvme_init ==
  /\ AtDevice /\ IsNvme(Header)
  /\ d' = d + 1
  /\ UNCHANGED <<machine, pc, probeVars, mapped, pci_devices, command, ghc>>

pci_set_command_flag(flags, flag) == flags \cup {flag}

pci_clear_command_flag(flags, flag) == flags \ {flag}

AhciCommand ==
  pci_clear_command_flag(
    pci_set_command_flag(pci_set_command_flag({}, "MEM_SPACE"), "BUS_MASTER"), "INT_DISABLE")

DeviceAt == CHOOSE at \in DOMAIN machine.space : Place(machine, at) = pci_devices[d].header

\* Up to the reset; a controller that the BIOS may still hold is a panic.
ahci_init ==
  /\ AtDevice /\ IsAhci(Header)
  /\ command' = [command EXCEPT ![DeviceAt] = AhciCommand]
  /\ mapped' = mapped \cup {Header.bar5}
  /\ pc' = IF Header.boh THEN "panic" ELSE "reset"
  /\ UNCHANGED <<machine, probeVars, pci_devices, d, ghc>>

ahci_reset ==
  /\ pc = "reset"
  /\ ghc' = [ghc EXCEPT ![Header.bar5] = @ \cup {"HR"}]
  /\ pc' = "wait"
  /\ UNCHANGED <<machine, probeVars, mapped, pci_devices, d, command>>

\* Mutant: waits for the flag to be set.
ResetComplete_Inverted(bar5) == "HR" \in ghc[bar5]

\* Mutant: no wait for the reset to be complete.
ResetComplete_NotAwaited(bar5) == TRUE

ResetComplete(bar5) == "HR" \notin ghc[bar5]

\* The busy wait ends, and the controller is enabled.
ahci_enable ==
  /\ pc = "wait" /\ ResetComplete(Header.bar5)
  /\ ghc' = [ghc EXCEPT ![Header.bar5] = @ \cup {"AE", "IE"}]
  /\ pc' = "drivers"
  /\ d' = d + 1
  /\ UNCHANGED <<machine, probeVars, mapped, pci_devices, command>>

\* External: a controller completes the reset it was asked for, some time
\* later; all of GHC is then clear.
hba_resets(bar5) ==
  /\ "HR" \in ghc[bar5]
  /\ ghc' = [ghc EXCEPT ![bar5] = {}]
  /\ UNCHANGED <<machine, pc, probeVars, mapped, pci_devices, d, command>>

drivers_done ==
  /\ pc = "drivers" /\ d > Len(pci_devices)
  /\ pc' = "done"
  /\ UNCHANGED <<machine, probeVars, mapped, pci_devices, d, command, ghc>>

Kernel ==
  \/ next_group \/ probe_done
  \/ pcie_probe_bus \/ probe_absent \/ probe_device \/ probe_bridge
  \/ return_to_bridge \/ return_to_probe
  \/ no_driver \/ nvme_init \/ drivers_done
  \/ ahci_init \/ ahci_reset \/ ahci_enable

Next == Kernel \/ \E bar5 \in DOMAIN ghc : hba_resets(bar5)

\* The thread goes on as long as it can, and a reset is completed. The
\* controllers' fairness is the driver's own assumption (ahci.c:24 has no
\* bound), not something the code can guarantee.
Spec ==
  /\ Init /\ [][Next]_vars
  /\ WF_vars(Kernel)
  /\ WF_vars(\E bar5 \in DOMAIN ghc : hba_resets(bar5))

-----------------------------------------------------------------------------
\* Properties

\* Every variable has its type.
TypeOK ==
  /\ pc \in {"probe", "drivers", "reset", "wait", "done", "panic"}
  /\ i \in 0 .. Len(machine.groups)
  /\ bus \in 0 .. BUSES - 1
  /\ \A k \in DOMAIN stack :
       stack[k] \in [bus : 0 .. BUSES - 1, slot : 0 .. SLOTS, function : 0 .. FUNCTIONS - 1]
  /\ d \in 1 .. Len(pci_devices) + 1
  /\ \A bar5 \in DOMAIN ghc : ghc[bar5] \subseteq {"HR", "AE", "IE"}

\* The functions of a group that the probe can see
Visible(g) == {at \in DOMAIN machine.space : at[1] = g /\ ~Absent(machine.space[at])}

\* How many ways lead the probe to each bus of a group: its own turn in the
\* loop, and every bridge to it, as often as the bridge itself is reached
Ways(g) ==
  LET w[b \in 0 .. BUSES - 1] ==
        (IF machine.groups[g].start_bus <= b /\ b < machine.groups[g].end_bus THEN 1 ELSE 0)
        + FoldSet(LAMBDA at, sum : sum + w[at[2]], 0,
                  {at \in Visible(g) : IsBridge(machine.space[at]) /\ machine.space[at].secondary_bus_num = b})
  IN  w

\* What the enumeration finds (pcie.c:17-57): every function once for each way
\* that leads to its bus and nothing else. So a function behind a bridge in
\* range is listed more than once, and its driver started as often; one on the
\* last bus of a group is found through a bridge or not at all.
FoundOncePerWay ==
  pc # "probe" =>
    LET found == [k \in DOMAIN pci_devices |-> pci_devices[k].header]
    IN  /\ \A g \in DOMAIN machine.groups : \A at \in Visible(g) :
             Cardinality({k \in DOMAIN found : found[k] = Place(machine, at)}) =
               IF machine.parsed THEN Ways(g)[at[2]] ELSE 0
        /\ ToSet(found) \subseteq {Place(machine, at) : at \in DOMAIN machine.space}

\* The probe maps pages of the segment groups' windows and of the controllers'
\* registers only; an address computed from a wrong bus would map, and read as
\* a header, whatever is there (pcie.c:39-45).
MapsOnlyDevices ==
  mapped \subseteq
    (UNION {group.base .. group.base + GroupSize(group) - 1 : group \in ToSet(machine.groups)})
    \cup DOMAIN ghc

\* pcie_probe_bus calls itself through pcie_probe_function once per bridge on
\* the way, each on a bus of its own: the kernel's stack holds at most a frame
\* for each bus of the group.
NestingBounded ==
  stack # << >> =>
    /\ Len(stack) <= Group.end_bus - Group.start_bus + 1
    /\ \A j, k \in DOMAIN stack : j < k => stack[j].bus < stack[k].bus

\* Once the drivers have run every AHCI controller they were started for is
\* enabled, with its interrupts and bus mastering: no reset, of the first or
\* of a repeated start, is completed after the flags were set (ahci.c:23-31).
ControllersEnabled ==
  pc = "done" =>
    \A k \in DOMAIN pci_devices :
      LET at == CHOOSE x \in DOMAIN machine.space : Place(machine, x) = pci_devices[k].header
      IN  IsAhci(machine.space[at]) =>
            /\ ghc[machine.space[at].bar5] = {"AE", "IE"}
            /\ command[at] = {"MEM_SPACE", "BUS_MASTER"}

\* The descriptors are those of the row for the subclass and interface if the
\* class has one, else of the subclass's catch all (pci_tables.c:42-44); the
\* class is a string of the table, however high its number.
DescriptorsAsListed ==
  pc \in {"done", "panic"} =>
  \A k \in DOMAIN pci_devices :
    LET hdr  == ReadHeader(pci_devices[k].header)
        rows == IF hdr.class_ \in DOMAIN SubclassTable THEN SubclassTable[hdr.class_] ELSE << >>
        own  == {r \in DOMAIN rows : rows[r] = <<hdr.subclass, hdr.prog_if>>}
        all  == {r \in DOMAIN rows : rows[r] = <<hdr.subclass, ANY>> /\ hdr.subclass # END}
        name == pci_devices[k].descriptors
    IN  /\ name.class # "not a string"
        /\ rows # << >> =>
             IF own # {} THEN name.subclass \in {<<hdr.class_, r>> : r \in own}
             ELSE IF all # {} THEN name.subclass \in {<<hdr.class_, r>> : r \in all}
             ELSE name.subclass = "Unknown"

\* The enumeration and the drivers come to an end: the loop over the buses
\* stops although the counter has 8 bits (pcie.c:20), the recursion returns,
\* and no driver waits for ever.
ProbeEnds == <>(pc \in {"done", "panic"})

\* "Only one of the following will actually be in use, the others will be null"
\* (pci.h:96): every function of header type 0 or 1 has the header of its type.
HeaderInUse ==
  \A k \in DOMAIN pci_devices :
    LET dev  == pci_devices[k]
        type == HeaderType(ReadHeader(dev.header))
    IN  /\ type = 0 => dev.extended_header # NULL /\ dev.bridge_0x1_header = NULL
        /\ type = 1 => dev.extended_header = NULL /\ dev.bridge_0x1_header # NULL

\* A bus has slots and a slot has functions.
ASSUME SizesAssumption ==
  SLOTS \in Nat \ {0} /\ FUNCTIONS \in Nat \ {0} /\ BUSES \in Nat \ {0} /\ PAGES \in Nat

\* Firmware has numbered the buses: a function is on a bus of its group, a
\* bridge leads to one above its own (one that was left at 0 would make the
\* probe call itself for ever); the windows are disjoint and in the address
\* space; an AHCI controller has an ordinary header.
ASSUME NumberingAssumption ==
  \A m \in Machines :
    /\ m.groups \in Seq([base : Nat, start_bus : 0 .. BUSES - 1, end_bus : 0 .. BUSES - 1])
    /\ \A at \in DOMAIN m.space :
         LET group == m.groups[at[1]]
         IN  /\ at \in (1 .. Len(m.groups)) \X Nat \X (0 .. SLOTS - 1) \X (0 .. FUNCTIONS - 1)
             /\ at[2] \in group.start_bus .. group.end_bus
             /\ IsBridge(m.space[at]) => m.space[at].secondary_bus_num \in at[2] + 1 .. group.end_bus
             /\ IsAhci(m.space[at]) => HeaderType(m.space[at]) = 0
    /\ \A g \in DOMAIN m.groups : m.groups[g].base + GroupSize(m.groups[g]) <= PAGES
    /\ \A g, h \in DOMAIN m.groups :
         g # h => \/ m.groups[g].base + GroupSize(m.groups[g]) <= m.groups[h].base
                  \/ m.groups[h].base + GroupSize(m.groups[h]) <= m.groups[g].base
=============================================================================
