------------------------------ MODULE PciProofs ------------------------------
(***************************************************************************)
(* Proofs about the enumeration of PCI Express and its drivers: on every   *)
(* machine whose firmware has numbered its buses, the probe maps windows   *)
(* of configuration space alone, its recursion is bounded, and the AHCI    *)
(* controllers it starts are enabled when it is done.                      *)
(***************************************************************************)
EXTENDS Pci, SequenceTheorems, TLAPS

-----------------------------------------------------------------------------
\* Numbers in two digits, the lower of base S

LEMMA Product ==
  ASSUME NEW a \in Nat, NEW b \in Nat, NEW S \in Nat \ {0}, a < b
  PROVE  a * S \in Nat /\ b * S \in Nat /\ a * S + S <= b * S
<1>1. (a + 1) * S = a * S + S /\ a * S \in Nat /\ b * S \in Nat
  OBVIOUS
<1>2. PICK e \in Nat : b = (a + 1) + e
  <2> WITNESS b - (a + 1) \in Nat
  <2> QED OBVIOUS
<1>3. b * S = (a + 1) * S + e * S /\ e * S \in Nat
  BY <1>2
<1> QED BY <1>1, <1>3

LEMMA DigitsUnique ==
  ASSUME NEW a \in Nat, NEW b \in Nat, NEW S \in Nat \ {0}, NEW x \in 0 .. S - 1, NEW y \in 0 .. S - 1,
         a * S + x = b * S + y
  PROVE  a = b /\ x = y
<1>1. a * S \in Nat /\ b * S \in Nat
  OBVIOUS
<1>2. ~(a < b)
  BY <1>1, Product
<1>3. ~(b < a)
  BY <1>1, Product
<1>4. a = b
  BY <1>2, <1>3
<1> QED BY <1>1, <1>4

LEMMA DigitsBelow ==
  ASSUME NEW a \in Nat, NEW b \in Nat, NEW S \in Nat \ {0}, NEW x \in 0 .. S - 1, a < b
  PROVE  a * S + x \in Nat /\ a * S + x < b * S
BY Product

-----------------------------------------------------------------------------
\* Configuration space

\* A function's page in its window, by the bus counted from the window's first
Offset(b, slot, function) == (((b * SLOTS) + slot) * FUNCTIONS) + function

LEMMA OffsetBelow ==
  ASSUME NEW n \in Nat, NEW b \in Nat, b < n,
         NEW slot \in 0 .. SLOTS - 1, NEW function \in 0 .. FUNCTIONS - 1
  PROVE  Offset(b, slot, function) \in Nat /\ Offset(b, slot, function) < n * SLOTS * FUNCTIONS
<1>1. SLOTS \in Nat \ {0} /\ FUNCTIONS \in Nat \ {0}
  BY SizesAssumption
<1>2. (b * SLOTS) + slot \in Nat /\ (b * SLOTS) + slot < n * SLOTS /\ n * SLOTS \in Nat
  BY <1>1, DigitsBelow
<1>3. PICK u \in Nat, v \in Nat : u = (b * SLOTS) + slot /\ v = n * SLOTS /\ u < v
  BY <1>2
<1>4. u * FUNCTIONS + function \in Nat /\ u * FUNCTIONS + function < v * FUNCTIONS
  BY <1>1, <1>3, DigitsBelow
<1> QED BY <1>3, <1>4 DEF Offset

LEMMA OffsetUnique ==
  ASSUME NEW b \in Nat, NEW slot \in 0 .. SLOTS - 1, NEW function \in 0 .. FUNCTIONS - 1,
         NEW c \in Nat, NEW s \in 0 .. SLOTS - 1, NEW f \in 0 .. FUNCTIONS - 1,
         Offset(b, slot, function) = Offset(c, s, f)
  PROVE  b = c /\ slot = s /\ function = f
<1>1. SLOTS \in Nat \ {0} /\ FUNCTIONS \in Nat \ {0}
  BY SizesAssumption
<1>2. PICK u \in Nat, v \in Nat : u = (b * SLOTS) + slot /\ v = (c * SLOTS) + s
  BY <1>1
<1>3. u * FUNCTIONS + function = v * FUNCTIONS + f
  BY <1>2 DEF Offset
<1>4. u = v /\ function = f
  BY <1>1, <1>2, <1>3, DigitsUnique
<1>5. (b * SLOTS) + slot = (c * SLOTS) + s
  BY <1>2, <1>4
<1> QED BY <1>1, <1>4, <1>5, DigitsUnique

\* What the assumption says of a segment group and of a function
LEMMA GroupOf ==
  ASSUME NEW m \in Machines, NEW g \in 1 .. Len(m.groups)
  PROVE  /\ m.groups[g].base \in Nat
         /\ m.groups[g].start_bus \in Nat /\ m.groups[g].start_bus < BUSES
         /\ m.groups[g].end_bus \in Nat /\ m.groups[g].end_bus < BUSES
         /\ GroupSize(m.groups[g]) \in Int
         /\ m.groups[g].base + GroupSize(m.groups[g]) <= PAGES /\ PAGES \in Nat
<1> DEFINE SegmentGroups == [base : Nat, start_bus : 0 .. BUSES - 1, end_bus : 0 .. BUSES - 1]
<1>1. m.groups \in Seq(SegmentGroups)
  BY NumberingAssumption
<1> HIDE DEF SegmentGroups
<1>2. m.groups[g] \in SegmentGroups /\ g \in DOMAIN m.groups
  BY <1>1
<1>3. m.groups[g].base + GroupSize(m.groups[g]) <= PAGES
  BY <1>2, NumberingAssumption
<1>4. /\ m.groups[g].base \in Nat
      /\ m.groups[g].start_bus \in Nat /\ m.groups[g].start_bus < BUSES
      /\ m.groups[g].end_bus \in Nat /\ m.groups[g].end_bus < BUSES
  BY <1>2, SizesAssumption DEF SegmentGroups
<1>5. GroupSize(m.groups[g]) \in Int
  BY <1>4, SizesAssumption DEF GroupSize
<1> QED BY <1>3, <1>4, <1>5, SizesAssumption

LEMMA FunctionOf ==
  ASSUME NEW m \in Machines, NEW at \in DOMAIN m.space
  PROVE  /\ at \in (1 .. Len(m.groups)) \X Nat \X (0 .. SLOTS - 1) \X (0 .. FUNCTIONS - 1)
         /\ at[2] \in m.groups[at[1]].start_bus .. m.groups[at[1]].end_bus
         /\ IsBridge(m.space[at]) => m.space[at].secondary_bus_num \in at[2] + 1 .. m.groups[at[1]].end_bus
BY NumberingAssumption

\* A function of a group is in the group's window; addresses do not wrap there.
LEMMA InWindow ==
  ASSUME NEW m \in Machines, NEW g \in 1 .. Len(m.groups),
         NEW b \in m.groups[g].start_bus .. m.groups[g].end_bus,
         NEW slot \in 0 .. SLOTS - 1, NEW function \in 0 .. FUNCTIONS - 1
  PROVE  LET group  == m.groups[g]
             offset == Offset(b - group.start_bus, slot, function)
         IN  /\ offset \in Nat /\ offset < GroupSize(group)
             /\ FunctionAddress(group, b, slot, function) = group.base + offset
<1> DEFINE group == m.groups[g]
<1>1. PICK base \in Nat, start \in Nat, end \in Nat, size \in Int :
        /\ base = group.base /\ start = group.start_bus /\ end = group.end_bus
        /\ size = GroupSize(group) /\ base + size <= PAGES
  BY GroupOf
<1> DEFINE offset == Offset(b - start, slot, function)
<1>2. b \in start .. end
  BY <1>1
<1>3. b - start \in Nat /\ end - start + 1 \in Nat /\ b - start < end - start + 1
  BY <1>2
<1>4. offset \in Nat /\ offset < (end - start + 1) * SLOTS * FUNCTIONS
  BY <1>3, OffsetBelow
<1>5. size = (end - start + 1) * SLOTS * FUNCTIONS
  BY <1>1 DEF GroupSize
<1>6. offset < size
  BY <1>4, <1>5
<1>7. FunctionAddress(group, b, slot, function) = (base + offset) % PAGES
  <2>1. PICK z \in Nat : z = ((b - start) * SLOTS + slot) * FUNCTIONS
    BY <1>3, SizesAssumption
  <2>2. (base + z) + function = base + (z + function)
    BY <2>1
  <2>3. FunctionAddress(group, b, slot, function) = ((base + z) + function) % PAGES
    BY <1>1, <2>1 DEF FunctionAddress
  <2> QED BY <2>1, <2>2, <2>3 DEF Offset
<1> HIDE DEF offset, group
<1>8. PICK o \in Nat : o = offset /\ o < size
  BY <1>4, <1>6
<1>9. (base + offset) % PAGES = base + offset
  <2>1. base + size <= PAGES /\ PAGES \in Nat
    BY <1>1, SizesAssumption
  <2>2. base + o \in Nat /\ base + o < PAGES
    BY <1>8, <2>1
  <2>3. (base + o) % PAGES = base + o
    BY <2>1, <2>2
  <2> QED BY <1>8, <2>3
<1> QED BY <1>1, <1>4, <1>6, <1>7, <1>9 DEF offset, group

\* Where the host bridge puts a function is where the probe looks for it.
LEMMA PlaceIs ==
  ASSUME NEW m \in Machines, NEW at \in DOMAIN m.space
  PROVE  LET group  == m.groups[at[1]]
             offset == Offset(at[2] - group.start_bus, at[3], at[4])
         IN  /\ Place(m, at) = group.base + offset
             /\ offset \in Nat /\ offset < GroupSize(group)
             /\ Place(m, at) = FunctionAddress(group, at[2], at[3], at[4])
<1> DEFINE group == m.groups[at[1]]
<1>1. /\ at[1] \in 1 .. Len(m.groups) /\ at[2] \in Nat /\ at[3] \in 0 .. SLOTS - 1 /\ at[4] \in 0 .. FUNCTIONS - 1
      /\ at[2] \in group.start_bus .. group.end_bus
  BY FunctionOf
<1>2. PICK base \in Nat, start \in Nat, end \in Nat :
        base = group.base /\ start = group.start_bus /\ end = group.end_bus
  BY <1>1, GroupOf
<1>3. PICK b \in Nat, slot \in Nat, function \in Nat : b = at[2] /\ slot = at[3] /\ function = at[4] /\ start <= b
  BY <1>1, <1>2
<1>4. PICK z \in Nat : z = ((b - start) * SLOTS + slot) * FUNCTIONS
  BY <1>3, SizesAssumption
<1>5. (base + z) + function = base + (z + function)
  OBVIOUS
<1>6. Place(m, at) = base + Offset(at[2] - start, at[3], at[4])
  BY <1>2, <1>3, <1>4, <1>5 DEF Place, Offset
<1> QED BY <1>1, <1>2, <1>6, InWindow

\* Every function has a page of its own.
LEMMA PlaceUnique ==
  ASSUME NEW m \in Machines, NEW x \in DOMAIN m.space,
         NEW g \in 1 .. Len(m.groups),
         NEW b \in m.groups[g].start_bus .. m.groups[g].end_bus,
         NEW slot \in 0 .. SLOTS - 1, NEW function \in 0 .. FUNCTIONS - 1,
         Place(m, x) = FunctionAddress(m.groups[g], b, slot, function)
  PROVE  x = <<g, b, slot, function>>
<1> DEFINE h == x[1]
           p == Offset(x[2] - m.groups[h].start_bus, x[3], x[4])
           q == Offset(b - m.groups[g].start_bus, slot, function)
<1>1. /\ x \in (1 .. Len(m.groups)) \X Nat \X (0 .. SLOTS - 1) \X (0 .. FUNCTIONS - 1)
      /\ x[2] \in m.groups[h].start_bus .. m.groups[h].end_bus
  BY FunctionOf
<1>2. p \in Nat /\ p < GroupSize(m.groups[h]) /\ Place(m, x) = m.groups[h].base + p
  BY PlaceIs
<1>3. /\ q \in Nat /\ q < GroupSize(m.groups[g])
      /\ FunctionAddress(m.groups[g], b, slot, function) = m.groups[g].base + q
  BY InWindow
<1> HIDE DEF p, q
<1>4. h = g
  <2> SUFFICES ASSUME h # g PROVE FALSE
    OBVIOUS
  <2>1. h \in 1 .. Len(m.groups)
    BY <1>1
  <2>2. PICK hb \in Nat, hs \in Int, gb \in Nat, gs \in Int :
          /\ hb = m.groups[h].base /\ hs = GroupSize(m.groups[h])
          /\ gb = m.groups[g].base /\ gs = GroupSize(m.groups[g])
    BY <2>1, GroupOf
  <2>3. DOMAIN m.groups = 1 .. Len(m.groups)
    BY NumberingAssumption
  <2>4. hb + hs <= gb \/ gb + gs <= hb
    BY <2>1, <2>2, <2>3, NumberingAssumption
  <2>5. PICK u \in Nat, v \in Nat : u = p /\ v = q
    BY <1>2, <1>3
  <2>6. hb + u = gb + v /\ u < hs /\ v < gs
    BY <1>2, <1>3, <2>2, <2>5
  <2> QED BY <2>4, <2>6
<1>5. PICK base \in Nat, start \in Nat, end \in Nat :
        base = m.groups[g].base /\ start = m.groups[g].start_bus /\ end = m.groups[g].end_bus
  BY GroupOf
<1>6. p = q
  <2>1. PICK u \in Nat, v \in Nat : u = p /\ v = q
    BY <1>2, <1>3
  <2>2. base + u = base + v
    BY <1>2, <1>3, <1>4, <1>5, <2>1
  <2> QED BY <2>1, <2>2
<1>7. x[2] - start \in Nat /\ b - start \in Nat /\ b \in Nat /\ x[2] \in Nat
  <2>1. PICK c \in Nat : c = x[2]
    BY <1>1
  <2>2. c \in start .. end /\ b \in start .. end
    BY <1>1, <1>4, <1>5, <2>1
  <2> QED BY <2>1, <2>2
<1>8. Offset(x[2] - start, x[3], x[4]) = Offset(b - start, slot, function)
  BY <1>4, <1>5, <1>6 DEF p, q
<1>9. x[3] \in 0 .. SLOTS - 1 /\ x[4] \in 0 .. FUNCTIONS - 1
  BY <1>1
<1>10. x[2] - start = b - start /\ x[3] = slot /\ x[4] = function
  <2>1. PICK e \in Nat, f \in Nat : e = x[2] - start /\ f = b - start
    BY <1>7
  <2>2. Offset(e, x[3], x[4]) = Offset(f, slot, function)
    BY <1>8, <2>1
  <2>3. e = f /\ x[3] = slot /\ x[4] = function
    BY <1>9, <2>2, OffsetUnique
  <2> QED BY <2>1, <2>3
<1>11. x[2] = b
  BY <1>7, <1>10
<1> QED BY <1>1, <1>4, <1>10, <1>11

\* What the probe reads where a function is
LEMMA HeaderAt ==
  ASSUME machine \in Machines, NEW at \in DOMAIN machine.space
  PROVE  ReadHeader(Place(machine, at)) = machine.space[at]
<1> DEFINE here == {x \in DOMAIN machine.space : Place(machine, x) = Place(machine, at)}
<1>1. /\ at \in (1 .. Len(machine.groups)) \X Nat \X (0 .. SLOTS - 1) \X (0 .. FUNCTIONS - 1)
      /\ at[2] \in machine.groups[at[1]].start_bus .. machine.groups[at[1]].end_bus
  BY FunctionOf
<1>2. Place(machine, at) = FunctionAddress(machine.groups[at[1]], at[2], at[3], at[4])
  BY PlaceIs
<1>3. \A x \in here : x = <<at[1], at[2], at[3], at[4]>>
  BY <1>1, <1>2, PlaceUnique
<1>4. at = <<at[1], at[2], at[3], at[4]>>
  BY <1>1
<1>5. here # {} /\ (CHOOSE x \in here : TRUE) = at
  BY <1>3, <1>4
<1> QED BY <1>5 DEF ReadHeader

\* What the probe finds is the function it looks for.
LEMMA FoundIs ==
  ASSUME machine \in Machines, NEW g \in 1 .. Len(machine.groups),
         NEW b \in machine.groups[g].start_bus .. machine.groups[g].end_bus,
         NEW slot \in 0 .. SLOTS - 1, NEW function \in 0 .. FUNCTIONS - 1,
         ~Absent(ReadHeader(FunctionAddress(machine.groups[g], b, slot, function)))
  PROVE  LET at == <<g, b, slot, function>>
         IN  /\ at \in DOMAIN machine.space
             /\ Place(machine, at) = FunctionAddress(machine.groups[g], b, slot, function)
<1> DEFINE address == FunctionAddress(machine.groups[g], b, slot, function)
           here == {x \in DOMAIN machine.space : Place(machine, x) = address}
<1>1. here # {}
  BY DEF ReadHeader, Absent, NoFunction
<1>2. PICK x \in DOMAIN machine.space : Place(machine, x) = address
  BY <1>1
<1>3. x = <<g, b, slot, function>>
  BY <1>2, PlaceUnique
<1> QED BY <1>2, <1>3

-----------------------------------------------------------------------------
\* The invariant

Frames == [bus : 0 .. BUSES - 1, slot : 0 .. SLOTS, function : 0 .. FUNCTIONS - 1]

FrameAddress(f) == FunctionAddress(Group, f.bus, f.slot, f.function)

Present(address) == \E at \in DOMAIN machine.space : Place(machine, at) = address

\* A stack of calls: each frame is on a bus of the group, above its caller's,
\* and every caller is at a bridge. A frame's bus also bounds how many calls
\* it is deep, which the order of the buses alone says only by counting.
StackOK(s) ==
  /\ s \in Seq(Frames)
  /\ s # << >> => /\ i \in 1 .. Len(machine.groups)
                  /\ Group.start_bus <= bus /\ bus < Group.end_bus
  /\ \A k \in 1 .. Len(s) : Group.start_bus + k - 1 <= s[k].bus /\ s[k].bus <= Group.end_bus
  /\ \A j, k \in 1 .. Len(s) : j < k => s[j].bus < s[k].bus
  /\ \A k \in 1 .. Len(s) - 1 : s[k].slot < SLOTS /\ Present(FrameAddress(s[k]))

Listed == {Device(Place(machine, at)) : at \in DOMAIN machine.space}

ProbeInv ==
  /\ machine \in Machines
  /\ TypeOK
  /\ StackOK(stack)
  /\ i > 0 => Group.start_bus <= bus
  /\ pci_devices \in Seq(Listed)
  /\ MapsOnlyDevices
  /\ DOMAIN ghc = Controllers

GhcFlags == {"HR", "AE", "IE"}

CommandFlags == {"IO_SPACE", "INT_DISABLE", "MEM_SPACE", "BUS_MASTER"}

\* The function of an entry of the list
DevAt(k) == CHOOSE x \in DOMAIN machine.space : Place(machine, x) = pci_devices[k].header

\* Entry k's controller, if it is one, has been started and not been reset
\* since, unless the driver is resetting it now for a later entry.
Started(k) ==
  IsAhci(machine.space[DevAt(k)]) =>
    /\ command[DevAt(k)] = AhciCommand
    /\ \/ ghc[machine.space[DevAt(k)].bar5] = {"AE", "IE"}
       \/ pc = "wait" /\ machine.space[DevAt(k)].bar5 = Header.bar5

DriverInv ==
  /\ ghc \in [Controllers -> SUBSET GhcFlags]
  /\ command \in [DOMAIN machine.space -> SUBSET CommandFlags]
  /\ pc = "probe" => d = 1
  /\ pc \in {"reset", "wait"} =>
       d <= Len(pci_devices) /\ IsAhci(Header) /\ command[DeviceAt] = AhciCommand
  /\ pc = "wait" => "HR" \in ghc[Header.bar5] \/ ghc[Header.bar5] = {}
  /\ \A bar5 \in Controllers : "HR" \in ghc[bar5] => pc = "wait" /\ bar5 = Header.bar5
  /\ \A k \in 1 .. d - 1 : Started(k)
  /\ pc = "done" => d > Len(pci_devices)

IInv == ProbeInv /\ DriverInv

\* The group that is probed
LEMMA GroupNow ==
  ASSUME machine \in Machines, i \in 1 .. Len(machine.groups)
  PROVE  /\ Group.base \in Nat /\ Group.start_bus \in Nat /\ Group.end_bus \in Nat
         /\ Group.start_bus < BUSES /\ Group.end_bus < BUSES
BY GroupOf DEF Group

\* The function that a frame of the stack is at
LEMMA FrameOf ==
  ASSUME machine \in Machines, NEW s, StackOK(s), NEW k \in 1 .. Len(s), s[k].slot < SLOTS
  PROVE  /\ i \in 1 .. Len(machine.groups)
         /\ s[k].bus \in Group.start_bus .. Group.end_bus
         /\ s[k].slot \in 0 .. SLOTS - 1 /\ s[k].function \in 0 .. FUNCTIONS - 1
         /\ FrameAddress(s[k]) \in Group.base .. Group.base + GroupSize(Group) - 1
<1>1. s \in Seq(Frames) /\ s # << >> /\ i \in 1 .. Len(machine.groups)
  BY DEF StackOK
<1>2. s[k] \in Frames
  BY <1>1
<1>3. s[k].bus \in Nat /\ s[k].slot \in 0 .. SLOTS - 1 /\ s[k].function \in 0 .. FUNCTIONS - 1
  BY <1>2, SizesAssumption DEF Frames
<1>4. PICK b \in Nat, start \in Nat, end \in Nat, base \in Nat :
        b = s[k].bus /\ start = Group.start_bus /\ end = Group.end_bus /\ base = Group.base
  BY <1>1, <1>3, GroupNow
<1>5. start + k - 1 <= b /\ b <= end /\ k >= 1 /\ k \in Int
  BY <1>4 DEF StackOK
<1>6. b \in start .. end
  BY <1>5
<1> DEFINE offset == Offset(b - start, s[k].slot, s[k].function)
<1>7. /\ offset \in Nat /\ offset < GroupSize(Group)
      /\ FrameAddress(s[k]) = base + offset
  BY <1>1, <1>3, <1>4, <1>6, InWindow DEF FrameAddress, Group
<1>8. GroupSize(Group) \in Int
  BY <1>1, GroupOf DEF Group
<1> HIDE DEF offset
<1>9. PICK o \in Nat, size \in Int : o = offset /\ size = GroupSize(Group) /\ o < size
  BY <1>7, <1>8
<1>10. base + o \in base .. base + size - 1
  BY <1>9
<1> QED BY <1>1, <1>3, <1>4, <1>6, <1>7, <1>9, <1>10

\* The loops of pcie_probe_slot and pcie_probe_bus
LEMMA AdvancedOK ==
  ASSUME machine \in Machines, NEW s, StackOK(s), s # << >>, s[Len(s)].slot < SLOTS
  PROVE  StackOK(Advanced(s))
<1>1. s \in Seq(Frames) /\ Len(s) \in 1 .. Len(s) /\ Len(s) \in Nat
  BY DEF StackOK
<1> DEFINE n == Len(s)
<1>2. s[n] \in Frames
  BY <1>1
<1>3. Step(s[n]) \in Frames /\ Step(s[n]).bus = s[n].bus
  <2>1. PICK f \in Frames : f = s[n] /\ f.slot < SLOTS
    BY <1>2
  <2>2. f.slot \in Nat /\ f.slot + 1 \in 0 .. SLOTS /\ f.function \in Nat /\ f.function < FUNCTIONS
    BY <2>1, SizesAssumption DEF Frames
  <2>3. f.function + 1 < FUNCTIONS => f.function + 1 \in 0 .. FUNCTIONS - 1
    BY <2>2, SizesAssumption
  <2>4. 0 \in 0 .. FUNCTIONS - 1
    BY SizesAssumption
  <2>5. Step(f) \in Frames /\ Step(f).bus = f.bus
    BY <2>2, <2>3, <2>4 DEF Frames, Step
  <2> QED BY <2>1, <2>5
<1> DEFINE t == Advanced(s)
<1>4. t = [s EXCEPT ![n] = Step(s[n])]
  BY DEF Advanced
<1>5. t \in Seq(Frames) /\ Len(t) = n /\ t # << >>
  BY <1>1, <1>3, <1>4
<1>6. t[n] = Step(s[n]) /\ \A k \in 1 .. n - 1 : t[k] = s[k]
  BY <1>1, <1>4
<1> HIDE DEF t, n
<1>7. \A k \in 1 .. n : t[k].bus = s[k].bus
  BY <1>1, <1>3, <1>6 DEF n
<1>8. \A k \in 1 .. Len(t) : Group.start_bus + k - 1 <= t[k].bus /\ t[k].bus <= Group.end_bus
  BY <1>5, <1>7 DEF n, StackOK
<1>9. \A j, k \in 1 .. Len(t) : j < k => t[j].bus < t[k].bus
  BY <1>5, <1>7 DEF n, StackOK
<1>10. \A k \in 1 .. Len(t) - 1 : t[k].slot < SLOTS /\ Present(FrameAddress(t[k]))
  BY <1>5, <1>6 DEF n, StackOK
<1>11. StackOK(t)
  BY <1>5, <1>8, <1>9, <1>10 DEF StackOK
<1> QED BY <1>11 DEF t

\* A call to probe the bus behind a bridge
LEMMA PushedOK ==
  ASSUME machine \in Machines, NEW s, StackOK(s), s # << >>, s[Len(s)].slot < SLOTS,
         Present(FrameAddress(s[Len(s)])),
         NEW b \in s[Len(s)].bus + 1 .. Group.end_bus
  PROVE  StackOK(Append(s, Frame(b)))
<1>1. s \in Seq(Frames) /\ Len(s) \in 1 .. Len(s) /\ Len(s) \in Nat /\ i \in 1 .. Len(machine.groups)
  BY DEF StackOK
<1> DEFINE n == Len(s)
           t == Append(s, Frame(b))
<1>2. s[n] \in Frames
  BY <1>1
<1>3. PICK top \in Nat, start \in Nat, end \in Nat :
        top = s[n].bus /\ start = Group.start_bus /\ end = Group.end_bus /\ end < BUSES
  BY <1>1, <1>2, GroupNow DEF Frames
<1>4. b \in Nat /\ top < b /\ b <= end /\ start + n - 1 <= top
  BY <1>1, <1>3 DEF StackOK
<1>5. b \in 0 .. BUSES - 1 /\ start + (n + 1) - 1 <= b
  BY <1>1, <1>3, <1>4, SizesAssumption
<1>6. Frame(b) \in Frames /\ Frame(b).bus = b
  BY <1>5, SizesAssumption DEF Frame, Frames
<1>7. t \in Seq(Frames) /\ Len(t) = n + 1 /\ t # << >>
  BY <1>1, <1>6
<1>8. t[n + 1] = Frame(b) /\ \A k \in 1 .. n : t[k] = s[k]
  BY <1>1
<1> HIDE DEF t, n
<1>9. n \in Nat /\ n = Len(s)
  BY <1>1 DEF n
<1>10. \A k \in 1 .. n : start + k - 1 <= t[k].bus /\ t[k].bus <= end
  BY <1>3, <1>8, <1>9 DEF StackOK
<1>11. \A k \in 1 .. Len(t) : Group.start_bus + k - 1 <= t[k].bus /\ t[k].bus <= Group.end_bus
  <2> TAKE k \in 1 .. Len(t)
  <2>1. CASE k \in 1 .. n
    BY <1>3, <1>10, <2>1
  <2>2. CASE k = n + 1
    BY <1>3, <1>4, <1>5, <1>6, <1>8, <2>2
  <2> QED BY <1>7, <1>9, <2>1, <2>2
<1>12. \A k \in 1 .. n : s[k].bus \in Nat /\ s[k].bus <= top
  <2> TAKE k \in 1 .. n
  <2>0. s[k] \in Frames
    BY <1>1, <1>9
  <2>1. s[k].bus \in Nat
    BY <2>0, SizesAssumption DEF Frames
  <2>2. k < n => s[k].bus < s[n].bus
    BY <1>9, <1>1 DEF StackOK
  <2> QED BY <1>3, <1>9, <2>1, <2>2
<1>13. \A j, k \in 1 .. Len(t) : j < k => t[j].bus < t[k].bus
  <2> SUFFICES ASSUME NEW j \in 1 .. Len(t), NEW k \in 1 .. Len(t), j < k
               PROVE  t[j].bus < t[k].bus
    OBVIOUS
  <2>1. CASE k <= n
    <3>1. j \in 1 .. n /\ k \in 1 .. n
      BY <1>7, <1>9, <2>1
    <3>2. s[j].bus < s[k].bus
      BY <3>1, <1>9 DEF StackOK
    <3> QED BY <3>1, <3>2, <1>8
  <2>2. CASE k = n + 1
    BY <1>4, <1>6, <1>7, <1>8, <1>9, <1>12, <2>2
  <2> QED BY <1>7, <1>9, <2>1, <2>2
<1>14. \A k \in 1 .. Len(t) - 1 : t[k].slot < SLOTS /\ Present(FrameAddress(t[k]))
  BY <1>7, <1>8, <1>9 DEF StackOK
<1>15. StackOK(t)
  BY <1>1, <1>7, <1>11, <1>13, <1>14 DEF StackOK
<1> QED BY <1>15 DEF t

\* A return to the caller, which is at a bridge
LEMMA PoppedOK ==
  ASSUME machine \in Machines, NEW s, StackOK(s), Len(s) > 1
  PROVE  LET t == Front(s)
         IN  /\ StackOK(t) /\ t # << >> /\ Len(t) = Len(s) - 1
             /\ t[Len(t)] = s[Len(s) - 1] /\ t[Len(t)].slot < SLOTS
             /\ Present(FrameAddress(s[Len(s) - 1]))
<1> DEFINE n == Len(s)
           t == Front(s)
<1>1. s \in Seq(Frames) /\ n \in Nat /\ n > 1 /\ s # << >>
  BY DEF StackOK
<1>2. t = SubSeq(s, 1, n - 1)
  BY DEF Front
<1>3. t \in Seq(Frames) /\ Len(t) = n - 1 /\ t # << >> /\ \A k \in 1 .. n - 1 : t[k] = s[k]
  <2>2. 1 \in 1 .. n + 1 /\ n - 1 \in 0 .. n
    BY <1>1
  <2>3. /\ SubSeq(s, 1, n - 1) \in Seq(Frames) /\ Len(SubSeq(s, 1, n - 1)) = n - 1
        /\ \A k \in 1 .. n - 1 : SubSeq(s, 1, n - 1)[k] = s[k]
    BY <1>1, <2>2
  <2> HIDE DEF n
  <2>4. t \in Seq(Frames) /\ Len(t) = n - 1 /\ \A k \in 1 .. n - 1 : t[k] = s[k]
    BY <1>2, <2>3
  <2>5. t # << >>
    BY <1>1, <2>4
  <2> QED BY <2>4, <2>5
<1> HIDE DEF t
<1>4. StackOK(t)
  <2>1. \A k \in 1 .. Len(t) : k \in 1 .. Len(s) /\ t[k] = s[k]
    BY <1>1, <1>3
  <2>2. \A k \in 1 .. Len(t) - 1 : k \in 1 .. Len(s) - 1 /\ t[k] = s[k]
    BY <1>1, <1>3
  <2> QED BY <1>1, <1>3, <2>1, <2>2 DEF StackOK
<1>5. s[n - 1].slot < SLOTS /\ Present(FrameAddress(s[n - 1]))
  BY <1>1 DEF StackOK
<1> QED BY <1>1, <1>3, <1>4, <1>5 DEF t

\* The list of devices grows by what the probe has found.
LEMMA RegisterOK ==
  ASSUME ProbeInv, machine' = machine, NEW address, Present(address), pci_register_device(address)
  PROVE  /\ (pci_devices \in Seq(Listed))'
         /\ Len(pci_devices') = Len(pci_devices) + 1
<1>1. Listed' = Listed
  BY DEF Listed, Device, ReadHeader, Place
<1>2. Device(address) \in Listed
  BY DEF Present, Listed
<1> QED BY <1>1, <1>2 DEF pci_register_device, ProbeInv

\* Steps of the probe leave the drivers' part alone: none has been started.
LEMMA ProbeKeepsDrivers ==
  ASSUME IInv, pc = "probe", pc' \in {"probe", "drivers"}, UNCHANGED <<machine, d, command, ghc>>
  PROVE  DriverInv'
<1>1. d = 1 /\ ghc \in [Controllers -> SUBSET GhcFlags]
      /\ command \in [DOMAIN machine.space -> SUBSET CommandFlags]
      /\ \A bar5 \in Controllers : "HR" \notin ghc[bar5]
  BY DEF IInv, DriverInv
<1>2. Controllers' = Controllers
  BY DEF Controllers
<1> QED BY <1>1, <1>2 DEF DriverInv

\* A probe step in which the window of the frame on top is mapped
LEMMA MappedOK ==
  ASSUME ProbeInv, Probing, machine' = machine, ghc' = ghc, mapped' = mapped \cup {TopAddress}
  PROVE  MapsOnlyDevices' /\ DOMAIN ghc' = Controllers'
<1>1. /\ machine \in Machines /\ StackOK(stack) /\ Len(stack) \in 1 .. Len(stack) /\ stack[Len(stack)].slot < SLOTS
  BY DEF ProbeInv, Probing, Top, StackOK
<1>2. i \in 1 .. Len(machine.groups) /\ TopAddress \in Group.base .. Group.base + GroupSize(Group) - 1
  BY <1>1, FrameOf DEF TopAddress, FrameAddress, Top
<1>3. machine.groups \in Seq([base : Nat, start_bus : 0 .. BUSES - 1, end_bus : 0 .. BUSES - 1])
  BY <1>1, NumberingAssumption
<1>4. Group \in ToSet(machine.groups)
  BY <1>2, <1>3 DEF Group, ToSet
<1>5. MapsOnlyDevices /\ DOMAIN ghc = Controllers
  BY DEF ProbeInv
<1>6. Controllers' = Controllers
  BY DEF Controllers
<1> QED BY <1>2, <1>4, <1>5, <1>6 DEF MapsOnlyDevices, GroupSize

\* A stack of the same group after a step of the probe
LEMMA StackNow ==
  ASSUME UNCHANGED <<machine, i, bus>>, NEW s, StackOK(s), stack' = s
  PROVE  StackOK(stack)' /\ (i > 0 => Group.start_bus <= bus)' = (i > 0 => Group.start_bus <= bus)
BY DEF StackOK, Group, Present, FrameAddress, FunctionAddress, Place

LEMMA StackTyped ==
  ASSUME NEW s, StackOK(s)
  PROVE  \A k \in DOMAIN s : s[k] \in [bus : 0 .. BUSES - 1, slot : 0 .. SLOTS, function : 0 .. FUNCTIONS - 1]
<1>1. s \in Seq(Frames)
  BY DEF StackOK
<1>2. \A k \in DOMAIN s : s[k] \in Frames
  BY <1>1
<1> QED BY <1>2 DEF Frames

\* The frame on top
LEMMA TopOf ==
  ASSUME ProbeInv, Probing
  PROVE  /\ machine \in Machines /\ StackOK(stack) /\ stack # << >> /\ Top = stack[Len(stack)]
         /\ stack[Len(stack)].slot < SLOTS /\ pc = "probe" /\ i \in 1 .. Len(machine.groups)
         /\ TopAddress = FrameAddress(stack[Len(stack)])
         /\ ~Absent(ReadHeader(TopAddress)) =>
              /\ Present(TopAddress)
              /\ IsBridge(ReadHeader(TopAddress)) =>
                   ReadHeader(TopAddress).secondary_bus_num \in Top.bus + 1 .. Group.end_bus
<1>1. /\ machine \in Machines /\ StackOK(stack) /\ stack # << >> /\ Top = stack[Len(stack)]
      /\ Top.slot < SLOTS /\ pc = "probe" /\ Len(stack) \in 1 .. Len(stack)
  BY DEF ProbeInv, Probing, Top, StackOK
<1>2. TopAddress = FrameAddress(stack[Len(stack)])
  BY DEF TopAddress, FrameAddress, Top
<1>3. /\ i \in 1 .. Len(machine.groups) /\ Top.bus \in Group.start_bus .. Group.end_bus
      /\ Top.slot \in 0 .. SLOTS - 1 /\ Top.function \in 0 .. FUNCTIONS - 1
  BY <1>1, FrameOf
<1>4. ASSUME ~Absent(ReadHeader(TopAddress))
      PROVE  /\ Present(TopAddress)
             /\ IsBridge(ReadHeader(TopAddress)) =>
                  ReadHeader(TopAddress).secondary_bus_num \in Top.bus + 1 .. Group.end_bus
  <2> DEFINE at == <<i, Top.bus, Top.slot, Top.function>>
  <2>1. at \in DOMAIN machine.space /\ Place(machine, at) = TopAddress
    BY <1>1, <1>3, <1>4, FoundIs DEF TopAddress, Group
  <2>2. ReadHeader(TopAddress) = machine.space[at]
    BY <1>1, <2>1, HeaderAt
  <2>3. at[1] = i /\ at[2] = Top.bus
    OBVIOUS
  <2> HIDE DEF at
  <2>4. IsBridge(machine.space[at]) => machine.space[at].secondary_bus_num \in Top.bus + 1 .. Group.end_bus
    BY <1>1, <2>1, <2>3, FunctionOf DEF Group
  <2> QED BY <2>1, <2>2, <2>4 DEF Present
<1> QED BY <1>1, <1>2, <1>3, <1>4

\* What a step of the probe has to keep, put together
LEMMA ProbeStep ==
  ASSUME IInv, pc = "probe", UNCHANGED <<machine, pc, i, bus, d, command, ghc>>,
         NEW s, stack' = s, StackOK(s),
         (pci_devices \in Seq(Listed))', Len(pci_devices') \in Nat, Len(pci_devices') >= Len(pci_devices),
         MapsOnlyDevices', DOMAIN ghc' = Controllers'
  PROVE  IInv'
<1>1. DriverInv'
  BY ProbeKeepsDrivers
<1>2. StackOK(stack)' /\ (i > 0 => Group.start_bus <= bus)'
  <2>1. i > 0 => Group.start_bus <= bus
    BY DEF IInv, ProbeInv
  <2> QED BY <2>1, StackNow DEF Group
<1>3. \A k \in DOMAIN s : s[k] \in [bus : 0 .. BUSES - 1, slot : 0 .. SLOTS, function : 0 .. FUNCTIONS - 1]
  BY StackTyped
<1>4. TypeOK
  BY DEF IInv, ProbeInv
<1>5. Len(pci_devices) \in Nat
  BY DEF IInv, ProbeInv
<1>6. d' \in 1 .. Len(pci_devices') + 1
  BY <1>4, <1>5 DEF TypeOK
<1>7. TypeOK'
  BY <1>3, <1>4, <1>6 DEF TypeOK
<1> QED BY <1>1, <1>2, <1>7 DEF IInv, ProbeInv

\* The list of devices and the map as they were
LEMMA SameList ==
  ASSUME IInv, UNCHANGED <<machine, pci_devices>>
  PROVE  (pci_devices \in Seq(Listed))' /\ Len(pci_devices') \in Nat /\ Len(pci_devices') >= Len(pci_devices)
<1>1. Listed' = Listed
  BY DEF Listed, Device, ReadHeader, Place
<1>2. pci_devices \in Seq(Listed)
  BY DEF IInv, ProbeInv
<1>3. Len(pci_devices) \in Nat
  BY <1>2
<1> QED BY <1>1, <1>2, <1>3

LEMMA SameMap ==
  ASSUME IInv, UNCHANGED <<machine, mapped, ghc>>
  PROVE  MapsOnlyDevices' /\ DOMAIN ghc' = Controllers'
BY DEF IInv, ProbeInv, MapsOnlyDevices, Controllers, GroupSize

LEMMA ProbePreserves ==
  ASSUME IInv,
         \/ next_group \/ probe_done \/ pcie_probe_bus \/ probe_absent \/ probe_device \/ probe_bridge
         \/ return_to_bridge \/ return_to_probe
  PROVE  IInv'
<1> USE DEF IInv
<1>0. ProbeInv /\ machine \in Machines /\ StackOK(stack) /\ TypeOK
  BY DEF ProbeInv
<1>1. CASE next_group
  <2>1. /\ pc = "probe" /\ stack = << >> /\ i' = i + 1 /\ bus' = machine.groups[i + 1].start_bus
        /\ i < Len(machine.groups) /\ UNCHANGED <<machine, pc, stack, mapped, pci_devices, d, command, ghc>>
    BY <1>1 DEF next_group, Outer
  <2>2. DriverInv'
    BY <2>1, ProbeKeepsDrivers
  <2>3. i + 1 \in 1 .. Len(machine.groups)
    BY <1>0, <2>1 DEF TypeOK
  <2>4. bus' \in Nat /\ bus' < BUSES /\ bus' = Group'.start_bus
    BY <1>0, <2>1, <2>3, GroupOf DEF Group
  <2>5. bus' \in 0 .. BUSES - 1 /\ Group'.start_bus <= bus'
    BY <2>4, SizesAssumption
  <2>6. TypeOK'
    BY <1>0, <2>1, <2>3, <2>5 DEF TypeOK
  <2>7. StackOK(stack)'
    <3>1. stack' = << >> /\ Len(stack') = 0 /\ stack' \in Seq(Frames)
      BY <2>1
    <3> QED BY <3>1 DEF StackOK
  <2>8. (pci_devices \in Seq(Listed))'
    BY <2>1, SameList
  <2>9. MapsOnlyDevices' /\ DOMAIN ghc' = Controllers'
    BY <2>1, SameMap
  <2> QED BY <1>0, <2>1, <2>2, <2>5, <2>6, <2>7, <2>8, <2>9 DEF ProbeInv
<1>2. CASE probe_done
  <2>1. /\ pc = "probe" /\ pc' = "drivers"
        /\ UNCHANGED <<machine, i, bus, stack, mapped, pci_devices, d, command, ghc>>
    BY <1>2 DEF probe_done, Outer, probeVars
  <2>2. DriverInv'
    BY <2>1, ProbeKeepsDrivers
  <2>3. TypeOK'
    BY <1>0, <2>1 DEF TypeOK
  <2>4. StackOK(stack)' /\ (i > 0 => Group.start_bus <= bus)'
    BY <1>0, <2>1 DEF ProbeInv, StackOK, Group, Present, FrameAddress, FunctionAddress, Place
  <2>5. (pci_devices \in Seq(Listed))'
    BY <2>1, SameList
  <2>6. MapsOnlyDevices' /\ DOMAIN ghc' = Controllers'
    BY <2>1, SameMap
  <2> QED BY <1>0, <2>1, <2>2, <2>3, <2>4, <2>5, <2>6 DEF ProbeInv
<1>3. CASE pcie_probe_bus
  <2>1. /\ pc = "probe" /\ stack = << >> /\ i > 0 /\ bus < Group.end_bus /\ stack' = <<Frame(bus)>>
        /\ UNCHANGED <<machine, pc, i, bus, mapped, pci_devices, d, command, ghc>>
    BY <1>3 DEF pcie_probe_bus, Outer, InRange
  <2>2. i \in 1 .. Len(machine.groups) /\ Group.start_bus <= bus /\ bus \in 0 .. BUSES - 1
    BY <1>0, <2>1 DEF TypeOK, ProbeInv
  <2>3. PICK start \in Nat, end \in Nat, b \in Nat : start = Group.start_bus /\ end = Group.end_bus /\ b = bus
    BY <1>0, <2>2, GroupNow
  <2>4. start + 1 - 1 <= b /\ b <= end
    BY <2>1, <2>2, <2>3
  <2>5. Frame(bus) \in Frames /\ Frame(bus).bus = bus
    BY <2>2, SizesAssumption DEF Frame, Frames
  <2>6. /\ <<Frame(bus)>> \in Seq(Frames) /\ Len(<<Frame(bus)>>) = 1 /\ <<Frame(bus)>>[1] = Frame(bus)
        /\ <<Frame(bus)>> # << >>
    BY <2>5
  <2>7. StackOK(<<Frame(bus)>>)
    <3> DEFINE s == <<Frame(bus)>>
    <3>1. /\ s \in Seq(Frames) /\ Len(s) = 1 /\ s[1].bus = bus
      BY <2>5, <2>6
    <3> HIDE DEF s
    <3>2. \A k \in 1 .. Len(s) : k = 1
      BY <3>1
    <3>3. \A k \in 1 .. Len(s) : Group.start_bus + k - 1 <= s[k].bus /\ s[k].bus <= Group.end_bus
      BY <2>3, <2>4, <3>1, <3>2
    <3>4. StackOK(s)
      BY <2>1, <2>2, <3>1, <3>2, <3>3 DEF StackOK
    <3> QED BY <3>4 DEF s
  <2> QED BY <2>1, <2>7, ProbeStep, SameList, SameMap
<1>4. CASE probe_absent
  <2>1. /\ Probing /\ mapped' = mapped \cup {TopAddress} /\ stack' = Advanced(stack)
        /\ UNCHANGED <<machine, pc, i, bus, pci_devices, d, command, ghc>>
    BY <1>4 DEF probe_absent
  <2>2. stack # << >> /\ stack[Len(stack)].slot < SLOTS /\ pc = "probe"
    BY <1>0, <2>1, TopOf
  <2>3. StackOK(Advanced(stack))
    BY <1>0, <2>2, AdvancedOK
  <2>4. MapsOnlyDevices' /\ DOMAIN ghc' = Controllers'
    BY <1>0, <2>1, MappedOK
  <2> QED BY <2>1, <2>2, <2>3, <2>4, SameList, ProbeStep
<1>5. CASE probe_device
  <2>1. /\ Probing /\ mapped' = mapped \cup {TopAddress} /\ stack' = Advanced(stack)
        /\ pci_register_device(TopAddress) /\ ~Absent(ReadHeader(TopAddress))
        /\ UNCHANGED <<machine, pc, i, bus, d, command, ghc>>
    BY <1>5 DEF probe_device
  <2>2. stack # << >> /\ stack[Len(stack)].slot < SLOTS /\ pc = "probe" /\ Present(TopAddress)
    BY <1>0, <2>1, TopOf
  <2>3. StackOK(Advanced(stack))
    BY <1>0, <2>2, AdvancedOK
  <2>4. MapsOnlyDevices' /\ DOMAIN ghc' = Controllers'
    BY <1>0, <2>1, MappedOK
  <2>5. (pci_devices \in Seq(Listed))' /\ Len(pci_devices') = Len(pci_devices) + 1
    BY <1>0, <2>1, <2>2, RegisterOK
  <2>6. Len(pci_devices) \in Nat
    BY DEF ProbeInv
  <2>7. Len(pci_devices') \in Nat /\ Len(pci_devices') >= Len(pci_devices)
    BY <2>5, <2>6
  <2> QED BY <2>1, <2>2, <2>3, <2>4, <2>5, <2>7, ProbeStep
<1>6. CASE probe_bridge
  <2> DEFINE b == ReadHeader(TopAddress).secondary_bus_num
  <2>1. /\ Probing /\ mapped' = mapped \cup {TopAddress}
        /\ ~Absent(ReadHeader(TopAddress)) /\ IsBridge(ReadHeader(TopAddress))
        /\ stack' = Append(stack, Frame(b))
        /\ UNCHANGED <<machine, pc, i, bus, pci_devices, d, command, ghc>>
    BY <1>6 DEF probe_bridge, BehindBridge
  <2>2. /\ stack # << >> /\ stack[Len(stack)].slot < SLOTS /\ pc = "probe"
        /\ Present(FrameAddress(stack[Len(stack)])) /\ b \in stack[Len(stack)].bus + 1 .. Group.end_bus
    BY <1>0, <2>1, TopOf
  <2>3. StackOK(Append(stack, Frame(b)))
    BY <1>0, <2>2, PushedOK
  <2>4. MapsOnlyDevices' /\ DOMAIN ghc' = Controllers'
    BY <1>0, <2>1, MappedOK
  <2> QED BY <2>1, <2>2, <2>3, <2>4, SameList, ProbeStep
<1>7. CASE return_to_bridge
  <2> DEFINE t == Front(stack)
             a == FrameAddress(stack[Len(stack) - 1])
  <2>1. /\ pc = "probe" /\ Len(stack) > 1 /\ stack' = Advanced(t)
        /\ pci_register_device(a)
        /\ UNCHANGED <<machine, pc, i, bus, mapped, d, command, ghc>>
    BY <1>7 DEF return_to_bridge, BusDone, FrameAddress
  <2>2. StackOK(t) /\ t # << >> /\ t[Len(t)].slot < SLOTS /\ Present(a)
    BY <1>0, <2>1, PoppedOK
  <2> HIDE DEF t, a
  <2>3. StackOK(Advanced(t))
    BY <1>0, <2>2, AdvancedOK
  <2>4. (pci_devices \in Seq(Listed))' /\ Len(pci_devices') = Len(pci_devices) + 1
    BY <1>0, <2>1, <2>2, RegisterOK
  <2>5. Len(pci_devices) \in Nat
    BY DEF ProbeInv
  <2>6. Len(pci_devices') \in Nat /\ Len(pci_devices') >= Len(pci_devices)
    BY <2>4, <2>5
  <2> QED BY <2>1, <2>3, <2>4, <2>6, SameMap, ProbeStep
<1>8. CASE return_to_probe
  <2>1. /\ pc = "probe" /\ stack # << >> /\ stack' = << >> /\ bus' = (bus + 1) % BUSES
        /\ UNCHANGED <<machine, pc, i, mapped, pci_devices, d, command, ghc>>
    BY <1>8 DEF return_to_probe, BusDone
  <2>2. i \in 1 .. Len(machine.groups) /\ Group.start_bus <= bus /\ bus < Group.end_bus /\ bus \in 0 .. BUSES - 1
    BY <1>0, <2>1 DEF StackOK, TypeOK
  <2>3. PICK start \in Nat, end \in Nat, b \in Nat :
          start = Group.start_bus /\ end = Group.end_bus /\ b = bus /\ end < BUSES
    BY <1>0, <2>2, GroupNow
  <2>4. start <= b /\ b < end
    BY <2>2, <2>3
  <2>5. b + 1 < BUSES /\ start <= b + 1 /\ BUSES \in Nat \ {0}
    BY <2>3, <2>4, SizesAssumption
  <2>6. (b + 1) % BUSES = b + 1
    BY <2>5
  <2>7. bus' \in 0 .. BUSES - 1 /\ start <= bus'
    BY <2>1, <2>3, <2>5, <2>6
  <2>8. TypeOK'
    BY <1>0, <2>1, <2>7 DEF TypeOK
  <2>9. StackOK(stack)' /\ (i > 0 => Group.start_bus <= bus)'
    <3>1. stack' = << >> /\ Len(stack') = 0 /\ stack' \in Seq(Frames)
      BY <2>1
    <3>2. Group' = Group
      BY <2>1 DEF Group
    <3> QED BY <3>1, <3>2, <2>1, <2>3, <2>7 DEF StackOK
  <2>10. DriverInv'
    BY <2>1, ProbeKeepsDrivers
  <2> QED BY <1>0, <2>1, <2>8, <2>9, <2>10, SameList, SameMap DEF ProbeInv
<1> QED BY <1>1, <1>2, <1>3, <1>4, <1>5, <1>6, <1>7, <1>8

\* The function of an entry of the list, and its header
LEMMA DevAtOf ==
  ASSUME ProbeInv, NEW k \in 1 .. Len(pci_devices)
  PROVE  /\ DevAt(k) \in DOMAIN machine.space
         /\ ReadHeader(pci_devices[k].header) = machine.space[DevAt(k)]
<1>1. machine \in Machines /\ pci_devices[k] \in Listed
  BY DEF ProbeInv
<1>2. PICK at \in DOMAIN machine.space : pci_devices[k] = Device(Place(machine, at))
  BY <1>1 DEF Listed
<1>3. pci_devices[k].header = Place(machine, at)
  BY <1>2 DEF Device
<1>4. DevAt(k) \in DOMAIN machine.space /\ Place(machine, DevAt(k)) = pci_devices[k].header
  BY <1>3 DEF DevAt
<1> QED BY <1>1, <1>4, HeaderAt

LEMMA ControllerOf ==
  ASSUME NEW at \in DOMAIN machine.space, IsAhci(machine.space[at])
  PROVE  machine.space[at].bar5 \in Controllers
BY DEF Controllers

\* The driver's device
LEMMA DeviceNow ==
  ASSUME IInv, d <= Len(pci_devices)
  PROVE  /\ d \in 1 .. Len(pci_devices) /\ DeviceAt = DevAt(d)
         /\ DevAt(d) \in DOMAIN machine.space /\ Header = machine.space[DevAt(d)]
         /\ IsAhci(Header) => Header.bar5 \in Controllers
<1>1. d \in 1 .. Len(pci_devices)
  <2>1. d \in 1 .. Len(pci_devices) + 1 /\ pci_devices \in Seq(Listed)
    BY DEF IInv, ProbeInv, TypeOK
  <2>2. Len(pci_devices) \in Nat
    BY <2>1
  <2> QED BY <2>1, <2>2
<1>2. DeviceAt = DevAt(d)
  BY DEF DeviceAt, DevAt
<1>3. DevAt(d) \in DOMAIN machine.space /\ Header = machine.space[DevAt(d)]
  BY <1>1, DevAtOf DEF IInv, Header
<1> QED BY <1>1, <1>2, <1>3, ControllerOf

\* The drivers leave the probe's part alone.
LEMMA DriversKeepProbe ==
  ASSUME IInv, UNCHANGED <<machine, probeVars, pci_devices>>,
         pc' \in {"probe", "drivers", "reset", "wait", "done", "panic"},
         d' \in 1 .. Len(pci_devices) + 1, ghc' \in [Controllers -> SUBSET GhcFlags],
         mapped' \subseteq mapped \cup Controllers
  PROVE  ProbeInv'
<1>1. ProbeInv /\ TypeOK /\ StackOK(stack)
  BY DEF IInv, ProbeInv
<1>2. UNCHANGED <<machine, i, bus, stack, pci_devices>>
  BY DEF probeVars
<1>3. TypeOK'
  BY <1>1, <1>2 DEF TypeOK, GhcFlags
<1>4. StackOK(stack)' /\ (i > 0 => Group.start_bus <= bus)'
  BY <1>1, <1>2 DEF ProbeInv, StackOK, Group, Present, FrameAddress, FunctionAddress, Place
<1>5. (pci_devices \in Seq(Listed))'
  BY <1>2, SameList
<1>6. DOMAIN ghc' = Controllers'
  BY <1>2 DEF Controllers
<1>7. MapsOnlyDevices'
  <2> DEFINE Windows(m) == UNION {group.base .. group.base + GroupSize(group) - 1 : group \in ToSet(m.groups)}
  <2>1. mapped \subseteq Windows(machine) \cup Controllers
    BY <1>1 DEF ProbeInv, MapsOnlyDevices
  <2>2. mapped' \subseteq Windows(machine) \cup DOMAIN ghc'
    <3> HIDE DEF Windows
    <3> QED BY <2>1
  <2>3. mapped' \subseteq Windows(machine') \cup DOMAIN ghc'
    BY <1>2, <2>2
  <2> QED BY <2>3 DEF MapsOnlyDevices
<1> QED BY <1>1, <1>2, <1>3, <1>4, <1>5, <1>6, <1>7 DEF ProbeInv

\* The same machine and list have the same functions.
LEMMA SameFunctions ==
  ASSUME UNCHANGED <<machine, pci_devices>>
  PROVE  /\ Controllers' = Controllers
         /\ \A k : DevAt(k)' = DevAt(k)
         /\ d' = d => Header' = Header /\ DeviceAt' = DeviceAt
<1>1. Controllers' = Controllers
  BY DEF Controllers
<1>2. ASSUME NEW k PROVE DevAt(k)' = DevAt(k)
  BY DEF DevAt, Place
<1>3. ASSUME d' = d PROVE Header' = Header
  BY <1>3 DEF Header, ReadHeader, Place
<1>4. ASSUME d' = d PROVE DeviceAt' = DeviceAt
  BY <1>4 DEF DeviceAt, Place
<1> QED BY <1>1, <1>2, <1>3, <1>4

LEMMA DriversPreserve ==
  ASSUME IInv,
         \/ no_driver \/ nvme_init \/ ahci_init \/ ahci_reset \/ ahci_enable \/ drivers_done
         \/ \E bar5 \in DOMAIN ghc : hba_resets(bar5)
  PROVE  IInv'
<1>0. /\ ProbeInv /\ DriverInv /\ TypeOK /\ Len(pci_devices) \in Nat /\ d \in 1 .. Len(pci_devices) + 1
      /\ ghc \in [Controllers -> SUBSET GhcFlags] /\ DOMAIN ghc = Controllers
      /\ command \in [DOMAIN machine.space -> SUBSET CommandFlags]
  BY DEF IInv, ProbeInv, DriverInv, TypeOK
<1>1. ASSUME pc = "drivers", d <= Len(pci_devices), ~IsAhci(Header), d' = d + 1,
             UNCHANGED <<machine, pc, probeVars, mapped, pci_devices, command, ghc>>
      PROVE  IInv'
  <2>1. d + 1 \in 1 .. Len(pci_devices) + 1 /\ Header = machine.space[DevAt(d)]
    BY <1>0, <1>1, DeviceNow
  <2>2. ProbeInv'
    BY <1>0, <1>1, <2>1, DriversKeepProbe
  <2>3. Controllers' = Controllers /\ \A k : DevAt(k)' = DevAt(k)
    BY <1>1, SameFunctions
  <2>4. \A k \in 1 .. d : Started(k)'
    <3> TAKE k \in 1 .. d
    <3>1. CASE k = d
      BY <3>1, <1>1, <2>1, <2>3 DEF Started
    <3>2. CASE k \in 1 .. d - 1
      <4>1. Started(k)
        BY <1>0, <3>2 DEF DriverInv
      <4> QED BY <4>1, <1>1, <2>3 DEF Started
    <3> QED BY <1>0, <3>1, <3>2
  <2>5. \A k \in 1 .. d' - 1 : Started(k)'
    BY <1>0, <1>1, <2>4
  <2>6. \A bar5 \in Controllers : "HR" \notin ghc[bar5]
    BY <1>0, <1>1 DEF DriverInv
  <2>7. DriverInv'
    BY <1>0, <1>1, <2>3, <2>5, <2>6 DEF DriverInv
  <2> QED BY <2>2, <2>7 DEF IInv
<1>2. CASE no_driver
  BY <1>1, <1>2 DEF no_driver, AtDevice
<1>3. CASE nvme_init
  BY <1>1, <1>3 DEF nvme_init, AtDevice, IsNvme, IsAhci
<1>4. CASE ahci_init
  <2>1. /\ pc = "drivers" /\ d <= Len(pci_devices) /\ IsAhci(Header)
        /\ command' = [command EXCEPT ![DeviceAt] = AhciCommand]
        /\ mapped' = mapped \cup {Header.bar5} /\ pc' \in {"panic", "reset"}
        /\ UNCHANGED <<machine, probeVars, pci_devices, d, ghc>>
    BY <1>4 DEF ahci_init, AtDevice
  <2>2. /\ DeviceAt = DevAt(d) /\ DevAt(d) \in DOMAIN machine.space /\ Header.bar5 \in Controllers
    BY <2>1, DeviceNow
  <2>3. ProbeInv'
    BY <1>0, <2>1, <2>2, DriversKeepProbe
  <2>4. /\ Controllers' = Controllers /\ (\A k : DevAt(k)' = DevAt(k))
        /\ Header' = Header /\ DeviceAt' = DeviceAt
    BY <2>1, SameFunctions
  <2>5. AhciCommand \in SUBSET CommandFlags
    BY DEF AhciCommand, CommandFlags, pci_set_command_flag, pci_clear_command_flag
  <2>6. /\ command' \in [DOMAIN machine.space -> SUBSET CommandFlags]
        /\ command'[DeviceAt] = AhciCommand
        /\ \A at \in DOMAIN machine.space : command[at] = AhciCommand => command'[at] = AhciCommand
    BY <1>0, <2>1, <2>2, <2>5
  <2>7. \A k \in 1 .. d - 1 : Started(k)'
    <3> TAKE k \in 1 .. d - 1
    <3>1. Started(k) /\ k \in 1 .. Len(pci_devices)
      BY <1>0 DEF DriverInv
    <3>2. DevAt(k) \in DOMAIN machine.space
      BY <1>0, <3>1, DevAtOf
    <3> QED BY <2>1, <2>4, <2>6, <3>1, <3>2 DEF Started
  <2>8. \A bar5 \in Controllers : "HR" \notin ghc[bar5]
    BY <1>0, <2>1 DEF DriverInv
  <2>9. DriverInv'
    BY <1>0, <2>1, <2>4, <2>6, <2>7, <2>8 DEF DriverInv
  <2> QED BY <2>3, <2>9 DEF IInv
<1>5. CASE ahci_reset
  <2>1. /\ pc = "reset" /\ pc' = "wait" /\ ghc' = [ghc EXCEPT ![Header.bar5] = @ \cup {"HR"}]
        /\ UNCHANGED <<machine, probeVars, mapped, pci_devices, d, command>>
    BY <1>5 DEF ahci_reset
  <2>2. d <= Len(pci_devices) /\ IsAhci(Header) /\ command[DeviceAt] = AhciCommand
    BY <1>0, <2>1 DEF DriverInv
  <2>3. Header.bar5 \in Controllers
    BY <2>2, DeviceNow
  <2>4. /\ ghc' \in [Controllers -> SUBSET GhcFlags] /\ "HR" \in ghc'[Header.bar5]
        /\ \A bar5 \in Controllers : bar5 # Header.bar5 => ghc'[bar5] = ghc[bar5]
    BY <1>0, <2>1, <2>3 DEF GhcFlags
  <2>5. ProbeInv'
    BY <1>0, <2>1, <2>4, DriversKeepProbe
  <2>6. /\ Controllers' = Controllers /\ (\A k : DevAt(k)' = DevAt(k))
        /\ Header' = Header /\ DeviceAt' = DeviceAt
    BY <2>1, SameFunctions
  <2>7. \A k \in 1 .. d - 1 : Started(k)'
    <3> TAKE k \in 1 .. d - 1
    <3>1. Started(k) /\ k \in 1 .. Len(pci_devices)
      BY <1>0 DEF DriverInv
    <3>2. DevAt(k) \in DOMAIN machine.space
      BY <1>0, <3>1, DevAtOf
    <3>3. IsAhci(machine.space[DevAt(k)]) => machine.space[DevAt(k)].bar5 \in Controllers
      BY <3>2, ControllerOf
    <3> QED BY <2>1, <2>4, <2>6, <3>1, <3>3 DEF Started
  <2>8. \A bar5 \in Controllers : "HR" \in ghc'[bar5] => bar5 = Header.bar5
    BY <1>0, <2>1, <2>4 DEF DriverInv
  <2>9. DriverInv'
    BY <1>0, <2>1, <2>2, <2>4, <2>6, <2>7, <2>8 DEF DriverInv
  <2> QED BY <2>5, <2>9 DEF IInv
<1>6. CASE ahci_enable
  <2>1. /\ pc = "wait" /\ "HR" \notin ghc[Header.bar5]
        /\ ghc' = [ghc EXCEPT ![Header.bar5] = @ \cup {"AE", "IE"}] /\ pc' = "drivers" /\ d' = d + 1
        /\ UNCHANGED <<machine, probeVars, mapped, pci_devices, command>>
    BY <1>6 DEF ahci_enable, ResetComplete
  <2>2. /\ d <= Len(pci_devices) /\ IsAhci(Header) /\ command[DeviceAt] = AhciCommand
        /\ ghc[Header.bar5] = {}
    BY <1>0, <2>1 DEF DriverInv
  <2>3. /\ Header.bar5 \in Controllers /\ DeviceAt = DevAt(d) /\ Header = machine.space[DevAt(d)]
        /\ d + 1 \in 1 .. Len(pci_devices) + 1
    BY <1>0, <2>2, DeviceNow
  <2>4. /\ ghc' \in [Controllers -> SUBSET GhcFlags] /\ ghc'[Header.bar5] = {"AE", "IE"}
        /\ \A bar5 \in Controllers : bar5 # Header.bar5 => ghc'[bar5] = ghc[bar5]
    BY <1>0, <2>1, <2>2, <2>3 DEF GhcFlags
  <2>5. ProbeInv'
    BY <1>0, <2>1, <2>3, <2>4, DriversKeepProbe
  <2>6. Controllers' = Controllers /\ \A k : DevAt(k)' = DevAt(k)
    BY <2>1, SameFunctions
  <2>7. \A k \in 1 .. d : Started(k)'
    <3> TAKE k \in 1 .. d
    <3>1. CASE k = d
      BY <2>1, <2>2, <2>3, <2>4, <2>6, <3>1 DEF Started
    <3>2. CASE k \in 1 .. d - 1
      <4>1. Started(k) /\ k \in 1 .. Len(pci_devices)
        BY <1>0, <3>2 DEF DriverInv
      <4>2. DevAt(k) \in DOMAIN machine.space
        BY <1>0, <4>1, DevAtOf
      <4>3. IsAhci(machine.space[DevAt(k)]) => machine.space[DevAt(k)].bar5 \in Controllers
        BY <4>2, ControllerOf
      <4> QED BY <2>1, <2>4, <2>6, <4>1, <4>3 DEF Started
    <3> QED BY <1>0, <3>1, <3>2
  <2>8. \A bar5 \in Controllers : "HR" \notin ghc'[bar5]
    BY <1>0, <2>1, <2>4 DEF DriverInv
  <2>9. \A k \in 1 .. d' - 1 : Started(k)'
    BY <1>0, <2>1, <2>7
  <2>10. DriverInv'
    BY <1>0, <2>1, <2>4, <2>6, <2>8, <2>9 DEF DriverInv
  <2> QED BY <2>5, <2>10 DEF IInv
<1>7. CASE drivers_done
  <2>1. /\ pc = "drivers" /\ pc' = "done" /\ d > Len(pci_devices)
        /\ UNCHANGED <<machine, probeVars, mapped, pci_devices, d, command, ghc>>
    BY <1>7 DEF drivers_done
  <2>2. ProbeInv'
    BY <1>0, <2>1, DriversKeepProbe
  <2>3. Controllers' = Controllers /\ \A k : DevAt(k)' = DevAt(k)
    BY <2>1, SameFunctions
  <2>4. \A k \in 1 .. d - 1 : Started(k)'
    BY <1>0, <2>1, <2>3 DEF DriverInv, Started
  <2>5. \A bar5 \in Controllers : "HR" \notin ghc[bar5]
    BY <1>0, <2>1 DEF DriverInv
  <2>6. DriverInv'
    BY <1>0, <2>1, <2>3, <2>4, <2>5 DEF DriverInv
  <2> QED BY <2>2, <2>6 DEF IInv
<1>8. ASSUME NEW bar5 \in DOMAIN ghc, hba_resets(bar5) PROVE IInv'
  <2>1. /\ "HR" \in ghc[bar5] /\ ghc' = [ghc EXCEPT ![bar5] = {}]
        /\ UNCHANGED <<machine, pc, probeVars, mapped, pci_devices, d, command>>
    BY <1>8 DEF hba_resets
  <2>2. pc = "wait" /\ bar5 = Header.bar5 /\ bar5 \in Controllers
    BY <1>0, <1>8, <2>1 DEF DriverInv
  <2>3. /\ ghc' \in [Controllers -> SUBSET GhcFlags] /\ ghc'[Header.bar5] = {}
        /\ \A x \in Controllers : x # Header.bar5 => ghc'[x] = ghc[x]
    BY <1>0, <2>1, <2>2
  <2>4. ProbeInv'
    BY <1>0, <2>1, <2>2, <2>3, DriversKeepProbe
  <2>5. /\ Controllers' = Controllers /\ (\A k : DevAt(k)' = DevAt(k))
        /\ Header' = Header /\ DeviceAt' = DeviceAt
    BY <2>1, SameFunctions
  <2>6. \A k \in 1 .. d - 1 : Started(k)'
    <3> TAKE k \in 1 .. d - 1
    <3>1. Started(k) /\ k \in 1 .. Len(pci_devices)
      BY <1>0 DEF DriverInv
    <3>2. DevAt(k) \in DOMAIN machine.space
      BY <1>0, <3>1, DevAtOf
    <3>3. IsAhci(machine.space[DevAt(k)]) => machine.space[DevAt(k)].bar5 \in Controllers
      BY <3>2, ControllerOf
    <3> QED BY <2>1, <2>2, <2>3, <2>5, <3>1, <3>3 DEF Started
  <2>7. \A x \in Controllers : "HR" \notin ghc'[x]
    BY <1>0, <2>1, <2>3 DEF DriverInv
  <2>8. d <= Len(pci_devices) /\ IsAhci(Header) /\ command[DeviceAt] = AhciCommand
    BY <1>0, <2>2 DEF DriverInv
  <2>9. DriverInv'
    BY <1>0, <2>1, <2>2, <2>3, <2>5, <2>6, <2>7, <2>8 DEF DriverInv
  <2> QED BY <2>4, <2>9 DEF IInv
<1> QED BY <1>2, <1>3, <1>4, <1>5, <1>6, <1>7, <1>8

LEMMA InitEstablishes == Init => IInv
<1> SUFFICES ASSUME Init PROVE IInv
  OBVIOUS
<1>1. /\ machine \in Machines /\ pc = "probe" /\ i = 0 /\ bus = 0 /\ stack = << >> /\ mapped = {}
      /\ pci_devices = << >> /\ d = 1
      /\ command = [at \in DOMAIN machine.space |-> {"IO_SPACE", "INT_DISABLE"}]
  BY DEF Init
<1>2. PICK left \in {{}, {"AE", "IE"}} : ghc = [bar5 \in Controllers |-> left]
  BY DEF Init
<1>3. /\ ghc \in [Controllers -> SUBSET GhcFlags] /\ DOMAIN ghc = Controllers
      /\ \A bar5 \in Controllers : "HR" \notin ghc[bar5]
  BY <1>2 DEF GhcFlags
<1>4. command \in [DOMAIN machine.space -> SUBSET CommandFlags]
  BY <1>1 DEF CommandFlags
<1>5. machine.groups \in Seq([base : Nat, start_bus : 0 .. BUSES - 1, end_bus : 0 .. BUSES - 1])
  BY <1>1, NumberingAssumption
<1>6. Len(machine.groups) \in Nat
  BY <1>5
<1>7. TypeOK
  BY <1>1, <1>3, <1>6, SizesAssumption DEF TypeOK, GhcFlags
<1>8. stack \in Seq(Frames) /\ Len(stack) = 0 /\ pci_devices \in Seq(Listed)
  BY <1>1
<1>9. StackOK(stack)
  BY <1>1, <1>8 DEF StackOK
<1>10. MapsOnlyDevices
  BY <1>1 DEF MapsOnlyDevices
<1>11. ProbeInv
  BY <1>1, <1>3, <1>7, <1>8, <1>9, <1>10 DEF ProbeInv
<1>12. DriverInv
  BY <1>1, <1>3, <1>4 DEF DriverInv
<1> QED BY <1>11, <1>12 DEF IInv

LEMMA StepPreserves == IInv /\ [Next]_vars => IInv'
<1> SUFFICES ASSUME IInv, [Next]_vars PROVE IInv'
  OBVIOUS
<1>1. CASE Kernel
  BY <1>1, ProbePreserves, DriversPreserve DEF Kernel
<1>2. CASE \E bar5 \in DOMAIN ghc : hba_resets(bar5)
  BY <1>2, DriversPreserve
<1>3. CASE UNCHANGED vars
  <2>1. UNCHANGED <<machine, pc, i, bus, stack, probeVars, mapped, pci_devices, d, command, ghc>>
    BY <1>3 DEF vars, probeVars
  <2>2. /\ pc \in {"probe", "drivers", "reset", "wait", "done", "panic"}
        /\ d \in 1 .. Len(pci_devices) + 1 /\ ghc \in [Controllers -> SUBSET GhcFlags]
    BY DEF IInv, ProbeInv, DriverInv, TypeOK
  <2>3. ProbeInv'
    BY <2>1, <2>2, DriversKeepProbe
  <2>4. /\ Controllers' = Controllers /\ (\A k : DevAt(k)' = DevAt(k))
        /\ Header' = Header /\ DeviceAt' = DeviceAt
    BY <2>1, SameFunctions
  <2>5. \A k \in 1 .. d - 1 : Started(k)'
    BY <2>1, <2>4 DEF IInv, DriverInv, Started
  <2>6. DriverInv'
    BY <2>1, <2>4, <2>5 DEF IInv, DriverInv
  <2> QED BY <2>3, <2>6 DEF IInv
<1> QED BY <1>1, <1>2, <1>3 DEF Next

LEMMA Invariance == Spec => []IInv
BY InitEstablishes, StepPreserves, PTL DEF Spec

LEMMA NestingFollows == IInv => NestingBounded
<1> SUFFICES ASSUME IInv, stack # << >>
             PROVE  /\ Len(stack) <= Group.end_bus - Group.start_bus + 1
                    /\ \A j, k \in DOMAIN stack : j < k => stack[j].bus < stack[k].bus
  BY DEF NestingBounded
<1>1. machine \in Machines /\ StackOK(stack)
  BY DEF IInv, ProbeInv
<1>2. /\ stack \in Seq(Frames) /\ Len(stack) \in 1 .. Len(stack) /\ Len(stack) \in Nat
      /\ i \in 1 .. Len(machine.groups) /\ DOMAIN stack = 1 .. Len(stack)
  BY <1>1 DEF StackOK
<1>3. PICK start \in Nat, end \in Nat : start = Group.start_bus /\ end = Group.end_bus
  BY <1>1, <1>2, GroupNow
<1>4. stack[Len(stack)] \in Frames
  BY <1>2
<1>5. PICK top \in Nat : top = stack[Len(stack)].bus
  BY <1>4, SizesAssumption DEF Frames
<1>6. start + Len(stack) - 1 <= top /\ top <= end
  BY <1>1, <1>2, <1>3, <1>5 DEF StackOK
<1>7. Len(stack) <= end - start + 1
  BY <1>2, <1>6
<1> QED BY <1>1, <1>2, <1>3, <1>7 DEF StackOK

LEMMA EnabledFollows == IInv => ControllersEnabled
<1> SUFFICES ASSUME IInv, pc = "done", NEW k \in DOMAIN pci_devices, IsAhci(machine.space[DevAt(k)])
             PROVE  /\ ghc[machine.space[DevAt(k)].bar5] = {"AE", "IE"}
                    /\ command[DevAt(k)] = {"MEM_SPACE", "BUS_MASTER"}
  BY DEF ControllersEnabled, DevAt
<1>1. k \in 1 .. d - 1
  <2>1. d > Len(pci_devices) /\ d \in 1 .. Len(pci_devices) + 1 /\ pci_devices \in Seq(Listed)
    BY DEF IInv, ProbeInv, DriverInv, TypeOK
  <2>2. k \in 1 .. Len(pci_devices) /\ Len(pci_devices) \in Nat
    BY <2>1
  <2> QED BY <2>1, <2>2
<1>2. Started(k)
  BY <1>1 DEF IInv, DriverInv
<1>3. AhciCommand = {"MEM_SPACE", "BUS_MASTER"}
  BY DEF AhciCommand, pci_set_command_flag, pci_clear_command_flag
<1> QED BY <1>2, <1>3 DEF Started

-----------------------------------------------------------------------------
\* Theorems

\* Every variable has its type: the bus counter does not leave its 8 bits, no
\* frame is past its last slot or function, GHC holds the three flags only.
THEOREM TypeCorrect == Spec => []TypeOK
<1>1. IInv => TypeOK
  BY DEF IInv, ProbeInv
<1> QED BY <1>1, Invariance, PTL

\* On every machine whose bridges lead upward, pcie_probe_bus is never nested
\* deeper than the group has buses, and each nested call is on a higher bus.
THEOREM RecursionBounded == Spec => []NestingBounded
BY Invariance, NestingFollows, PTL

\* Every page the probe and the drivers identity map is one of a segment
\* group's window or of a controller's registers.
THEOREM MapsDevicesOnly == Spec => []MapsOnlyDevices
<1>1. IInv => MapsOnlyDevices
  BY DEF IInv, ProbeInv
<1> QED BY <1>1, Invariance, PTL

\* When the drivers are done every AHCI controller listed is enabled, however
\* often it was listed, and whenever the controllers complete their resets.
THEOREM AllEnabled == Spec => []ControllersEnabled
BY Invariance, EnabledFollows, PTL
=============================================================================
