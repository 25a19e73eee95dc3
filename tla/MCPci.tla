-------------------------------- MODULE MCPci --------------------------------
(***************************************************************************)
(* TLC instance of Pci: two slots of two functions on each of five buses.  *)
(* A first family of machines has every wiring of up to four bridges among *)
(* the buses, with disks on them. A second has two segment groups, of      *)
(* which one starts at bus 2 and ends with the highest bus number there    *)
(* is. A third has one function, of every kind with its own descriptor.    *)
(***************************************************************************)
EXTENDS Pci

Hdr(type, secondary, class_, subclass, prog_if, bar5, boh) ==
  [vendor |-> 32902, device_id |-> 7, hdr_type |-> type, secondary_bus_num |-> secondary,
   class_ |-> class_, subclass |-> subclass, prog_if |-> prog_if, bar5 |-> bar5, boh |-> boh]

Bridge(secondary) == Hdr(1, secondary, 6, 4, 0, 0, FALSE)
BridgeMulti(secondary) == Hdr(129, secondary, 6, 4, 0, 0, FALSE)
Ahci(bar5) == Hdr(0, 0, 1, 6, 1, bar5, FALSE)
Nvme == Hdr(128, 0, 1, 8, 2, 0, FALSE)
Hidden == [Nvme EXCEPT !.device_id = 0]
Empty == NoFunction

Low(end_bus) == [base |-> 100, start_bus |-> 0, end_bus |-> end_bus]
High == [base |-> 200, start_bus |-> 2, end_bus |-> 4]

\* A function for each place, some of them empty
Present(f) == [at \in {x \in DOMAIN f : f[x] # Empty} |-> f[at]]

Wired(groups, a, b, c, e, f) ==
  [parsed |-> TRUE, groups |-> groups,
   space |-> Present([at \in {<<1, 0, 0, 0>>, <<1, 0, 1, 1>>, <<1, 1, 0, 1>>, <<1, 2, 1, 0>>, <<1, 3, 0, 0>>} |->
                        CASE at[2] = 0 -> (IF at[3] = 0 THEN a ELSE b)
                          [] at[2] = 1 -> c
                          [] at[2] = 2 -> e
                          [] at[2] = 3 -> f])]

Wirings ==
  {Wired(<<Low(3)>>, a, b, c, e, f) :
     a \in {Empty, Ahci(301), BridgeMulti(1), Bridge(2), Bridge(3)}, b \in {Nvme, Bridge(1), Bridge(3)},
     c \in {Empty, Ahci(302), BridgeMulti(2), Bridge(3)}, e \in {Hidden, Ahci(303), Bridge(3)},
     f \in {Empty, Ahci(304)}}

\* A second group, where the same bus numbers are other buses
Pairs ==
  {[parsed |-> p, groups |-> <<Low(end_bus), High>>,
    space |-> Present([at \in {<<1, 0, 0, 0>>, <<2, 2, 0, 0>>, <<2, 3, 0, 0>>, <<2, 4, 1, 1>>} |->
                         CASE at[1] = 1 -> a
                           [] at[2] = 2 -> c
                           [] at[2] = 3 -> Ahci(305)
                           [] at[2] = 4 -> [Ahci(306) EXCEPT !.boh = boh]])] :
     p \in BOOLEAN, end_bus \in {0, 1}, a \in {Empty, Ahci(301)},
     c \in {Empty, Bridge(3), BridgeMulti(4)}, boh \in BOOLEAN}

\* One function of each kind
Kinds ==
  {<<class_, 0, 0>> : class_ \in {0, 19, 20, 62, 63, 64, 65, 254, 255}}
  \cup UNION {{<<class_, kv[1], IF kv[2] = ANY THEN 77 ELSE kv[2]>> : kv \in ToSet(SubclassTable[class_])} :
                class_ \in DOMAIN SubclassTable}
  \cup {<<class_, 200, 0>> : class_ \in DOMAIN SubclassTable}

Alone ==
  {[parsed |-> TRUE, groups |-> <<Low(1)>>,
    space |-> [at \in {<<1, 0, 0, 0>>} |-> [Hdr(0, 0, k[1], k[2], k[3], 301, FALSE) EXCEPT !.vendor = v]]] :
     k \in Kinds, v \in {32902, 4660}}

MCMachines == Wirings \cup Pairs \cup Alone
=============================================================================
