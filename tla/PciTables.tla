------------------------------ MODULE PciTables ------------------------------
(***************************************************************************)
(* The descriptors of a PCI function (src/pci/pci_tables.c): what its      *)
(* vendor, class, subclass and programming interface are called.           *)
(*                                                                         *)
(* A string is named by the row that holds it, <<table, row>>, so that two *)
(* rows are never taken for each other; a row is <<subclass, prog_if>>.    *)
(***************************************************************************)
EXTENDS Integers, SequencesExt

\* The "catch all" of a row
ANY == -1

\* The row that signifies the end of a table
END == 255

\* Subclasses in sequence that have a catch all row alone
Plain(subclasses) == [k \in DOMAIN subclasses |-> <<subclasses[k], ANY>>]

\* Mutant: the catch all before the rows it should yield to.
Detailed_CatchAllFirst(subclass, prog_ifs) ==
  << <<subclass, ANY>> >> \o [k \in DOMAIN prog_ifs |-> <<subclass, prog_ifs[k]>>]

\* A subclass with rows of its own for some interfaces, then its catch all
Detailed(subclass, prog_ifs) ==
  [k \in DOMAIN prog_ifs |-> <<subclass, prog_ifs[k]>>] \o << <<subclass, ANY>> >>

pci_mass_storage_descriptors ==
  Plain(<<0>>) \o Detailed(1, <<0, 5, 10, 15, 128, 133, 138, 143>>) \o Plain(<<2, 3, 4>>)
  \o Detailed(5, <<32, 48>>) \o Detailed(6, <<0, 1, 2>>) \o Detailed(7, <<0, 1>>)
  \o Detailed(8, <<1, 2>>) \o Plain(<<128, END>>)

pci_network_cont_descriptors == Plain(<<0, 1, 2, 3, 4, 5, 6, 7, 8, 128, END>>)

pci_display_cont_descriptors == Detailed(0, <<0, 1>>) \o Plain(<<1, 2, 128, END>>)

pci_bridge_descriptors ==
  Plain(<<0, 1, 2, 3>>) \o Detailed(4, <<0, 1>>) \o Plain(<<5, 6, 7>>)
  \o Detailed(8, <<0, 1>>) \o Detailed(9, <<64, 128>>) \o Plain(<<10, 128, END>>)

pci_serial_bus_cont_descriptors ==
  Detailed(0, <<0, 16>>) \o Plain(<<1, 2>>) \o Detailed(3, <<0, 16, 32, 48, 128, 254>>)
  \o Plain(<<4, 5, 6>>) \o Detailed(7, <<0, 1, 2>>) \o Plain(<<8, 9, 128, END>>)

\* The table of a class, where it has one
SubclassTable ==
  [class_ \in {1, 2, 3, 6, 12} |->
     CASE class_ = 1  -> pci_mass_storage_descriptors
       [] class_ = 2  -> pci_network_cont_descriptors
       [] class_ = 3  -> pci_display_cont_descriptors
       [] class_ = 6  -> pci_bridge_descriptors
       [] class_ = 12 -> pci_serial_bus_cont_descriptors]

-----------------------------------------------------------------------------
\* The first row that matches, up to the row that ends the table
pci_get_subclass_descriptor(class_, subclass, prog_if) ==
  LET rows == SubclassTable[class_]
      row  == SelectInSeq(rows, LAMBDA kv : kv[1] = END \/ (kv[1] = subclass /\ kv[2] \in {prog_if, ANY}))
  IN  IF rows[row][1] = END THEN "Unknown" ELSE <<class_, row>>

pci_vendor_descriptors == << 32902, 65535 >>

VendorDescriptor(vendor) ==
  IF vendor \in ToSet(pci_vendor_descriptors) THEN <<"vendor", vendor>> ELSE "Unknown"

\* The array has 20 strings; what lies behind it is not one.
pci_class_descriptors(class_) == IF class_ \in 0 .. 19 THEN <<"class", class_>> ELSE "not a string"

ReservedClass(class_) == class_ \in (20 .. 63) \cup (65 .. 254)

ClassDescriptor(class_) ==
  CASE ReservedClass(class_) -> "Reserved"
    [] class_ = 64 -> "Co-Processor"
    [] class_ = 255 -> "Unknown"
    [] OTHER -> pci_class_descriptors(class_)

pci_get_descriptors(hdr) ==
  [vendor   |-> VendorDescriptor(hdr.vendor),
   class    |-> ClassDescriptor(hdr.class_),
   subclass |-> IF hdr.class_ \in DOMAIN SubclassTable
                THEN pci_get_subclass_descriptor(hdr.class_, hdr.subclass, hdr.prog_if)
                ELSE IF hdr.class_ = 255 THEN "Unassigned Class" ELSE "Unknown"]
=============================================================================
