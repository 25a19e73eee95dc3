-------------------------------- MODULE Acpi ---------------------------------
(***************************************************************************)
(* The parsing of the firmware's ACPI tables at boot (src/acpi/acpi.c,     *)
(* madt.c, mcfg.c) up to their first use by lapic_init (src/int/lapic.c).  *)
(* One thread runs it from start to end; a step is one function, one table *)
(* of the RSDT, or one entry of the MADT or the MCFG.                      *)
(*                                                                         *)
(* A vector (src/inc/vector.c) is a sequence; the heap below it is module  *)
(* Heap. The XSDT half of acpi.c does not occur: acpi_is_xsdt is never     *)
(* assigned (acpi.c:16), so no call reaches it.                            *)
(***************************************************************************)
EXTENDS Integers, FiniteSets, SequencesExt

CONSTANTS
  Firmwares,        \* the firmware tables a machine may have, see below
  StraySignatures,  \* signatures that the bytes past handlers[] may read as
  NULL

VARIABLES
  fw,                   \* the firmware
  stray,                \* what handlers[2 ..] reads as (acpi.c:143)
  pc,                   \* where the boot is
  rsdp_v1, rsdp_v2,     \* NULL or the RSDP
  rsdt,                 \* NULL or the tables the RSDT lists
  t,                    \* the loop over them: the next one
  acpi_parsed_tables,   \* NULL or a vector of signatures
  hdr, i,               \* the MADT, and the loop over its bytes
  local_apic_addr,
  vectors,              \* lapics, ioapics, overrides, ioapic nmis, lapic nmis:
                        \* by entry type, NULL or a vector of copied entries
  mcfg,                 \* NULL or the MCFG table
  mcfg_segment_groups,  \* NULL or a vector of copied segment groups
  g,                    \* the loop over the MCFG's groups: the next one
  lapic_base_addr       \* NULL, or what lapic_init mapped

rootVars == <<rsdp_v1, rsdp_v2, rsdt>>
madtVars == <<hdr, i, local_apic_addr, vectors>>
mcfgVars == <<mcfg, mcfg_segment_groups, g>>
vars == <<fw, stray, pc, t, acpi_parsed_tables, lapic_base_addr, rootVars, madtVars, mcfgVars>>

\* A firmware is [revision, rsdp_valid, rsdp_v2_valid, rsdt_valid, tables].
\* "valid" is a matching signature and a checksum of 0. A table is
\* [signature, valid, address, entries, starts, groups]: the last four are the
\* fields of a MADT (address, entries, starts) and of an MCFG (groups).

-----------------------------------------------------------------------------
\* The bytes of a MADT after its address field: entries end to end. starts has
\* the offset at which each of them begins and then that of the table's end.

OffsetOf(table, k) == table.starts[k]

EntriesLength(table) == OffsetOf(table, Len(table.entries) + 1)

\* What an entry header read inside of an entry looks like
NotAnEntry == [type |-> 255, length |-> 1, value |-> NULL]

EntryAt(table, offset) ==
  LET hits == {k \in DOMAIN table.entries : OffsetOf(table, k) = offset}
  IN  IF hits = {} THEN NotAnEntry ELSE table.entries[CHOOSE k \in hits : TRUE]

-----------------------------------------------------------------------------
\* Tables and vectors

vector_init == << >>

vector_add(v, item) == Append(v, item)

\* The first table with the signature, or NULL
acpi_get_table(signature) ==
  LET k == SelectInSeq(rsdt, LAMBDA table : table.signature = signature)
  IN  IF k = 0 THEN NULL ELSE rsdt[k]

acpi_is_valid_sdt_checksum(table) == table.valid

acpi_has_parsed(signature) ==
  acpi_parsed_tables # NULL /\ signature \in ToSet(acpi_parsed_tables)

\* Mutant: the MADT has no handler.
handlers_NoMadt == {"MCFG"}

handlers == {"APIC", "MCFG"}

-----------------------------------------------------------------------------
Init ==
  /\ fw \in Firmwares
  /\ stray \in SUBSET StraySignatures
  /\ pc = "rsdp"
  /\ rsdp_v1 = NULL /\ rsdp_v2 = NULL /\ rsdt = NULL
  /\ t = 1
  /\ acpi_parsed_tables = NULL
  /\ hdr = NULL /\ i = 0 /\ local_apic_addr = 0
  /\ vectors = [type \in 0 .. 4 |-> NULL]
  /\ mcfg = NULL /\ mcfg_segment_groups = NULL /\ g = 1
  /\ lapic_base_addr = NULL

RsdpValid == fw.rsdp_valid /\ (fw.revision = 2 => fw.rsdp_v2_valid)

\* faults_assert: a message, and the machine hangs.
faults_panic ==
  /\ \/ pc = "rsdp" /\ ~RsdpValid
     \/ pc = "rsdt" /\ rsdp_v1 # NULL /\ ~fw.rsdt_valid
  /\ pc' = "panic"
  /\ UNCHANGED <<fw, stray, t, acpi_parsed_tables, lapic_base_addr, rootVars, madtVars, mcfgVars>>

\* A revision that is neither 0 nor 2 leaves both pointers NULL.
acpi_parse_rsdp ==
  /\ pc = "rsdp" /\ RsdpValid
  /\ rsdp_v1' = IF fw.revision = 0 THEN "RSDP" ELSE rsdp_v1
  /\ rsdp_v2' = IF fw.revision = 2 THEN "RSDP" ELSE rsdp_v2
  /\ acpi_parsed_tables' = vector_init
  /\ pc' = "rsdt"
  /\ UNCHANGED <<fw, stray, t, rsdt, lapic_base_addr, madtVars, mcfgVars>>

acpi_parse_rsdt ==
  /\ pc = "rsdt" /\ rsdp_v1 # NULL /\ fw.rsdt_valid
  /\ rsdt' = fw.tables
  /\ pc' = "tables"
  /\ UNCHANGED <<fw, stray, t, acpi_parsed_tables, rsdp_v1, rsdp_v2, lapic_base_addr,
                 madtVars, mcfgVars>>

\* A read through NULL, or a call through bytes that are no handler: the boot
\* ends there, with no handler for the fault until int_init and after it with
\* one that hangs.
PageFault ==
  /\ \/ pc = "rsdt" /\ rsdp_v1 = NULL
     \/ pc = "tables" /\ t <= Len(rsdt) /\ rsdt[t].signature \in stray
     \/ pc = "lapic" /\ vectors[0] = NULL
  /\ pc' = "fault"
  /\ UNCHANGED <<fw, stray, t, acpi_parsed_tables, lapic_base_addr, rootVars, madtVars, mcfgVars>>

\* A table without a handler
SkipTable ==
  /\ pc = "tables" /\ t <= Len(rsdt)
  /\ rsdt[t].signature \notin handlers \cup stray
  /\ t' = t + 1
  /\ UNCHANGED <<fw, stray, pc, acpi_parsed_tables, lapic_base_addr, rootVars, madtVars, mcfgVars>>

Calls(signature) ==
  /\ pc = "tables" /\ t <= Len(rsdt)
  /\ rsdt[t].signature = signature /\ signature \in handlers

\* Mutant: vectors that exist are used again.
FreshVectors_Once == [type \in 0 .. 4 |-> IF vectors[type] = NULL THEN vector_init ELSE vectors[type]]

FreshVectors == [type \in 0 .. 4 |-> vector_init]

\* The handler parses the table acpi_get_table finds, whichever called for it.
acpi_parse_madt ==
  /\ Calls("APIC")
  /\ hdr' = acpi_get_table("APIC")
  /\ IF acpi_is_valid_sdt_checksum(hdr')
     THEN /\ vectors' = FreshVectors
          /\ local_apic_addr' = hdr'.address
          /\ i' = 0
          /\ pc' = "madt"
          /\ UNCHANGED t
     ELSE /\ t' = t + 1
          /\ UNCHANGED <<pc, i, local_apic_addr, vectors>>
  /\ UNCHANGED <<fw, stray, acpi_parsed_tables, lapic_base_addr, rootVars, mcfgVars>>

\* Mutant: the x2APIC entries, which are ignored, are not passed over.
Advance_NotX2apic(e) == IF e.type \in {9, 10} THEN i ELSE i + e.length

\* Mutant: the length is taken not to include the entry's header.
Advance_ExcludesInfo(e) == i + e.length + 2

Advance(e) == i + e.length

KnownTypes == (0 .. 5) \cup {9, 10}

\* An entry of a known type; the x2APIC types 9 and 10 are ignored.
MadtEntry ==
  LET e == EntryAt(hdr, i)
  IN  /\ pc = "madt" /\ i < EntriesLength(hdr)
      /\ e.type \in KnownTypes
      /\ vectors' = IF e.type \in 0 .. 4
                    THEN [vectors EXCEPT ![e.type] = vector_add(@, e.value)] ELSE vectors
      /\ local_apic_addr' = IF e.type = 5 THEN e.value ELSE local_apic_addr
      /\ i' = Advance(e)
      /\ UNCHANGED <<fw, stray, pc, t, acpi_parsed_tables, lapic_base_addr, hdr, rootVars, mcfgVars>>

\* An entry of another type: the parse fails and keeps what it has.
MadtFails ==
  /\ pc = "madt" /\ i < EntriesLength(hdr)
  /\ EntryAt(hdr, i).type \notin KnownTypes
  /\ pc' = "tables"
  /\ t' = t + 1
  /\ UNCHANGED <<fw, stray, acpi_parsed_tables, lapic_base_addr, rootVars, madtVars, mcfgVars>>

MadtDone ==
  /\ pc = "madt" /\ i >= EntriesLength(hdr)
  /\ acpi_parsed_tables' = vector_add(acpi_parsed_tables, "APIC")
  /\ pc' = "tables"
  /\ t' = t + 1
  /\ UNCHANGED <<fw, stray, lapic_base_addr, rootVars, madtVars, mcfgVars>>

acpi_parse_mcfg ==
  /\ Calls("MCFG")
  /\ mcfg' = acpi_get_table("MCFG")
  /\ IF acpi_is_valid_sdt_checksum(mcfg')
     THEN /\ mcfg_segment_groups' = vector_init
          /\ g' = 1
          /\ pc' = "mcfg"
          /\ UNCHANGED t
     ELSE /\ t' = t + 1
          /\ UNCHANGED <<pc, mcfg_segment_groups, g>>
  /\ UNCHANGED <<fw, stray, acpi_parsed_tables, lapic_base_addr, rootVars, madtVars>>

McfgGroup ==
  /\ pc = "mcfg" /\ g <= Len(mcfg.groups)
  /\ mcfg_segment_groups' = vector_add(mcfg_segment_groups, mcfg.groups[g])
  /\ g' = g + 1
  /\ UNCHANGED <<fw, stray, pc, t, acpi_parsed_tables, lapic_base_addr, mcfg, rootVars, madtVars>>

McfgDone ==
  /\ pc = "mcfg" /\ g > Len(mcfg.groups)
  /\ acpi_parsed_tables' = vector_add(acpi_parsed_tables, "MCFG")
  /\ pc' = "tables"
  /\ t' = t + 1
  /\ UNCHANGED <<fw, stray, lapic_base_addr, rootVars, madtVars, mcfgVars>>

\* acpi_init returns and int_init runs.
TablesDone ==
  /\ pc = "tables" /\ t > Len(rsdt)
  /\ pc' = "lapic"
  /\ UNCHANGED <<fw, stray, t, acpi_parsed_tables, lapic_base_addr, rootVars, madtVars, mcfgVars>>

\* It reads the vector whatever came of the MADT, and maps the address.
lapic_init ==
  /\ pc = "lapic" /\ vectors[0] # NULL
  /\ lapic_base_addr' = local_apic_addr
  /\ pc' = "booted"
  /\ UNCHANGED <<fw, stray, t, acpi_parsed_tables, rootVars, madtVars, mcfgVars>>

Next ==
  \/ faults_panic \/ PageFault
  \/ acpi_parse_rsdp \/ acpi_parse_rsdt
  \/ SkipTable \/ TablesDone
  \/ acpi_parse_madt \/ MadtEntry \/ MadtFails \/ MadtDone
  \/ acpi_parse_mcfg \/ McfgGroup \/ McfgDone
  \/ lapic_init

\* One thread, no interrupt takes it away: it goes on as long as it can.
Spec == Init /\ [][Next]_vars /\ WF_vars(Next)

-----------------------------------------------------------------------------
\* Properties

\* Where the RSDT lists a signature, and the first such table: the one
\* acpi_get_table is for.
Places(signature) == {k \in DOMAIN fw.tables : fw.tables[k].signature = signature}

First(signature) ==
  fw.tables[CHOOSE k \in Places(signature) : \A n \in Places(signature) : k <= n]

Entries == First("APIC").entries

\* How many of the first n entries have this type
Rank(type, n) == Cardinality({k \in 1 .. n : Entries[k].type = type})

\* The vectors hold copies of the first n entries, each where its rank says.
Holds(n) ==
  \A type \in 0 .. 4 :
    /\ Len(vectors[type]) = Rank(type, n)
    /\ \A k \in 1 .. n : Entries[k].type = type => vectors[type][Rank(type, k)] = Entries[k].value

\* The address after the first n entries: the last override's, or the table's
AddressAfter(n) ==
  LET overrides == {k \in 1 .. n : Entries[k].type = 5}
  IN  IF overrides = {} THEN First("APIC").address
      ELSE Entries[CHOOSE k \in overrides : \A m \in overrides : m <= k].value

\* Every variable has its type; the walk over the MADT stops at its end.
TypeOK ==
  /\ pc \in {"rsdp", "rsdt", "tables", "madt", "mcfg", "lapic", "booted", "panic", "fault"}
  /\ rsdt \in {NULL, fw.tables}
  /\ t \in 1 .. Len(fw.tables) + 1
  /\ acpi_parsed_tables # NULL => ToSet(acpi_parsed_tables) \subseteq {"APIC", "MCFG"}
  /\ hdr # NULL => i \in 0 .. EntriesLength(hdr)
  /\ lapic_base_addr \in {NULL, local_apic_addr}

MadtAsListed ==
  vectors[0] # NULL =>
    \E n \in 0 .. Len(Entries) :
      /\ Holds(n) /\ local_apic_addr = AddressAfter(n)
      /\ acpi_has_parsed("APIC") /\ pc # "madt" => n = Len(Entries)

McfgAsListed ==
  acpi_has_parsed("MCFG") =>
    /\ mcfg = First("MCFG") /\ mcfg.valid
    /\ pc # "mcfg" => mcfg_segment_groups = mcfg.groups

\* The copies the kernel keeps of the MADT are the first entries of the
\* firmware's first MADT, the same ones in every vector, in its order and none
\* twice even if the RSDT lists the table twice, and the local APIC is at the
\* address of the last override among them (madt.c:97); once acpi_has_parsed
\* says so, and no new parse is under way, they are all of its entries.
\* What pcie_probe relies on (pcie.c:10-15): when acpi_has_parsed("MCFG") holds
\* the header is that of a table with a valid checksum, and the segment groups
\* are the table's.
TablesAsListed == MadtAsListed /\ McfgAsListed

\* The machine hangs in a fault for no other reason than these: an RSDP whose
\* revision is not 0, no MADT with a valid checksum, or stray bytes after the
\* handlers. (An MADT with an entry of an unknown type is not among them.)
FaultsExplained ==
  pc = "fault" =>
    \/ fw.revision # 0
    \/ Places("APIC") = {}
    \/ ~First("APIC").valid
    \/ \E k \in DOMAIN fw.tables : fw.tables[k].signature \in stray

\* The boot gets to the end of lapic_init or hangs with a message: the walk
\* over the MADT ends (madt.c:46).
BootEnds == <>(pc \in {"booted", "panic", "fault"})

\* The length of an entry includes its header of two bytes (madt.h:22), so
\* that the walk moves on. A firmware with a shorter one is not covered, nor
\* are stray bytes that read as the signature of a table with a handler.
TableOK(table) ==
  /\ table # NULL
  /\ table.groups \in Seq(ToSet(table.groups))
  /\ table.entries \in Seq(ToSet(table.entries))
  /\ NULL \notin Seq({e.value : e \in ToSet(table.entries)})
  /\ \A e \in ToSet(table.entries) : e.length \in Nat /\ e.length >= 2
  /\ table.starts[1] = 0
  /\ \A n \in DOMAIN table.entries :
       table.starts[n + 1] = table.starts[n] + table.entries[n].length

ASSUME FirmwareAssumption ==
  /\ StraySignatures \cap handlers = {}
  /\ NULL # "RSDP" /\ NULL \notin Seq(handlers)
  /\ \A f \in Firmwares :
       f.tables \in Seq(ToSet(f.tables)) /\ \A table \in ToSet(f.tables) : TableOK(table)
=============================================================================
