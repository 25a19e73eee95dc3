----------------------------- MODULE AcpiProofs ------------------------------
(***************************************************************************)
(* Proofs about the parsing of the ACPI tables, for every firmware: every  *)
(* list of tables in its RSDT, every list of entries in its MADT and every *)
(* list of segment groups in its MCFG.                                     *)
(***************************************************************************)
EXTENDS Acpi, FiniteSetTheorems, WellFoundedInduction, NaturalsInduction, TLAPS

-----------------------------------------------------------------------------
\* Induction over a list is by the first place where a claim fails.

LEMMA FirstOne ==
  ASSUME NEW T \in SUBSET Nat, T # {}
  PROVE  \E x \in T : \A y \in T : x <= y
<1> DEFINE R == {pair \in Nat \X Nat : pair[1] < pair[2]}
<1>1. IsWellFoundedOn(R, Nat)
  <2>1. OpToRel(<, Nat) = R
    BY Zenon DEF OpToRel
  <2> QED BY <2>1, NatLessThanWellFounded, Zenon
<1>2. PICK x \in T : \A y \in T : <<y, x>> \notin R
  <2> HIDE DEF R
  <2> QED BY <1>1, WFMin
<1>3. ASSUME NEW y \in T PROVE x <= y
  <2>1. <<y, x>> \in Nat \X Nat
    OBVIOUS
  <2> QED BY <1>2, <2>1
<1> QED BY <1>3

\* The entries of a MADT begin at increasing offsets.
LEMMA StartsIncrease ==
  ASSUME NEW table, TableOK(table)
  PROVE  /\ Len(table.entries) \in Nat
         /\ DOMAIN table.entries = 1 .. Len(table.entries)
         /\ \A n \in 1 .. Len(table.entries) + 1 :
              /\ table.starts[n] \in Nat
              /\ \A m \in 1 .. n - 1 : table.starts[m] < table.starts[n]
<1> DEFINE N == Len(table.entries)
           Good(n) == /\ table.starts[n] \in Nat
                      /\ \A m \in 1 .. n - 1 :
                           table.starts[m] \in Nat /\ table.starts[m] < table.starts[n]
           Bad == {n \in 1 .. N + 1 : ~Good(n)}
<1>1. N \in Nat /\ DOMAIN table.entries = 1 .. N
  BY DEF TableOK
<1>2. Good(1)
  BY DEF TableOK
<1>3. ASSUME NEW n \in 1 .. N, Good(n) PROVE Good(n + 1)
  <2>1. PICK l \in Nat : l >= 2 /\ table.starts[n + 1] = table.starts[n] + l
    <3>1. table.entries[n] \in ToSet(table.entries)
      BY <1>1 DEF ToSet
    <3> QED BY <1>1, <3>1 DEF TableOK
  <2>2. table.starts[n + 1] \in Nat /\ table.starts[n] < table.starts[n + 1]
    BY <1>3, <2>1
  <2>3. ASSUME NEW m \in 1 .. (n + 1) - 1
        PROVE  table.starts[m] \in Nat /\ table.starts[m] < table.starts[n + 1]
    <3>1. CASE m = n
      BY <1>3, <2>2, <3>1
    <3>2. CASE m # n
      <4>1. m \in 1 .. n - 1
        BY <1>1, <3>2
      <4>2. table.starts[m] \in Nat /\ table.starts[m] < table.starts[n]
        BY <1>3, <4>1
      <4> QED BY <1>3, <2>1, <4>2
    <3> QED BY <3>1, <3>2
  <2> QED BY <2>2, <2>3
<1>4. ASSUME Bad # {} PROVE FALSE
  <2> HIDE DEF Good
  <2>1. Bad \in SUBSET Nat
    BY <1>1
  <2>2. PICK x \in Bad : \A y \in Bad : x <= y
    <3> HIDE DEF Bad
    <3> QED BY <1>4, <2>1, FirstOne
  <2>3. x \in 1 .. N + 1 /\ ~Good(x)
    OBVIOUS
  <2>4. x # 1
    BY <1>2, <2>3
  <2>5. x - 1 \in 1 .. N /\ (x - 1) + 1 = x /\ ~(x <= x - 1)
    BY <1>1, <2>3, <2>4
  <2>6. Good(x - 1)
    BY <1>1, <2>2, <2>5
  <2> QED BY <1>3, <2>3, <2>5, <2>6
<1> QED BY <1>1, <1>4

\* At the start of an entry, EntryAt is this entry; before the end there is one.
LEMMA EntryIs ==
  ASSUME NEW table, TableOK(table), NEW n \in 0 .. Len(table.entries)
  PROVE  /\ OffsetOf(table, n + 1) \in 0 .. EntriesLength(table)
         /\ OffsetOf(table, n + 1) < EntriesLength(table) <=> n < Len(table.entries)
         /\ n < Len(table.entries) =>
              /\ EntryAt(table, OffsetOf(table, n + 1)) = table.entries[n + 1]
              /\ OffsetOf(table, n + 1) + table.entries[n + 1].length = OffsetOf(table, n + 2)
<1> DEFINE N == Len(table.entries)
<1>1. N \in Nat /\ DOMAIN table.entries = 1 .. N
  BY StartsIncrease
<1>2. ASSUME NEW a \in 1 .. N + 1, NEW b \in 1 .. N + 1, a < b
      PROVE  table.starts[a] < table.starts[b]
  BY <1>1, <1>2, StartsIncrease
<1>3. \A a \in 1 .. N + 1 : table.starts[a] \in Nat
  BY <1>1, StartsIncrease
<1>4. n + 1 \in 1 .. N + 1 /\ N + 1 \in 1 .. N + 1 /\ (n < N \/ n = N)
  BY <1>1
<1>5. n < N => n + 1 < N + 1
  BY <1>1
<1>6. n < N => table.starts[n + 1] < table.starts[N + 1]
  BY <1>2, <1>4, <1>5
<1>7. ASSUME n < N
      PROVE  EntryAt(table, OffsetOf(table, n + 1)) = table.entries[n + 1]
  <2> DEFINE hits == {k \in DOMAIN table.entries : OffsetOf(table, k) = OffsetOf(table, n + 1)}
  <2>1. n + 1 \in hits
    BY <1>1, <1>7
  <2>2. ASSUME NEW k \in hits PROVE k = n + 1
    <3>1. k \in 1 .. N + 1 /\ k \in 1 .. N /\ table.starts[k] = table.starts[n + 1]
      BY <1>1 DEF OffsetOf
    <3>2. k < n + 1 \/ k = n + 1 \/ n + 1 < k
      BY <3>1
    <3>3. table.starts[n + 1] \in Nat
      BY <1>3, <1>4
    <3> QED BY <1>2, <1>4, <3>1, <3>2, <3>3
  <2>3. EntryAt(table, OffsetOf(table, n + 1)) = table.entries[CHOOSE k \in hits : TRUE]
    BY <2>1 DEF EntryAt
  <2> HIDE DEF hits
  <2>4. (CHOOSE k \in hits : TRUE) = n + 1
    BY <2>1, <2>2
  <2> QED BY <2>3, <2>4
<1>8. n < N => OffsetOf(table, n + 1) + table.entries[n + 1].length = OffsetOf(table, n + 2)
  <2>1. n < N => n + 1 \in DOMAIN table.entries /\ (n + 1) + 1 = n + 2
    BY <1>1
  <2> QED BY <2>1 DEF TableOK, OffsetOf
<1>9. EntriesLength(table) = table.starts[N + 1] /\ OffsetOf(table, n + 1) = table.starts[n + 1]
  BY DEF EntriesLength, OffsetOf
<1>10. table.starts[n + 1] \in 0 .. table.starts[N + 1]
       /\ (table.starts[n + 1] < table.starts[N + 1] <=> n < N)
  BY <1>1, <1>3, <1>4, <1>6
<1> QED BY <1>7, <1>8, <1>9, <1>10

-----------------------------------------------------------------------------
\* The first table with a signature

LEMMA FirstIs ==
  ASSUME fw \in Firmwares, NEW signature, Places(signature) # {}
  PROVE  /\ \E k \in Places(signature) : First(signature) = fw.tables[k]
         /\ TableOK(First(signature))
<1>1. Places(signature) \in SUBSET Nat
  BY FirmwareAssumption DEF Places
<1>2. PICK x \in Places(signature) : \A y \in Places(signature) : x <= y
  BY <1>1, FirstOne
<1>3. PICK k \in Places(signature) : First(signature) = fw.tables[k]
  BY <1>2 DEF First
<1>4. First(signature) \in ToSet(fw.tables)
  BY <1>3 DEF Places, ToSet
<1> QED BY <1>3, <1>4, FirmwareAssumption

LEMMA GetTable ==
  ASSUME fw \in Firmwares, rsdt = fw.tables, NEW signature, Places(signature) # {}
  PROVE  acpi_get_table(signature) = First(signature)
<1> DEFINE I == {n \in 1 .. Len(rsdt) : rsdt[n].signature = signature}
<1>1. I = Places(signature)
  BY FirmwareAssumption DEF Places
<1>2. Min(I) # 0
  <2>1. I \in SUBSET (Nat \ {0}) /\ I # {}
    BY <1>1, FirmwareAssumption
  <2> HIDE DEF I
  <2>2. \E x \in I : \A y \in I : x <= y
    BY <2>1, FirstOne
  <2> QED BY <2>1, <2>2 DEF Min
<1>3. acpi_get_table(signature) = rsdt[Min(I)]
  <2>1. SelectInSeq(rsdt, LAMBDA table : table.signature = signature) = IF I # {} THEN Min(I) ELSE 0
    BY DEF SelectInSeq
  <2> QED BY <1>1, <1>2, <2>1 DEF acpi_get_table
<1>4. Min(I) = CHOOSE k \in Places(signature) : \A n \in Places(signature) : k <= n
  BY <1>1 DEF Min
<1> QED BY <1>3, <1>4 DEF First

-----------------------------------------------------------------------------
\* The vectors, entry by entry

Values == {e.value : e \in ToSet(Entries)}

\* What Holds says, of any vectors
HoldsIn(v, n) ==
  \A type \in 0 .. 4 :
    /\ Len(v[type]) = Rank(type, n)
    /\ \A k \in 1 .. n : Entries[k].type = type => v[type][Rank(type, k)] = Entries[k].value

LEMMA RankIs ==
  ASSUME NEW type, NEW n \in Nat
  PROVE  /\ Rank(type, n) \in Nat
         /\ Rank(type, 0) = 0
         /\ Rank(type, n + 1) = IF Entries[n + 1].type = type THEN Rank(type, n) + 1 ELSE Rank(type, n)
         /\ \A k \in 1 .. n : Rank(type, k) <= Rank(type, n)
         /\ \A k \in 1 .. n : Entries[k].type = type => Rank(type, k) \in 1 .. Rank(type, n)
<1> DEFINE Of(m) == {k \in 1 .. m : Entries[k].type = type}
<1>1. \A m \in Nat : IsFiniteSet(Of(m)) /\ Rank(type, m) = Cardinality(Of(m)) /\ Rank(type, m) \in Nat
  <2> TAKE m \in Nat
  <2>1. IsFiniteSet(1 .. m)
    BY FS_Interval
  <2>2. Of(m) \in SUBSET (1 .. m)
    OBVIOUS
  <2>3. IsFiniteSet(Of(m))
    <3> HIDE DEF Of
    <3> QED BY <2>1, <2>2, FS_Subset
  <2>4. Rank(type, m) = Cardinality(Of(m))
    BY DEF Rank
  <2> HIDE DEF Of
  <2> QED BY <2>3, <2>4, FS_CardinalityType
<1>2. Rank(type, 0) = 0
  <2>1. Of(0) = {}
    OBVIOUS
  <2> HIDE DEF Of
  <2> QED BY <1>1, <2>1, FS_EmptySet
<1>3. Rank(type, n + 1) = IF Entries[n + 1].type = type THEN Rank(type, n) + 1 ELSE Rank(type, n)
  <2>1. CASE Entries[n + 1].type = type
    <3>1. Of(n + 1) = Of(n) \cup {n + 1} /\ n + 1 \notin Of(n)
      BY <2>1
    <3> HIDE DEF Of
    <3>2. Cardinality(Of(n) \cup {n + 1}) = Cardinality(Of(n)) + 1
      BY <1>1, <3>1, FS_AddElement
    <3> QED BY <1>1, <2>1, <3>1, <3>2
  <2>2. CASE Entries[n + 1].type # type
    <3>1. Of(n + 1) = Of(n)
      BY <2>2
    <3> HIDE DEF Of
    <3> QED BY <1>1, <2>2, <3>1
  <2> QED BY <2>1, <2>2
<1>4. ASSUME NEW k \in 1 .. n PROVE Rank(type, k) <= Rank(type, n)
  <2>1. Of(k) \in SUBSET Of(n)
    OBVIOUS
  <2> HIDE DEF Of
  <2>2. Cardinality(Of(k)) <= Cardinality(Of(n))
    BY <1>1, <2>1, FS_Subset
  <2> QED BY <1>1, <2>2
<1>5. ASSUME NEW k \in 1 .. n, Entries[k].type = type PROVE Rank(type, k) \in 1 .. Rank(type, n)
  <2>1. k \in Nat /\ Of(k) # {}
    BY <1>5
  <2> HIDE DEF Of
  <2>2. Rank(type, k) # 0
    BY <1>1, <2>1, FS_EmptySet
  <2> QED BY <1>1, <1>4, <2>1, <2>2
<1> QED BY <1>1, <1>2, <1>3, <1>4, <1>5

LEMMA HoldsNone == HoldsIn([type \in 0 .. 4 |-> << >>], 0)
<1>1. \A type \in 0 .. 4 : Rank(type, 0) = 0
  BY RankIs
<1>2. \A k \in 1 .. 0 : FALSE
  OBVIOUS
<1> QED BY <1>1, <1>2 DEF HoldsIn

\* A copy of the next entry, at the end of the vector of its type
Extended(v, e) == IF e.type \in 0 .. 4 THEN [v EXCEPT ![e.type] = vector_add(@, e.value)] ELSE v

LEMMA HoldsNext ==
  ASSUME NEW v \in [0 .. 4 -> Seq(Values)], NEW n \in Nat, n + 1 \in DOMAIN Entries, HoldsIn(v, n)
  PROVE  /\ Extended(v, Entries[n + 1]) \in [0 .. 4 -> Seq(Values)]
         /\ HoldsIn(Extended(v, Entries[n + 1]), n + 1)
<1> DEFINE e == Entries[n + 1]
           w == Extended(v, e)
<1>1. e.value \in Values
  BY DEF Values, ToSet
<1>2. w \in [0 .. 4 -> Seq(Values)]
  <2> HIDE DEF Values
  <2> QED BY <1>1 DEF Extended, vector_add
<1>3. ASSUME NEW type \in 0 .. 4
      PROVE  /\ Len(w[type]) = Rank(type, n + 1)
             /\ \A k \in 1 .. n + 1 : Entries[k].type = type => w[type][Rank(type, k)] = Entries[k].value
  <2>1. /\ Len(v[type]) = Rank(type, n) /\ Rank(type, n) \in Nat /\ v[type] \in Seq(Values)
        /\ \A k \in 1 .. n : Entries[k].type = type => v[type][Rank(type, k)] = Entries[k].value
        /\ \A k \in 1 .. n : Entries[k].type = type => Rank(type, k) \in 1 .. Rank(type, n)
    BY RankIs DEF HoldsIn
  <2>2. CASE e.type = type
    <3>1. w[type] = Append(v[type], e.value) /\ Rank(type, n + 1) = Rank(type, n) + 1
      BY <2>2, RankIs DEF Extended, vector_add
    <3> HIDE DEF w, e
    <3>2. /\ Len(w[type]) = Rank(type, n) + 1 /\ w[type][Rank(type, n) + 1] = e.value
          /\ \A j \in 1 .. Rank(type, n) : w[type][j] = v[type][j]
      <4> HIDE DEF Values
      <4> QED BY <1>1, <2>1, <3>1
    <3>3. ASSUME NEW k \in 1 .. n + 1, Entries[k].type = type
          PROVE  w[type][Rank(type, k)] = Entries[k].value
      <4>1. k = n + 1 \/ k \in 1 .. n
        OBVIOUS
      <4>2. k \in 1 .. n => w[type][Rank(type, k)] = v[type][Rank(type, k)]
        BY <2>1, <3>2, <3>3
      <4>3. CASE k = n + 1
        BY <3>1, <3>2, <4>3 DEF e
      <4>4. CASE k \in 1 .. n
        BY <2>1, <3>3, <4>2, <4>4
      <4> QED BY <4>1, <4>3, <4>4
    <3> QED BY <3>1, <3>2, <3>3
  <2>3. CASE e.type # type
    <3>1. w[type] = v[type] /\ Rank(type, n + 1) = Rank(type, n)
      BY <2>3, RankIs DEF Extended, vector_add
    <3>2. ASSUME NEW k \in 1 .. n + 1, Entries[k].type = type PROVE k \in 1 .. n
      BY <2>3, <3>2
    <3> HIDE DEF w, e
    <3> QED BY <2>1, <3>1, <3>2
  <2> QED BY <2>2, <2>3
<1> HIDE DEF w
<1>4. HoldsIn(w, n + 1)
  BY <1>3 DEF HoldsIn
<1> QED BY <1>2, <1>4 DEF w

LEMMA AddressIs ==
  ASSUME NEW n \in Nat
  PROVE  /\ AddressAfter(0) = First("APIC").address
         /\ AddressAfter(n + 1) = IF Entries[n + 1].type = 5 THEN Entries[n + 1].value ELSE AddressAfter(n)
<1> DEFINE O(m) == {k \in 1 .. m : Entries[k].type = 5}
<1>1. AddressAfter(0) = First("APIC").address
  <2>1. O(0) = {}
    OBVIOUS
  <2> QED BY <2>1 DEF AddressAfter
<1>2. CASE Entries[n + 1].type = 5
  <2>1. n + 1 \in O(n + 1) /\ \A m \in O(n + 1) : m \in Nat /\ m <= n + 1
    BY <1>2
  <2>2. AddressAfter(n + 1) = Entries[CHOOSE k \in O(n + 1) : \A m \in O(n + 1) : m <= k].value
    BY <2>1 DEF AddressAfter
  <2> HIDE DEF O
  <2>3. (CHOOSE k \in O(n + 1) : \A m \in O(n + 1) : m <= k) = n + 1
    <3>1. \A k \in O(n + 1) : (\A m \in O(n + 1) : m <= k) => k = n + 1
      BY <2>1
    <3> QED BY <2>1, <3>1
  <2> QED BY <1>1, <1>2, <2>2, <2>3
<1>3. CASE Entries[n + 1].type # 5
  <2>1. O(n + 1) = O(n)
    BY <1>3
  <2> DEFINE Address(os) == IF os = {} THEN First("APIC").address
                            ELSE Entries[CHOOSE k \in os : \A m \in os : m <= k].value
  <2>2. AddressAfter(n + 1) = Address(O(n + 1)) /\ AddressAfter(n) = Address(O(n))
    BY DEF AddressAfter
  <2> HIDE DEF Address, O
  <2>3. AddressAfter(n + 1) = AddressAfter(n)
    BY <2>1, <2>2
  <2> QED BY <1>1, <1>3, <2>3
<1> QED BY <1>2, <1>3

-----------------------------------------------------------------------------
\* The invariant

Parsing == {"tables", "madt", "mcfg", "lapic", "booted"}

\* How far acpi_init is
RootInv ==
  /\ fw \in Firmwares
  /\ pc \in {"rsdp", "rsdt", "panic", "fault"} \cup Parsing
  /\ rsdt \in {NULL, fw.tables}
  /\ t \in 1 .. Len(fw.tables) + 1
  /\ acpi_parsed_tables \in {NULL} \cup Seq(handlers)
  /\ pc \in {"rsdp", "rsdt"} => t = 1
  /\ pc = "rsdt" => (rsdp_v1 = NULL => fw.revision # 0)
  /\ pc \in Parsing \cup {"rsdt"} => acpi_parsed_tables \in Seq(handlers)
  /\ pc \in Parsing => rsdt = fw.tables
  /\ pc \in {"madt", "mcfg"} => t <= Len(fw.tables)
  /\ pc = "lapic" => t = Len(fw.tables) + 1

\* The walk over the MADT has taken the first n entries, and no other.
Walked(n) ==
  /\ HoldsIn(vectors, n)
  /\ local_apic_addr = AddressAfter(n)
  /\ i = OffsetOf(First("APIC"), n + 1)
  /\ \A k \in 1 .. n : Entries[k].type \in KnownTypes

\* A parse of the MADT leaves its vectors, and one that was completed can be
\* repeated: its entries are all of known types.
MadtInv ==
  /\ pc \in {"booted", "fault", "panic"} \/ lapic_base_addr = NULL
  /\ lapic_base_addr \in {NULL, local_apic_addr}
  /\ hdr # NULL => Places("APIC") # {} /\ hdr = First("APIC")
  /\ vectors[0] = NULL => i = 0
  /\ vectors[0] # NULL =>
       /\ Places("APIC") # {} /\ First("APIC").valid /\ hdr = First("APIC")
       /\ vectors \in [0 .. 4 -> Seq(Values)]
       /\ \E n \in 0 .. Len(Entries) :
            /\ Walked(n)
            /\ acpi_has_parsed("APIC") /\ pc # "madt" => n = Len(Entries)
  /\ acpi_has_parsed("APIC") =>
       vectors[0] # NULL /\ \A k \in DOMAIN Entries : Entries[k].type \in KnownTypes
  /\ pc = "madt" => vectors[0] # NULL
  /\ \A k \in Places("APIC") : pc \in Parsing /\ k < t /\ First("APIC").valid => vectors[0] # NULL

McfgInv ==
  /\ pc = "mcfg" \/ acpi_has_parsed("MCFG") =>
       Places("MCFG") # {} /\ mcfg = First("MCFG") /\ mcfg.valid
  /\ pc = "mcfg" =>
       /\ t \in Places("MCFG")
       /\ g \in 1 .. Len(mcfg.groups) + 1
       /\ mcfg_segment_groups \in Seq(ToSet(mcfg.groups))
       /\ Len(mcfg_segment_groups) = g - 1
       /\ \A k \in 1 .. g - 1 : mcfg_segment_groups[k] = mcfg.groups[k]
  /\ acpi_has_parsed("MCFG") /\ pc # "mcfg" => mcfg_segment_groups = mcfg.groups

IInv == RootInv /\ MadtInv /\ McfgInv /\ FaultsExplained

-----------------------------------------------------------------------------
\* What the steps leave alone

LEMMA FwKept ==
  ASSUME fw' = fw
  PROVE  /\ \A s : First(s)' = First(s) /\ Places(s)' = Places(s)
         /\ Entries' = Entries /\ Values' = Values
         /\ \A n : AddressAfter(n)' = AddressAfter(n)
         /\ \A type, n : Rank(type, n)' = Rank(type, n)
BY DEF First, Places, Entries, Values, AddressAfter, Rank

LEMMA HoldsKept ==
  ASSUME fw' = fw, vectors' = vectors, NEW n PROVE HoldsIn(vectors, n)' <=> HoldsIn(vectors, n)
BY FwKept DEF HoldsIn

LEMMA FirmwareIs ==
  ASSUME fw \in Firmwares
  PROVE  Len(fw.tables) \in Nat /\ DOMAIN fw.tables = 1 .. Len(fw.tables)
BY FirmwareAssumption

LEMMA MadtKept ==
  ASSUME MadtInv, fw' = fw, UNCHANGED madtVars, lapic_base_addr' = lapic_base_addr,
         acpi_has_parsed("APIC")' => acpi_has_parsed("APIC"),
         pc # "madt", pc' # "madt", pc \notin {"booted", "fault", "panic"},
         \A k \in Places("APIC") : pc' \in Parsing /\ k < t' => pc \in Parsing /\ k < t
  PROVE  MadtInv'
<1>1. /\ hdr' = hdr /\ i' = i /\ local_apic_addr' = local_apic_addr /\ vectors' = vectors
  BY DEF madtVars
<1>2. /\ First("APIC")' = First("APIC") /\ Places("APIC")' = Places("APIC")
      /\ Entries' = Entries /\ Values' = Values /\ \A n : AddressAfter(n)' = AddressAfter(n)
  BY FwKept
<1>3. \A n : Walked(n) => Walked(n)'
  BY <1>1, <1>2, HoldsKept DEF Walked, OffsetOf
<1>4. ASSUME vectors[0] # NULL
      PROVE  \E n \in 0 .. Len(Entries) :
               /\ Walked(n)'
               /\ acpi_has_parsed("APIC")' /\ pc' # "madt" => n = Len(Entries)
  <2>1. PICK n \in 0 .. Len(Entries) :
               /\ Walked(n)
               /\ acpi_has_parsed("APIC") /\ pc # "madt" => n = Len(Entries)
    BY <1>4 DEF MadtInv
  <2> QED BY <1>3, <2>1
<1>5. (vectors[0] # NULL)' =>
        /\ Places("APIC")' # {} /\ First("APIC")'.valid /\ hdr' = First("APIC")'
        /\ vectors' \in [0 .. 4 -> Seq(Values')]
        /\ \E n \in 0 .. Len(Entries') :
             /\ Walked(n)'
             /\ acpi_has_parsed("APIC")' /\ pc' # "madt" => n = Len(Entries')
  BY <1>1, <1>2, <1>4 DEF MadtInv
<1>6. \A k \in Places("APIC")' :
        pc' \in Parsing /\ k < t' /\ First("APIC")'.valid => vectors'[0] # NULL
  BY <1>1, <1>2 DEF MadtInv
<1>7. acpi_has_parsed("APIC")' =>
        vectors'[0] # NULL /\ \A k \in DOMAIN Entries' : Entries'[k].type \in KnownTypes
  BY <1>1, <1>2 DEF MadtInv
<1>8. /\ lapic_base_addr' = NULL
      /\ hdr' # NULL => Places("APIC")' # {} /\ hdr' = First("APIC")'
      /\ vectors'[0] = NULL => i' = 0
  BY <1>1, <1>2 DEF MadtInv
<1> HIDE DEF Parsing
<1> QED BY <1>5, <1>6, <1>7, <1>8 DEF MadtInv, Parsing

LEMMA McfgKept ==
  ASSUME McfgInv, fw' = fw, UNCHANGED mcfgVars,
         acpi_has_parsed("MCFG")' => acpi_has_parsed("MCFG"),
         pc # "mcfg", pc' # "mcfg"
  PROVE  McfgInv'
<1>1. mcfg' = mcfg /\ mcfg_segment_groups' = mcfg_segment_groups
  BY DEF mcfgVars
<1>2. First("MCFG")' = First("MCFG") /\ Places("MCFG")' = Places("MCFG")
  BY FwKept
<1> QED BY <1>1, <1>2 DEF McfgInv

LEMMA ParsedKept ==
  ASSUME acpi_parsed_tables' = acpi_parsed_tables, NEW s
  PROVE  acpi_has_parsed(s)' <=> acpi_has_parsed(s)
BY DEF acpi_has_parsed

LEMMA ParsedAdded ==
  ASSUME acpi_parsed_tables \in Seq(handlers), NEW s \in handlers,
         acpi_parsed_tables' = vector_add(acpi_parsed_tables, s)
  PROVE  /\ acpi_parsed_tables' \in Seq(handlers)
         /\ \A r : r # s /\ acpi_has_parsed(r)' => acpi_has_parsed(r)
<1>1. acpi_parsed_tables' \in Seq(handlers)
  BY DEF vector_add
<1>2. ASSUME NEW r, r # s, acpi_has_parsed(r)' PROVE acpi_has_parsed(r)
  <2>1. PICK k \in DOMAIN acpi_parsed_tables' : r = acpi_parsed_tables'[k]
    BY <1>2 DEF acpi_has_parsed, ToSet
  <2>2. k \in DOMAIN acpi_parsed_tables /\ acpi_parsed_tables'[k] = acpi_parsed_tables[k]
    BY <1>2, <2>1 DEF vector_add
  <2>3. acpi_parsed_tables # NULL
    BY FirmwareAssumption
  <2> QED BY <2>1, <2>2, <2>3 DEF acpi_has_parsed, ToSet
<1> QED BY <1>1, <1>2

-----------------------------------------------------------------------------
\* The invariant is inductive.

LEMMA InitInv == Init => IInv
<1> SUFFICES ASSUME Init PROVE IInv
  OBVIOUS
<1>1. /\ fw \in Firmwares /\ pc = "rsdp" /\ rsdt = NULL /\ t = 1 /\ acpi_parsed_tables = NULL
      /\ hdr = NULL /\ i = 0 /\ vectors[0] = NULL /\ lapic_base_addr = NULL
  BY DEF Init
<1>2. RootInv
  BY <1>1, FirmwareIs DEF RootInv, Parsing
<1>3. ~acpi_has_parsed("APIC") /\ ~acpi_has_parsed("MCFG")
  BY <1>1 DEF acpi_has_parsed
<1>4. MadtInv
  BY <1>1, <1>3 DEF MadtInv, Parsing
<1>5. McfgInv
  BY <1>1, <1>3 DEF McfgInv
<1> QED BY <1>1, <1>2, <1>4, <1>5 DEF IInv, FaultsExplained

LEMMA Panic == IInv /\ faults_panic => IInv'
<1> SUFFICES ASSUME IInv, faults_panic PROVE IInv'
  OBVIOUS
<1>1. /\ pc \in {"rsdp", "rsdt"} /\ pc' = "panic"
      /\ fw' = fw /\ t' = t /\ rsdt' = rsdt /\ acpi_parsed_tables' = acpi_parsed_tables
      /\ lapic_base_addr' = lapic_base_addr /\ UNCHANGED madtVars /\ UNCHANGED mcfgVars
  BY DEF faults_panic, rootVars
<1>2. RootInv'
  BY <1>1 DEF IInv, RootInv, Parsing
<1>3. MadtInv'
  BY <1>1, MadtKept, ParsedKept DEF IInv, Parsing
<1>4. McfgInv'
  BY <1>1, McfgKept, ParsedKept DEF IInv
<1> QED BY <1>1, <1>2, <1>3, <1>4 DEF IInv, FaultsExplained

LEMMA Fault == IInv /\ PageFault => IInv'
<1> SUFFICES ASSUME IInv, PageFault PROVE IInv'
  OBVIOUS
<1>1. /\ pc \in {"rsdt", "tables", "lapic"} /\ pc' = "fault"
      /\ fw' = fw /\ stray' = stray /\ t' = t /\ rsdt' = rsdt
      /\ acpi_parsed_tables' = acpi_parsed_tables
      /\ lapic_base_addr' = lapic_base_addr /\ UNCHANGED madtVars /\ UNCHANGED mcfgVars
  BY DEF PageFault, rootVars
<1>2. RootInv'
  BY <1>1 DEF IInv, RootInv, Parsing
<1>3. MadtInv'
  BY <1>1, MadtKept, ParsedKept DEF IInv, Parsing
<1>4. McfgInv'
  BY <1>1, McfgKept, ParsedKept DEF IInv
<1>5. FaultsExplained'
  <2>1. First("APIC")' = First("APIC") /\ Places("APIC")' = Places("APIC")
    BY <1>1, FwKept
  <2>2. fw \in Firmwares /\ DOMAIN fw.tables = 1 .. Len(fw.tables) /\ Len(fw.tables) \in Nat
    BY FirmwareIs DEF IInv, RootInv
  <2>3. CASE pc = "rsdt" /\ rsdp_v1 = NULL
    BY <1>1, <2>3 DEF IInv, RootInv, FaultsExplained
  <2>4. CASE pc = "tables" /\ t <= Len(rsdt) /\ rsdt[t].signature \in stray
    <3>1. t \in DOMAIN fw.tables /\ rsdt = fw.tables
      BY <2>2, <2>4 DEF IInv, RootInv, Parsing
    <3> QED BY <1>1, <2>4, <3>1 DEF FaultsExplained
  <2>5. CASE pc = "lapic" /\ vectors[0] = NULL
    <3>1. \A k \in Places("APIC") : k < t
      BY <2>2, <2>5 DEF IInv, RootInv, Places
    <3>2. Places("APIC") = {} \/ ~First("APIC").valid
      BY <2>5, <3>1 DEF IInv, MadtInv, Parsing
    <3> QED BY <2>1, <3>2 DEF FaultsExplained
  <2> QED BY <2>3, <2>4, <2>5 DEF PageFault
<1> QED BY <1>2, <1>3, <1>4, <1>5 DEF IInv

LEMMA ParseRsdp == IInv /\ acpi_parse_rsdp => IInv'
<1> SUFFICES ASSUME IInv, acpi_parse_rsdp PROVE IInv'
  OBVIOUS
<1>1. /\ pc = "rsdp" /\ pc' = "rsdt"
      /\ fw' = fw /\ t' = t /\ rsdt' = rsdt /\ acpi_parsed_tables' = << >>
      /\ lapic_base_addr' = lapic_base_addr /\ UNCHANGED madtVars /\ UNCHANGED mcfgVars
      /\ rsdp_v1' = IF fw.revision = 0 THEN "RSDP" ELSE rsdp_v1
  BY DEF acpi_parse_rsdp, vector_init
<1>2. \A s : ~acpi_has_parsed(s)'
  BY <1>1 DEF acpi_has_parsed, ToSet
<1>3. RootInv'
  <2>1. << >> \in Seq(handlers)
    OBVIOUS
  <2>2. rsdp_v1' = NULL => fw.revision # 0
    BY <1>1, FirmwareAssumption
  <2> QED BY <1>1, <2>1, <2>2 DEF IInv, RootInv, Parsing
<1>4. MadtInv'
  BY <1>1, <1>2, MadtKept DEF IInv, Parsing
<1>5. McfgInv'
  BY <1>1, <1>2, McfgKept DEF IInv
<1> QED BY <1>1, <1>3, <1>4, <1>5 DEF IInv, FaultsExplained

LEMMA ParseRsdt == IInv /\ acpi_parse_rsdt => IInv'
<1> SUFFICES ASSUME IInv, acpi_parse_rsdt PROVE IInv'
  OBVIOUS
<1>1. /\ pc = "rsdt" /\ pc' = "tables"
      /\ fw' = fw /\ t' = t /\ rsdt' = fw.tables /\ acpi_parsed_tables' = acpi_parsed_tables
      /\ lapic_base_addr' = lapic_base_addr /\ UNCHANGED madtVars /\ UNCHANGED mcfgVars
  BY DEF acpi_parse_rsdt
<1>2. RootInv'
  BY <1>1 DEF IInv, RootInv, Parsing
<1>3. MadtInv'
  <2>1. \A k \in Places("APIC") : ~(k < t')
    BY <1>1, FirmwareIs DEF IInv, RootInv, Places
  <2> QED BY <1>1, <2>1, MadtKept, ParsedKept DEF IInv, Parsing
<1>4. McfgInv'
  BY <1>1, McfgKept, ParsedKept DEF IInv
<1> QED BY <1>1, <1>2, <1>3, <1>4 DEF IInv, FaultsExplained

\* The loop over the tables goes on with the next.
LEMMA NextTable ==
  ASSUME RootInv, pc = "tables", pc' = "tables", fw' = fw, rsdt' = rsdt, t <= Len(rsdt), t' = t + 1,
         acpi_parsed_tables' = acpi_parsed_tables
  PROVE  /\ RootInv'
         /\ t \in DOMAIN fw.tables /\ rsdt = fw.tables
         /\ \A k \in Places("APIC") : k < t' => k < t \/ k = t
<1>1. /\ fw \in Firmwares /\ rsdt = fw.tables /\ t \in 1 .. Len(fw.tables) + 1
      /\ acpi_parsed_tables \in Seq(handlers)
  BY DEF RootInv, Parsing
<1>2. Len(fw.tables) \in Nat /\ DOMAIN fw.tables = 1 .. Len(fw.tables)
  BY <1>1, FirmwareIs
<1>3. t' \in 1 .. Len(fw.tables) + 1 /\ t \in DOMAIN fw.tables
  BY <1>1, <1>2
<1>4. RootInv'
  BY <1>1, <1>3 DEF RootInv, Parsing
<1>5. \A k \in Places("APIC") : k < t' => k < t \/ k = t
  BY <1>1, <1>2 DEF Places
<1> QED BY <1>1, <1>3, <1>4, <1>5

LEMMA Skip == IInv /\ SkipTable => IInv'
<1> SUFFICES ASSUME IInv, SkipTable PROVE IInv'
  OBVIOUS
<1>1. /\ pc = "tables" /\ pc' = "tables" /\ t <= Len(rsdt) /\ rsdt[t].signature \notin handlers
      /\ fw' = fw /\ t' = t + 1 /\ rsdt' = rsdt /\ acpi_parsed_tables' = acpi_parsed_tables
      /\ lapic_base_addr' = lapic_base_addr /\ UNCHANGED madtVars /\ UNCHANGED mcfgVars
  BY DEF SkipTable, rootVars
<1>2. RootInv' /\ t \in DOMAIN fw.tables /\ rsdt = fw.tables
      /\ \A k \in Places("APIC") : k < t' => k < t \/ k = t
  BY <1>1, NextTable DEF IInv
<1>3. t \notin Places("APIC")
  BY <1>1, <1>2 DEF Places, handlers
<1>4. MadtInv'
  BY <1>1, <1>2, <1>3, MadtKept, ParsedKept DEF IInv, Parsing
<1>5. McfgInv'
  BY <1>1, McfgKept, ParsedKept DEF IInv
<1> QED BY <1>1, <1>2, <1>4, <1>5 DEF IInv, FaultsExplained

LEMMA AllTables == IInv /\ TablesDone => IInv'
<1> SUFFICES ASSUME IInv, TablesDone PROVE IInv'
  OBVIOUS
<1>1. /\ pc = "tables" /\ pc' = "lapic" /\ t > Len(rsdt)
      /\ fw' = fw /\ t' = t /\ rsdt' = rsdt /\ acpi_parsed_tables' = acpi_parsed_tables
      /\ lapic_base_addr' = lapic_base_addr /\ UNCHANGED madtVars /\ UNCHANGED mcfgVars
  BY DEF TablesDone, rootVars
<1>2. RootInv'
  <2>1. /\ fw \in Firmwares /\ rsdt = fw.tables /\ t \in 1 .. Len(fw.tables) + 1
        /\ acpi_parsed_tables \in Seq(handlers)
    BY <1>1 DEF IInv, RootInv, Parsing
  <2>2. t = Len(fw.tables) + 1
    BY <1>1, <2>1, FirmwareIs
  <2> QED BY <1>1, <2>1, <2>2 DEF RootInv, Parsing
<1>3. MadtInv'
  BY <1>1, MadtKept, ParsedKept DEF IInv, Parsing
<1>4. McfgInv'
  BY <1>1, McfgKept, ParsedKept DEF IInv
<1> QED BY <1>1, <1>2, <1>3, <1>4 DEF IInv, FaultsExplained

LEMMA HoldsPrimed ==
  ASSUME fw' = fw, NEW n PROVE HoldsIn(vectors, n)' <=> HoldsIn(vectors', n)
BY FwKept DEF HoldsIn

\* The MADT that is being parsed
LEMMA MadtIs ==
  ASSUME fw \in Firmwares, Places("APIC") # {}
  PROVE  /\ TableOK(First("APIC"))
         /\ Len(Entries) \in Nat /\ DOMAIN Entries = 1 .. Len(Entries)
         /\ Entries = First("APIC").entries
         /\ NULL \notin Seq(Values)
<1>1. TableOK(First("APIC"))
  BY FirstIs
<1> QED BY <1>1, StartsIncrease DEF Entries, Values, TableOK

LEMMA ParseMadt == IInv /\ acpi_parse_madt => IInv'
<1> SUFFICES ASSUME IInv, acpi_parse_madt PROVE IInv'
  OBVIOUS
<1>1. /\ pc = "tables" /\ t <= Len(rsdt) /\ rsdt[t].signature = "APIC"
      /\ hdr' = acpi_get_table("APIC")
      /\ fw' = fw /\ rsdt' = rsdt /\ acpi_parsed_tables' = acpi_parsed_tables
      /\ lapic_base_addr' = lapic_base_addr /\ UNCHANGED mcfgVars
  BY DEF acpi_parse_madt, Calls, rootVars
<1>2. /\ fw \in Firmwares /\ rsdt = fw.tables /\ t \in 1 .. Len(fw.tables) + 1
      /\ acpi_parsed_tables \in Seq(handlers)
  BY <1>1 DEF IInv, RootInv, Parsing
<1>3. Len(fw.tables) \in Nat /\ DOMAIN fw.tables = 1 .. Len(fw.tables)
  BY <1>2, FirmwareIs
<1>4. t \in Places("APIC")
  BY <1>1, <1>2, <1>3 DEF Places
<1>5. hdr' = First("APIC")
  BY <1>1, <1>2, <1>4, GetTable
<1>6. /\ First("APIC")' = First("APIC") /\ Places("APIC")' = Places("APIC")
      /\ Entries' = Entries /\ Values' = Values /\ \A n : AddressAfter(n)' = AddressAfter(n)
  BY <1>1, FwKept
<1>7. lapic_base_addr = NULL /\ (acpi_has_parsed("APIC")' <=> acpi_has_parsed("APIC"))
  BY <1>1, ParsedKept DEF IInv, MadtInv
<1>8. TableOK(First("APIC")) /\ Len(Entries) \in Nat /\ NULL \notin Seq(Values)
  BY <1>2, <1>4, MadtIs
<1>9. CASE First("APIC").valid
  <2>1. /\ vectors' = [type \in 0 .. 4 |-> << >>] /\ local_apic_addr' = First("APIC").address
        /\ i' = 0 /\ pc' = "madt" /\ t' = t
    BY <1>5, <1>9 DEF acpi_parse_madt, acpi_is_valid_sdt_checksum, FreshVectors, vector_init
  <2>2. RootInv'
    BY <1>1, <1>2, <2>1 DEF RootInv, Parsing
  <2>3. vectors' \in [0 .. 4 -> Seq(Values)] /\ vectors'[0] # NULL
    <3>1. << >> \in Seq(Values)
      OBVIOUS
    <3>2. << >> # NULL
      BY <1>8, <3>1
    <3>3. vectors' \in [0 .. 4 -> Seq(Values)]
      BY <2>1, <3>1
    <3>4. vectors'[0] = << >>
      BY <2>1
    <3> QED BY <3>2, <3>3, <3>4
  <2>4. Walked(0)'
    <3>1. HoldsIn(vectors, 0)'
      BY <1>1, <2>1, HoldsPrimed, HoldsNone
    <3>2. OffsetOf(First("APIC"), 0 + 1) = 0
      BY <1>8 DEF TableOK, OffsetOf
    <3>3. local_apic_addr' = AddressAfter(0)
      BY <2>1, AddressIs
    <3>4. \A k \in 1 .. 0 : FALSE
      OBVIOUS
    <3>5. i' = OffsetOf(First("APIC"), 0 + 1)'
      BY <1>6, <2>1, <3>2 DEF OffsetOf
    <3> QED BY <1>6, <3>1, <3>3, <3>4, <3>5 DEF Walked
  <2>5. acpi_has_parsed("APIC")' =>
          vectors'[0] # NULL /\ \A k \in DOMAIN Entries' : Entries'[k].type \in KnownTypes
    BY <1>6, <1>7, <2>3 DEF IInv, MadtInv
  <2>6. \E n \in 0 .. Len(Entries') :
          /\ Walked(n)'
          /\ acpi_has_parsed("APIC")' /\ pc' # "madt" => n = Len(Entries')
    <3>1. 0 \in 0 .. Len(Entries')
      BY <1>6, <1>8
    <3> QED BY <2>1, <2>4, <3>1
  <2>7. MadtInv'
    BY <1>1, <1>4, <1>5, <1>6, <1>7, <1>9, <2>3, <2>5, <2>6 DEF MadtInv
  <2>8. McfgInv'
    BY <1>1, <2>1, McfgKept, ParsedKept DEF IInv
  <2> QED BY <2>1, <2>2, <2>7, <2>8 DEF IInv, FaultsExplained
<1>10. CASE ~First("APIC").valid
  <2>1. /\ vectors' = vectors /\ local_apic_addr' = local_apic_addr
        /\ i' = i /\ pc' = pc /\ t' = t + 1
    BY <1>5, <1>10 DEF acpi_parse_madt, acpi_is_valid_sdt_checksum
  <2>2. RootInv'
    BY <1>1, <2>1, NextTable DEF IInv
  <2>3. vectors[0] = NULL /\ i = 0 /\ ~acpi_has_parsed("APIC")
    BY <1>10 DEF IInv, MadtInv
  <2>4. MadtInv'
    BY <1>1, <1>4, <1>5, <1>6, <1>7, <1>10, <2>1, <2>3 DEF MadtInv
  <2>5. McfgInv'
    BY <1>1, <2>1, McfgKept, ParsedKept DEF IInv
  <2> QED BY <1>1, <2>1, <2>2, <2>4, <2>5 DEF IInv, FaultsExplained
<1> QED BY <1>9, <1>10

\* While the MADT is walked, its next entry is the one after those taken.
LEMMA WalkIs ==
  ASSUME IInv, pc = "madt"
  PROVE  /\ fw \in Firmwares /\ Places("APIC") # {} /\ hdr = First("APIC") /\ First("APIC").valid
         /\ vectors[0] # NULL /\ vectors \in [0 .. 4 -> Seq(Values)] /\ lapic_base_addr = NULL
         /\ \E n \in 0 .. Len(Entries) :
              /\ Walked(n)
              /\ i < EntriesLength(hdr) <=> n < Len(Entries)
              /\ n < Len(Entries) => /\ n + 1 \in DOMAIN Entries
                                     /\ EntryAt(hdr, i) = Entries[n + 1]
                                     /\ i + Entries[n + 1].length = OffsetOf(hdr, (n + 1) + 1)
<1>1. /\ fw \in Firmwares /\ Places("APIC") # {} /\ hdr = First("APIC") /\ First("APIC").valid
      /\ vectors[0] # NULL /\ vectors \in [0 .. 4 -> Seq(Values)] /\ lapic_base_addr = NULL
  BY DEF IInv, RootInv, MadtInv
<1>2. PICK n \in 0 .. Len(Entries) : Walked(n)
  BY <1>1 DEF IInv, MadtInv
<1>3. /\ TableOK(hdr) /\ Entries = hdr.entries
      /\ Len(Entries) \in Nat /\ DOMAIN Entries = 1 .. Len(Entries)
  BY <1>1, MadtIs
<1>4. i = OffsetOf(hdr, n + 1)
  BY <1>1, <1>2 DEF Walked
<1>5. n + 2 = (n + 1) + 1 /\ (n < Len(Entries) => n + 1 \in DOMAIN Entries)
  BY <1>2, <1>3
<1>6. /\ i < EntriesLength(hdr) <=> n < Len(Entries)
      /\ n < Len(Entries) => /\ EntryAt(hdr, i) = Entries[n + 1]
                             /\ i + Entries[n + 1].length = OffsetOf(hdr, n + 2)
  BY <1>2, <1>3, <1>4, EntryIs
<1> QED BY <1>1, <1>2, <1>5, <1>6

LEMMA Entry == IInv /\ MadtEntry => IInv'
<1> SUFFICES ASSUME IInv, MadtEntry PROVE IInv'
  OBVIOUS
<1> DEFINE e == EntryAt(hdr, i)
<1>1. /\ pc = "madt" /\ pc' = pc /\ i < EntriesLength(hdr) /\ e.type \in KnownTypes
      /\ vectors' = Extended(vectors, e)
      /\ local_apic_addr' = IF e.type = 5 THEN e.value ELSE local_apic_addr
      /\ i' = i + e.length
      /\ fw' = fw /\ t' = t /\ rsdt' = rsdt /\ acpi_parsed_tables' = acpi_parsed_tables
      /\ lapic_base_addr' = lapic_base_addr /\ hdr' = hdr /\ UNCHANGED mcfgVars
  BY DEF MadtEntry, rootVars, Extended, Advance
<1> HIDE DEF e
<1>2. /\ fw \in Firmwares /\ Places("APIC") # {} /\ hdr = First("APIC") /\ First("APIC").valid
      /\ vectors[0] # NULL /\ vectors \in [0 .. 4 -> Seq(Values)] /\ lapic_base_addr = NULL
  BY <1>1, WalkIs
<1>3. PICK n \in 0 .. Len(Entries) :
        /\ Walked(n) /\ n < Len(Entries) /\ n + 1 \in DOMAIN Entries
        /\ e = Entries[n + 1] /\ i + e.length = OffsetOf(hdr, (n + 1) + 1)
  BY <1>1, WalkIs DEF e
<1>4. Len(Entries) \in Nat /\ NULL \notin Seq(Values)
  BY <1>2, MadtIs
<1>5. /\ First("APIC")' = First("APIC") /\ Places("APIC")' = Places("APIC")
      /\ Entries' = Entries /\ Values' = Values /\ \A m : AddressAfter(m)' = AddressAfter(m)
  BY <1>1, FwKept
<1>6. vectors' \in [0 .. 4 -> Seq(Values)] /\ vectors'[0] # NULL /\ HoldsIn(vectors', n + 1)
  <2>1. HoldsIn(vectors, n) /\ n \in Nat
    BY <1>3, <1>4 DEF Walked
  <2>2. vectors' \in [0 .. 4 -> Seq(Values)] /\ HoldsIn(vectors', n + 1)
    BY <1>1, <1>2, <1>3, <2>1, HoldsNext
  <2> QED BY <1>4, <2>2
<1>7. Walked(n + 1)'
  <2>1. HoldsIn(vectors, n + 1)'
    BY <1>1, <1>6, HoldsPrimed
  <2>2. local_apic_addr' = AddressAfter(n + 1)
    <3>1. n \in Nat /\ local_apic_addr = AddressAfter(n)
      BY <1>3, <1>4 DEF Walked
    <3> QED BY <1>1, <1>3, <3>1, AddressIs
  <2>3. i' = OffsetOf(First("APIC"), (n + 1) + 1)'
    BY <1>1, <1>2, <1>3, <1>5 DEF OffsetOf
  <2>4. ASSUME NEW k \in 1 .. n + 1 PROVE Entries[k].type \in KnownTypes
    <3>1. k \in 1 .. n \/ k = n + 1
      BY <1>4
    <3> QED BY <1>1, <1>3, <3>1 DEF Walked
  <2> QED BY <1>5, <2>1, <2>2, <2>3, <2>4 DEF Walked
<1>8. RootInv'
  BY <1>1 DEF IInv, RootInv, Parsing
<1>9. MadtInv'
  <2>1. \E m \in 0 .. Len(Entries') :
          /\ Walked(m)'
          /\ acpi_has_parsed("APIC")' /\ pc' # "madt" => m = Len(Entries')
    <3>1. n + 1 \in 0 .. Len(Entries')
      BY <1>3, <1>4, <1>5
    <3> QED BY <1>1, <1>7, <3>1
  <2>2. acpi_has_parsed("APIC")' =>
          vectors'[0] # NULL /\ \A k \in DOMAIN Entries' : Entries'[k].type \in KnownTypes
    BY <1>1, <1>5, <1>6, ParsedKept DEF IInv, MadtInv
  <2> QED BY <1>1, <1>2, <1>5, <1>6, <2>1, <2>2 DEF MadtInv
<1>10. McfgInv'
  BY <1>1, McfgKept, ParsedKept DEF IInv
<1> QED BY <1>1, <1>8, <1>9, <1>10 DEF IInv, FaultsExplained

LEMMA WalkFails == IInv /\ MadtFails => IInv'
<1> SUFFICES ASSUME IInv, MadtFails PROVE IInv'
  OBVIOUS
<1>1. /\ pc = "madt" /\ pc' = "tables" /\ i < EntriesLength(hdr)
      /\ EntryAt(hdr, i).type \notin KnownTypes
      /\ fw' = fw /\ t' = t + 1 /\ rsdt' = rsdt /\ acpi_parsed_tables' = acpi_parsed_tables
      /\ lapic_base_addr' = lapic_base_addr /\ hdr' = hdr /\ i' = i /\ vectors' = vectors
      /\ local_apic_addr' = local_apic_addr /\ UNCHANGED mcfgVars
  BY DEF MadtFails, rootVars, madtVars
<1>2. /\ fw \in Firmwares /\ Places("APIC") # {} /\ hdr = First("APIC") /\ First("APIC").valid
      /\ vectors[0] # NULL /\ vectors \in [0 .. 4 -> Seq(Values)] /\ lapic_base_addr = NULL
  BY <1>1, WalkIs
<1>3. PICK n \in 0 .. Len(Entries) :
        Walked(n) /\ n + 1 \in DOMAIN Entries /\ EntryAt(hdr, i) = Entries[n + 1]
  BY <1>1, WalkIs
<1>4. ~acpi_has_parsed("APIC") /\ ~acpi_has_parsed("APIC")'
  <2>1. ~acpi_has_parsed("APIC")
    BY <1>1, <1>3 DEF IInv, MadtInv
  <2> QED BY <1>1, <2>1, ParsedKept
<1>5. /\ First("APIC")' = First("APIC") /\ Places("APIC")' = Places("APIC")
      /\ Entries' = Entries /\ Values' = Values /\ \A m : AddressAfter(m)' = AddressAfter(m)
  BY <1>1, FwKept
<1>6. Walked(n)'
  BY <1>1, <1>3, <1>5, HoldsKept DEF Walked, OffsetOf
<1>7. RootInv'
  BY <1>1, FirmwareIs DEF IInv, RootInv, Parsing
<1>8. MadtInv'
  BY <1>1, <1>2, <1>3, <1>4, <1>5, <1>6 DEF MadtInv
<1>9. McfgInv'
  BY <1>1, McfgKept, ParsedKept DEF IInv
<1> QED BY <1>1, <1>7, <1>8, <1>9 DEF IInv, FaultsExplained

LEMMA WalkDone == IInv /\ MadtDone => IInv'
<1> SUFFICES ASSUME IInv, MadtDone PROVE IInv'
  OBVIOUS
<1>1. /\ pc = "madt" /\ pc' = "tables" /\ i >= EntriesLength(hdr)
      /\ acpi_parsed_tables' = vector_add(acpi_parsed_tables, "APIC")
      /\ fw' = fw /\ t' = t + 1 /\ rsdt' = rsdt
      /\ lapic_base_addr' = lapic_base_addr /\ hdr' = hdr /\ i' = i /\ vectors' = vectors
      /\ local_apic_addr' = local_apic_addr /\ UNCHANGED mcfgVars
  BY DEF MadtDone, rootVars, madtVars
<1>2. /\ fw \in Firmwares /\ Places("APIC") # {} /\ hdr = First("APIC") /\ First("APIC").valid
      /\ vectors[0] # NULL /\ vectors \in [0 .. 4 -> Seq(Values)] /\ lapic_base_addr = NULL
  BY <1>1, WalkIs
<1>3. TableOK(hdr) /\ Len(Entries) \in Nat /\ DOMAIN Entries = 1 .. Len(Entries)
  BY <1>2, MadtIs
<1>4. PICK n \in 0 .. Len(Entries) : Walked(n) /\ (i < EntriesLength(hdr) <=> n < Len(Entries))
  BY <1>1, WalkIs
<1>5. n = Len(Entries)
  <2>1. i \in Nat /\ EntriesLength(hdr) \in Nat
    <3>1. i = OffsetOf(hdr, n + 1) /\ n \in 0 .. Len(hdr.entries)
      BY <1>2, <1>4 DEF Walked, Entries
    <3>2. i \in 0 .. EntriesLength(hdr)
      BY <1>3, <3>1, EntryIs
    <3>3. EntriesLength(hdr) \in Nat
      <4>1. Len(hdr.entries) + 1 \in 1 .. Len(hdr.entries) + 1
        BY <1>3, StartsIncrease
      <4> QED BY <1>3, <4>1, StartsIncrease DEF EntriesLength, OffsetOf
    <3> QED BY <3>2, <3>3
  <2>2. ~(n < Len(Entries))
    <3>1. ~(i < EntriesLength(hdr))
      BY <1>1, <2>1
    <3> QED BY <1>4, <3>1, Zenon
  <2>3. PICK N \in Nat : N = Len(Entries)
    BY <1>3
  <2> QED BY <2>2, <2>3
<1>6. /\ First("APIC")' = First("APIC") /\ Places("APIC")' = Places("APIC")
      /\ Entries' = Entries /\ Values' = Values /\ \A m : AddressAfter(m)' = AddressAfter(m)
  BY <1>1, FwKept
<1>7. Walked(n)'
  BY <1>1, <1>4, <1>6, HoldsKept DEF Walked, OffsetOf
<1>8. \A k \in DOMAIN Entries : Entries[k].type \in KnownTypes
  BY <1>3, <1>4, <1>5 DEF Walked
<1>9. acpi_parsed_tables' \in Seq(handlers) /\ (acpi_has_parsed("MCFG")' => acpi_has_parsed("MCFG"))
  <2>1. acpi_parsed_tables \in Seq(handlers)
    BY <1>1 DEF IInv, RootInv, Parsing
  <2> QED BY <1>1, <2>1, ParsedAdded DEF handlers
<1>10. RootInv'
  BY <1>1, <1>9, FirmwareIs DEF IInv, RootInv, Parsing
<1>11. MadtInv'
  <2>1. \E m \in 0 .. Len(Entries') :
          /\ Walked(m)'
          /\ acpi_has_parsed("APIC")' /\ pc' # "madt" => m = Len(Entries')
    BY <1>4, <1>6, <1>7, <1>5
  <2> QED BY <1>1, <1>2, <1>6, <1>8, <2>1 DEF MadtInv
<1>12. McfgInv'
  BY <1>1, <1>9, McfgKept DEF IInv
<1> QED BY <1>1, <1>10, <1>11, <1>12 DEF IInv, FaultsExplained

LEMMA ParseMcfg == IInv /\ acpi_parse_mcfg => IInv'
<1> SUFFICES ASSUME IInv, acpi_parse_mcfg PROVE IInv'
  OBVIOUS
<1>1. /\ pc = "tables" /\ t <= Len(rsdt) /\ rsdt[t].signature = "MCFG"
      /\ mcfg' = acpi_get_table("MCFG")
      /\ fw' = fw /\ rsdt' = rsdt /\ acpi_parsed_tables' = acpi_parsed_tables
      /\ lapic_base_addr' = lapic_base_addr /\ UNCHANGED madtVars
  BY DEF acpi_parse_mcfg, Calls, rootVars
<1>2. /\ fw \in Firmwares /\ rsdt = fw.tables /\ t \in 1 .. Len(fw.tables) + 1
      /\ acpi_parsed_tables \in Seq(handlers)
  BY <1>1 DEF IInv, RootInv, Parsing
<1>3. Len(fw.tables) \in Nat /\ DOMAIN fw.tables = 1 .. Len(fw.tables)
  BY <1>2, FirmwareIs
<1>4. t \in Places("MCFG") /\ t \notin Places("APIC")
  BY <1>1, <1>2, <1>3 DEF Places
<1>5. mcfg' = First("MCFG") /\ TableOK(First("MCFG"))
  BY <1>1, <1>2, <1>4, GetTable, FirstIs
<1>6. First("MCFG")' = First("MCFG") /\ Places("MCFG")' = Places("MCFG")
  BY <1>1, FwKept
<1>7. CASE First("MCFG").valid
  <2>1. mcfg_segment_groups' = << >> /\ g' = 1 /\ pc' = "mcfg" /\ t' = t
    BY <1>5, <1>7 DEF acpi_parse_mcfg, acpi_is_valid_sdt_checksum, vector_init
  <2>2. RootInv'
    BY <1>1, <1>2, <2>1 DEF RootInv, Parsing
  <2>3. MadtInv'
    BY <1>1, <2>1, MadtKept, ParsedKept DEF IInv, Parsing
  <2>4. McfgInv'
    <3>1. 1 \in 1 .. Len(First("MCFG").groups) + 1
      BY <1>5 DEF TableOK
    <3>2. << >> \in Seq(ToSet(First("MCFG").groups)) /\ Len(<< >>) = 1 - 1
      OBVIOUS
    <3>3. \A k \in 1 .. 1 - 1 : FALSE
      OBVIOUS
    <3> QED BY <1>4, <1>5, <1>6, <1>7, <2>1, <3>1, <3>2, <3>3 DEF McfgInv
  <2> QED BY <2>1, <2>2, <2>3, <2>4 DEF IInv, FaultsExplained
<1>8. CASE ~First("MCFG").valid
  <2>1. mcfg_segment_groups' = mcfg_segment_groups /\ pc' = pc /\ t' = t + 1
    BY <1>5, <1>8 DEF acpi_parse_mcfg, acpi_is_valid_sdt_checksum
  <2>2. RootInv' /\ \A k \in Places("APIC") : k < t' => k < t \/ k = t
    BY <1>1, <2>1, NextTable DEF IInv
  <2>3. MadtInv'
    BY <1>1, <1>4, <2>1, <2>2, MadtKept, ParsedKept DEF IInv, Parsing
  <2>4. ~acpi_has_parsed("MCFG")
    BY <1>8 DEF IInv, McfgInv
  <2>5. McfgInv'
    BY <1>1, <2>1, <2>4, ParsedKept DEF McfgInv
  <2> QED BY <1>1, <2>1, <2>2, <2>3, <2>5 DEF IInv, FaultsExplained
<1> QED BY <1>7, <1>8

LEMMA Group == IInv /\ McfgGroup => IInv'
<1> SUFFICES ASSUME IInv, McfgGroup PROVE IInv'
  OBVIOUS
<1>1. /\ pc = "mcfg" /\ pc' = pc /\ g <= Len(mcfg.groups) /\ g' = g + 1
      /\ mcfg_segment_groups' = Append(mcfg_segment_groups, mcfg.groups[g])
      /\ fw' = fw /\ t' = t /\ rsdt' = rsdt /\ acpi_parsed_tables' = acpi_parsed_tables
      /\ lapic_base_addr' = lapic_base_addr /\ mcfg' = mcfg /\ UNCHANGED madtVars
  BY DEF McfgGroup, rootVars, vector_add
<1>2. RootInv'
  BY <1>1 DEF IInv, RootInv, Parsing
<1>3. MadtInv'
  BY <1>1, MadtKept, ParsedKept DEF IInv, Parsing
<1>4. /\ fw \in Firmwares /\ Places("MCFG") # {} /\ mcfg = First("MCFG") /\ mcfg.valid
      /\ t \in Places("MCFG") /\ g \in 1 .. Len(mcfg.groups) + 1
      /\ mcfg_segment_groups \in Seq(ToSet(mcfg.groups))
      /\ Len(mcfg_segment_groups) = g - 1
      /\ \A k \in 1 .. g - 1 : mcfg_segment_groups[k] = mcfg.groups[k]
  BY <1>1 DEF IInv, RootInv, McfgInv
<1>5. First("MCFG")' = First("MCFG") /\ Places("MCFG")' = Places("MCFG")
  BY <1>1, FwKept
<1>6. Len(mcfg.groups) \in Nat /\ g \in 1 .. Len(mcfg.groups) /\ mcfg.groups[g] \in ToSet(mcfg.groups)
  <2>1. TableOK(mcfg)
    BY <1>4, FirstIs
  <2>2. Len(mcfg.groups) \in Nat /\ DOMAIN mcfg.groups = 1 .. Len(mcfg.groups)
    BY <2>1 DEF TableOK
  <2> QED BY <1>1, <1>4, <2>2 DEF ToSet
<1>7. /\ mcfg_segment_groups' \in Seq(ToSet(mcfg.groups))
      /\ Len(mcfg_segment_groups') = g
      /\ mcfg_segment_groups'[g] = mcfg.groups[g]
      /\ \A k \in 1 .. g - 1 : mcfg_segment_groups'[k] = mcfg.groups[k]
  <2> DEFINE G == ToSet(mcfg.groups)
             x == mcfg.groups[g]
  <2>1. mcfg_segment_groups \in Seq(G) /\ x \in G
    BY <1>4, <1>6
  <2> HIDE DEF G, x
  <2>2. /\ Append(mcfg_segment_groups, x) \in Seq(G)
        /\ Len(Append(mcfg_segment_groups, x)) = g
        /\ Append(mcfg_segment_groups, x)[g] = x
        /\ \A k \in 1 .. g - 1 : Append(mcfg_segment_groups, x)[k] = mcfg_segment_groups[k]
    BY <1>4, <1>6, <2>1
  <2> QED BY <1>1, <1>4, <2>2 DEF G, x
<1>8. \A k \in 1 .. (g + 1) - 1 : mcfg_segment_groups'[k] = mcfg.groups[k]
  <2> TAKE k \in 1 .. (g + 1) - 1
  <2>1. k = g \/ k \in 1 .. g - 1
    BY <1>6
  <2> QED BY <1>7, <2>1
<1>9. g + 1 \in 1 .. Len(mcfg.groups) + 1 /\ g = (g + 1) - 1
  BY <1>6
<1>10. McfgInv'
  BY <1>1, <1>4, <1>5, <1>7, <1>8, <1>9 DEF McfgInv
<1> QED BY <1>1, <1>2, <1>3, <1>10 DEF IInv, FaultsExplained

LEMMA Groups == IInv /\ McfgDone => IInv'
<1> SUFFICES ASSUME IInv, McfgDone PROVE IInv'
  OBVIOUS
<1>1. /\ pc = "mcfg" /\ pc' = "tables" /\ g > Len(mcfg.groups)
      /\ acpi_parsed_tables' = vector_add(acpi_parsed_tables, "MCFG")
      /\ fw' = fw /\ t' = t + 1 /\ rsdt' = rsdt
      /\ lapic_base_addr' = lapic_base_addr /\ mcfg' = mcfg
      /\ mcfg_segment_groups' = mcfg_segment_groups /\ UNCHANGED madtVars
  BY DEF McfgDone, rootVars, mcfgVars
<1>2. acpi_parsed_tables' \in Seq(handlers) /\ (acpi_has_parsed("APIC")' => acpi_has_parsed("APIC"))
  <2>1. acpi_parsed_tables \in Seq(handlers)
    BY <1>1 DEF IInv, RootInv, Parsing
  <2> QED BY <1>1, <2>1, ParsedAdded DEF handlers
<1>3. RootInv'
  BY <1>1, <1>2, FirmwareIs DEF IInv, RootInv, Parsing
<1>4. /\ fw \in Firmwares /\ Places("MCFG") # {} /\ mcfg = First("MCFG") /\ mcfg.valid
      /\ t \in Places("MCFG") /\ g \in 1 .. Len(mcfg.groups) + 1
      /\ mcfg_segment_groups \in Seq(ToSet(mcfg.groups))
      /\ Len(mcfg_segment_groups) = g - 1
      /\ \A k \in 1 .. g - 1 : mcfg_segment_groups[k] = mcfg.groups[k]
  BY <1>1 DEF IInv, RootInv, McfgInv
<1>5. MadtInv'
  <2>1. \A k \in Places("APIC") : k \in Nat /\ t \in Nat /\ k # t
    BY <1>4, FirmwareIs DEF Places, IInv, RootInv
  <2>2. \A k \in Places("APIC") : k < t' => k < t
    BY <1>1, <2>1
  <2> QED BY <1>1, <1>2, <2>2, MadtKept DEF IInv, Parsing
<1>6. mcfg_segment_groups = mcfg.groups
  <2> DEFINE G == ToSet(mcfg.groups)
             s == mcfg.groups
  <2>1. TableOK(mcfg)
    BY <1>4, FirstIs
  <2>2. s \in Seq(G) /\ mcfg_segment_groups \in Seq(G)
    BY <1>4, <2>1 DEF TableOK
  <2>3. Len(mcfg_segment_groups) = Len(s) /\ \A k \in 1 .. Len(s) : mcfg_segment_groups[k] = s[k]
    <3>1. Len(s) \in Nat
      BY <2>2
    <3>2. g - 1 = Len(s)
      BY <1>1, <1>4, <3>1
    <3> QED BY <1>4, <3>2
  <2> HIDE DEF G, s
  <2>4. mcfg_segment_groups = s
    BY <2>2, <2>3
  <2> QED BY <2>4 DEF s
<1>7. McfgInv'
  <2>1. First("MCFG")' = First("MCFG") /\ Places("MCFG")' = Places("MCFG")
    BY <1>1, FwKept
  <2> QED BY <1>1, <1>4, <1>6, <2>1 DEF McfgInv
<1> QED BY <1>1, <1>3, <1>5, <1>7 DEF IInv, FaultsExplained

LEMMA LapicInit == IInv /\ lapic_init => IInv'
<1> SUFFICES ASSUME IInv, lapic_init PROVE IInv'
  OBVIOUS
<1>1. /\ pc = "lapic" /\ pc' = "booted" /\ lapic_base_addr' = local_apic_addr /\ vectors[0] # NULL
      /\ fw' = fw /\ t' = t /\ rsdt' = rsdt /\ acpi_parsed_tables' = acpi_parsed_tables
      /\ hdr' = hdr /\ i' = i /\ vectors' = vectors /\ local_apic_addr' = local_apic_addr
      /\ UNCHANGED mcfgVars
  BY DEF lapic_init, rootVars, madtVars
<1>2. RootInv'
  BY <1>1 DEF IInv, RootInv, Parsing
<1>3. MadtInv'
  <2>1. /\ First("APIC")' = First("APIC") /\ Places("APIC")' = Places("APIC")
        /\ Entries' = Entries /\ Values' = Values /\ \A n : AddressAfter(n)' = AddressAfter(n)
    BY <1>1, FwKept
  <2>2. PICK n \in 0 .. Len(Entries) :
          Walked(n) /\ (acpi_has_parsed("APIC") /\ pc # "madt" => n = Len(Entries))
    BY <1>1 DEF IInv, MadtInv
  <2>3. Walked(n)'
    BY <1>1, <2>1, <2>2, HoldsKept DEF Walked, OffsetOf
  <2>4. acpi_has_parsed("APIC")' <=> acpi_has_parsed("APIC")
    BY <1>1, ParsedKept
  <2>5. \E m \in 0 .. Len(Entries') :
          /\ Walked(m)'
          /\ acpi_has_parsed("APIC")' /\ pc' # "madt" => m = Len(Entries')
    BY <1>1, <2>1, <2>2, <2>3, <2>4
  <2>6. /\ Places("APIC") # {} /\ First("APIC").valid /\ hdr = First("APIC")
        /\ vectors \in [0 .. 4 -> Seq(Values)]
    BY <1>1 DEF IInv, MadtInv
  <2>7. acpi_has_parsed("APIC") => \A k \in DOMAIN Entries : Entries[k].type \in KnownTypes
    BY DEF IInv, MadtInv
  <2> QED BY <1>1, <2>1, <2>4, <2>5, <2>6, <2>7 DEF MadtInv
<1>4. McfgInv'
  BY <1>1, McfgKept, ParsedKept DEF IInv
<1> QED BY <1>1, <1>2, <1>3, <1>4 DEF IInv, FaultsExplained

LEMMA StutterKeeps == IInv /\ UNCHANGED vars => IInv'
<1> SUFFICES ASSUME IInv, UNCHANGED vars PROVE IInv'
  OBVIOUS
<1>1. /\ fw' = fw /\ stray' = stray /\ pc' = pc /\ t' = t /\ rsdt' = rsdt
      /\ acpi_parsed_tables' = acpi_parsed_tables
      /\ lapic_base_addr' = lapic_base_addr /\ rsdp_v1' = rsdp_v1
      /\ hdr' = hdr /\ i' = i /\ vectors' = vectors /\ local_apic_addr' = local_apic_addr
      /\ mcfg' = mcfg /\ mcfg_segment_groups' = mcfg_segment_groups /\ g' = g
  BY DEF vars, rootVars, madtVars, mcfgVars
<1>2. /\ \A s : First(s)' = First(s) /\ Places(s)' = Places(s)
      /\ Entries' = Entries /\ Values' = Values /\ \A n : AddressAfter(n)' = AddressAfter(n)
  BY <1>1, FwKept
<1>3. (acpi_has_parsed("APIC")' <=> acpi_has_parsed("APIC"))
      /\ (acpi_has_parsed("MCFG")' <=> acpi_has_parsed("MCFG"))
  BY <1>1, ParsedKept
<1>4. \A n : Walked(n)' <=> Walked(n)
  BY <1>1, <1>2, HoldsKept DEF Walked, OffsetOf
<1>5. RootInv'
  BY <1>1 DEF IInv, RootInv
<1>6. MadtInv'
  BY <1>1, <1>2, <1>3, <1>4 DEF IInv, MadtInv
<1>7. McfgInv'
  BY <1>1, <1>2, <1>3 DEF IInv, McfgInv
<1>8. FaultsExplained'
  BY <1>1, <1>2 DEF IInv, FaultsExplained
<1> QED BY <1>5, <1>6, <1>7, <1>8 DEF IInv

LEMMA StepKeeps == IInv /\ [Next]_vars => IInv'
BY Panic, Fault, ParseRsdp, ParseRsdt, Skip, AllTables, ParseMadt, Entry, WalkFails, WalkDone,
   ParseMcfg, Group, Groups, LapicInit, StutterKeeps DEF Next

-----------------------------------------------------------------------------
\* The theorems

LEMMA Invariance == Spec => []IInv
BY InitInv, StepKeeps, PTL DEF Spec

\* For every firmware: the variables keep their types, and the walk over the
\* MADT never gets past the end of the table (madt.c:46-115).
THEOREM TypeCorrect == Spec => []TypeOK
<1>1. IInv => TypeOK
  <2> SUFFICES ASSUME IInv PROVE TypeOK
    OBVIOUS
  <2>1. ASSUME hdr # NULL PROVE i \in 0 .. EntriesLength(hdr)
    <3>1. fw \in Firmwares /\ Places("APIC") # {} /\ hdr = First("APIC")
      BY <2>1 DEF IInv, RootInv, MadtInv
    <3>2. TableOK(hdr) /\ Entries = hdr.entries /\ Len(Entries) \in Nat
      BY <3>1, MadtIs
    <3>3. CASE vectors[0] = NULL
      <4>1. i = 0 /\ OffsetOf(hdr, 0 + 1) = 0 /\ 0 \in 0 .. Len(hdr.entries)
        BY <3>2, <3>3 DEF IInv, MadtInv, TableOK, OffsetOf
      <4> QED BY <3>2, <4>1, EntryIs
    <3>4. CASE vectors[0] # NULL
      <4>1. PICK n \in 0 .. Len(Entries) : Walked(n)
        BY <3>4 DEF IInv, MadtInv
      <4> QED BY <3>1, <3>2, <4>1, EntryIs DEF Walked
    <3> QED BY <3>3, <3>4
  <2>2. acpi_parsed_tables # NULL => ToSet(acpi_parsed_tables) \subseteq {"APIC", "MCFG"}
    <3>1. acpi_parsed_tables # NULL => acpi_parsed_tables \in Seq({"APIC", "MCFG"})
      BY DEF IInv, RootInv, handlers
    <3> QED BY <3>1 DEF ToSet
  <2> QED BY <2>1, <2>2 DEF IInv, RootInv, MadtInv, TypeOK, Parsing
<1> QED BY <1>1, Invariance, PTL

\* For every MADT and MCFG, and however often and in which order the RSDT lists
\* tables: the kernel's copies are the first entries of the first MADT, all of
\* them once it counts as parsed, and the segment groups are those of the first
\* MCFG (madt.c:23-137, mcfg.c:18-46).
THEOREM CopiesFaithful == Spec => []TablesAsListed
<1>1. IInv => TablesAsListed
  <2> SUFFICES ASSUME IInv PROVE TablesAsListed
    OBVIOUS
  <2>1. \A n : HoldsIn(vectors, n) <=> Holds(n)
    BY DEF HoldsIn, Holds
  <2>2. MadtAsListed
    BY <2>1 DEF IInv, MadtInv, Walked, MadtAsListed
  <2>3. McfgAsListed
    BY DEF IInv, McfgInv, McfgAsListed
  <2> QED BY <2>2, <2>3 DEF TablesAsListed
<1> QED BY <1>1, Invariance, PTL

\* For every firmware: a fault has one of the listed causes, and an MADT with
\* an entry of an unknown type is not among them (acpi.c:111-162, lapic.c:14-25).
THEOREM FaultsAccounted == Spec => []FaultsExplained
<1>1. IInv => FaultsExplained
  BY DEF IInv
<1> QED BY <1>1, Invariance, PTL
=============================================================================
