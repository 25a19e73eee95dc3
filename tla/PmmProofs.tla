------------------------------ MODULE PmmProofs ------------------------------
(***************************************************************************)
(* Proofs about the physical memory manager, for every memory map, page    *)
(* size and bitmap page size.                                              *)
(***************************************************************************)
EXTENDS Pmm, FiniteSetTheorems, SequenceTheorems, TLAPS

-----------------------------------------------------------------------------
\* Arithmetic

\* Every nonempty set of natural numbers has a least element.
LEMMA LeastNat ==
  ASSUME NEW T \in SUBSET Nat, T # {}
  PROVE  \E x \in T : \A y \in T : x <= y
<1> DEFINE R == {ss \in Nat \X Nat : ss[1] < ss[2]}
<1>1. OpToRel(<, Nat) = R
  BY Zenon DEF OpToRel
<1>2. IsWellFoundedOn(R, Nat)
  BY <1>1, NatLessThanWellFounded, Zenon
<1>3. PICK x \in T : \A y \in T : ~(<<y, x>> \in R)
  <2> HIDE DEF R
  <2> QED BY <1>2, WFMin
<1>4. ASSUME NEW y \in T, y < x PROVE FALSE
  <2>1. <<y, x>> \in Nat \X Nat
    OBVIOUS
  <2> QED BY <1>3, <1>4, <2>1
<1> QED BY <1>4

\* Min(T) of FiniteSetsExt is the least element.
LEMMA MinIsLeast ==
  ASSUME NEW T \in SUBSET Nat, T # {}
  PROVE  Min(T) \in T /\ \A y \in T : Min(T) <= y
BY LeastNat DEF Min

\* Quotient and remainder by a positive divisor.
LEMMA DivMod ==
  ASSUME NEW a \in Nat, NEW B \in Nat \ {0}
  PROVE  /\ a \div B \in Nat
         /\ a % B \in 0 .. B - 1
         /\ a = (B * (a \div B)) + (a % B)
OBVIOUS

\* Division is monotone.
LEMMA DivMonotone ==
  ASSUME NEW a \in Nat, NEW b \in Nat, NEW B \in Nat \ {0}, a <= b
  PROVE  a \div B <= b \div B
OBVIOUS

\* Quotient and remainder determine the number.
LEMMA DivModInjective ==
  ASSUME NEW a \in Nat, NEW b \in Nat, NEW B \in Nat \ {0},
         a \div B = b \div B, a % B = b % B
  PROVE  a = b
OBVIOUS

\* So do a multiple of the divisor and a rest below it.
LEMMA RestOfMultiple ==
  ASSUME NEW B \in Nat \ {0}, NEW q \in Nat, NEW r \in 0 .. B - 1
  PROVE  ((B * q) + r) % B = r
OBVIOUS

\* Rounding a down to a multiple of B, counted from a multiple b below a.
LEMMA RoundDown ==
  ASSUME NEW B \in Nat \ {0}, NEW b \in Nat, b % B = 0, NEW a \in Nat, a >= b
  PROVE  a - (a % B) = b + (B * ((a - b) \div B))
<1> DEFINE m == b \div B
           q == (a - b) \div B
           r == (a - b) % B
<1>1. m \in Nat /\ b = B * m
  OBVIOUS
<1>2. q \in Nat /\ r \in 0 .. B - 1 /\ a - b = (B * q) + r
  OBVIOUS
<1> HIDE DEF m, q, r
<1>3. B * (m + q) = (B * m) + (B * q) /\ m + q \in Nat /\ B * q \in Nat /\ B * m \in Nat
  BY <1>1, <1>2
<1>4. a = (B * (m + q)) + r
  BY <1>1, <1>2, <1>3
<1>5. a % B = r
  BY <1>2, <1>3, <1>4, RestOfMultiple
<1> QED BY <1>1, <1>2, <1>3, <1>4, <1>5 DEF q

-----------------------------------------------------------------------------
\* The memory map

\* An entry's base and length are numbers and its length is a whole number of
\* pages.
LEMMA EntryType ==
  ASSUME NEW i \in UsableEntries
  PROVE  /\ i \in 1 .. Len(memmap_entries)
         /\ memmap_entries[i].base \in Nat
         /\ memmap_entries[i].length \in Nat
         /\ PagesIn(i) \in Nat
         /\ memmap_entries[i].length = PAGE * PagesIn(i)
<1> DEFINE E == [base : Nat, length : Nat, type : MemmapTypes]
<1>1. memmap_entries \in Seq(E) /\ i \in 1 .. Len(memmap_entries)
  BY MemmapAssumption DEF UsableEntries
<1>2. memmap_entries[i] \in E
  <2> HIDE DEF E
  <2> QED BY <1>1, ElementOfSeq
<1>3. memmap_entries[i].base \in Nat /\ memmap_entries[i].length \in Nat
  BY <1>2
<1>4. memmap_entries[i].length % PAGE = 0 /\ PAGE \in Nat \ {0}
  BY MemmapAssumption, SizeAssumption
<1>5. /\ memmap_entries[i].length \div PAGE \in Nat
      /\ memmap_entries[i].length =
           (PAGE * (memmap_entries[i].length \div PAGE)) + (memmap_entries[i].length % PAGE)
  BY <1>3, <1>4, DivMod
<1>6. memmap_entries[i].length = PAGE * (memmap_entries[i].length \div PAGE)
  BY <1>3, <1>4, <1>5
<1> QED BY <1>1, <1>3, <1>5, <1>6 DEF PagesIn

\* The same, without the product, for the steps that only count.
LEMMA EntryPages ==
  /\ UsableEntries \subseteq 1 .. Len(memmap_entries)
  /\ UsableEntries \in SUBSET Nat
  /\ \A i \in UsableEntries : PagesIn(i) \in Nat
<1>1. ASSUME NEW i \in UsableEntries
      PROVE  i \in 1 .. Len(memmap_entries) /\ PagesIn(i) \in Nat /\ i \in Nat
  BY EntryType, MemmapAssumption
<1> QED BY <1>1

\* The memory map is finite.
LEMMA LenType == Len(memmap_entries) \in Nat
BY MemmapAssumption

\* The pages before an entry are finitely many, so current_index is a number.
LEMMA PagesBeforeFinite ==
  ASSUME NEW i \in Int
  PROVE  IsFiniteSet(PagesBefore(i))
<1> DEFINE K == {k \in UsableEntries : k < i}
           f == [j \in K |-> {j} \X (0 .. PagesIn(j) - 1)]
           S == {{j} \X (0 .. PagesIn(j) - 1) : j \in K}
<1>1. IsFiniteSet(K)
  <2>1. IsFiniteSet(1 .. Len(memmap_entries))
    BY LenType, FS_Interval
  <2>2. K \in SUBSET (1 .. Len(memmap_entries))
    BY EntryPages
  <2> QED BY <2>1, <2>2, FS_Subset
<1>2. f \in Surjection(K, S)
  BY DEF Surjection
<1>3. IsFiniteSet(S)
  BY <1>1, <1>2, FS_Surjection
<1>4. \A T \in S : IsFiniteSet(T)
  <2> SUFFICES ASSUME NEW j \in K PROVE IsFiniteSet({j} \X (0 .. PagesIn(j) - 1))
    OBVIOUS
  <2>1. IsFiniteSet(0 .. PagesIn(j) - 1)
    BY EntryPages, FS_Interval
  <2> QED BY <2>1, FS_Singleton, FS_Product
<1> QED BY <1>3, <1>4, FS_UNION DEF PagesBefore

\* current_index starts at 0 and grows by the pages of each usable entry.
LEMMA CurrentIndexStep ==
  ASSUME NEW i \in 1 .. Len(memmap_entries)
  PROVE  /\ current_index[i] \in Nat
         /\ current_index[i + 1] =
              current_index[i] + (IF i \in UsableEntries THEN PagesIn(i) ELSE 0)
<1>0. i \in Int /\ i + 1 \in Int /\ i \in 1 .. Len(memmap_entries) + 1 /\ i + 1 \in 1 .. Len(memmap_entries) + 1
  BY LenType
<1>1. IsFiniteSet(PagesBefore(i)) /\ Cardinality(PagesBefore(i)) \in Nat
  BY <1>0, PagesBeforeFinite, FS_CardinalityType
<1>2. CASE i \notin UsableEntries
  <2>1. {k \in UsableEntries : k < i + 1} = {k \in UsableEntries : k < i}
    <3>1. \A k \in UsableEntries : k \in Int /\ k # i
      BY <1>2, EntryPages, LenType
    <3>2. \A k \in UsableEntries : k < i + 1 <=> k < i
      BY <1>0, <3>1
    <3> QED BY <3>2
  <2>2. PagesBefore(i + 1) = PagesBefore(i)
    BY <2>1 DEF PagesBefore
  <2> QED BY <1>0, <1>1, <1>2, <2>2 DEF current_index
<1>3. CASE i \in UsableEntries
  <2> DEFINE New == {i} \X (0 .. PagesIn(i) - 1)
  <2>1. {k \in UsableEntries : k < i + 1} = {k \in UsableEntries : k < i} \cup {i}
    <3>1. \A k \in UsableEntries : k \in Int
      BY EntryPages, LenType
    <3>2. \A k \in UsableEntries : k < i + 1 <=> k < i \/ k = i
      BY <1>0, <3>1
    <3> QED BY <1>3, <3>2, Zenon
  <2>2. PagesBefore(i + 1) = PagesBefore(i) \cup New
    BY <2>1, Zenon DEF PagesBefore
  <2>3. PagesBefore(i) \cap New = {}
    <3>1. \A x \in PagesBefore(i) : \E j \in {k \in UsableEntries : k < i} : x \in {j} \X (0 .. PagesIn(j) - 1)
      BY Zenon DEF PagesBefore
    <3>2. \A j \in {k \in UsableEntries : k < i} : j # i
      BY <1>0, EntryPages
    <3> QED BY <3>1, <3>2
  <2>4. IsFiniteSet(New) /\ Cardinality(New) = PagesIn(i)
    <3>1. /\ IsFiniteSet(0 .. PagesIn(i) - 1)
          /\ Cardinality(0 .. PagesIn(i) - 1) = PagesIn(i)
      <4>1. PagesIn(i) \in Nat /\ 0 \in Int /\ PagesIn(i) - 1 \in Int
        BY <1>3, EntryPages
      <4>2. Cardinality(0 .. PagesIn(i) - 1) = IF 0 > PagesIn(i) - 1 THEN 0 ELSE PagesIn(i) - 1 - 0 + 1
        BY <4>1, FS_Interval
      <4>3. IsFiniteSet(0 .. PagesIn(i) - 1)
        BY <4>1, FS_Interval
      <4> QED BY <4>1, <4>2, <4>3
    <3>2. IsFiniteSet({i}) /\ Cardinality({i}) = 1
      BY FS_Singleton
    <3>3. IsFiniteSet(New) /\ Cardinality(New) = Cardinality({i}) * Cardinality(0 .. PagesIn(i) - 1)
      BY <3>1, <3>2, FS_Product
    <3> QED BY <1>3, EntryPages, <3>1, <3>2, <3>3
  <2>5. Cardinality(PagesBefore(i) \cup New)
          = Cardinality(PagesBefore(i)) + Cardinality(New) - Cardinality(PagesBefore(i) \cap New)
    BY <1>1, <2>4, FS_Union
  <2>6. Cardinality(PagesBefore(i + 1)) = Cardinality(PagesBefore(i)) + PagesIn(i)
    <3>1. PagesIn(i) \in Nat
      BY <1>3, EntryPages
    <3>2. Cardinality(PagesBefore(i) \cap New) = 0
      BY <2>3, FS_EmptySet
    <3>3. Cardinality(PagesBefore(i + 1)) = Cardinality(PagesBefore(i)) + PagesIn(i) - 0
      BY <2>2, <2>4, <2>5, <3>2
    <3> QED BY <1>1, <3>1, <3>3
  <2> QED BY <1>0, <1>1, <1>3, <2>6 DEF current_index
<1> QED BY <1>2, <1>3

\* It starts at 0 and is a number throughout.
LEMMA CurrentIndexNat ==
  /\ current_index[1] = 0
  /\ \A i \in 1 .. Len(memmap_entries) + 1 : current_index[i] \in Nat
<1>1. ASSUME NEW i \in 1 .. Len(memmap_entries) + 1 PROVE current_index[i] \in Nat
  <2>1. IsFiniteSet(PagesBefore(i))
    BY LenType, PagesBeforeFinite
  <2> QED BY <2>1, FS_CardinalityType DEF current_index
<1>2. current_index[1] = 0
  <2>1. \A k \in UsableEntries : ~(k < 1)
    BY EntryPages, LenType
  <2>2. PagesBefore(1) = {}
    BY <2>1 DEF PagesBefore
  <2>3. 1 \in 1 .. Len(memmap_entries) + 1
    BY LenType
  <2> QED BY <2>2, <2>3, FS_EmptySet DEF current_index
<1> QED BY <1>1, <1>2

\* There are finitely many usable pages.
LEMMA UsableNat == pmm_usable_pages \in Nat
BY CurrentIndexNat, LenType DEF pmm_usable_pages

\* The index of an entry's first page is past the pages of the entries before.
LEMMA CurrentIndexMonotone ==
  ASSUME NEW i \in 1 .. Len(memmap_entries) + 1, NEW j \in 1 .. Len(memmap_entries) + 1, i <= j
  PROVE  current_index[i] <= current_index[j]
<1>1. i \in Int /\ j \in Int
  BY LenType
<1>2. \A k \in UsableEntries : k < i => k < j
  BY <1>1, EntryPages, LenType
<1>3. PagesBefore(i) \in SUBSET PagesBefore(j)
  BY <1>2, Zenon DEF PagesBefore
<1>4. IsFiniteSet(PagesBefore(j))
  BY <1>1, PagesBeforeFinite
<1>5. Cardinality(PagesBefore(i)) <= Cardinality(PagesBefore(j))
  BY <1>3, <1>4, FS_Subset
<1> QED BY <1>5 DEF current_index

\* No entry's pages reach past the last usable page.
LEMMA EntryWithinUsable ==
  ASSUME NEW i \in UsableEntries
  PROVE  current_index[i] + PagesIn(i) <= pmm_usable_pages
<1>1. /\ i \in 1 .. Len(memmap_entries)
      /\ i + 1 \in 1 .. Len(memmap_entries) + 1
      /\ Len(memmap_entries) + 1 \in 1 .. Len(memmap_entries) + 1
      /\ i + 1 \in Int /\ Len(memmap_entries) + 1 \in Int
  BY EntryPages, LenType
<1>2. current_index[i + 1] = current_index[i] + PagesIn(i)
  BY <1>1, CurrentIndexStep
<1>3. current_index[i + 1] <= current_index[Len(memmap_entries) + 1]
  BY <1>1, LenType, CurrentIndexMonotone
<1> QED BY <1>2, <1>3 DEF pmm_usable_pages

\* An index below current_index of entry m lies in a usable entry before m.
LEMMA EntryReached ==
  ASSUME NEW k \in Nat, NEW m \in 1 .. Len(memmap_entries) + 1, k < current_index[m]
  PROVE  \E h \in UsableEntries :
           h < m /\ current_index[h] <= k /\ k < current_index[h] + PagesIn(h)
<1> DEFINE T == {n \in 1 .. Len(memmap_entries) + 1 : k < current_index[n]}
<1>1. T \in SUBSET Nat /\ T # {} /\ m \in T
  BY LenType
<1>2. PICK n \in T : \A y \in T : n <= y
  <2> HIDE DEF T
  <2> QED BY <1>1, LeastNat
<1>3. n \in 1 .. Len(memmap_entries) + 1 /\ k < current_index[n] /\ n <= m
  BY <1>1, <1>2
<1>4. n # 1
  BY <1>3, CurrentIndexNat
<1>5. n - 1 \in 1 .. Len(memmap_entries) /\ n - 1 \in 1 .. Len(memmap_entries) + 1 /\ (n - 1) + 1 = n
  BY <1>3, <1>4, LenType
<1>6. ~(k < current_index[n - 1])
  <2>1. n - 1 \notin T
    BY <1>2, <1>3, <1>5, LenType
  <2> QED BY <1>5, <2>1
<1>7. /\ current_index[n - 1] \in Nat
      /\ current_index[n] = current_index[n - 1] + (IF n - 1 \in UsableEntries THEN PagesIn(n - 1) ELSE 0)
  BY <1>5, CurrentIndexStep
<1>8. n - 1 \in UsableEntries
  BY <1>3, <1>6, <1>7
<1>9. n - 1 < m
  BY <1>3, LenType
<1> QED BY <1>3, <1>6, <1>7, <1>8, <1>9

-----------------------------------------------------------------------------
\* Pages by index and by address

\* Scaling by a positive factor keeps the order and is injective.
LEMMA Scale ==
  ASSUME NEW c \in Nat \ {0}, NEW a \in Nat, NEW b \in Nat
  PROVE  /\ c * a \in Nat
         /\ a < b => c * a < c * b
         /\ c * a = c * b => a = b
OBVIOUS

\* The entry h that the search by index stops at holds the index.
LEMMA AddressOfIndex ==
  ASSUME NEW k \in 0 .. pmm_usable_pages - 1
  PROVE  \E h \in UsableEntries :
           /\ current_index[h] <= k /\ k < current_index[h] + PagesIn(h)
           /\ pmm_get_address_by_index(k) = memmap_entries[h].base + (PAGE * (k - current_index[h]))
<1> DEFINE hits == {i \in UsableEntries : k < current_index[i] + PagesIn(i)}
           h == Min(hits)
<1>1. k \in Nat /\ k < current_index[Len(memmap_entries) + 1]
  BY UsableNat DEF pmm_usable_pages
<1>2. Len(memmap_entries) + 1 \in 1 .. Len(memmap_entries) + 1
  BY LenType
<1>3. hits # {}
  <2>1. PICK g \in UsableEntries : k < current_index[g] + PagesIn(g)
    BY <1>1, <1>2, EntryReached
  <2>2. g \in hits
    BY <2>1
  <2> QED BY <2>2
<1>4. hits \in SUBSET Nat
  <2>1. hits \subseteq UsableEntries
    OBVIOUS
  <2> HIDE DEF hits
  <2> QED BY <2>1, EntryPages
<1>5. h \in hits /\ \A y \in hits : h <= y
  <2> HIDE DEF hits
  <2> QED BY <1>3, <1>4, MinIsLeast
<1>6. h \in 1 .. Len(memmap_entries) + 1 /\ h \in Nat
  <2> HIDE DEF h
  <2>1. h \in UsableEntries
    BY <1>5
  <2> QED BY <2>1, EntryPages, LenType
<1>7. current_index[h] <= k
  <2> HIDE DEF h
  <2>1. current_index[h] \in Nat
    BY <1>6, CurrentIndexNat
  <2>2. CASE k < current_index[h]
    <3>1. PICK g \in UsableEntries : g < h /\ k < current_index[g] + PagesIn(g)
      BY <1>1, <1>6, <2>2, EntryReached
    <3>2. g \in hits /\ g \in Nat
      BY <3>1, EntryPages, LenType
    <3> QED BY <1>5, <1>6, <3>1, <3>2
  <2> QED BY <1>1, <2>1, <2>2
<1>8. pmm_get_address_by_index(k) = memmap_entries[h].base + (PAGE * (k - current_index[h]))
  BY <1>3 DEF pmm_get_address_by_index
<1> QED BY <1>5, <1>7, <1>8

\* An index past the last usable page has no address.
LEMMA NoAddress ==
  ASSUME NEW k \in Nat, k >= pmm_usable_pages
  PROVE  pmm_get_address_by_index(k) = UINT64_MAX
<1>1. ASSUME NEW i \in UsableEntries PROVE ~(k < current_index[i] + PagesIn(i))
  <2>1. current_index[i] \in Nat /\ PagesIn(i) \in Nat
    BY EntryPages, LenType, CurrentIndexNat
  <2> QED BY <2>1, EntryWithinUsable, UsableNat
<1> QED BY <1>1 DEF pmm_get_address_by_index

\* The address of a usable page: a number, aligned as its entry is, neither page
\* 0 nor the sentinel, inside the entry that holds the index.
LEMMA AddressInEntry ==
  ASSUME NEW k \in 0 .. pmm_usable_pages - 1
  PROVE  \E h \in UsableEntries :
           LET a == pmm_get_address_by_index(k)
           IN  /\ a \in Nat /\ a # UINT64_MAX /\ a # 0 /\ a \in 0 .. UINT64_MAX
               /\ InEntry(a, h)
               /\ current_index[h] <= k /\ k < current_index[h] + PagesIn(h)
               /\ a = memmap_entries[h].base + (PAGE * (k - current_index[h]))
<1>1. PICK h \in UsableEntries :
        /\ current_index[h] <= k /\ k < current_index[h] + PagesIn(h)
        /\ pmm_get_address_by_index(k) = memmap_entries[h].base + (PAGE * (k - current_index[h]))
  BY AddressOfIndex
<1> DEFINE x == k - current_index[h]
           a == pmm_get_address_by_index(k)
<1>2. k \in Nat /\ current_index[h] \in Nat /\ PagesIn(h) \in Nat
  BY EntryPages, LenType, CurrentIndexNat, UsableNat
<1>3. x \in Nat /\ x < PagesIn(h)
  BY <1>1, <1>2
<1>4. PAGE \in Nat \ {0}
  BY SizeAssumption
<1>5. PAGE * x \in Nat /\ PAGE * x < PAGE * PagesIn(h)
  <2> HIDE DEF x
  <2> QED BY <1>2, <1>3, <1>4, Scale
<1>6. /\ memmap_entries[h].base \in Nat /\ memmap_entries[h].length = PAGE * PagesIn(h)
      /\ memmap_entries[h].length \in Nat
  BY EntryType
<1>7. /\ memmap_entries[h].base + memmap_entries[h].length <= UINT64_MAX
      /\ memmap_entries[h].base >= PAGE
      /\ UINT64_MAX \in Nat
  BY SentinelAssumption, MemmapAssumption
<1>8. a = memmap_entries[h].base + (PAGE * x)
  BY <1>1
<1>9. /\ a \in Nat /\ memmap_entries[h].base <= a
      /\ a < memmap_entries[h].base + memmap_entries[h].length
  <2> HIDE DEF a, x
  <2> QED BY <1>5, <1>6, <1>8
<1>10. a # UINT64_MAX /\ a # 0 /\ a \in 0 .. UINT64_MAX
  <2> HIDE DEF a, x
  <2> QED BY <1>4, <1>6, <1>7, <1>9
<1>11. InEntry(a, h)
  BY <1>9 DEF InEntry
<1> QED BY <1>1, <1>8, <1>9, <1>10, <1>11

\* Two usable pages have two addresses.
LEMMA AddressInjective ==
  ASSUME NEW k \in 0 .. pmm_usable_pages - 1, NEW l \in 0 .. pmm_usable_pages - 1,
         pmm_get_address_by_index(k) = pmm_get_address_by_index(l)
  PROVE  k = l
<1> DEFINE a == pmm_get_address_by_index(k)
<1>1. PICK h \in UsableEntries :
        /\ a \in 0 .. UINT64_MAX /\ InEntry(a, h) /\ current_index[h] <= k
        /\ a = memmap_entries[h].base + (PAGE * (k - current_index[h]))
  BY AddressInEntry
<1>2. PICK g \in UsableEntries :
        /\ InEntry(a, g) /\ current_index[g] <= l
        /\ a = memmap_entries[g].base + (PAGE * (l - current_index[g]))
  BY AddressInEntry
<1>3. h = g
  BY <1>1, <1>2, MemmapAssumption
<1>4. /\ k \in Nat /\ l \in Nat /\ current_index[h] \in Nat
      /\ memmap_entries[h].base \in Nat /\ PAGE \in Nat \ {0}
  BY EntryType, EntryPages, LenType, CurrentIndexNat, UsableNat, SizeAssumption
<1>5. k - current_index[h] \in Nat /\ l - current_index[h] \in Nat
  BY <1>1, <1>2, <1>3, <1>4
<1>6. PAGE * (k - current_index[h]) = PAGE * (l - current_index[h])
  <2>1. PAGE * (k - current_index[h]) \in Nat /\ PAGE * (l - current_index[h]) \in Nat
    BY <1>4, <1>5, Scale
  <2> QED BY <1>1, <1>2, <1>3, <1>4, <2>1
<1>7. k - current_index[h] = l - current_index[h]
  BY <1>4, <1>5, <1>6, Scale
<1> QED BY <1>4, <1>7

-----------------------------------------------------------------------------
\* The bitmap's own pages and cells

\* The bitmap occupies at least one page and fits into the usable pages.
LEMMA BitmapFits ==
  /\ pmm_bitmap_pages \in Nat
  /\ 1 <= pmm_bitmap_pages /\ pmm_bitmap_pages <= pmm_usable_pages
<1>1. PICK i \in UsableEntries : PagesIn(i) >= 1
  BY MemmapAssumption
<1>2. current_index[i] \in Nat /\ PagesIn(i) \in Nat
  BY EntryPages, LenType, CurrentIndexNat
<1>3. pmm_usable_pages >= 1 /\ pmm_usable_pages \in Nat
  BY <1>1, <1>2, EntryWithinUsable, UsableNat
<1>4. BITS \in Nat /\ BITS >= 2
  BY SizeAssumption
<1> DEFINE u == pmm_usable_pages
           q == u \div BITS
           r == u % BITS
<1>5. q \in Nat /\ r \in Nat /\ u = (BITS * q) + r
  BY <1>3, <1>4, DivMod
<1>6. u < BITS => q = 0
  BY <1>3, <1>4
<1>7. q + 1 <= u
  <2>1. CASE q = 0
    BY <1>3, <2>1
  <2>2. CASE q >= 1
    <3> HIDE DEF u, q, r
    <3>1. BITS * q >= 2 * q
      BY <1>4, <1>5
    <3> QED BY <1>5, <2>2, <3>1, <1>4, <1>3
  <2> QED BY <1>5, <2>1, <2>2
<1> QED BY <1>5, <1>7 DEF pmm_bitmap_pages

\* The bit of a usable page is in one of the bitmap's pages.
LEMMA CellType ==
  ASSUME NEW i \in 0 .. pmm_usable_pages - 1
  PROVE  /\ i \div BITS \in 0 .. pmm_bitmap_pages - 1
         /\ i \div BITS \in 0 .. pmm_usable_pages - 1
         /\ BitmapPage(i) = pmm_get_address_by_index(i \div BITS)
         /\ BitmapPage(i) # UINT64_MAX
         /\ Cell(i) \in BitmapCells
<1>1. i \in Nat /\ i <= pmm_usable_pages /\ pmm_usable_pages \in Nat /\ BITS \in Nat \ {0}
  BY UsableNat, SizeAssumption
<1>2. i \div BITS \in Nat /\ pmm_usable_pages \div BITS \in Nat /\ i % BITS \in 0 .. BITS - 1
  BY <1>1, DivMod
<1>3. i \div BITS <= pmm_usable_pages \div BITS
  BY <1>1, DivMonotone
<1>4. i \div BITS \in 0 .. pmm_bitmap_pages - 1
  BY <1>2, <1>3 DEF pmm_bitmap_pages
<1>5. i \div BITS \in 0 .. pmm_usable_pages - 1
  BY <1>1, <1>4, BitmapFits
<1>6. BitmapPage(i) # UINT64_MAX
  BY <1>5, AddressInEntry DEF BitmapPage
<1>7. Cell(i) \in BitmapCells
  BY <1>2, <1>4, Zenon DEF Cell, BitmapPage, BitmapCells
<1> QED BY <1>4, <1>5, <1>6, <1>7 DEF BitmapPage

\* Two usable pages have two bits.
LEMMA CellInjective ==
  ASSUME NEW i \in 0 .. pmm_usable_pages - 1, NEW j \in 0 .. pmm_usable_pages - 1,
         Cell(i) = Cell(j)
  PROVE  i = j
<1>1. BitmapPage(i) = BitmapPage(j) /\ i % BITS = j % BITS
  BY Zenon DEF Cell
<1>2. i \div BITS \in 0 .. pmm_usable_pages - 1 /\ j \div BITS \in 0 .. pmm_usable_pages - 1
  BY CellType
<1>3. i \div BITS = j \div BITS
  BY <1>1, <1>2, AddressInjective DEF BitmapPage
<1>4. i \in Nat /\ j \in Nat /\ BITS \in Nat \ {0}
  BY UsableNat, SizeAssumption
<1> QED BY <1>1, <1>3, <1>4, DivModInjective

\* The sentinel is not the index of a page: setting its bit changes nothing.
LEMMA SentinelIndex == BitmapPage(UINT64_MAX) = UINT64_MAX
<1>1. UINT64_MAX \div BITS \in Nat
  BY SentinelAssumption, SizeAssumption, DivMod
<1> QED BY <1>1, SentinelAssumption, NoAddress DEF BitmapPage

\* The search by address yields the sentinel when no usable entry has the
\* address, and otherwise the index of the page the address lies in.
LEMMA IndexInEntry ==
  ASSUME NEW a \in 0 .. UINT64_MAX
  PROVE  \/ /\ pmm_get_index_by_address(a) = UINT64_MAX
            /\ \A i \in UsableEntries : ~InEntry(a, i)
         \/ \E i \in UsableEntries :
              /\ InEntry(a, i)
              /\ pmm_get_index_by_address(a) = current_index[i] + ((a - memmap_entries[i].base) \div PAGE)
              /\ pmm_get_index_by_address(a) \in 0 .. pmm_usable_pages - 1
              /\ (a - memmap_entries[i].base) \div PAGE \in Nat
              /\ (a - memmap_entries[i].base) \div PAGE < PagesIn(i)
<1> DEFINE hits == {i \in UsableEntries : InEntry(a, i)}
           h == Min(hits)
<1>1. CASE hits = {}
  BY <1>1 DEF pmm_get_index_by_address
<1>2. CASE hits # {}
  <2>1. hits \in SUBSET Nat
    <3>1. hits \subseteq UsableEntries
      OBVIOUS
    <3> HIDE DEF hits
    <3> QED BY <3>1, EntryPages
  <2>2. h \in hits
    <3> HIDE DEF hits
    <3> QED BY <1>2, <2>1, MinIsLeast
  <2>3. h \in UsableEntries /\ InEntry(a, h)
    <3> HIDE DEF h
    <3> QED BY <2>2
  <2>4. pmm_get_index_by_address(a) = current_index[h] + ((a - memmap_entries[h].base) \div PAGE)
    BY <1>2 DEF pmm_get_index_by_address
  <2> HIDE DEF h
  <2>5. /\ memmap_entries[h].base \in Nat /\ PagesIn(h) \in Nat
        /\ memmap_entries[h].length = PAGE * PagesIn(h)
        /\ current_index[h] \in Nat /\ PAGE \in Nat \ {0} /\ a \in Nat
    BY <2>3, EntryType, EntryPages, LenType, CurrentIndexNat, SizeAssumption, SentinelAssumption
  <2> DEFINE d == a - memmap_entries[h].base
             q == d \div PAGE
  <2>6. d \in Nat /\ d < PAGE * PagesIn(h)
    <3>1. PAGE * PagesIn(h) \in Nat
      BY <2>5, Scale
    <3> QED BY <2>3, <2>5, <3>1 DEF InEntry
  <2> HIDE DEF d
  <2>7. q \in Nat /\ d = (PAGE * q) + (d % PAGE) /\ d % PAGE \in Nat
    <3>1. /\ d \div PAGE \in Nat /\ d % PAGE \in 0 .. PAGE - 1
          /\ d = (PAGE * (d \div PAGE)) + (d % PAGE)
      BY <2>5, <2>6, DivMod
    <3>2. d % PAGE \in Nat
      BY <2>5, <3>1
    <3> QED BY <3>1, <3>2
  <2> HIDE DEF q
  <2>8. q < PagesIn(h)
    <3>1. CASE q >= PagesIn(h)
      <4>1. PAGE * q >= PAGE * PagesIn(h)
        BY <2>5, <2>7, <3>1, Scale
      <4>2. PAGE * q \in Nat /\ PAGE * PagesIn(h) \in Nat
        BY <2>5, <2>7, Scale
      <4> QED BY <2>6, <2>7, <4>1, <4>2
    <3> QED BY <2>5, <2>7, <3>1
  <2>9. pmm_get_index_by_address(a) = current_index[h] + q
    BY <2>4 DEF q, d
  <2>10. current_index[h] + PagesIn(h) <= pmm_usable_pages
    BY <2>3, EntryWithinUsable
  <2>11. pmm_get_index_by_address(a) \in 0 .. pmm_usable_pages - 1
    BY <2>5, <2>7, <2>8, <2>9, <2>10, UsableNat
  <2> QED BY <2>3, <2>4, <2>7, <2>8, <2>11 DEF q, d
<1> QED BY <1>1, <1>2

\* It is the sentinel or the index of a usable page.
LEMMA IndexOfAddress ==
  ASSUME NEW a \in 0 .. UINT64_MAX
  PROVE  \/ pmm_get_index_by_address(a) = UINT64_MAX
         \/ pmm_get_index_by_address(a) \in 0 .. pmm_usable_pages - 1
BY IndexInEntry

\* No bitmap page is page 0 or a page that can be handed out.
LEMMA BitmapPagesApart ==
  ASSUME NEW c \in BitmapCells
  PROVE  /\ c[1] # 0
         /\ \A i \in pmm_bitmap_pages .. pmm_usable_pages - 1 :
              c[1] # pmm_get_address_by_index(i)
<1>1. PICK b \in 0 .. pmm_bitmap_pages - 1 : c[1] = pmm_get_address_by_index(b)
  BY Zenon DEF BitmapCells
<1>2. b \in 0 .. pmm_usable_pages - 1
  BY BitmapFits, UsableNat
<1>3. c[1] # 0
  BY <1>1, <1>2, AddressInEntry
<1>4. ASSUME NEW i \in pmm_bitmap_pages .. pmm_usable_pages - 1
      PROVE  c[1] # pmm_get_address_by_index(i)
  <2>1. i \in 0 .. pmm_usable_pages - 1 /\ i # b
    BY BitmapFits, UsableNat
  <2> QED BY <1>1, <1>2, <2>1, AddressInjective
<1> QED BY <1>3, <1>4

-----------------------------------------------------------------------------
\* What every operation on the allocator's state keeps

\* The usable pages whose bit is set.
Allocated(p) == {i \in 0 .. pmm_usable_pages - 1 : p.bitmap[Cell(i)]}

\* The counter counts the set bits and the bitmap's own pages are marked.
Consistent(p) ==
  /\ p \in PmmStates
  /\ p.num = Cardinality(Allocated(p))
  /\ 0 .. pmm_bitmap_pages - 1 \subseteq Allocated(p)

\* And finitely many allocated ones.
LEMMA AllocatedFinite ==
  ASSUME NEW p
  PROVE  IsFiniteSet(Allocated(p)) /\ Cardinality(Allocated(p)) \in Nat
<1>1. IsFiniteSet(0 .. pmm_usable_pages - 1)
  BY UsableNat, FS_Interval
<1>2. Allocated(p) \in SUBSET (0 .. pmm_usable_pages - 1)
  BY DEF Allocated
<1> QED BY <1>1, <1>2, FS_Subset, FS_CardinalityType

\* A page is free exactly when its bit is clear.
LEMMA FreeIsNotAllocated ==
  ASSUME NEW p
  PROVE  FreeIndices(p) = (0 .. pmm_usable_pages - 1) \ Allocated(p)
<1>1. \A i \in 0 .. pmm_usable_pages - 1 :
        pmm_is_usable_page_allocated_by_index(p, i) <=> p.bitmap[Cell(i)]
  BY CellType DEF pmm_is_usable_page_allocated_by_index
<1> QED BY <1>1 DEF FreeIndices, Allocated

\* A set of usable pages has as many bits.
LEMMA CellsCount ==
  ASSUME NEW T \in SUBSET (0 .. pmm_usable_pages - 1)
  PROVE  /\ IsFiniteSet(T) /\ Cardinality(T) \in Nat
         /\ Cardinality({Cell(i) : i \in T}) = Cardinality(T)
<1> DEFINE C == {Cell(i) : i \in T}
           f == [i \in T |-> Cell(i)]
<1>1. IsFiniteSet(T) /\ Cardinality(T) \in Nat
  <2>1. IsFiniteSet(0 .. pmm_usable_pages - 1)
    BY UsableNat, FS_Interval
  <2> QED BY <2>1, FS_Subset, FS_CardinalityType
<1>2. f \in Bijection(T, C)
  <2>1. \A i, j \in T : f[i] = f[j] => i = j
    BY CellInjective
  <2>2. f \in [T -> C] /\ \A x \in C : \E i \in T : f[i] = x
    OBVIOUS
  <2>3. f \in Injection(T, C)
    <3> HIDE DEF f, C
    <3> QED BY <2>1, <2>2 DEF Injection, IsInjective
  <2>4. f \in Surjection(T, C)
    <3> HIDE DEF f, C
    <3> QED BY <2>2 DEF Surjection
  <2> HIDE DEF f, C
  <2> QED BY <2>3, <2>4 DEF Bijection
<1>3. ExistsBijection(T, C)
  BY <1>2, Zenon DEF ExistsBijection
<1> HIDE DEF C
<1>4. Cardinality(C) = Cardinality(T)
  BY <1>1, <1>3, FS_Bijection
<1> QED BY <1>1, <1>4 DEF C

\* Setting the bit of a usable page marks that page and no other, and the
\* counter follows.
LEMMA SetMarksOnePage ==
  ASSUME NEW p \in PmmStates, p.num = Cardinality(Allocated(p)),
         NEW i \in 0 .. pmm_usable_pages - 1, NEW b \in BOOLEAN
  PROVE  LET q == pmm_set_usable_page_allocated_by_index(p, i, b)
         IN  /\ q \in PmmStates
             /\ q.num = Cardinality(Allocated(q))
             /\ Allocated(q) = IF b THEN Allocated(p) \cup {i} ELSE Allocated(p) \ {i}
<1> DEFINE q == pmm_set_usable_page_allocated_by_index(p, i, b)
           n == IF b THEN p.num + 1 ELSE p.num - 1
           m == [p.bitmap EXCEPT ![Cell(i)] = b]
<1>1. /\ Cell(i) \in BitmapCells /\ BitmapPage(i) # UINT64_MAX
      /\ p.bitmap \in [BitmapCells -> BOOLEAN] /\ p.num \in Nat
  BY CellType DEF PmmStates
<1>2. CASE p.bitmap[Cell(i)] = b
  <2>1. q = p
    BY <1>2 DEF pmm_set_usable_page_allocated_by_index
  <2>2. i \in Allocated(p) <=> b
    BY <1>2 DEF Allocated
  <2> QED BY <2>1, <2>2
<1>3. CASE p.bitmap[Cell(i)] # b
  <2>1. q = [bitmap |-> m, num |-> n]
    BY <1>1, <1>3 DEF pmm_set_usable_page_allocated_by_index
  <2>2. \A j \in 0 .. pmm_usable_pages - 1 : m[Cell(j)] = IF j = i THEN b ELSE p.bitmap[Cell(j)]
    BY <1>1, CellType, CellInjective
  <2>3. Allocated(q) = IF b THEN Allocated(p) \cup {i} ELSE Allocated(p) \ {i}
    <3>1. q.bitmap = m
      BY <2>1
    <3> HIDE DEF q, m
    <3> QED BY <2>2, <3>1 DEF Allocated
  <2>4. i \in Allocated(p) <=> ~b
    BY <1>1, <1>3 DEF Allocated
  <2>5. IsFiniteSet(Allocated(p))
    BY AllocatedFinite
  <2>6. n \in Nat /\ n = Cardinality(Allocated(q))
    <3>1. CASE b
      <4>1. i \notin Allocated(p) /\ Allocated(q) = Allocated(p) \cup {i}
        BY <2>3, <2>4, <3>1
      <4>2. Cardinality(Allocated(q)) = Cardinality(Allocated(p)) + 1
        BY <2>5, <4>1, FS_AddElement
      <4>3. n = p.num + 1
        BY <3>1
      <4> HIDE DEF n, q
      <4> QED BY <1>1, <4>2, <4>3
    <3>2. CASE ~b
      <4>1. i \in Allocated(p) /\ Allocated(q) = Allocated(p) \ {i}
        BY <2>3, <2>4, <3>2
      <4>2. Cardinality(Allocated(q)) = Cardinality(Allocated(p)) - 1
        BY <2>5, <4>1, FS_RemoveElement
      <4>3. Cardinality(Allocated(q)) \in Nat
        BY AllocatedFinite
      <4> QED BY <1>1, <3>2, <4>2, <4>3
    <3> QED BY <3>1, <3>2
  <2>7. m \in [BitmapCells -> BOOLEAN]
    BY <1>1
  <2>8. q \in PmmStates
    <3> HIDE DEF m, n, q
    <3> QED BY <2>1, <2>6, <2>7 DEF PmmStates
  <2>9. q.num = n
    BY <2>1
  <2> QED BY <2>3, <2>6, <2>8, <2>9
<1> QED BY <1>2, <1>3

\* Zeroing page 0 or a page that can be handed out leaves the bitmap alone.
LEMMA ZeroKeepsBitmap ==
  ASSUME NEW p \in PmmStates, NEW a,
         \/ a = 0
         \/ \E i \in pmm_bitmap_pages .. pmm_usable_pages - 1 : a = pmm_get_address_by_index(i)
  PROVE  ZeroPage(p, a) = p
<1>1. \A c \in BitmapCells : c[1] # a
  BY BitmapPagesApart
<1>2. p.bitmap \in [BitmapCells -> BOOLEAN]
  BY DEF PmmStates
<1>3. [c \in DOMAIN p.bitmap |-> p.bitmap[c] /\ c[1] # a] = p.bitmap
  BY <1>1, <1>2
<1> QED BY <1>3 DEF ZeroPage, PmmStates

\* pmm_alloc_phys marks the page it returns, which was free and is not one of
\* the bitmap's; when no page is free it returns 0 and changes nothing.
LEMMA AllocMarksFreePage ==
  ASSUME NEW p, Consistent(p)
  PROVE  LET r == pmm_alloc_phys(p)
         IN  /\ Consistent(r.pmm)
             /\ \/ FreeIndices(p) = {} /\ r.page = 0 /\ r.pmm = p
                \/ \E i \in pmm_bitmap_pages .. pmm_usable_pages - 1 :
                     /\ i \in FreeIndices(p)
                     /\ r.page = pmm_get_address_by_index(i)
                     /\ Allocated(r.pmm) = Allocated(p) \cup {i}
<1> DEFINE i == Min(FreeIndices(p))
           r == pmm_alloc_phys(p)
           q == pmm_set_usable_page_allocated_by_index(p, i, TRUE)
<1>1. CASE FreeIndices(p) = {}
  <2>1. r = [pmm |-> p, page |-> 0]
    BY <1>1 DEF pmm_alloc_phys
  <2> QED BY <1>1, <2>1
<1>2. CASE FreeIndices(p) # {}
  <2>1. FreeIndices(p) \in SUBSET Nat
    BY UsableNat DEF FreeIndices
  <2>2. i \in FreeIndices(p)
    BY <1>2, <2>1, MinIsLeast
  <2>3. r = [pmm |-> q, page |-> IF pmm_get_address_by_index(i) = UINT64_MAX THEN 0
                                 ELSE pmm_get_address_by_index(i)]
    BY <1>2 DEF pmm_alloc_phys, TakePage
  <2> HIDE DEF i
  <2>4. i \in 0 .. pmm_usable_pages - 1 /\ i \notin Allocated(p)
    BY <2>2, FreeIsNotAllocated
  <2>5. i \in pmm_bitmap_pages .. pmm_usable_pages - 1
    <3>1. i \notin 0 .. pmm_bitmap_pages - 1
      BY <2>4 DEF Consistent
    <3> QED BY <2>4, <3>1, BitmapFits, UsableNat
  <2>6. pmm_get_address_by_index(i) # UINT64_MAX
    BY <2>4, AddressInEntry
  <2>7. q \in PmmStates /\ q.num = Cardinality(Allocated(q)) /\ Allocated(q) = Allocated(p) \cup {i}
    <3>1. p \in PmmStates /\ p.num = Cardinality(Allocated(p)) /\ TRUE \in BOOLEAN
      BY DEF Consistent
    <3> QED BY <2>4, <3>1, SetMarksOnePage
  <2> HIDE DEF q
  <2>8. Consistent(q)
    <3>1. Allocated(p) \subseteq Allocated(q)
      BY <2>7
    <3> QED BY <2>7, <3>1 DEF Consistent
  <2>9. r.pmm = q /\ r.page = pmm_get_address_by_index(i)
    BY <2>3, <2>6
  <2> QED BY <2>2, <2>5, <2>7, <2>8, <2>9
<1> QED BY <1>1, <1>2

\* pmm_allocz clears the page it returns, never a page of the bitmap.
LEMMA AlloczIsAlloc ==
  ASSUME NEW p, Consistent(p)
  PROVE  pmm_allocz(p) = pmm_alloc_phys(p)
<1> DEFINE r == pmm_alloc_phys(p)
<1>1. /\ r.pmm \in PmmStates
      /\ \/ r.page = 0
         \/ \E i \in pmm_bitmap_pages .. pmm_usable_pages - 1 : r.page = pmm_get_address_by_index(i)
  BY AllocMarksFreePage DEF Consistent
<1>2. ZeroPage(r.pmm, r.page) = r.pmm
  BY <1>1, ZeroKeepsBitmap
<1>3. r = [pmm |-> r.pmm, page |-> r.page]
  BY DEF pmm_alloc_phys, TakePage
<1> QED BY <1>2, <1>3 DEF pmm_allocz, Zeroed

\* pmm_init marks exactly the bitmap's own pages.
LEMMA InitialIsConsistent == Consistent(InitialPmm(0)) /\ Allocated(InitialPmm(0)) = 0 .. pmm_bitmap_pages - 1
<1> DEFINE q == InitialPmm(0)
           B == 0 .. pmm_bitmap_pages - 1
           marked == {Cell(i) : i \in B}
<1>1. q = [bitmap |-> [c \in BitmapCells |-> c \in marked], num |-> 0 + Cardinality(marked)]
  BY DEF InitialPmm
<1>2. B \subseteq 0 .. pmm_usable_pages - 1
  BY BitmapFits, UsableNat
<1>3. \A i \in 0 .. pmm_usable_pages - 1 : q.bitmap[Cell(i)] <=> i \in B
  <2> TAKE i \in 0 .. pmm_usable_pages - 1
  <2>1. Cell(i) \in BitmapCells
    BY CellType
  <2>2. q.bitmap[Cell(i)] <=> Cell(i) \in marked
    <3>1. q.bitmap = [c \in BitmapCells |-> c \in marked]
      BY <1>1
    <3> HIDE DEF marked, q
    <3> QED BY <2>1, <3>1
  <2>3. Cell(i) \in marked <=> i \in B
    BY <1>2, CellInjective
  <2> QED BY <2>2, <2>3
<1>4. Allocated(q) = B
  <2> HIDE DEF q, B
  <2> QED BY <1>2, <1>3 DEF Allocated
<1>5. Cardinality(B) \in Nat /\ Cardinality(marked) = Cardinality(B)
  <2> HIDE DEF B
  <2> QED BY <1>2, CellsCount
<1>7. q.num = Cardinality(Allocated(q)) /\ q.num \in Nat
  <2> HIDE DEF B, marked
  <2>1. q.num = 0 + Cardinality(marked)
    BY <1>1
  <2> HIDE DEF q
  <2> QED BY <1>4, <1>5, <2>1
<1>8. q.bitmap \in [BitmapCells -> BOOLEAN]
  <2>1. q.bitmap = [c \in BitmapCells |-> c \in marked]
    BY <1>1
  <2> HIDE DEF marked, q
  <2> QED BY <2>1
<1>9. q \in PmmStates
  <2>1. q = [bitmap |-> q.bitmap, num |-> q.num]
    BY <1>1
  <2> HIDE DEF q
  <2> QED BY <1>7, <1>8, <2>1 DEF PmmStates
<1> HIDE DEF q
<1> QED BY <1>4, <1>7, <1>9 DEF Consistent, q

\* The free that pmm_free performs after its check keeps the state consistent.
LEMMA FreedIsConsistent ==
  ASSUME Consistent(pmm), NEW phys \in PhysArgs,
         pmm_get_index_by_address(phys) >= pmm_bitmap_pages
  PROVE  Consistent(Freed(phys))
<1> DEFINE i == pmm_get_index_by_address(phys)
           q == pmm_set_usable_page_allocated_by_index(pmm, i, FALSE)
<1>1. q = Freed(phys)
  BY DEF Freed
<1>2. phys \in 0 .. UINT64_MAX
  BY ArgsAssumption
<1>3. CASE i = UINT64_MAX
  <2>1. q = pmm
    BY <1>3, SentinelIndex DEF pmm_set_usable_page_allocated_by_index
  <2> QED BY <1>1, <2>1
<1>4. CASE i \in 0 .. pmm_usable_pages - 1
  <2>1. pmm \in PmmStates /\ pmm.num = Cardinality(Allocated(pmm)) /\ FALSE \in BOOLEAN
        /\ 0 .. pmm_bitmap_pages - 1 \subseteq Allocated(pmm)
    BY DEF Consistent
  <2> HIDE DEF i
  <2>2. /\ q \in PmmStates /\ q.num = Cardinality(Allocated(q))
        /\ Allocated(q) = Allocated(pmm) \ {i}
    BY <1>4, <2>1, SetMarksOnePage
  <2>3. i \notin 0 .. pmm_bitmap_pages - 1
    BY BitmapFits DEF i
  <2>4. 0 .. pmm_bitmap_pages - 1 \subseteq Allocated(q)
    <3> HIDE DEF q
    <3> QED BY <2>1, <2>2, <2>3
  <2> QED BY <1>1, <2>2, <2>4 DEF Consistent
<1> QED BY <1>2, <1>3, <1>4, IndexOfAddress

\* The page tables that the mapping takes keep it consistent too.
LEMMA TakeTablesIsConsistent ==
  ASSUME NEW p, Consistent(p), NEW T \in TableTakes(p)
  PROVE  Consistent(TakeTables(p, T)) /\ Allocated(TakeTables(p, T)) = Allocated(p) \cup T
<1> DEFINE q == TakeTables(p, T)
           cells == {Cell(i) : i \in T}
           zeroed == {0} \cup {pmm_get_address_by_index(i) : i \in T}
           m == [c \in BitmapCells |-> (p.bitmap[c] \/ c \in cells) /\ c[1] \notin zeroed]
<1>1. q = [bitmap |-> m, num |-> p.num + Cardinality(cells)]
  BY DEF TakeTables
<1>2. /\ p \in PmmStates /\ p.num \in Nat /\ p.num = Cardinality(Allocated(p))
      /\ 0 .. pmm_bitmap_pages - 1 \subseteq Allocated(p)
  BY DEF Consistent, PmmStates
<1>3. T \in SUBSET (0 .. pmm_usable_pages - 1) /\ T \cap Allocated(p) = {}
  BY FreeIsNotAllocated DEF TableTakes
<1>4. \A i \in T : i \in pmm_bitmap_pages .. pmm_usable_pages - 1
  BY <1>2, <1>3, BitmapFits, UsableNat
<1>5. \A c \in BitmapCells : c[1] \notin zeroed
  BY <1>4, BitmapPagesApart
<1>6. \A i \in 0 .. pmm_usable_pages - 1 : m[Cell(i)] <=> p.bitmap[Cell(i)] \/ i \in T
  <2> TAKE i \in 0 .. pmm_usable_pages - 1
  <2>1. Cell(i) \in BitmapCells
    BY CellType
  <2>2. Cell(i)[1] \notin zeroed
    BY <1>5, <2>1
  <2>3. Cell(i) \in cells <=> i \in T
    BY <1>3, CellInjective
  <2>4. m[Cell(i)] <=> p.bitmap[Cell(i)] \/ Cell(i) \in cells
    <3> HIDE DEF cells, zeroed
    <3> QED BY <2>1, <2>2
  <2> HIDE DEF cells, m
  <2> QED BY <2>3, <2>4
<1>7. Allocated(q) = Allocated(p) \cup T
  <2>1. q.bitmap = m
    BY <1>1
  <2> HIDE DEF q, m
  <2> QED BY <1>3, <1>6, <2>1 DEF Allocated
<1>8. IsFiniteSet(T) /\ Cardinality(T) \in Nat /\ Cardinality(cells) = Cardinality(T)
  BY <1>3, CellsCount
<1>10. Cardinality(Allocated(p) \cup T) = Cardinality(Allocated(p)) + Cardinality(T)
  <2>1. IsFiniteSet(Allocated(p)) /\ Cardinality(Allocated(p)) \in Nat
    BY AllocatedFinite
  <2>2. Cardinality(Allocated(p) \cup T)
          = Cardinality(Allocated(p)) + Cardinality(T) - Cardinality(Allocated(p) \cap T)
    BY <1>8, <2>1, FS_Union
  <2>3. Cardinality(Allocated(p) \cap T) = 0
    BY <1>3, FS_EmptySet
  <2> QED BY <1>8, <2>1, <2>2, <2>3
<1>11. q.num = Cardinality(Allocated(q)) /\ q.num \in Nat
  <2>1. q.num = p.num + Cardinality(cells)
    BY <1>1
  <2> HIDE DEF q, cells
  <2> QED BY <1>2, <1>7, <1>8, <1>10, <2>1
<1>12. q \in PmmStates
  <2>1. q.bitmap = m /\ m \in [BitmapCells -> BOOLEAN] /\ q = [bitmap |-> q.bitmap, num |-> q.num]
    BY <1>1, <1>2 DEF PmmStates
  <2> HIDE DEF q, m
  <2> QED BY <1>11, <2>1 DEF PmmStates
<1> HIDE DEF q
<1> QED BY <1>2, <1>7, <1>11, <1>12 DEF Consistent, q

-----------------------------------------------------------------------------
\* The invariant

\* PmmTypeOK and CountMatchesBitmap need each other: the counter stays a natural
\* number because it counts the set bits, which pmm_set decrements only when
\* the bit was set. BitmapPagesReserved is what keeps pmm_alloc from handing
\* out, and pmm_allocz from zeroing, a page of the bitmap.
PmmInv ==
  /\ PmmTypeOK
  /\ ~pmm_ready => pmm.num = 0
  /\ pmm_ready => Consistent(pmm)

\* The invariant holds before pmm_init has run.
LEMMA PmmInitEstablishes == PmmInit => PmmInv
<1> SUFFICES ASSUME PmmInit PROVE PmmInv
  OBVIOUS
<1>1. pmm.num = 0 /\ pmm \in PmmStates
  BY DEF PmmInit, PmmStates
<1>2. last \in [op : {"none", "alloc", "free"}, page : Nat]
  <2>1. pmm_phys_to_virt(0) \in Nat
    BY SizeAssumption DEF pmm_phys_to_virt
  <2> QED BY <2>1 DEF PmmInit
<1> QED BY <1>1, <1>2 DEF PmmInit, PmmInv, PmmTypeOK

\* Returns(r) for an allocation r from the current state.
LEMMA ReturnsPreserves ==
  ASSUME PmmInv, pmm_ready, Returns(pmm_alloc_phys(pmm))
  PROVE  PmmInv'
<1> DEFINE r == pmm_alloc_phys(pmm)
<1>1. Consistent(pmm)
  BY DEF PmmInv
<1>2. /\ Consistent(r.pmm)
      /\ \/ r.page = 0
         \/ \E i \in pmm_bitmap_pages .. pmm_usable_pages - 1 : r.page = pmm_get_address_by_index(i)
  BY <1>1, AllocMarksFreePage
<1>3. r.page \in Nat
  <2>1. \A i \in pmm_bitmap_pages .. pmm_usable_pages - 1 : i \in 0 .. pmm_usable_pages - 1
    BY BitmapFits, UsableNat
  <2>2. \A i \in 0 .. pmm_usable_pages - 1 : pmm_get_address_by_index(i) \in Nat
    BY AddressInEntry
  <2> QED BY <1>2, <2>1, <2>2
<1>4. pmm_phys_to_virt(r.page) \in Nat
  BY <1>3, SizeAssumption DEF pmm_phys_to_virt
<1>5. /\ pmm' = r.pmm
      /\ last' = [op |-> "alloc", page |-> pmm_phys_to_virt(r.page)]
      /\ UNCHANGED <<pmm_ready, vmm_initialised>>
  BY DEF Returns
<1> HIDE DEF r
<1>6. Consistent(pmm')
  BY <1>2, <1>5
<1>7. pmm' \in PmmStates
  BY <1>6 DEF Consistent
<1>8. PmmTypeOK'
  BY <1>4, <1>5, <1>7 DEF PmmInv, PmmTypeOK
<1>9. Consistent(pmm)'
  BY <1>6 DEF Consistent, Allocated, PmmStates
<1> QED BY <1>5, <1>8, <1>9 DEF PmmInv

\* Every operation keeps the invariant.
LEMMA PmmNextPreserves == PmmInv /\ [PmmNext]_pmm_vars => PmmInv'
<1> SUFFICES ASSUME PmmInv, [PmmNext]_pmm_vars PROVE PmmInv'
  OBVIOUS
<1>1. CASE pmm_init
  <2>1. pmm' = InitialPmm(0) /\ pmm_ready' = TRUE /\ UNCHANGED <<vmm_initialised, last>>
    BY <1>1 DEF pmm_init, PmmInv
  <2>2. Consistent(pmm')
    BY <2>1, InitialIsConsistent
  <2>3. PmmTypeOK'
    BY <2>1, <2>2 DEF Consistent, PmmInv, PmmTypeOK
  <2>4. Consistent(pmm)'
    BY <2>2 DEF Consistent, Allocated, PmmStates
  <2> QED BY <2>1, <2>3, <2>4 DEF PmmInv
<1>2. CASE vmm_init
  <2>1. UNCHANGED pmm => (Consistent(pmm)' <=> Consistent(pmm))
    BY DEF Consistent, Allocated, PmmStates
  <2> QED BY <1>2, <2>1 DEF vmm_init, PmmInv, PmmTypeOK
<1>3. CASE pmm_alloc
  BY <1>3, ReturnsPreserves DEF pmm_alloc
<1>4. CASE pmm_alloc_zeroed
  <2>1. pmm_ready /\ Consistent(pmm) /\ Returns(pmm_allocz(pmm))
    BY <1>4 DEF pmm_alloc_zeroed, PmmInv
  <2>2. Returns(pmm_alloc_phys(pmm))
    BY <2>1, AlloczIsAlloc
  <2> QED BY <2>1, <2>2, ReturnsPreserves
<1>5. ASSUME NEW phys \in PhysArgs, pmm_free(phys) PROVE PmmInv'
  <2>1. /\ pmm_ready /\ Consistent(pmm)
        /\ last' = [op |-> "free", page |-> PageOf(phys)]
        /\ UNCHANGED <<pmm_ready, vmm_initialised>>
    BY <1>5 DEF pmm_free, PmmInv
  <2>2. PageOf(phys) \in Nat
    <3>1. phys \in Nat
      BY ArgsAssumption, SentinelAssumption
    <3>2. phys % PAGE \in Nat /\ phys % PAGE <= phys
      <4>1. PAGE \in Nat \ {0}
        BY SizeAssumption
      <4>2. /\ phys \div PAGE \in Nat /\ phys % PAGE \in 0 .. PAGE - 1
            /\ phys = (PAGE * (phys \div PAGE)) + (phys % PAGE)
        BY <3>1, <4>1, DivMod
      <4>3. PAGE * (phys \div PAGE) \in Nat
        BY <4>1, <4>2, Scale
      <4> QED BY <3>1, <4>1, <4>2, <4>3
    <3> QED BY <3>1, <3>2, SizeAssumption DEF PageOf, pmm_phys_to_virt
  <2>3. Consistent(pmm')
    <3>1. CASE UNCHANGED pmm
      BY <2>1, <3>1
    <3>2. CASE pmm_get_index_by_address(phys) >= pmm_bitmap_pages /\ pmm' = Freed(phys)
      BY <2>1, <3>2, FreedIsConsistent
    <3>3. CASE /\ pmm_get_index_by_address(phys) >= pmm_bitmap_pages
               /\ \E T \in TableTakes(Freed(phys)) : pmm' = TakeTables(Freed(phys), T)
      <4>1. Consistent(Freed(phys))
        BY <2>1, <3>3, FreedIsConsistent
      <4> QED BY <3>3, <4>1, TakeTablesIsConsistent
    <3> QED BY <1>5, <3>1, <3>2, <3>3 DEF pmm_free
  <2>4. PmmTypeOK'
    BY <2>1, <2>2, <2>3 DEF Consistent, PmmInv, PmmTypeOK
  <2>5. Consistent(pmm)'
    BY <2>3 DEF Consistent, Allocated, PmmStates
  <2> QED BY <2>1, <2>4, <2>5 DEF PmmInv
<1>6. CASE UNCHANGED pmm_vars
  <2>1. UNCHANGED pmm => (Consistent(pmm)' <=> Consistent(pmm))
    BY DEF Consistent, Allocated, PmmStates
  <2> QED BY <1>6, <2>1 DEF pmm_vars, PmmInv, PmmTypeOK
<1> QED BY <1>1, <1>2, <1>3, <1>4, <1>5, <1>6 DEF PmmNext

\* The invariant holds throughout.
LEMMA PmmInvariance == PmmSpec => []PmmInv
BY PmmInitEstablishes, PmmNextPreserves, PTL DEF PmmSpec

-----------------------------------------------------------------------------
\* The abstract allocator

\* The virtual address of usable page i
PageAt(i) == pmm_phys_to_virt(pmm_get_address_by_index(i))

Grantable == pmm_bitmap_pages .. pmm_usable_pages - 1

\* The pages owned in allocator state p
OwnedIn(p) == {PageAt(i) : i \in Grantable \cap Allocated(p)}

\* The sentinel lies above every index.
LEMMA SentinelAbove == UINT64_MAX \in Nat /\ pmm_usable_pages <= UINT64_MAX
<1>1. UINT64_MAX \in Nat /\ BITS \in Nat \ {0} /\ pmm_usable_pages <= UINT64_MAX \div BITS
  BY SentinelAssumption, SizeAssumption
<1>2. UINT64_MAX \div BITS <= UINT64_MAX /\ UINT64_MAX \div BITS \in Nat
  BY <1>1
<1> QED BY <1>1, <1>2, UsableNat

\* One usable entry holds an index.
LEMMA EntryUnique ==
  ASSUME NEW k \in Nat, NEW g \in UsableEntries, NEW h \in UsableEntries,
         current_index[g] <= k, k < current_index[g] + PagesIn(g),
         current_index[h] <= k, k < current_index[h] + PagesIn(h)
  PROVE  g = h
<1>1. ASSUME NEW x \in UsableEntries, NEW y \in UsableEntries, x < y
      PROVE  current_index[x] + PagesIn(x) <= current_index[y]
  <2>1. /\ x \in 1 .. Len(memmap_entries) /\ x + 1 \in 1 .. Len(memmap_entries) + 1
        /\ y \in 1 .. Len(memmap_entries) + 1 /\ x + 1 <= y
    BY <1>1, EntryPages, LenType
  <2>2. current_index[x + 1] = current_index[x] + PagesIn(x)
    BY <2>1, CurrentIndexStep
  <2> QED BY <2>1, <2>2, CurrentIndexMonotone
<1>2. /\ g \in Nat /\ h \in Nat /\ current_index[g] \in Nat /\ current_index[h] \in Nat
      /\ PagesIn(g) \in Nat /\ PagesIn(h) \in Nat
  BY EntryPages, LenType, CurrentIndexNat
<1>3. ~(g < h) /\ ~(h < g)
  BY <1>1, <1>2
<1> QED BY <1>2, <1>3

\* Two usable pages have two virtual addresses, none of them that of page 0.
LEMMA PageAtInjective ==
  /\ \A i \in 0 .. pmm_usable_pages - 1 : PageAt(i) # pmm_phys_to_virt(0)
  /\ \A i, j \in 0 .. pmm_usable_pages - 1 : PageAt(i) = PageAt(j) => i = j
<1>1. higher_half_offset \in Nat
  BY SizeAssumption
<1>2. ASSUME NEW i \in 0 .. pmm_usable_pages - 1
      PROVE  pmm_get_address_by_index(i) \in Nat \ {0}
  BY AddressInEntry
<1>3. ASSUME NEW i \in 0 .. pmm_usable_pages - 1, NEW j \in 0 .. pmm_usable_pages - 1,
             PageAt(i) = PageAt(j)
      PROVE  i = j
  <2>1. pmm_get_address_by_index(i) = pmm_get_address_by_index(j)
    BY <1>1, <1>2, <1>3 DEF PageAt, pmm_phys_to_virt
  <2> QED BY <2>1, AddressInjective
<1> QED BY <1>1, <1>2, <1>3 DEF PageAt, pmm_phys_to_virt

\* The pages that can be handed out are usable pages.
LEMMA GrantableUsable == Grantable \subseteq 0 .. pmm_usable_pages - 1
BY BitmapFits, UsableNat DEF Grantable

\* The page pmm_free maps is the page whose bit it clears.
LEMMA PageOfIndex ==
  ASSUME NEW phys \in 0 .. UINT64_MAX, pmm_get_index_by_address(phys) \in 0 .. pmm_usable_pages - 1
  PROVE  PageOf(phys) = PageAt(pmm_get_index_by_address(phys))
<1> DEFINE k == pmm_get_index_by_address(phys)
<1>1. pmm_usable_pages <= UINT64_MAX /\ UINT64_MAX \in Nat /\ phys \in Nat
  BY SentinelAbove
<1>2. k # UINT64_MAX /\ k \in Nat
  BY <1>1, UsableNat
<1>3. PICK h \in UsableEntries :
        /\ InEntry(phys, h)
        /\ k = current_index[h] + ((phys - memmap_entries[h].base) \div PAGE)
        /\ (phys - memmap_entries[h].base) \div PAGE \in Nat
        /\ (phys - memmap_entries[h].base) \div PAGE < PagesIn(h)
  BY <1>2, IndexInEntry
<1> DEFINE q == (phys - memmap_entries[h].base) \div PAGE
<1>4. /\ memmap_entries[h].base \in Nat /\ memmap_entries[h].base % PAGE = 0
      /\ memmap_entries[h].base <= phys /\ PAGE \in Nat \ {0}
      /\ current_index[h] \in Nat /\ PagesIn(h) \in Nat
  <2>1. memmap_entries[h].base <= phys
    BY <1>3 DEF InEntry
  <2>2. memmap_entries[h].base % PAGE = 0 /\ PAGE \in Nat \ {0}
    BY MemmapAssumption, SizeAssumption
  <2> QED BY <2>1, <2>2, EntryType, EntryPages, LenType, CurrentIndexNat
<1>5. phys - (phys % PAGE) = memmap_entries[h].base + (PAGE * q)
  BY <1>1, <1>4, RoundDown
<1>6. k = current_index[h] + q /\ q \in Nat /\ q < PagesIn(h)
  BY <1>3
<1> HIDE DEF q
<1>7. PICK g \in UsableEntries :
        /\ current_index[g] <= k /\ k < current_index[g] + PagesIn(g)
        /\ pmm_get_address_by_index(k) = memmap_entries[g].base + (PAGE * (k - current_index[g]))
  BY AddressOfIndex
<1> HIDE DEF k
<1>8. current_index[h] <= k /\ k < current_index[h] + PagesIn(h) /\ k - current_index[h] = q
  BY <1>4, <1>6
<1>9. g = h
  BY <1>2, <1>7, <1>8, EntryUnique
<1>10. pmm_get_address_by_index(k) = phys - (phys % PAGE)
  BY <1>5, <1>7, <1>8, <1>9
<1> QED BY <1>10 DEF PageOf, PageAt, k

\* An address in no usable entry lies in no usable page.
LEMMA ForeignAddress ==
  ASSUME NEW phys \in 0 .. UINT64_MAX, pmm_get_index_by_address(phys) = UINT64_MAX,
         NEW i \in 0 .. pmm_usable_pages - 1
  PROVE  PageOf(phys) # PageAt(i)
<1> SUFFICES ASSUME PageOf(phys) = PageAt(i) PROVE FALSE
  OBVIOUS
<1>1. PICK h \in UsableEntries :
        /\ pmm_get_address_by_index(i) \in Nat
        /\ current_index[h] <= i /\ i < current_index[h] + PagesIn(h)
        /\ pmm_get_address_by_index(i) = memmap_entries[h].base + (PAGE * (i - current_index[h]))
  BY AddressInEntry
<1> DEFINE x == i - current_index[h]
           r == phys % PAGE
<1>2. /\ memmap_entries[h].base \in Nat /\ memmap_entries[h].length \in Nat
      /\ PAGE \in Nat \ {0} /\ current_index[h] \in Nat /\ PagesIn(h) \in Nat /\ i \in Nat
      /\ memmap_entries[h].length = PAGE * PagesIn(h) /\ phys \in Nat /\ higher_half_offset \in Nat
  BY EntryType, EntryPages, LenType, CurrentIndexNat, UsableNat, SizeAssumption, SentinelAssumption
<1>3. x \in Nat /\ x + 1 <= PagesIn(h)
  BY <1>1, <1>2
<1>4. r \in 0 .. PAGE - 1
  BY <1>2, DivMod
<1>5. pmm_get_address_by_index(i) = memmap_entries[h].base + (PAGE * x)
  BY <1>1
<1> HIDE DEF x
<1>6. PAGE * x \in Nat /\ (PAGE * x) + PAGE <= PAGE * PagesIn(h) /\ PAGE * PagesIn(h) \in Nat
  <2>1. PAGE * (x + 1) = (PAGE * x) + PAGE /\ PAGE * (x + 1) <= PAGE * PagesIn(h)
    BY <1>2, <1>3
  <2> QED BY <1>2, <1>3, <2>1, Scale
<1>7. phys - r = pmm_get_address_by_index(i)
  <2>1. (phys - r) + higher_half_offset = pmm_get_address_by_index(i) + higher_half_offset
    BY DEF PageOf, PageAt, pmm_phys_to_virt
  <2>2. r \in Nat
    BY <1>2, <1>4
  <2>3. pmm_get_address_by_index(i) \in Nat /\ phys \in Nat /\ higher_half_offset \in Nat
    BY <1>1, <1>2
  <2> HIDE DEF r
  <2> QED BY <2>1, <2>2, <2>3
<1> HIDE DEF r
<1>8. /\ memmap_entries[h].base <= phys
      /\ phys < memmap_entries[h].base + memmap_entries[h].length
  BY <1>2, <1>4, <1>5, <1>6, <1>7
<1>9. InEntry(phys, h)
  BY <1>8 DEF InEntry
<1>10. pmm_usable_pages <= UINT64_MAX /\ UINT64_MAX \in Nat
  BY SentinelAbove
<1>11. pmm_get_index_by_address(phys) \in 0 .. pmm_usable_pages - 1
  BY <1>9, IndexInEntry
<1> QED BY <1>10, <1>11, UsableNat

\* pmm_free gives back the page its argument lies in and no other.
LEMMA FreedOwned ==
  ASSUME Consistent(pmm), NEW phys \in PhysArgs,
         pmm_get_index_by_address(phys) >= pmm_bitmap_pages
  PROVE  OwnedIn(Freed(phys)) = OwnedIn(pmm) \ {PageOf(phys)}
<1> DEFINE k == pmm_get_index_by_address(phys)
           q == Freed(phys)
<1>1. phys \in 0 .. UINT64_MAX
  BY ArgsAssumption
<1>2. CASE k = UINT64_MAX
  <2>1. q = pmm
    BY <1>2, SentinelIndex DEF Freed, pmm_set_usable_page_allocated_by_index
  <2>2. PageOf(phys) \notin OwnedIn(pmm)
    BY <1>1, <1>2, ForeignAddress, GrantableUsable DEF OwnedIn
  <2> QED BY <2>1, <2>2
<1>3. CASE k \in 0 .. pmm_usable_pages - 1
  <2>1. pmm \in PmmStates /\ pmm.num = Cardinality(Allocated(pmm)) /\ FALSE \in BOOLEAN
    BY DEF Consistent
  <2>2. Allocated(q) = Allocated(pmm) \ {k}
    <3> HIDE DEF k
    <3> QED BY <1>3, <2>1, SetMarksOnePage DEF Freed, k
  <2>3. PageOf(phys) = PageAt(k)
    BY <1>1, <1>3, PageOfIndex
  <2>4. \A i \in Grantable : PageAt(i) = PageAt(k) <=> i = k
    BY <1>3, GrantableUsable, PageAtInjective
  <2> HIDE DEF k, q
  <2>5. ASSUME NEW x PROVE x \in OwnedIn(q) <=> x \in OwnedIn(pmm) \ {PageOf(phys)}
    <3>1. x \in OwnedIn(q) <=> \E i \in Grantable : i \in Allocated(pmm) /\ i # k /\ x = PageAt(i)
      BY <2>2 DEF OwnedIn
    <3>2. x \in OwnedIn(pmm) <=> \E i \in Grantable : i \in Allocated(pmm) /\ x = PageAt(i)
      BY DEF OwnedIn
    <3> QED BY <2>3, <2>4, <3>1, <3>2
  <2> QED BY <2>5 DEF q
<1> QED BY <1>1, <1>2, <1>3, IndexOfAddress

\* The pages owned and the pages that can be handed out, as the refinement
\* mapping has them.
LEMMA OwnedIs ==
  /\ GrantablePages = {PageAt(i) : i \in Grantable}
  /\ ~pmm_ready => Owned = {}
  /\ pmm_ready => Owned = OwnedIn(pmm)
<1>1. GrantablePages = {PageAt(i) : i \in Grantable}
  BY DEF GrantablePages, PageAt, Grantable
<1>2. {k \in Grantable : pmm.bitmap[Cell(k)]} = Grantable \cap Allocated(pmm)
  BY GrantableUsable DEF Allocated
<1>3. pmm_ready => Owned = OwnedIn(pmm)
  BY <1>2 DEF Owned, OwnedIn, PageAt, Grantable
<1> QED BY <1>1, <1>3 DEF Owned

\* The same after a step.
LEMMA OwnedNext ==
  /\ ~pmm_ready' => Owned' = {}
  /\ pmm_ready' => Owned' = OwnedIn(pmm')
<1>1. {k \in Grantable : pmm'.bitmap[Cell(k)]} = Grantable \cap Allocated(pmm')
  BY GrantableUsable DEF Allocated
<1>2. pmm_ready' => Owned' = OwnedIn(pmm')
  BY <1>1 DEF Owned, OwnedIn, PageAt, Grantable
<1> QED BY <1>2 DEF Owned

\* Every initial state of the allocator maps to the abstract one's.
LEMMA InitRefines == PmmInit => Allocator!Init
BY OwnedIs DEF PmmInit, Allocator!Init

\* An allocation is an abstract one, or the abstract failure.
LEMMA ReturnsRefines ==
  ASSUME PmmInv, pmm_ready, Returns(pmm_alloc_phys(pmm))
  PROVE  Allocator!Next
<1> DEFINE r == pmm_alloc_phys(pmm)
<1>1. Consistent(pmm)
  BY DEF PmmInv
<1>2. \/ FreeIndices(pmm) = {} /\ r.page = 0 /\ r.pmm = pmm
      \/ \E i \in Grantable :
           /\ i \in FreeIndices(pmm)
           /\ r.page = pmm_get_address_by_index(i)
           /\ Allocated(r.pmm) = Allocated(pmm) \cup {i}
  BY <1>1, AllocMarksFreePage DEF Grantable
<1>3. /\ pmm' = r.pmm /\ last' = [op |-> "alloc", page |-> pmm_phys_to_virt(r.page)] /\ pmm_ready'
  BY DEF Returns
<1> HIDE DEF r
<1>4. Owned = OwnedIn(pmm) /\ Owned' = OwnedIn(pmm') /\ GrantablePages = {PageAt(i) : i \in Grantable}
  BY <1>3, OwnedIs, OwnedNext
<1>5. CASE FreeIndices(pmm) = {} /\ r.page = 0 /\ r.pmm = pmm
  <2>1. Grantable \subseteq Allocated(pmm)
    BY <1>5, FreeIsNotAllocated, GrantableUsable
  <2>2. Owned = GrantablePages
    BY <1>4, <2>1 DEF OwnedIn
  <2>3. Owned' = Owned
    BY <1>3, <1>4, <1>5
  <2> QED BY <1>3, <1>5, <2>2, <2>3 DEF Allocator!Next, Allocator!OutOfMemory
<1>6. ASSUME NEW i \in Grantable, i \in FreeIndices(pmm), r.page = pmm_get_address_by_index(i),
             Allocated(r.pmm) = Allocated(pmm) \cup {i}
      PROVE  Allocator!Next
  <2>1. i \notin Allocated(pmm)
    BY <1>6, FreeIsNotAllocated
  <2>2. PageAt(i) \in GrantablePages /\ PageAt(i) \notin Owned
    BY <1>4, <2>1, GrantableUsable, PageAtInjective DEF OwnedIn
  <2>3. Owned' = Owned \cup {PageAt(i)}
    <3>1. Grantable \cap Allocated(pmm') = (Grantable \cap Allocated(pmm)) \cup {i}
      BY <1>3, <1>6
    <3> QED BY <1>4, <3>1 DEF OwnedIn
  <2>4. last' = [op |-> "alloc", page |-> PageAt(i)]
    BY <1>3, <1>6 DEF PageAt
  <2>5. Allocator!Allocate(PageAt(i))
    BY <2>2, <2>3, <2>4 DEF Allocator!Allocate
  <2> QED BY <2>2, <2>5 DEF Allocator!Next
<1> QED BY <1>2, <1>5, <1>6

\* Every free is an abstract release of the page the address lies in.
LEMMA FreeRefines ==
  ASSUME PmmInv, NEW phys \in PhysArgs, pmm_free(phys)
  PROVE  Allocator!Next
<1> DEFINE page == PageOf(phys)
<1>1. /\ pmm_ready /\ pmm_ready' /\ Consistent(pmm)
      /\ last' = [op |-> "free", page |-> page] /\ phys \in 0 .. UINT64_MAX
  BY ArgsAssumption DEF pmm_free, PmmInv
<1>2. Owned = OwnedIn(pmm) /\ Owned' = OwnedIn(pmm') /\ GrantablePages = {PageAt(i) : i \in Grantable}
  BY <1>1, OwnedIs, OwnedNext
<1> HIDE DEF page
<1>3. \E tables \in SUBSET (GrantablePages \ (Owned \ {page})) : Owned' = (Owned \ {page}) \cup tables
  <2>1. CASE pmm_get_index_by_address(phys) < pmm_bitmap_pages /\ UNCHANGED pmm
    <3>1. pmm_get_index_by_address(phys) \in 0 .. pmm_usable_pages - 1
          /\ pmm_get_index_by_address(phys) \notin Grantable
      <4>1. pmm_bitmap_pages <= UINT64_MAX /\ UINT64_MAX \in Nat
        BY SentinelAbove, UsableNat, BitmapFits
      <4> QED BY <4>1, <2>1, <1>1, IndexOfAddress, UsableNat, BitmapFits DEF Grantable
    <3>2. page = PageAt(pmm_get_index_by_address(phys))
      BY <1>1, <3>1, PageOfIndex DEF page
    <3>3. page \notin Owned
      BY <1>2, <3>1, <3>2, GrantableUsable, PageAtInjective DEF OwnedIn
    <3>4. Owned' = (Owned \ {page}) \cup {}
      BY <2>1, <1>2, <3>3
    <3> QED BY <3>4
  <2>2. CASE pmm_get_index_by_address(phys) >= pmm_bitmap_pages /\ pmm' = Freed(phys)
    <3>1. Owned' = (Owned \ {page}) \cup {}
      BY <2>2, <1>1, <1>2, FreedOwned DEF page
    <3> QED BY <3>1
  <2>3. ASSUME pmm_get_index_by_address(phys) >= pmm_bitmap_pages,
               NEW T \in TableTakes(Freed(phys)), pmm' = TakeTables(Freed(phys), T)
        PROVE  \E tables \in SUBSET (GrantablePages \ (Owned \ {page})) : Owned' = (Owned \ {page}) \cup tables
    <3> DEFINE q == Freed(phys)
    <3>1. Consistent(q) /\ OwnedIn(q) = Owned \ {page}
      BY <2>3, <1>1, <1>2, FreedOwned, FreedIsConsistent DEF page
    <3>2. Allocated(pmm') = Allocated(q) \cup T
      BY <2>3, <3>1, TakeTablesIsConsistent
    <3>3. T \subseteq Grantable /\ T \cap Allocated(q) = {}
      <4>1. T \subseteq 0 .. pmm_usable_pages - 1 /\ T \cap Allocated(q) = {}
        BY FreeIsNotAllocated DEF TableTakes
      <4>2. 0 .. pmm_bitmap_pages - 1 \subseteq Allocated(q)
        BY <3>1 DEF Consistent
      <4> HIDE DEF q
      <4> QED BY <4>1, <4>2, BitmapFits, UsableNat DEF Grantable
    <3> HIDE DEF q
    <3> DEFINE tables == {PageAt(i) : i \in T}
    <3>4. tables \in SUBSET (GrantablePages \ OwnedIn(q))
      <4>1. tables \subseteq GrantablePages
        BY <1>2, <3>3
      <4>2. tables \cap OwnedIn(q) = {}
        BY <3>3, GrantableUsable, PageAtInjective DEF OwnedIn
      <4> QED BY <4>1, <4>2
    <3>5. Owned' = OwnedIn(q) \cup tables
      <4>1. Grantable \cap Allocated(pmm') = (Grantable \cap Allocated(q)) \cup T
        BY <3>2, <3>3
      <4> QED BY <1>2, <4>1 DEF OwnedIn
    <3> HIDE DEF tables
    <3> QED BY <3>1, <3>4, <3>5
  <2> QED BY <2>1, <2>2, <2>3 DEF pmm_free
<1>4. Allocator!Release(page)
  BY <1>1, <1>3 DEF Allocator!Release
<1> QED BY <1>4 DEF Allocator!Next, page

\* Every step maps to a step of the abstract allocator or leaves it alone.
LEMMA StepRefines == PmmInv /\ [PmmNext]_pmm_vars => [Allocator!Next]_(Allocator!vars)
<1> SUFFICES ASSUME PmmInv, [PmmNext]_pmm_vars PROVE [Allocator!Next]_(Allocator!vars)
  OBVIOUS
<1>1. CASE pmm_init
  <2>1. ~pmm_ready /\ pmm_ready' /\ pmm' = InitialPmm(0) /\ last' = last
    BY <1>1 DEF pmm_init, PmmInv
  <2>2. Owned = {} /\ Owned' = OwnedIn(pmm')
    BY <2>1, OwnedIs, OwnedNext
  <2>3. Grantable \cap Allocated(pmm') = {}
    BY <2>1, InitialIsConsistent, BitmapFits, UsableNat DEF Grantable
  <2>4. Owned' = {}
    BY <2>2, <2>3 DEF OwnedIn
  <2> QED BY <2>1, <2>2, <2>4 DEF Allocator!vars
<1>2. CASE vmm_init
  BY <1>2 DEF vmm_init, Allocator!vars, Owned
<1>3. CASE pmm_alloc
  BY <1>3, ReturnsRefines DEF pmm_alloc
<1>4. CASE pmm_alloc_zeroed
  <2>1. pmm_ready /\ Consistent(pmm) /\ Returns(pmm_allocz(pmm))
    BY <1>4 DEF pmm_alloc_zeroed, PmmInv
  <2>2. Returns(pmm_alloc_phys(pmm))
    BY <2>1, AlloczIsAlloc
  <2> QED BY <2>1, <2>2, ReturnsRefines
<1>5. ASSUME NEW phys \in PhysArgs, pmm_free(phys) PROVE Allocator!Next
  BY <1>5, FreeRefines
<1>6. CASE UNCHANGED pmm_vars
  BY <1>6 DEF pmm_vars, Allocator!vars, Owned
<1> QED BY <1>1, <1>2, <1>3, <1>4, <1>5, <1>6 DEF PmmNext

-----------------------------------------------------------------------------
\* Theorems

\* For every memory map, page size and bitmap page size, whatever the clients
\* allocate and free, the allocator's variables keep their types: in
\* particular pmm_num_allocated_pages never goes below zero.
THEOREM PmmTypeCorrect == PmmSpec => []PmmTypeOK
<1>1. PmmInv => PmmTypeOK
  BY DEF PmmInv
<1> QED BY <1>1, PmmInvariance, PTL

\* pmm_num_allocated_pages is always the number of usable pages whose bit is
\* set, so pmm_get_current_free_memory reports what is really free.
THEOREM CountCorrect == PmmSpec => []CountMatchesBitmap
<1>1. PmmInv => CountMatchesBitmap
  BY DEF PmmInv, Consistent, Allocated, CountMatchesBitmap
<1> QED BY <1>1, PmmInvariance, PTL

\* The pages that hold the bitmap are never given away.
THEOREM BitmapSafe == PmmSpec => []BitmapPagesReserved
<1>1. PmmInv => BitmapPagesReserved
  BY DEF PmmInv, Consistent, Allocated, BitmapPagesReserved
<1> QED BY <1>1, PmmInvariance, PTL

\* The bitmap allocator implements the abstract one for every memory map: no
\* page is handed out twice, an allocation fails only when every page is
\* owned, and a free gives back the page its address lies in and no other.
THEOREM AllocatorImplemented == PmmSpec => ImplementsAllocator
BY PmmInvariance, InitRefines, StepRefines, PTL DEF PmmSpec, ImplementsAllocator, Allocator!Spec
=============================================================================
