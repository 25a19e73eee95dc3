---------------------------- MODULE VectorProofs -----------------------------
(***************************************************************************)
(* Proofs about vectors: for every bound, width of the integers and set of *)
(* addresses the loops stay inside of the block, and the vector implements *)
(* a sequence.                                                             *)
(***************************************************************************)
EXTENDS Vector, SequenceTheorems, TLAPS

-----------------------------------------------------------------------------
\* Sequences made from a function's values

\* A block's items from 0 on, shifted to count from 1, are a sequence.
LEMMA ItemsSeq ==
  ASSUME NEW n \in Nat, NEW f, \A k \in 1 .. n : f[k - 1] \in Addresses
  PROVE  /\ [k \in 1 .. n |-> f[k - 1]] \in Seq(Addresses)
         /\ Len([k \in 1 .. n |-> f[k - 1]]) = n
OBVIOUS

\* The same with one item left out.
LEMMA HoleSeq ==
  ASSUME NEW n \in Nat, NEW hole \in Int, NEW f, \A k \in 0 .. n : f[k] \in Addresses
  PROVE  /\ [k \in 1 .. n |-> IF k - 1 < hole THEN f[k - 1] ELSE f[k]] \in Seq(Addresses)
         /\ Len([k \in 1 .. n |-> IF k - 1 < hole THEN f[k - 1] ELSE f[k]]) = n
OBVIOUS

-----------------------------------------------------------------------------
\* The invariant

\* TypeOK is not inductive by itself: a loop under way starts from a vector
\* with items in it, the counter is 0 between loops, and a deletion whose
\* counter is 0 is that of the index that wraps. What vector_free_all has
\* freed are the first items, in their order.
IInv ==
  /\ TypeOK
  /\ pc = "idle" => i = 0 /\ freeing = << >>
  /\ pc \in {"insert", "free_all"} => ~broken
  /\ pc = "delete" /\ ~broken => 0 < length /\ freeing = << >>
  /\ pc = "delete" /\ i = 0 => UINT64 - 1 \in Indices
  /\ pc = "insert" => freeing = << >>
  /\ pc = "free_all" => freeing = [k \in 1 .. i |-> items[k - 1]]

LEMMA InitEstablishes == Init => IInv
<1> SUFFICES ASSUME Init PROVE IInv
  OBVIOUS
<1>1. /\ there = FALSE /\ broken = FALSE /\ length = 0 /\ i = 0
      /\ pc = "idle" /\ freeing = << >>
  BY DEF Init
<1>2. ~there /\ there \in BOOLEAN /\ broken \in BOOLEAN
  BY <1>1, Zenon
<1>3. TypeOK
  BY <1>1, <1>2, VectorAssumption DEF TypeOK
<1> QED BY <1>1, <1>3 DEF IInv

\* What a step can rely on in a vector that is there: its block holds an
\* address for every item the length counts, and for one more or none.
LEMMA BlockOf ==
  ASSUME IInv, there, ~broken
  PROVE  /\ length \in 0 .. MaxLength /\ i \in 0 .. length
         /\ \E n \in 1 .. MaxLength + 1 : n >= length /\ items \in [0 .. n - 1 -> Addresses]
BY DEF IInv, TypeOK, Blocks

\* realloc to one item more keeps the items.
LEMMA Grown ==
  ASSUME IInv, Idle, length < MaxLength, NEW block \in realloc(items, Room(length + 1))
  PROVE  /\ block \in [0 .. length -> Addresses]
         /\ \A k \in 0 .. length - 1 : block[k] = items[k]
<1>1. PICK n \in 1 .. MaxLength + 1 : n >= length /\ items \in [0 .. n - 1 -> Addresses]
  BY BlockOf DEF Idle
<1>2. length \in Nat /\ MaxLength \in Nat
  BY BlockOf, VectorAssumption DEF Idle
<1>3. block \in [0 .. length -> Addresses]
  BY <1>2 DEF realloc, Room, Blocks
<1>4. \A k \in DOMAIN items \intersect DOMAIN block : block[k] = items[k]
  BY DEF realloc
<1> QED BY <1>1, <1>2, <1>3, <1>4

\* Shortening takes one item, or breaks an empty vector: its length wraps to
\* one that no block has room for.
LEMMA Shortened ==
  ASSUME IInv, there, ~broken, Shorten
  PROVE  /\ 0 < length => length' = length - 1 /\ ~broken'
         /\ length = 0 => broken'
         /\ broken' \in BOOLEAN
<1>1. PICK n \in 1 .. MaxLength + 1 : n >= length /\ items \in [0 .. n - 1 -> Addresses]
  BY BlockOf
<1>2. length \in 0 .. MaxLength /\ MaxLength \in Nat /\ UINT64 \in Nat /\ MaxLength + 2 < UINT64
  BY BlockOf, VectorAssumption
<1>3. DOMAIN items = 0 .. n - 1
  BY <1>1
<1> DEFINE Outside == length' # 0 /\ length' - 1 \notin DOMAIN items
<1>4. broken' = Outside
  BY Zenon DEF Shorten
<1>5. length' = (length - 1) % UINT64
  BY DEF Shorten
<1>6. 0 < length => length' = length - 1
  BY <1>2, <1>5
<1>7. length = 0 => length' = UINT64 - 1
  BY <1>2, <1>5
<1>8. 0 < length => ~Outside
  BY <1>1, <1>2, <1>3, <1>6
<1>9. length = 0 => Outside
  BY <1>1, <1>2, <1>3, <1>7
<1>10. Outside \in BOOLEAN
  OBVIOUS
<1> HIDE DEF Outside
<1> QED BY <1>4, <1>6, <1>8, <1>9, <1>10

LEMMA NextPreserves == IInv /\ [Next]_vars => IInv'
<1> SUFFICES ASSUME IInv, [Next]_vars PROVE IInv'
  OBVIOUS
<1> USE VectorAssumption
<1>1. CASE vector_init
  BY <1>1 DEF vector_init, malloc, Blocks, loopVars, IInv, TypeOK
<1>2. CASE vector_free
  <2>1. ~there' /\ there' \in BOOLEAN
    BY <1>2, Zenon DEF vector_free
  <2> QED BY <1>2, <2>1 DEF vector_free, Idle, loopVars, IInv, TypeOK
<1>3. CASE vector_delete_all
  BY <1>3 DEF vector_delete_all, Idle, Emptied, malloc, Blocks, loopVars, IInv, TypeOK
<1>4. ASSUME NEW a \in Addresses, vector_add(a) PROVE IInv'
  <2>1. PICK block \in realloc(items, Room(length + 1)) : items' = [block EXCEPT ![length] = a]
    BY <1>4 DEF vector_add
  <2>2. Idle /\ length < MaxLength /\ length' = length + 1 /\ length \in 0 .. MaxLength
    BY <1>4, BlockOf DEF vector_add, Idle
  <2>3. items' \in [0 .. length -> Addresses]
    BY <2>1, <2>2, Grown
  <2>4. items' \in Blocks(length')
    BY <2>2, <2>3 DEF Blocks
  <2> QED BY <1>4, <2>2, <2>4 DEF vector_add, Idle, loopVars, IInv, TypeOK, Blocks
<1>5. ASSUME NEW k \in Indices, vector_get(k) PROVE IInv'
  BY <1>5 DEF vector_get, Idle, loopVars, IInv, TypeOK, Blocks
<1>6. ASSUME NEW k \in Indices, vector_delete_at(k) PROVE IInv'
  <2> DEFINE first == (k + 1) % UINT64
  <2>1. /\ k \in 0 .. UINT64 - 1
        /\ k # UINT64 - 1 => first = k + 1
        /\ k = UINT64 - 1 => first = 0
    OBVIOUS
  <2>2. Idle /\ length \in 0 .. MaxLength /\ UNCHANGED <<there, items, index, address, freeing, got, freed>>
    BY <1>6, BlockOf DEF vector_delete_at, Idle
  <2> HIDE DEF first
  <2>3. CASE first < length /\ pc' = "delete" /\ i' = first /\ UNCHANGED <<length, broken>>
    BY <2>1, <2>2, <2>3 DEF Idle, IInv, TypeOK, Blocks
  <2>4. CASE first >= length /\ Shorten /\ UNCHANGED <<pc, i>>
    <3>1. pc' = "idle" /\ i' = 0 /\ freeing' = << >> /\ there' /\ there' \in BOOLEAN
      BY <2>2, <2>4 DEF Idle, IInv, TypeOK
    <3>2. broken' \in BOOLEAN /\ (~broken' => length' \in 0 .. length /\ length \in 0 .. MaxLength)
      BY <2>2, <2>4, Shortened DEF Idle
    <3>3. \E n \in 1 .. MaxLength + 1 : n >= length /\ items' \in [0 .. n - 1 -> Addresses]
      BY <2>2, BlockOf DEF Idle
    <3> QED BY <3>1, <3>2, <3>3 DEF IInv, TypeOK, Blocks
  <2> QED BY <1>6, <2>3, <2>4 DEF vector_delete_at, first
<1>7. ASSUME NEW k \in Indices, NEW a \in Addresses, vector_insert(k, a) PROVE IInv'
  <2>1. Idle /\ length < MaxLength /\ length' = length + 1 /\ length \in 0 .. MaxLength
    BY <1>7, BlockOf DEF vector_insert, Idle
  <2>2. items' \in Blocks(length')
    BY <1>7, <2>1, Grown DEF vector_insert, Blocks
  <2> QED BY <1>7, <2>1, <2>2 DEF vector_insert, Idle, IInv, TypeOK, Blocks
<1>8. CASE move_up
  <2>1. /\ there /\ ~broken /\ length \in 0 .. MaxLength /\ i \in index + 1 .. length - 1
        /\ index \in Nat /\ address \in Addresses /\ freeing = << >>
    BY <1>8 DEF move_up, MoreToMoveUp, IInv, TypeOK
  <2>2. PICK n \in 1 .. MaxLength + 1 : n >= length /\ items \in [0 .. n - 1 -> Addresses]
    BY <2>1, BlockOf
  <2>3. items' \in [0 .. n - 1 -> Addresses]
    BY <1>8, <2>1, <2>2 DEF move_up
  <2> QED BY <1>8, <2>1, <2>2, <2>3 DEF move_up, IInv, TypeOK, Blocks
<1>9. CASE inserted
  <2>1. PICK n \in 1 .. MaxLength + 1 : n >= length /\ items \in [0 .. n - 1 -> Addresses]
    BY <1>9, BlockOf DEF inserted, IInv, TypeOK
  <2>2. length \in 0 .. MaxLength /\ index \in 0 .. length - 1 /\ address \in Addresses /\ there /\ ~broken
    BY <1>9 DEF inserted, IInv, TypeOK
  <2>3. items' \in [0 .. n - 1 -> Addresses]
    BY <1>9, <2>1, <2>2 DEF inserted
  <2> QED BY <1>9, <2>1, <2>2, <2>3 DEF inserted, IInv, TypeOK, Blocks
<1>10. CASE move_down
  <2>1. there /\ ~broken /\ length \in 0 .. MaxLength /\ i \in 0 .. length - 1 /\ freeing = << >>
    BY <1>10 DEF move_down, MoreToMoveDown, IInv, TypeOK
  <2>2. PICK n \in 1 .. MaxLength + 1 : n >= length /\ items \in [0 .. n - 1 -> Addresses]
    BY <2>1, BlockOf
  <2>3. CASE i > 0
    <3>1. items' = [items EXCEPT ![i - 1] = items[i]] /\ broken' = broken
      BY <1>10, <2>3 DEF move_down
    <3>2. items' \in [0 .. n - 1 -> Addresses]
      BY <2>1, <2>2, <2>3, <3>1
    <3> QED BY <1>10, <2>1, <2>2, <2>3, <3>1, <3>2 DEF move_down, IInv, TypeOK, Blocks
  <2>4. CASE ~(i > 0)
    <3>1. broken' /\ broken' \in BOOLEAN
      BY <1>10, <2>4 DEF move_down
    <3> QED BY <1>10, <2>1, <2>4, <3>1 DEF move_down, IInv, TypeOK, Blocks
  <2> QED BY <2>3, <2>4
<1>11. CASE deleted
  <2>1. there /\ ~broken /\ Shorten /\ 0 < length
    BY <1>11 DEF deleted, IInv, TypeOK
  <2> QED BY <1>11, <2>1, Shortened DEF deleted, IInv, TypeOK, Blocks
<1>12. CASE vector_free_all
  BY <1>12 DEF vector_free_all, Idle, IInv, TypeOK, Blocks
<1>13. CASE free_item
  <2>1. PICK n \in 1 .. MaxLength + 1 : n >= length /\ items \in [0 .. n - 1 -> Addresses]
    BY <1>13, BlockOf DEF free_item, IInv, TypeOK
  <2>2. /\ there /\ ~broken /\ length \in 0 .. MaxLength /\ i \in 0 .. length - 1 /\ i' = i + 1
        /\ freeing = [k \in 1 .. i |-> items[k - 1]]
    BY <1>13 DEF free_item, IInv, TypeOK
  <2>3. \A k \in 1 .. i : items[k - 1] \in Addresses
    BY <2>1, <2>2
  <2>4. freeing \in Seq(Addresses) /\ Len(freeing) = i
    BY <2>2, <2>3, ItemsSeq
  <2>5. freeing' = [k \in 1 .. i' |-> items'[k - 1]] /\ Len(freeing') = i'
    BY <1>13, <2>1, <2>2, <2>4 DEF free_item
  <2> QED BY <1>13, <2>1, <2>2, <2>5 DEF free_item, IInv, TypeOK, Blocks
<1>14. CASE all_freed
  <2>1. there /\ ~broken /\ there \in BOOLEAN /\ broken \in BOOLEAN
    BY <1>14 DEF all_freed, IInv, TypeOK
  <2>2. length' = 0 /\ items' \in Blocks(1)
    BY <1>14 DEF all_freed, Emptied, malloc
  <2> QED BY <1>14, <2>1, <2>2 DEF all_freed, IInv, TypeOK
<1>15. CASE UNCHANGED vars
  BY <1>15 DEF vars, loopVars, IInv, TypeOK, Blocks
<1> QED BY <1>1, <1>2, <1>3, <1>4, <1>5, <1>6, <1>7, <1>8, <1>9, <1>10, <1>11, <1>12, <1>13, <1>14, <1>15
        DEF Next

LEMMA Invariance == Spec => []IInv
BY InitEstablishes, NextPreserves, PTL DEF Spec

-----------------------------------------------------------------------------
\* The refinement

\* Where no loop is under way the items are those the length counts, and a
\* vector is not NULL.
LEMMA IdleItems ==
  ASSUME IInv, Idle
  PROVE  /\ Items = [k \in 1 .. length |-> items[k - 1]]
         /\ Items \in Seq(Addresses) /\ Len(Items) = length /\ Items # NULL
<1>1. PICK n \in 1 .. MaxLength + 1 : n >= length /\ items \in [0 .. n - 1 -> Addresses]
  BY BlockOf DEF Idle
<1>2. length \in Nat /\ length <= MaxLength
  BY BlockOf, VectorAssumption DEF Idle
<1>3. Items = [k \in 1 .. length |-> items[k - 1]]
  BY DEF Items, Idle
<1>4. \A k \in 1 .. length : items[k - 1] \in Addresses
  BY <1>1, <1>2
<1> QED BY <1>2, <1>3, <1>4, ItemsSeq, VectorAssumption

\* While an insertion moves items up, the item at the counter is not one.
LEMMA InsertItems ==
  ASSUME IInv, pc = "insert"
  PROVE  /\ length \in 1 .. MaxLength /\ there /\ ~broken
         /\ Items = [k \in 1 .. length - 1 |-> IF k - 1 < i THEN items[k - 1] ELSE items[k]]
         /\ Items \in Seq(Addresses) /\ Len(Items) = length - 1 /\ Items # NULL
<1>1. there /\ ~broken /\ i \in 0 .. length - 1 /\ length \in 1 .. MaxLength
  BY VectorAssumption DEF IInv, TypeOK
<1>2. PICK n \in 1 .. MaxLength + 1 : n >= length /\ items \in [0 .. n - 1 -> Addresses]
  BY <1>1, BlockOf
<1>3. Items = [k \in 1 .. length - 1 |-> IF k - 1 < i THEN items[k - 1] ELSE items[k]]
  BY <1>1 DEF Items
<1>4. \A k \in 0 .. length - 1 : items[k] \in Addresses
  BY <1>1, <1>2
<1>5. length - 1 \in Nat /\ i \in Int
  BY <1>1
<1> QED BY <1>1, <1>3, <1>4, <1>5, HoleSeq, VectorAssumption

\* While a deletion moves items down, the one before the counter is not one.
LEMMA DeleteItems ==
  ASSUME IInv, pc = "delete", ~broken, i > 0
  PROVE  /\ length \in 1 .. MaxLength /\ there
         /\ Items = [k \in 1 .. length - 1 |-> IF k - 1 < i - 1 THEN items[k - 1] ELSE items[k]]
         /\ Items \in Seq(Addresses) /\ Len(Items) = length - 1 /\ Items # NULL
<1>1. there /\ i \in 1 .. length /\ length \in 1 .. MaxLength
  BY VectorAssumption DEF IInv, TypeOK
<1>2. PICK n \in 1 .. MaxLength + 1 : n >= length /\ items \in [0 .. n - 1 -> Addresses]
  BY <1>1, BlockOf
<1>3. Items = [k \in 1 .. length - 1 |-> IF k - 1 < i - 1 THEN items[k - 1] ELSE items[k]]
  BY <1>1 DEF Items
<1>4. \A k \in 0 .. length - 1 : items[k] \in Addresses
  BY <1>1, <1>2
<1>5. length - 1 \in Nat /\ i - 1 \in Int
  BY <1>1
<1> QED BY <1>1, <1>3, <1>4, <1>5, HoleSeq, VectorAssumption

\* In a deletion of the index that wraps no item has been moved yet, and while
\* vector_free_all frees the items they stay where they are.
LEMMA WholeItems ==
  ASSUME IInv, ~broken, \/ pc = "delete" /\ i = 0
                        \/ pc = "free_all"
  PROVE  /\ length \in 0 .. MaxLength /\ there
         /\ Items = [k \in 1 .. length |-> items[k - 1]]
         /\ Items \in Seq(Addresses) /\ Len(Items) = length /\ Items # NULL
<1>1. there /\ length \in 0 .. MaxLength /\ MaxLength \in Nat
  BY VectorAssumption DEF IInv, TypeOK
<1>2. PICK n \in 1 .. MaxLength + 1 : n >= length /\ items \in [0 .. n - 1 -> Addresses]
  BY <1>1, BlockOf
<1>3. Items = [k \in 1 .. length |-> items[k - 1]]
  BY <1>1 DEF Items
<1>4. \A k \in 1 .. length : items[k - 1] \in Addresses
  BY <1>1, <1>2
<1>5. length \in Nat
  BY <1>1
<1> QED BY <1>1, <1>3, <1>4, <1>5, ItemsSeq, VectorAssumption

LEMMA InitRefines == Init => A!AInit
BY DEF Init, A!AInit, Items

\* Every step is one of the abstract sequence's, or changes nothing of it.
LEMMA StepRefines == IInv /\ [Next]_vars => [A!ANext]_(A!avars)
<1> SUFFICES ASSUME IInv, [Next]_vars PROVE [A!ANext]_(A!avars)
  OBVIOUS
<1> USE VectorAssumption
<1>1. CASE vector_init
  <2>1. Items = NULL /\ ~broken
    BY <1>1 DEF vector_init, Items
  <2>2. Items' = << >>
    BY <1>1 DEF vector_init, loopVars, Items, IInv, TypeOK
  <2> QED BY <1>1, <2>1, <2>2 DEF vector_init, A!ANext, A!Create
<1>2. CASE vector_free
  <2>1. Items' = NULL
    BY <1>2, Zenon DEF vector_free, Items
  <2> QED BY <1>2, <2>1, IdleItems DEF vector_free, Idle, A!ANext, A!Destroy, A!There
<1>3. CASE vector_delete_all
  <2>1. Items' = << >>
    BY <1>3 DEF vector_delete_all, Idle, Emptied, loopVars, Items
  <2> QED BY <1>3, <2>1, IdleItems DEF vector_delete_all, Idle, A!ANext, A!Clear, A!There
<1>4. ASSUME NEW a \in Addresses, vector_add(a) PROVE A!ANext
  <2>1. PICK block \in realloc(items, Room(length + 1)) : items' = [block EXCEPT ![length] = a]
    BY <1>4 DEF vector_add
  <2>2. Idle /\ length < MaxLength /\ length' = length + 1 /\ length \in 0 .. MaxLength
    BY <1>4, BlockOf DEF vector_add, Idle
  <2>3. /\ block \in [0 .. length -> Addresses]
        /\ \A k \in 0 .. length - 1 : block[k] = items[k]
    BY <2>1, <2>2, Grown
  <2>4. Items' = [k \in 1 .. length + 1 |-> items'[k - 1]]
    BY <1>4, <2>2 DEF vector_add, Idle, loopVars, Items
  <2>5. Items' = [k \in 1 .. Len(Items) + 1 |->
                    IF k <= length THEN Items[k] ELSE IF k = length + 1 THEN a ELSE Items[k - 1]]
    BY <2>1, <2>2, <2>3, <2>4, IdleItems
  <2>6. A!Insert(length, a)
    BY <1>4, <2>2, <2>5, IdleItems DEF vector_add, Idle, A!Insert, A!There
  <2> QED BY <2>2, <2>6 DEF A!ANext
<1>5. ASSUME NEW k \in Indices, vector_get(k) PROVE A!ANext
  <2>1. Idle /\ length \in 0 .. MaxLength /\ k \in Nat
    BY <1>5, BlockOf DEF vector_get, Idle
  <2>2. got' = IF k < Len(Items) THEN Items[k + 1] ELSE NULL
    BY <1>5, <2>1, IdleItems DEF vector_get
  <2>3. Items' = Items
    BY <1>5 DEF vector_get, loopVars, Items
  <2>4. A!Get(k)
    BY <1>5, <2>1, <2>2, <2>3, IdleItems DEF vector_get, Idle, A!Get, A!There
  <2> QED BY <2>4 DEF A!ANext
<1>6. ASSUME NEW k \in Indices, vector_delete_at(k) PROVE [A!ANext]_(A!avars)
  <2> DEFINE first == (k + 1) % UINT64
  <2>1. /\ k \in 0 .. UINT64 - 1
        /\ k # UINT64 - 1 => first = k + 1
        /\ k = UINT64 - 1 => first = 0
    OBVIOUS
  <2>2. Idle /\ length \in 0 .. MaxLength /\ UNCHANGED <<there, items, index, address, freeing, got, freed>>
    BY <1>6, BlockOf DEF vector_delete_at, Idle
  <2> HIDE DEF first
  <2>3. CASE first < length /\ pc' = "delete" /\ i' = first /\ UNCHANGED <<length, broken>>
    <3>1. CASE k = UINT64 - 1
      <4>1. Items' = Items
        BY <2>1, <2>2, <2>3, <3>1 DEF Idle, Items
      <4> QED BY <2>2, <2>3, <4>1 DEF A!avars
    <3>2. CASE k # UINT64 - 1
      <4>1. Items' = [j \in 1 .. length - 1 |-> IF j - 1 < k THEN items[j - 1] ELSE items[j]]
        BY <2>1, <2>2, <2>3, <3>2 DEF Idle, Items
      <4>2. Items' = [j \in 1 .. Len(Items) - 1 |-> IF j <= k THEN Items[j] ELSE Items[j + 1]]
        BY <2>1, <2>2, <4>1, IdleItems
      <4>3. Items # << >>
        BY <2>1, <2>2, <2>3, <3>2, IdleItems
      <4>4. A!Delete(k)
        BY <2>2, <2>3, <3>2, <4>2, <4>3, IdleItems DEF Idle, A!Delete, A!There
      <4> QED BY <4>4 DEF A!ANext
    <3> QED BY <3>1, <3>2
  <2>4. CASE first >= length /\ Shorten /\ UNCHANGED <<pc, i>>
    <3>1. CASE length = 0
      <4>1. broken' = TRUE
        BY <2>2, <2>4, <3>1, Shortened DEF Idle
      <4>2. Items = << >>
        BY <2>2, <3>1, IdleItems
      <4>3. A!Break(k)
        BY <2>2, <4>1, <4>2, IdleItems DEF Idle, A!Break, A!There
      <4> QED BY <4>3 DEF A!ANext
    <3>2. CASE length > 0
      <4>1. length' = length - 1 /\ broken' = broken
        BY <2>2, <2>4, <3>2, Shortened DEF Idle, IInv, TypeOK
      <4>2. Items' = [j \in 1 .. length - 1 |-> items[j - 1]]
        BY <2>2, <2>4, <4>1 DEF Idle, Items
      <4>3. k # UINT64 - 1 /\ k >= length - 1
        BY <2>1, <2>2, <2>4, <3>2
      <4>4. Items' = [j \in 1 .. Len(Items) - 1 |-> IF j <= k THEN Items[j] ELSE Items[j + 1]]
        BY <2>1, <2>2, <4>2, <4>3, IdleItems
      <4>5. Items # << >>
        BY <2>2, <3>2, IdleItems
      <4>6. A!Delete(k)
        BY <2>2, <4>1, <4>3, <4>4, <4>5, IdleItems DEF Idle, A!Delete, A!There
      <4> QED BY <4>6 DEF A!ANext
    <3> QED BY <2>2, <3>1, <3>2
  <2> QED BY <1>6, <2>3, <2>4 DEF vector_delete_at, first
<1>7. ASSUME NEW k \in Indices, NEW a \in Addresses, vector_insert(k, a) PROVE UNCHANGED A!avars
  <2>1. Idle /\ length < MaxLength /\ length' = length + 1 /\ length \in 0 .. MaxLength
    BY <1>7, BlockOf DEF vector_insert, Idle
  <2>2. items' \in [0 .. length -> Addresses] /\ \A j \in 0 .. length - 1 : items'[j] = items[j]
    BY <1>7, <2>1, Grown DEF vector_insert
  <2>3. Items' = [j \in 1 .. length |-> IF j - 1 < length THEN items'[j - 1] ELSE items'[j]]
    BY <1>7, <2>1 DEF vector_insert, Idle, Items
  <2>4. Items' = Items
    BY <2>1, <2>2, <2>3, IdleItems
  <2> QED BY <1>7, <2>4 DEF vector_insert, A!avars
<1>8. CASE move_up
  <2>1. /\ length \in 1 .. MaxLength /\ there /\ ~broken /\ i \in 1 .. length - 1
        /\ items' = [items EXCEPT ![i] = items[i - 1]] /\ i' = i - 1
        /\ UNCHANGED <<there, length, pc, got, freed, broken>>
    BY <1>8, InsertItems DEF move_up, MoreToMoveUp, IInv, TypeOK
  <2>2. PICK n \in 1 .. MaxLength + 1 : n >= length /\ items \in [0 .. n - 1 -> Addresses]
    BY <2>1, BlockOf
  <2>3. Items' = [j \in 1 .. length - 1 |-> IF j - 1 < i - 1 THEN items'[j - 1] ELSE items'[j]]
    BY <1>8, <2>1 DEF move_up, Items
  <2>4. Items' = Items
    BY <1>8, <2>1, <2>2, <2>3, InsertItems DEF move_up
  <2> QED BY <2>1, <2>4 DEF A!avars
<1>9. CASE inserted
  <2>1. /\ length \in 1 .. MaxLength /\ there /\ ~broken /\ i = index /\ index \in 0 .. length - 1
        /\ address \in Addresses /\ items' = [items EXCEPT ![index] = address] /\ pc' = "idle"
        /\ UNCHANGED <<there, length, got, freed, broken>>
    BY <1>9, InsertItems DEF inserted, MoreToMoveUp, IInv, TypeOK
  <2>2. PICK n \in 1 .. MaxLength + 1 : n >= length /\ items \in [0 .. n - 1 -> Addresses]
    BY <2>1, BlockOf
  <2>3. Items' = [j \in 1 .. length |-> items'[j - 1]]
    BY <2>1 DEF Items
  <2>4. Items' = [j \in 1 .. Len(Items) + 1 |->
                    IF j <= index THEN Items[j] ELSE IF j = index + 1 THEN address ELSE Items[j - 1]]
    BY <1>9, <2>1, <2>2, <2>3, InsertItems DEF inserted
  <2>5. A!Insert(index, address)
    BY <1>9, <2>1, <2>4, InsertItems DEF inserted, A!Insert, A!There
  <2> QED BY <2>1, <2>5 DEF A!ANext
<1>10. CASE move_down
  <2>1. there /\ ~broken /\ length \in 1 .. MaxLength /\ i \in 0 .. length - 1
    BY <1>10 DEF move_down, MoreToMoveDown, IInv, TypeOK
  <2>2. CASE i > 0
    <3>1. /\ items' = [items EXCEPT ![i - 1] = items[i]] /\ i' = i + 1
          /\ UNCHANGED <<there, length, pc, got, freed, broken>>
      BY <1>10, <2>2 DEF move_down
    <3>2. PICK n \in 1 .. MaxLength + 1 : n >= length /\ items \in [0 .. n - 1 -> Addresses]
      BY <2>1, BlockOf
    <3>3. Items' = [j \in 1 .. length - 1 |-> IF j - 1 < i' - 1 THEN items'[j - 1] ELSE items'[j]]
      <4>1. there' /\ pc' = "delete" /\ i' > 0 /\ ~broken' /\ length' = length
        BY <1>10, <2>1, <2>2, <3>1 DEF move_down
      <4> QED BY <4>1 DEF Items
    <3>4. Items' = Items
      BY <1>10, <2>1, <2>2, <3>1, <3>2, <3>3, DeleteItems DEF move_down
    <3> QED BY <3>1, <3>4 DEF A!avars
  <2>3. CASE i = 0
    <3>1. broken' = TRUE /\ UINT64 - 1 \in Indices
      BY <1>10, <2>3 DEF move_down, IInv
    <3>2. A!Break(UINT64 - 1)
      BY <1>10, <2>1, <2>3, <3>1, WholeItems DEF move_down, A!Break, A!There
    <3> QED BY <3>1, <3>2 DEF A!ANext
  <2> QED BY <2>1, <2>2, <2>3
<1>11. CASE deleted
  <2>1. there /\ ~broken /\ Shorten /\ length \in 1 .. MaxLength /\ i = length /\ pc = "delete" /\ pc' = "idle"
    BY <1>11 DEF deleted, MoreToMoveDown, IInv, TypeOK
  <2>2. length' = length - 1 /\ broken' = broken /\ UNCHANGED <<there, items, got, freed>>
    BY <1>11, <2>1, Shortened DEF deleted, IInv, TypeOK
  <2>3. Items' = [j \in 1 .. length - 1 |-> items[j - 1]]
    BY <2>1, <2>2 DEF Items
  <2>4. Items' = Items
    BY <2>1, <2>3, DeleteItems
  <2> QED BY <2>2, <2>4 DEF A!avars
<1>12. CASE vector_free_all
  <2>1. Items' = Items
    BY <1>12 DEF vector_free_all, Idle, Items
  <2> QED BY <1>12, <2>1 DEF vector_free_all, A!avars
<1>13. CASE free_item
  <2>1. Items' = Items
    BY <1>13 DEF free_item, Items, IInv
  <2> QED BY <1>13, <2>1 DEF free_item, A!avars
<1>14. CASE all_freed
  <2>1. there /\ ~broken /\ i = length /\ pc = "free_all" /\ pc' = "idle" /\ length' = 0
    BY <1>14 DEF all_freed, Emptied, IInv, TypeOK
  <2>2. freed' = Items
    BY <1>14, <2>1, WholeItems DEF all_freed, IInv
  <2>3. Items' = << >>
    BY <1>14, <2>1 DEF all_freed, Items
  <2>4. A!FreeAll
    BY <1>14, <2>1, <2>2, <2>3, WholeItems DEF all_freed, A!FreeAll, A!There
  <2> QED BY <2>4 DEF A!ANext
<1>15. CASE UNCHANGED vars
  BY <1>15 DEF vars, loopVars, A!avars, Items
<1> QED BY <1>1, <1>2, <1>3, <1>4, <1>5, <1>6, <1>7, <1>8, <1>9, <1>10, <1>11, <1>12, <1>13, <1>14, <1>15
        DEF Next

-----------------------------------------------------------------------------
\* Theorems

\* The block of a vector always has room for every item its length counts, and
\* the loops of vector_insert, vector_delete_at and vector_free_all stay inside
\* of it, until a caller breaks the vector.
THEOREM TypeCorrect == Spec => []TypeOK
<1>1. IInv => TypeOK
  BY DEF IInv
<1> QED BY <1>1, Invariance, PTL

\* A vector is a sequence: moving items one at a time adds up to an insertion
\* or a deletion, and only a deletion from an empty vector or of the index that
\* wraps breaks it (vector.c:43-75).
THEOREM SequenceImplemented == Spec => ImplementsSequence
BY Invariance, InitRefines, StepRefines, PTL DEF Spec, ImplementsSequence, A!ASpec
=============================================================================
