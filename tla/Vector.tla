------------------------------- MODULE Vector --------------------------------
(***************************************************************************)
(* Vectors (src/inc/vector.c): an array of addresses in a block of the     *)
(* heap, grown by realloc, whose items are moved one at a time.            *)
(*                                                                         *)
(* The heap is taken for what Heap shows of it: a new block's contents are *)
(* arbitrary, and realloc keeps what both blocks have room for. After an   *)
(* access outside of the block nothing more is modelled.                   *)
(***************************************************************************)
EXTENDS Integers, Sequences

CONSTANTS
  Addresses,  \* what a vector holds
  Indices,    \* the indices callers pass
  UINT64,     \* number of values of a uint64_t
  MaxLength,  \* bound on the length
  NULL

\* The bound is well below the largest length, and NULL is no vector.
ASSUME VectorAssumption ==
  /\ MaxLength \in Nat /\ UINT64 \in Nat /\ MaxLength + 2 < UINT64
  /\ Indices \subseteq 0 .. UINT64 - 1
  /\ Addresses # {}
  /\ NULL \notin Seq(Addresses)

VARIABLES
  there,          \* whether the vector has been made, and not freed
  length, items,  \* the vector: items is a function from 0 on
  pc,             \* "idle", or the loop under way
  i,              \* its counter
  index, address, \* the arguments of the insertion under way
  freeing,        \* what vector_free_all has freed so far
  got,            \* what vector_get returned last
  freed,          \* what vector_free_all freed last
  broken          \* whether an access was outside of the block

loopVars == <<pc, i, index, address, freeing>>
vars == <<there, length, items, loopVars, got, freed, broken>>

Blocks(n) == [0 .. n - 1 -> Addresses]

Init ==
  /\ there = FALSE
  /\ length = 0 /\ items = << >>
  /\ pc = "idle" /\ i = 0 /\ index = 0 /\ address = NULL /\ freeing = << >>
  /\ got = NULL /\ freed = << >>
  /\ broken = FALSE

Idle == there /\ pc = "idle" /\ ~broken

\* External: the heap. What malloc and realloc return for n items
malloc(n) == Blocks(n)

realloc(block, n) == {b \in Blocks(n) : \A k \in DOMAIN block \intersect DOMAIN b : b[k] = block[k]}

\* Mutant: room for the items there were.
Room_Before(n) == n - 1

\* The items there is room for after growing to n
Room(n) == n

vector_init ==
  /\ ~there /\ ~broken
  /\ there' = TRUE
  /\ length' = 0
  /\ items' \in malloc(1)
  /\ UNCHANGED <<loopVars, got, freed, broken>>

vector_free ==
  /\ Idle
  /\ there' = FALSE
  /\ length' = 0
  /\ items' = << >>
  /\ UNCHANGED <<loopVars, got, freed, broken>>

vector_add(a) ==
  /\ Idle /\ length < MaxLength
  /\ length' = length + 1
  /\ \E block \in realloc(items, Room(length')) : items' = [block EXCEPT ![length] = a]
  /\ UNCHANGED <<there, loopVars, got, freed, broken>>

vector_get(k) ==
  /\ Idle
  /\ got' = IF k >= length THEN NULL ELSE items[k]
  /\ UNCHANGED <<there, length, items, loopVars, freed, broken>>

-----------------------------------------------------------------------------
\* vector_insert: the items from the index on are moved up, the last one first.

vector_insert(k, a) ==
  /\ Idle /\ length < MaxLength /\ k <= length
  /\ length' = length + 1
  /\ items' \in realloc(items, Room(length'))
  /\ pc' = "insert" /\ i' = length /\ index' = k /\ address' = a
  /\ UNCHANGED <<there, freeing, got, freed, broken>>

MoreToMoveUp == i > index

move_up ==
  /\ pc = "insert" /\ MoreToMoveUp
  /\ items' = [items EXCEPT ![i] = items[i - 1]]
  /\ i' = i - 1
  /\ UNCHANGED <<there, length, pc, index, address, freeing, got, freed, broken>>

inserted ==
  /\ pc = "insert" /\ ~MoreToMoveUp
  /\ items' = [items EXCEPT ![index] = address]
  /\ pc' = "idle" /\ i' = 0 /\ index' = 0 /\ address' = NULL
  /\ UNCHANGED <<there, length, freeing, got, freed, broken>>

-----------------------------------------------------------------------------
\* vector_delete_at: the items after the index are moved down, the first one
\* first. The block is not shrunk.

\* An empty vector's length wraps, and says more than the block holds.
Shorten ==
  /\ length' = (length - 1) % UINT64
  /\ broken' = (length' # 0 /\ length' - 1 \notin DOMAIN items)

\* An index past the end takes the last item. The largest index wraps, and
\* the items are moved down from the first one on.
vector_delete_at(k) ==
  LET first == (k + 1) % UINT64
  IN  /\ Idle
      /\ \/ /\ first < length
            /\ pc' = "delete" /\ i' = first
            /\ UNCHANGED <<length, broken>>
         \/ /\ first >= length
            /\ Shorten
            /\ UNCHANGED <<pc, i>>
      /\ UNCHANGED <<there, items, index, address, freeing, got, freed>>

\* Mutant: the last item is left where it is.
MoreToMoveDown_ButLast == i + 1 < length

MoreToMoveDown == i < length

move_down ==
  /\ pc = "delete" /\ ~broken /\ MoreToMoveDown
  /\ IF i > 0 THEN items' = [items EXCEPT ![i - 1] = items[i]] /\ UNCHANGED broken
     ELSE broken' = TRUE /\ UNCHANGED items
  /\ i' = i + 1
  /\ UNCHANGED <<there, length, pc, index, address, freeing, got, freed>>

deleted ==
  /\ pc = "delete" /\ ~broken /\ ~MoreToMoveDown
  /\ Shorten
  /\ pc' = "idle" /\ i' = 0
  /\ UNCHANGED <<there, items, index, address, freeing, got, freed>>

-----------------------------------------------------------------------------

\* A new block, of one item
Emptied == length' = 0 /\ items' \in malloc(1)

vector_delete_all ==
  /\ Idle
  /\ Emptied
  /\ UNCHANGED <<there, loopVars, got, freed, broken>>

vector_free_all ==
  /\ Idle
  /\ pc' = "free_all" /\ i' = 0
  /\ UNCHANGED <<there, length, items, index, address, freeing, got, freed, broken>>

free_item ==
  /\ pc = "free_all" /\ i < length
  /\ freeing' = Append(freeing, items[i])
  /\ i' = i + 1
  /\ UNCHANGED <<there, length, items, pc, index, address, got, freed, broken>>

all_freed ==
  /\ pc = "free_all" /\ i >= length
  /\ Emptied
  /\ pc' = "idle" /\ i' = 0
  /\ freed' = freeing /\ freeing' = << >>
  /\ UNCHANGED <<there, index, address, got, broken>>

Next ==
  \/ vector_init \/ vector_free \/ vector_delete_all
  \/ \E a \in Addresses : vector_add(a)
  \/ \E k \in Indices : vector_get(k) \/ vector_delete_at(k)
  \/ \E k \in Indices, a \in Addresses : vector_insert(k, a)
  \/ move_up \/ inserted \/ move_down \/ deleted
  \/ vector_free_all \/ free_item \/ all_freed

Spec == Init /\ [][Next]_vars

-----------------------------------------------------------------------------
\* Properties

\* Type invariant: the block has room for every item the length counts, and
\* the loops stay inside of it.
TypeOK ==
  /\ there \in BOOLEAN /\ broken \in BOOLEAN
  /\ pc \in {"idle", "insert", "delete", "free_all"}
  /\ pc # "idle" => there
  /\ ~broken =>
       /\ length \in 0 .. MaxLength /\ i \in 0 .. length
       /\ there => \E n \in 1 .. MaxLength + 1 : n >= length /\ items \in Blocks(n)
       /\ pc = "insert" => index \in 0 .. i /\ i < length /\ address \in Addresses
       /\ pc = "free_all" => Len(freeing) = i

\* The items as a caller will find them: an insertion has not happened until
\* its last step, a deletion has happened from its first step on.
Items ==
  LET hole == IF pc = "insert" THEN i ELSE i - 1
  IN  IF ~there THEN NULL
      ELSE IF pc = "insert" \/ (pc = "delete" /\ i > 0 /\ ~broken)
      THEN [k \in 1 .. length - 1 |-> IF k - 1 < hole THEN items[k - 1] ELSE items[k]]
      ELSE IF broken THEN << >>
      ELSE [k \in 1 .. length |-> items[k - 1]]

A == INSTANCE VectorSpec WITH seq <- Items

\* A vector is a sequence of addresses: moving the items one at a time, up
\* from the last or down from the first, adds up to an insertion or to a
\* deletion, and only a deletion from an empty vector or of the index that
\* wraps breaks it (vector.c).
ImplementsSequence == A!ASpec
=============================================================================
