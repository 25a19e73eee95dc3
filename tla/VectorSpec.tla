------------------------------ MODULE VectorSpec -----------------------------
(***************************************************************************)
(* What a vector promises its callers (src/inc/vector.h): a sequence of    *)
(* addresses, changed by one operation at a time. Indices count from 0.    *)
(***************************************************************************)
EXTENDS Integers, Sequences

CONSTANTS
  Addresses,  \* what a vector holds
  Indices,    \* the indices callers pass
  UINT64,     \* number of values of a uint64_t
  MaxLength,  \* bound on the length
  NULL

VARIABLES
  seq,     \* the items, or NULL where there is no vector
  got,     \* what vector_get returned last
  freed,   \* what vector_free_all freed last
  broken   \* whether a caller broke the vector

avars == <<seq, got, freed, broken>>

AInit == seq = NULL /\ got = NULL /\ freed = << >> /\ broken = FALSE

There == seq # NULL /\ ~broken

Create ==
  /\ seq = NULL /\ ~broken
  /\ seq' = << >>
  /\ UNCHANGED <<got, freed, broken>>

Destroy ==
  /\ There
  /\ seq' = NULL
  /\ UNCHANGED <<got, freed, broken>>

\* The address comes before the item at the index; an index past the end
\* changes nothing.
Insert(index, address) ==
  /\ There /\ Len(seq) < MaxLength /\ index <= Len(seq)
  /\ seq' = [k \in 1 .. Len(seq) + 1 |->
               IF k <= index THEN seq[k] ELSE IF k = index + 1 THEN address ELSE seq[k - 1]]
  /\ UNCHANGED <<got, freed, broken>>

Get(index) ==
  /\ There
  /\ got' = IF index < Len(seq) THEN seq[index + 1] ELSE NULL
  /\ UNCHANGED <<seq, freed, broken>>

\* The item at the index goes; an index past the end takes the last item.
Delete(index) ==
  /\ There /\ seq # << >> /\ index # UINT64 - 1
  /\ seq' = [k \in 1 .. Len(seq) - 1 |-> IF k <= index THEN seq[k] ELSE seq[k + 1]]
  /\ UNCHANGED <<got, freed, broken>>

\* A caller may not delete from an empty vector, nor the index that wraps. What
\* the vector is from then on is not specified.
Break(index) ==
  /\ There /\ (seq = << >> \/ index = UINT64 - 1)
  /\ broken' = TRUE

Clear ==
  /\ There
  /\ seq' = << >>
  /\ UNCHANGED <<got, freed, broken>>

FreeAll ==
  /\ There
  /\ seq' = << >> /\ freed' = seq
  /\ UNCHANGED <<got, broken>>

ANext ==
  \/ Create \/ Destroy \/ Clear \/ FreeAll
  \/ \E index \in Indices \union 0 .. MaxLength, address \in Addresses : Insert(index, address)
  \/ \E index \in Indices : Get(index) \/ Delete(index) \/ Break(index)

ASpec == AInit /\ [][ANext]_avars
=============================================================================
