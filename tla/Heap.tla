-------------------------------- MODULE Heap ---------------------------------
(***************************************************************************)
(* The kernel heap (src/mem/heap.c): a list of segments, each a header     *)
(* followed by its bytes, in a virtual region that grows page by page.     *)
(*                                                                         *)
(* hdrs holds the headers by address. The functions of heap.c find a       *)
(* header by walking the list from the base; the walk visits exactly       *)
(* DOMAIN hdrs in address order, which is what SegmentsTile says, so       *)
(* "the first segment that fits" is the lowest one. That stops being so    *)
(* when a step overwrites a live header or gives one segment to two        *)
(* clients: health records it and the model goes no further, since header  *)
(* bytes and client data are then the same bytes.                          *)
(***************************************************************************)
EXTENDS Integers, FiniteSets, FiniteSetsExt

CONSTANTS
  PAGE,               \* bytes in a page (0x1000)
  HDR,                \* sizeof(heap_segment_hdr_t)
  heap_base_address,  \* the argument of heap_init
  Clients,            \* owners of blocks (vectors, drivers)
  Sizes,              \* the sizes they ask for
  MaxHeapPages,       \* bound on heap_size: the physical pages there are
  UINT32_MAX          \* the largest value of a header's size field

\* Segment sizes are 32 bit fields; a heap below 4 GiB never wraps them. The
\* heap stays within physical memory (module Pmm has what lies beyond).
ASSUME HeapAssumption ==
  /\ PAGE \in Nat /\ HDR \in Nat \ {0} /\ HDR < PAGE
  /\ heap_base_address \in Nat \ {0}
  /\ Sizes \subseteq Nat
  /\ MaxHeapPages \in Nat \ {0}
  /\ UINT32_MAX \in Nat /\ MaxHeapPages * PAGE <= UINT32_MAX

VARIABLES
  hdrs,       \* the segment headers by address: [prev, next, size, free]
  heap_size,  \* pages mapped
  blocks,     \* history: the block each client holds, [ptr, size]
  copied,     \* history: bytes the last realloc copied
  freed,      \* history: free has been called
  health      \* "ok", "fault" (page fault, the kernel hangs), "corrupt"

vars == <<hdrs, heap_size, blocks, copied, freed, health>>

NULL == 0

NoBlock == [ptr |-> NULL, size |-> 0]

HeapEnd == heap_base_address + (heap_size * PAGE)

EndOf(h) == h + HDR + hdrs[h].size

-----------------------------------------------------------------------------
\* The list operations, on a table of headers H

\* Mutant: no check that the rest has room for a header.
heap_split_segment_NoRoomCheck(H, curr, size) ==
  LET new == curr + HDR + size
  IN  [h \in DOMAIN H \cup {new} |->
         IF h = new
         THEN [prev |-> curr, next |-> H[curr].next,
               size |-> H[curr].size - (size + HDR), free |-> TRUE]
         ELSE IF h = curr
         THEN [H[h] EXCEPT !.next = new, !.size = size]
         ELSE H[h]]

\* Mutant: the new header's own bytes are not subtracted.
heap_split_segment_KeepsHeaderBytes(H, curr, size) ==
  LET new == curr + HDR + size
  IN  IF H[curr].size <= size + HDR THEN H
      ELSE [h \in DOMAIN H \cup {new} |->
              IF h = new
              THEN [prev |-> curr, next |-> H[curr].next,
                    size |-> H[curr].size - size, free |-> TRUE]
              ELSE IF h = curr
              THEN [H[h] EXCEPT !.next = new, !.size = size]
              ELSE H[h]]

\* Mutant: the new header inherits the split header's prev.
heap_split_segment_InheritsPrev(H, curr, size) ==
  LET new == curr + HDR + size
  IN  IF H[curr].size <= size + HDR THEN H
      ELSE [h \in DOMAIN H \cup {new} |->
              IF h = new
              THEN [prev |-> H[curr].prev, next |-> H[curr].next,
                    size |-> H[curr].size - (size + HDR), free |-> TRUE]
              ELSE IF h = curr
              THEN [H[h] EXCEPT !.next = new, !.size = size]
              ELSE H[h]]

heap_split_segment(H, curr, size) ==
  LET new == curr + HDR + size
  IN  IF H[curr].size <= size + HDR THEN H
      ELSE [h \in DOMAIN H \cup {new} |->
              IF h = new
              THEN [prev |-> curr, next |-> H[curr].next,
                    size |-> H[curr].size - (size + HDR), free |-> TRUE]
              ELSE IF h = curr
              THEN [H[h] EXCEPT !.next = new, !.size = size]
              ELSE H[h]]

\* The absorbed header leaves the list. memset then clears the header that
\* curr->next, already advanced, points to; the caller checks it for NULL.
heap_merge_forward(H, curr) ==
  LET absorbed == H[curr].next
      after    == H[absorbed].next
  IN  [h \in DOMAIN H \ {absorbed} |->
         IF h = curr
         THEN [H[h] EXCEPT !.size = @ + HDR + H[absorbed].size, !.next = after]
         ELSE IF h = after
         THEN [prev |-> NULL, next |-> NULL, size |-> 0, free |-> FALSE]
         ELSE H[h]]

heap_extend(last, n) == [hdrs EXCEPT ![last].size = @ + (n * PAGE)]

-----------------------------------------------------------------------------
\* Mutant: the header's bytes count as room.
Fitting_CountsHeader(size) ==
  {h \in DOMAIN hdrs : hdrs[h].free /\ hdrs[h].size + HDR >= size}

\* Mutant: segments in use are looked at too.
Fitting_InUse(size) == {h \in DOMAIN hdrs : hdrs[h].size >= size}

Fitting(size) == {h \in DOMAIN hdrs : hdrs[h].free /\ hdrs[h].size >= size}

LastSegment == CHOOSE h \in DOMAIN hdrs : hdrs[h].next = NULL

PagesNeeded(size) == (size \div PAGE) + 1

\* The segment malloc returns, and the headers and pages just before it is
\* marked: the first free segment that fits, or else the last segment, free
\* or not, once it has been extended. It is then always large enough.
Chosen(size) ==
  IF Fitting(size) # {}
  THEN [hdr |-> Min(Fitting(size)), hdrs |-> hdrs, pages |-> 0]
  ELSE [hdr   |-> LastSegment,
        hdrs  |-> heap_extend(LastSegment, PagesNeeded(size)),
        pages |-> PagesNeeded(size)]

\* The whole of malloc on behalf of client c: the block it had, if any, is
\* forgotten (realloc), not freed.
Grant(c, size) ==
  LET m == Chosen(size)
  IN  /\ heap_size + m.pages <= MaxHeapPages
      /\ hdrs' = [heap_split_segment(m.hdrs, m.hdr, size) EXCEPT ![m.hdr].free = FALSE]
      /\ heap_size' = heap_size + m.pages
      /\ blocks' = [blocks EXCEPT ![c] = [ptr |-> m.hdr + HDR, size |-> size]]
      /\ health' = IF \E d \in Clients \ {c} : blocks[d].ptr = m.hdr + HDR
                   THEN "corrupt" ELSE "ok"

malloc(c, size) ==
  /\ health = "ok"
  /\ blocks[c] = NoBlock
  /\ Grant(c, size)
  /\ copied' = 0
  /\ UNCHANGED freed

\* Mutant: the old block's size, whatever the new one's.
CopyLength_OldSize(old_size, size) == old_size

\* old_header->size is read after malloc, which may have changed it.
CopyLength(old_size, size) == IF old_size < size THEN old_size ELSE size

realloc(c, size) ==
  /\ health = "ok"
  /\ blocks[c] # NoBlock
  /\ Grant(c, size)
  /\ copied' = CopyLength(hdrs'[blocks[c].ptr - HDR].size, size)
  /\ UNCHANGED freed

\* What the merge of header and its next does to the machine
MergeHealth(H, curr) == IF H[H[curr].next].next = NULL THEN "fault" ELSE "corrupt"

\* free: mark the segment, merge it into a free predecessor, then with a free
\* successor. Every merge clears a header or writes to NULL, and so does the
\* look at header->next of the last segment.
free(c) ==
  LET h == blocks[c].ptr - HDR
      H == [hdrs EXCEPT ![h].free = TRUE]
      prev == H[h].prev
      next == H[h].next
  IN  /\ health = "ok"
      /\ blocks[c] # NoBlock
      /\ blocks' = [blocks EXCEPT ![c] = NoBlock]
      /\ copied' = 0
      /\ freed' = TRUE
      /\ UNCHANGED heap_size
      /\ \/ /\ prev # NULL /\ H[prev].free
            /\ hdrs' = heap_merge_forward(H, prev)
            /\ health' = MergeHealth(H, prev)
         \/ /\ ~(prev # NULL /\ H[prev].free)
            /\ next = NULL
            /\ hdrs' = H
            /\ health' = "fault"
         \/ /\ ~(prev # NULL /\ H[prev].free)
            /\ next # NULL /\ H[next].free
            /\ hdrs' = heap_merge_forward(H, h)
            /\ health' = MergeHealth(H, h)
         \/ /\ ~(prev # NULL /\ H[prev].free)
            /\ next # NULL /\ ~H[next].free
            /\ hdrs' = H
            /\ health' = "ok"

-----------------------------------------------------------------------------
\* heap_init maps one page and makes it one free segment.
Init ==
  /\ hdrs = [h \in {heap_base_address} |->
               [prev |-> NULL, next |-> NULL, size |-> PAGE - HDR, free |-> TRUE]]
  /\ heap_size = 1
  /\ blocks = [c \in Clients |-> NoBlock]
  /\ copied = 0
  /\ freed = FALSE
  /\ health = "ok"

Next ==
  \/ \E c \in Clients, size \in Sizes : malloc(c, size)
  \/ \E c \in Clients, size \in Sizes : realloc(c, size)
  \/ \E c \in Clients : free(c)

Spec == Init /\ [][Next]_vars

-----------------------------------------------------------------------------
\* Properties

Headers == [prev : Nat, next : Nat, size : Nat, free : BOOLEAN]

\* Every variable has its type; the headers' address 0 is never used.
TypeOK ==
  /\ DOMAIN hdrs \subseteq Nat \ {0}
  /\ hdrs \in [DOMAIN hdrs -> Headers]
  /\ heap_size \in 1 .. MaxHeapPages
  /\ blocks \in [Clients -> [ptr : Nat, size : Nat]]
  /\ copied \in Nat
  /\ freed \in BOOLEAN
  /\ health \in {"ok", "fault", "corrupt"}

\* The segments tile the heap: each one ends where its next begins, the one
\* whose next is 0 ends with the last page mapped, every header but the first
\* is some header's next. So a walk along next visits every header, in
\* address order, and ends (the loops of malloc, free and realloc).
SegmentsTile ==
  health = "ok" =>
    /\ heap_base_address \in DOMAIN hdrs
    /\ \A h \in DOMAIN hdrs :
         /\ IF hdrs[h].next = NULL THEN EndOf(h) = HeapEnd
            ELSE hdrs[h].next = EndOf(h) /\ hdrs[h].next \in DOMAIN hdrs
         /\ h # heap_base_address =>
              \E g \in DOMAIN hdrs : hdrs[g].next = h

\* Every block a client holds is a segment of its own, marked allocated and
\* large enough, and no header lies inside it; two clients' bytes are disjoint.
BlocksSound ==
  health = "ok" =>
    \A c \in {d \in Clients : blocks[d] # NoBlock} :
      LET b == blocks[c]
      IN  /\ b.ptr - HDR \in DOMAIN hdrs
          /\ ~hdrs[b.ptr - HDR].free
          /\ hdrs[b.ptr - HDR].size >= b.size
          /\ \A h \in DOMAIN hdrs : h >= b.ptr + b.size \/ h + HDR <= b.ptr
          /\ \A d \in Clients \ {c} :
               \/ blocks[d] = NoBlock
               \/ blocks[d].ptr >= b.ptr + b.size + HDR
               \/ blocks[d].ptr + blocks[d].size + HDR <= b.ptr

\* realloc copies every byte both blocks have room for, and never writes past
\* the new segment, also when malloc grew the old block's own segment
\* (heap.c:137 reads old_header->size after the call).
ReallocCopies ==
  [][\A c \in Clients :
       blocks[c] # NoBlock /\ blocks'[c] # NoBlock /\ blocks'[c] # blocks[c] =>
         /\ copied' <= hdrs'[blocks'[c].ptr - HDR].size
         /\ copied' >= Min({blocks[c].size, blocks'[c].size})]_vars

\* Until the first call of free (the kernel of today never calls it) a free
\* segment is always the last one, so that malloc splits no segment in the
\* middle of the list, and prev "points to the segment header of the previous
\* segment" (heap.h:8). After a free the splits need not keep that.
ListUntilFreed ==
  ~freed =>
    \A h \in DOMAIN hdrs :
      /\ hdrs[h].free => hdrs[h].next = NULL
      /\ hdrs[h].next # NULL => hdrs[hdrs[h].next].prev = h

\* Where the heap breaks: malloc and realloc break it only when they extend a
\* last segment that is in use (heap.c:62-67); free only where it looks past
\* the last segment (heap.c:112), or merges (heap.c:179) with a free segment
\* after it or at its back link, which after an earlier free need not be its
\* neighbour. Every other sequence of calls leaves the heap sound.
BreaksOnlyWhere ==
  [][health = "ok" /\ health' # "ok" =>
       \/ heap_size' > heap_size /\ ~hdrs[LastSegment].free
       \/ \E c \in Clients :
            LET h == blocks[c].ptr - HDR
            IN  /\ blocks[c] # NoBlock /\ blocks'[c] = NoBlock
                /\ \/ EndOf(h) = HeapEnd
                   \/ hdrs[h].prev # NULL /\ hdrs[hdrs[h].prev].free
                   \/ \E g \in DOMAIN hdrs : hdrs[g].free /\ EndOf(h) = g]_vars

\* A block handed out is not handed out again while its client holds it.
NotHandedOutTwice ==
  \A c, d \in Clients :
    c # d /\ blocks[c] # NoBlock /\ blocks[d] # NoBlock => blocks[c].ptr # blocks[d].ptr
=============================================================================
