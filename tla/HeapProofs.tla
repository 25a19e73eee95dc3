----------------------------- MODULE HeapProofs ------------------------------
(***************************************************************************)
(* Proofs about the kernel heap, for every size of page and header, every  *)
(* set of clients and sizes, and every order of calls.                     *)
(***************************************************************************)
EXTENDS Heap, WellFoundedInduction, NaturalsInduction, TLAPS

-----------------------------------------------------------------------------
\* Arithmetic

\* Every nonempty set of natural numbers has a least element.
LEMMA LeastNat ==
  ASSUME NEW T \in SUBSET Nat, T # {}
  PROVE  \E x \in T : \A y \in T : x <= y
<1> DEFINE R == {ss \in Nat \X Nat : ss[1] < ss[2]}
<1>1. OpToRel(<, Nat) = R
  BY Zenon DEF OpToRel
<1>2. IsWellFoundedOn(R, Nat)
  BY <1>1, NatLessThanWellFounded, Zenon
<1>3. PICK x \in T : \A y \in T : ~(<<y, x>> \in R)
  <2> HIDE DEF R
  <2> QED BY <1>2, WFMin
<1>4. ASSUME NEW y \in T, y < x PROVE FALSE
  <2>1. <<y, x>> \in Nat \X Nat
    OBVIOUS
  <2> QED BY <1>3, <1>4, <2>1
<1> QED BY <1>4

\* Min(T) of FiniteSetsExt is the least element.
LEMMA MinIsLeast ==
  ASSUME NEW T \in SUBSET Nat, T # {}
  PROVE  Min(T) \in T /\ \A y \in T : Min(T) <= y
BY LeastNat DEF Min

\* The pages malloc adds have room for the request (heap.c:64).
LEMMA PagesEnough ==
  ASSUME NEW size \in Nat
  PROVE  /\ PagesNeeded(size) \in Nat \ {0}
         /\ PagesNeeded(size) * PAGE \in Nat
         /\ PagesNeeded(size) * PAGE >= size
<1> DEFINE q == size \div PAGE
           r == size % PAGE
<1>1. PAGE \in Nat \ {0}
  BY HeapAssumption
<1>2. q \in Nat /\ r \in 0 .. PAGE - 1 /\ size = (PAGE * q) + r
  BY <1>1
<1>3. PagesNeeded(size) = q + 1
  BY DEF PagesNeeded
<1> HIDE DEF q, r
<1>4. (q + 1) * PAGE = (PAGE * q) + PAGE
  BY <1>1, <1>2
<1>5. PAGE * q \in Nat
  BY <1>1, <1>2
<1> QED BY <1>1, <1>2, <1>3, <1>4, <1>5

-----------------------------------------------------------------------------
\* Tables of headers

\* A table of headers by address
Table(H) == DOMAIN H \subseteq Nat \ {0} /\ H \in [DOMAIN H -> Headers]

EndIn(H, h) == h + HDR + H[h].size

\* The segments of H tile the heap up to end. SegmentsTile by itself is not
\* inductive: that no segment reaches into another one (Apart) is what keeps a
\* split from writing its header over one that is there, and that a last
\* segment exists is what LastSegment relies on. The back links may be stale,
\* but always lead to a header further down.
Linked(H, end) ==
  \A h \in DOMAIN H :
    /\ H[h].next = NULL => EndIn(H, h) = end
    /\ H[h].next # NULL => H[h].next = EndIn(H, h) /\ H[h].next \in DOMAIN H
    /\ EndIn(H, h) <= end
    /\ h # heap_base_address => \E g \in DOMAIN H : H[g].next = h
    /\ H[h].prev # NULL => H[h].prev \in DOMAIN H /\ H[h].prev < h

Apart(H) == \A g, h \in DOMAIN H : g < h => EndIn(H, g) <= h

Tiling(H, end) ==
  /\ heap_base_address \in DOMAIN H
  /\ Linked(H, end)
  /\ Apart(H)
  /\ \E h \in DOMAIN H : H[h].next = NULL

\* The fields of a header of a table.
LEMMA Fields ==
  ASSUME NEW H, Table(H), NEW h \in DOMAIN H
  PROVE  /\ h \in Nat \ {0} /\ H[h] \in Headers
         /\ H[h].prev \in Nat /\ H[h].next \in Nat /\ H[h].size \in Nat /\ H[h].free \in BOOLEAN
         /\ EndIn(H, h) \in Nat /\ EndIn(H, h) > h /\ HDR \in Nat \ {0}
BY HeapAssumption DEF Table, Headers, EndIn

\* A segment whose next is NULL is the one segment of which that is true, and
\* none lies behind it.
LEMMA LastIsLast ==
  ASSUME NEW H, NEW end, Table(H), Tiling(H, end), NEW l \in DOMAIN H, H[l].next = NULL
  PROVE  /\ \A h \in DOMAIN H : h <= l
         /\ \A h \in DOMAIN H : H[h].next = NULL => h = l
<1>1. ASSUME NEW h \in DOMAIN H PROVE h <= l
  <2>1. /\ h \in Nat /\ l \in Nat /\ EndIn(H, h) \in Nat /\ EndIn(H, h) > h
        /\ EndIn(H, l) = end /\ EndIn(H, h) <= end /\ (l < h => EndIn(H, l) <= h) /\ EndIn(H, l) \in Nat
    BY <1>1, Fields DEF Tiling, Linked, Apart
  <2> QED BY <2>1
<1>2. ASSUME NEW h \in DOMAIN H, H[h].next = NULL PROVE h = l
  <2>1. /\ h \in Nat /\ l \in Nat /\ EndIn(H, l) \in Nat /\ EndIn(H, l) > l
        /\ EndIn(H, h) = end /\ EndIn(H, l) <= end /\ (h < l => EndIn(H, h) <= l) /\ EndIn(H, h) \in Nat
    BY <1>2, Fields DEF Tiling, Linked, Apart
  <2> QED BY <1>1, <2>1
<1> QED BY <1>1, <1>2

Mark(H, h, mark) == [H EXCEPT ![h].free = mark]

\* M is H but for the mark of segment h
SameBut(M, H, h) ==
  /\ DOMAIN M = DOMAIN H
  /\ \A g \in DOMAIN H : /\ M[g].prev = H[g].prev /\ M[g].next = H[g].next
                         /\ M[g].size = H[g].size
                         /\ g # h => M[g] = H[g]

\* Marking a segment free or in use changes neither the table nor the tiling.
LEMMA MarkKeeps ==
  ASSUME NEW H, Table(H), NEW h \in DOMAIN H, NEW mark \in BOOLEAN
  PROVE  LET M == Mark(H, h, mark)
         IN  /\ Table(M) /\ SameBut(M, H, h)
             /\ M[h].free = mark
             /\ \A end : Tiling(H, end) => Tiling(M, end)
<1> DEFINE M == Mark(H, h, mark)
<1>1. DOMAIN M = DOMAIN H
  BY DEF Mark
<1>2. \A g \in DOMAIN H : g # h => M[g] = H[g]
  BY DEF Mark
<1>3. M[h] = [H[h] EXCEPT !.free = mark] /\ H[h] \in Headers
  BY DEF Table, Mark
<1>4. /\ M[h].prev = H[h].prev /\ M[h].next = H[h].next /\ M[h].size = H[h].size
      /\ M[h].free = mark /\ M[h] \in Headers
  BY <1>3 DEF Headers
<1>5. \A g \in DOMAIN H : M[g] \in Headers /\ M[g].prev = H[g].prev /\ M[g].next = H[g].next /\ M[g].size = H[g].size
  BY <1>2, <1>4 DEF Table
<1>6. M \in [DOMAIN M -> Headers]
  BY <1>1, <1>5 DEF Mark
<1> HIDE DEF M
<1>7. Table(M)
  BY <1>1, <1>6 DEF Table
<1>8. \A end : Tiling(H, end) => Tiling(M, end)
  BY <1>1, <1>5 DEF Tiling, Linked, Apart, EndIn
<1>9. SameBut(M, H, h)
  BY <1>1, <1>2, <1>5 DEF SameBut
<1> QED BY <1>4, <1>7, <1>8, <1>9 DEF M

\* What a segment of a tiling has to its right.
LEMMA Behind ==
  ASSUME NEW H, NEW end \in Nat, Table(H), Tiling(H, end), NEW h \in DOMAIN H
  PROVE  /\ EndIn(H, h) <= end
         /\ \A g \in DOMAIN H : g < h => EndIn(H, g) <= h
         /\ \A g \in DOMAIN H : g > h => EndIn(H, h) <= g
BY Fields DEF Tiling, Linked, Apart

\* Splitting a segment that is large enough keeps the tiling: the new header
\* lies within the segment's own bytes, so it overwrites no header.
LEMMA SplitKeeps ==
  ASSUME NEW H, NEW end \in Nat, Table(H), Tiling(H, end), NEW curr \in DOMAIN H,
         NEW size \in Nat, H[curr].size >= size
  PROVE  LET S == heap_split_segment(H, curr, size)
             new == curr + HDR + size
         IN  /\ Table(S) /\ Tiling(S, end)
             /\ DOMAIN H \subseteq DOMAIN S
             /\ \A h \in DOMAIN H : h # curr => S[h] = H[h]
             /\ S[curr].prev = H[curr].prev /\ S[curr].free = H[curr].free /\ S[curr].size >= size
             /\ \/ S = H
                \/ /\ new \notin DOMAIN H /\ DOMAIN S = DOMAIN H \cup {new} /\ S[curr].next = new
                   /\ S[new].free /\ S[new].prev = curr /\ S[new].next = H[curr].next
<1> DEFINE S == heap_split_segment(H, curr, size)
           new == curr + HDR + size
<1>1. CASE H[curr].size <= size + HDR
  <2>1. S = H
    BY <1>1 DEF heap_split_segment
  <2> QED BY <2>1
<1>2. CASE ~(H[curr].size <= size + HDR)
  <2> DEFINE rest == [prev |-> curr, next |-> H[curr].next, size |-> H[curr].size - (size + HDR), free |-> TRUE]
             front == [H[curr] EXCEPT !.next = new, !.size = size]
  <2>1. S = [h \in DOMAIN H \cup {new} |-> IF h = new THEN rest ELSE IF h = curr THEN front ELSE H[h]]
    BY <1>2 DEF heap_split_segment
  <2>2. /\ curr \in Nat \ {0} /\ HDR \in Nat \ {0} /\ H[curr].size \in Nat /\ H[curr].next \in Nat
        /\ H[curr] \in Headers /\ H[curr].prev \in Nat /\ H[curr].free \in BOOLEAN
    BY Fields
  <2>3. /\ new \in Nat \ {0} /\ new > curr /\ new < EndIn(H, curr)
        /\ H[curr].size - (size + HDR) \in Nat \ {0}
    BY <1>2, <2>2 DEF EndIn
  <2>4. new \notin DOMAIN H
    BY <2>2, <2>3, Behind, Fields
  <2>5. /\ front \in Headers /\ front.prev = H[curr].prev /\ front.next = new
        /\ front.size = size /\ front.free = H[curr].free
    BY <2>2, <2>3 DEF Headers
  <2>6. /\ rest \in Headers /\ rest.prev = curr /\ rest.next = H[curr].next
        /\ rest.size = H[curr].size - (size + HDR) /\ rest.free = TRUE
    BY <2>2, <2>3 DEF Headers
  <2>7. rest.free
    BY <2>6
  <2> HIDE DEF rest, front
  <2>8. /\ DOMAIN S = DOMAIN H \cup {new}
        /\ S[new] = rest /\ S[curr] = front
        /\ \A h \in DOMAIN H : h # curr => S[h] = H[h]
    BY <2>1, <2>4
  <2>9. \A h \in DOMAIN S : S[h] \in Headers
    BY <2>5, <2>6, <2>8 DEF Table
  <2>10. S \in [DOMAIN S -> Headers]
    BY <2>1, <2>8, <2>9
  <2> HIDE DEF S
  <2>11. Table(S)
    BY <2>3, <2>8, <2>10 DEF Table
  <2>12. /\ EndIn(S, new) = EndIn(H, curr)
         /\ EndIn(S, curr) = new
         /\ \A h \in DOMAIN H : h # curr => EndIn(S, h) = EndIn(H, h)
    BY <2>2, <2>3, <2>5, <2>6, <2>8 DEF EndIn
  <2> DEFINE T(h) == /\ S[h].next = NULL => EndIn(S, h) = end
                     /\ S[h].next # NULL => S[h].next = EndIn(S, h) /\ S[h].next \in DOMAIN S
                     /\ EndIn(S, h) <= end
                     /\ h # heap_base_address => \E g \in DOMAIN S : S[g].next = h
                     /\ S[h].prev # NULL => S[h].prev \in DOMAIN S /\ S[h].prev < h
  <2>13. T(new)
    <3>1. \E g \in DOMAIN S : S[g].next = new
      BY <2>5, <2>8
    <3>2. S[new].prev = curr /\ curr \in DOMAIN S /\ curr < new
      BY <2>2, <2>3, <2>6, <2>8
    <3> QED BY <3>1, <3>2, <2>6, <2>8, <2>12 DEF Tiling, Linked
  <2>14. T(curr)
    <3>1. EndIn(S, curr) <= end
      <4>1. EndIn(H, curr) <= end /\ EndIn(H, curr) \in Nat
        BY Behind, Fields
      <4> QED BY <4>1, <2>3, <2>12
    <3>2. S[curr].next # NULL /\ S[curr].next = EndIn(S, curr) /\ S[curr].next \in DOMAIN S
      BY <2>3, <2>5, <2>8, <2>12 DEF NULL
    <3>3. curr # heap_base_address => \E g \in DOMAIN S : S[g].next = curr
      <4> SUFFICES ASSUME curr # heap_base_address PROVE \E g \in DOMAIN S : S[g].next = curr
        OBVIOUS
      <4>1. PICK g \in DOMAIN H : H[g].next = curr
        BY DEF Tiling, Linked
      <4>2. g # curr
        <5>1. curr = EndIn(H, g)
          BY <4>1, <2>2 DEF Tiling, Linked, NULL
        <5>2. EndIn(H, g) > g /\ g \in Nat
          BY Fields
        <5> QED BY <5>1, <5>2
      <4> QED BY <4>1, <4>2, <2>8
    <3>4. S[curr].prev # NULL => S[curr].prev \in DOMAIN S /\ S[curr].prev < curr
      BY <2>5, <2>8 DEF Tiling, Linked
    <3> QED BY <3>1, <3>2, <3>3, <3>4
  <2>15. ASSUME NEW h \in DOMAIN H, h # curr PROVE T(h)
    <3>1. S[h] = H[h] /\ EndIn(S, h) = EndIn(H, h)
      BY <2>15, <2>8, <2>12
    <3>2. h # heap_base_address => \E g \in DOMAIN S : S[g].next = h
      <4> SUFFICES ASSUME h # heap_base_address PROVE \E g \in DOMAIN S : S[g].next = h
        OBVIOUS
      <4>1. PICK g \in DOMAIN H : H[g].next = h
        BY DEF Tiling, Linked
      <4>2. CASE g = curr
        BY <4>1, <4>2, <2>6, <2>8
      <4>3. CASE g # curr
        BY <4>1, <4>3, <2>8
      <4> QED BY <4>2, <4>3
    <3> QED BY <3>1, <3>2, <2>8 DEF Tiling, Linked
  <2>16. Linked(S, end)
    BY <2>8, <2>13, <2>14, <2>15 DEF Linked
  <2>17. Apart(S)
    <3> SUFFICES ASSUME NEW g \in DOMAIN S, NEW h \in DOMAIN S, g < h PROVE EndIn(S, g) <= h
      BY DEF Apart
    <3>0. g \in Nat /\ h \in Nat
      BY <2>11, Fields
    <3>1. CASE g = new
      <4>1. h \in DOMAIN H /\ h > curr
        BY <3>0, <3>1, <2>2, <2>3, <2>8
      <4> QED BY <3>1, <4>1, <2>12, Behind
    <3>2. CASE g = curr
      <4>1. CASE h = new
        BY <4>1, <3>2, <2>3, <2>12
      <4>2. CASE h # new
        <5>1. h \in DOMAIN H /\ EndIn(H, curr) <= h /\ EndIn(H, curr) \in Nat
          BY <4>2, <3>2, <2>8, Behind, Fields
        <5> QED BY <5>1, <3>0, <3>2, <2>3, <2>12
      <4> QED BY <4>1, <4>2
    <3>3. CASE g # new /\ g # curr
      <4>1. g \in DOMAIN H /\ EndIn(S, g) = EndIn(H, g) /\ EndIn(H, g) \in Nat
        BY <3>3, <2>8, <2>12, Fields
      <4>2. CASE h = new
        <5>1. g < curr
          <6>1. g > curr => EndIn(H, curr) <= g
            BY <4>1, Behind
          <6> QED BY <6>1, <4>2, <3>0, <3>3, <2>2, <2>3, Fields
        <5> QED BY <5>1, <4>1, <4>2, <2>2, <2>3, Behind
      <4>3. CASE h # new
        BY <4>1, <4>3, <2>8, Behind
      <4> QED BY <4>2, <4>3
    <3> QED BY <3>1, <3>2, <3>3
  <2>18. \E h \in DOMAIN S : S[h].next = NULL
    <3>1. PICK l \in DOMAIN H : H[l].next = NULL
      BY DEF Tiling
    <3> QED BY <3>1, <2>6, <2>8
  <2>19. Tiling(S, end)
    BY <2>8, <2>16, <2>17, <2>18 DEF Tiling
  <2>20. S[curr].prev = H[curr].prev /\ S[curr].free = H[curr].free /\ S[curr].size >= size
    BY <2>5, <2>8
  <2> QED BY <2>4, <2>5, <2>6, <2>7, <2>8, <2>11, <2>19, <2>20 DEF S
<1> QED BY <1>1, <1>2

\* Lengthening the last segment by the pages added keeps the tiling.
LEMMA ExtendKeeps ==
  ASSUME HeapEnd \in Nat, Table(hdrs), Tiling(hdrs, HeapEnd),
         NEW l \in DOMAIN hdrs, hdrs[l].next = NULL, NEW n \in Nat, n * PAGE \in Nat
  PROVE  LET E == heap_extend(l, n)
             k == n * PAGE
         IN  /\ Table(E) /\ Tiling(E, HeapEnd + k) /\ DOMAIN E = DOMAIN hdrs
             /\ \A h \in DOMAIN hdrs : h # l => E[h] = hdrs[h]
             /\ E[l].size = hdrs[l].size + k
             /\ E[l].next = hdrs[l].next /\ E[l].prev = hdrs[l].prev /\ E[l].free = hdrs[l].free
<1> DEFINE E == heap_extend(l, n)
           H == hdrs
           end == HeapEnd
           k == n * PAGE
<1>0. E = [H EXCEPT ![l].size = @ + k] /\ end \in Nat /\ k \in Nat
      /\ Table(H) /\ Tiling(H, end) /\ l \in DOMAIN H /\ H[l].next = NULL
  BY DEF heap_extend
<1> HIDE DEF E, H, end, k
<1> SUFFICES /\ Table(E) /\ Tiling(E, end + k) /\ DOMAIN E = DOMAIN H
             /\ \A h \in DOMAIN H : h # l => E[h] = H[h]
             /\ E[l].size = H[l].size + k
             /\ E[l].next = H[l].next /\ E[l].prev = H[l].prev /\ E[l].free = H[l].free
  BY DEF E, H, end, k
<1> USE <1>0
<1>1. DOMAIN E = DOMAIN H /\ \A h \in DOMAIN H : h # l => E[h] = H[h]
  OBVIOUS
<1>2. E[l] = [H[l] EXCEPT !.size = @ + k] /\ H[l] \in Headers
  BY DEF Table
<1>3. /\ E[l].prev = H[l].prev /\ E[l].next = H[l].next /\ E[l].free = H[l].free
      /\ E[l].size = H[l].size + k /\ E[l] \in Headers
  BY <1>2 DEF Headers
<1>4. \A h \in DOMAIN H : E[h] \in Headers
  BY <1>1, <1>3 DEF Table
<1>5. E \in [DOMAIN E -> Headers]
  BY <1>1, <1>4
<1>6. Table(E)
  BY <1>1, <1>5 DEF Table
<1>7. \A h \in DOMAIN H : E[h].next = H[h].next /\ E[h].prev = H[h].prev
  BY <1>1, <1>3
<1>8. \A h \in DOMAIN H : h # l => EndIn(E, h) = EndIn(H, h) /\ EndIn(H, h) \in Nat /\ H[h].next # NULL
  BY <1>1, LastIsLast, Fields DEF EndIn
<1>9. EndIn(E, l) = EndIn(H, l) + k /\ EndIn(H, l) = end
  <2>1. l \in Nat /\ HDR \in Nat /\ H[l].size \in Nat
    BY Fields
  <2>2. EndIn(H, l) = end
    BY DEF Tiling, Linked
  <2> QED BY <2>1, <2>2, <1>3 DEF EndIn
<1>10. Linked(E, end + k)
  <2> SUFFICES ASSUME NEW h \in DOMAIN H
               PROVE  /\ E[h].next = NULL => EndIn(E, h) = end + k
                      /\ E[h].next # NULL => E[h].next = EndIn(E, h) /\ E[h].next \in DOMAIN E
                      /\ EndIn(E, h) <= end + k
                      /\ h # heap_base_address => \E g \in DOMAIN E : E[g].next = h
                      /\ E[h].prev # NULL => E[h].prev \in DOMAIN E /\ E[h].prev < h
    BY <1>1 DEF Linked
  <2>1. h # heap_base_address => \E g \in DOMAIN E : E[g].next = h
    BY <1>1, <1>7 DEF Tiling, Linked
  <2>2. E[h].prev # NULL => E[h].prev \in DOMAIN E /\ E[h].prev < h
    BY <1>1, <1>7 DEF Tiling, Linked
  <2>3. CASE h = l
    BY <2>1, <2>2, <2>3, <1>3, <1>9
  <2>4. CASE h # l
    <3>1. EndIn(E, h) = EndIn(H, h) /\ EndIn(H, h) \in Nat /\ E[h].next = H[h].next /\ H[h].next # NULL
      BY <2>4, <1>7, <1>8
    <3>2. EndIn(H, h) <= end /\ H[h].next = EndIn(H, h) /\ H[h].next \in DOMAIN H
      BY <3>1 DEF Tiling, Linked
    <3>3. EndIn(H, h) <= end + k
      BY <3>1, <3>2
    <3> QED BY <2>1, <2>2, <3>1, <3>2, <3>3, <1>1
  <2> QED BY <2>3, <2>4
<1>11. Apart(E)
  <2> SUFFICES ASSUME NEW g \in DOMAIN H, NEW h \in DOMAIN H, g < h PROVE EndIn(E, g) <= h
    BY <1>1 DEF Apart
  <2>1. g # l
    <3>1. h <= l /\ g \in Nat /\ h \in Nat
      BY LastIsLast, Fields
    <3> QED BY <3>1
  <2> QED BY <2>1, <1>8 DEF Tiling, Apart
<1>12. Tiling(E, end + k)
  BY <1>1, <1>3, <1>10, <1>11 DEF Tiling
<1> QED BY <1>1, <1>3, <1>6, <1>12

-----------------------------------------------------------------------------
\* malloc

\* The end of the heap is an address, and grows with the pages.
LEMMA EndIsNat ==
  ASSUME heap_size \in Nat, NEW n \in Nat
  PROVE  /\ HeapEnd \in Nat /\ n * PAGE \in Nat
         /\ heap_base_address + ((heap_size + n) * PAGE) = HeapEnd + (n * PAGE)
BY HeapAssumption DEF HeapEnd

\* The last segment malloc extends exists.
LEMMA LastExists ==
  ASSUME Tiling(hdrs, HeapEnd)
  PROVE  LastSegment \in DOMAIN hdrs /\ hdrs[LastSegment].next = NULL
BY DEF Tiling, LastSegment

\* Before it is split, the segment malloc chose is large enough, and it is
\* either a free one or the last one, lengthened by at least a page.
LEMMA ChosenFits ==
  ASSUME Table(hdrs), heap_size \in Nat, Tiling(hdrs, HeapEnd), NEW size \in Nat
  PROVE  LET m == Chosen(size)
         IN  /\ m.hdr \in DOMAIN hdrs /\ m.pages \in Nat
             /\ Table(m.hdrs) /\ DOMAIN m.hdrs = DOMAIN hdrs
             /\ Tiling(m.hdrs, heap_base_address + ((heap_size + m.pages) * PAGE))
             /\ heap_base_address + ((heap_size + m.pages) * PAGE) \in Nat
             /\ m.hdrs[m.hdr].size >= size
             /\ m.hdrs[m.hdr].size >= hdrs[m.hdr].size
             /\ \A h \in DOMAIN hdrs : h # m.hdr => m.hdrs[h] = hdrs[h]
             /\ m.hdrs[m.hdr].next = hdrs[m.hdr].next /\ m.hdrs[m.hdr].prev = hdrs[m.hdr].prev
             /\ m.hdrs[m.hdr].free = hdrs[m.hdr].free
             /\ \/ hdrs[m.hdr].free
                \/ m.hdr = LastSegment /\ hdrs[m.hdr].next = NULL /\ m.pages > 0
<1> DEFINE m == Chosen(size)
<1>0. HeapEnd \in Nat /\ heap_base_address + ((heap_size + 0) * PAGE) = HeapEnd
  BY EndIsNat, HeapAssumption DEF HeapEnd
<1>1. CASE Fitting(size) # {}
  <2>1. m.hdr = Min(Fitting(size)) /\ m.hdrs = hdrs /\ m.pages = 0
    BY <1>1 DEF Chosen
  <2>2. Fitting(size) \in SUBSET Nat
    BY DEF Fitting, Table
  <2>3. Min(Fitting(size)) \in Fitting(size)
    BY <1>1, <2>2, MinIsLeast
  <2>4. m.hdr \in DOMAIN hdrs /\ hdrs[m.hdr].free /\ hdrs[m.hdr].size >= size
    BY <2>1, <2>3 DEF Fitting
  <2>5. hdrs[m.hdr].size \in Nat
    BY <2>4, Fields
  <2> HIDE DEF m
  <2>6. Tiling(m.hdrs, heap_base_address + ((heap_size + m.pages) * PAGE))
        /\ heap_base_address + ((heap_size + m.pages) * PAGE) \in Nat
    BY <1>0, <2>1
  <2> QED BY <2>1, <2>4, <2>5, <2>6 DEF m
<1>2. CASE Fitting(size) = {}
  <2> DEFINE l == LastSegment
             n == PagesNeeded(size)
             E == heap_extend(l, n)
  <2>1. m.hdr = l /\ m.hdrs = E /\ m.pages = n
    BY <1>2 DEF Chosen
  <2>2. l \in DOMAIN hdrs /\ hdrs[l].next = NULL
    BY LastExists
  <2>3. n \in Nat \ {0} /\ n * PAGE \in Nat /\ n * PAGE >= size
    BY PagesEnough
  <2>4. /\ HeapEnd + (n * PAGE) \in Nat
        /\ heap_base_address + ((heap_size + n) * PAGE) = HeapEnd + (n * PAGE)
    BY <2>3, EndIsNat
  <2>5. hdrs[l].size \in Nat
    BY <2>2, Fields
  <2> DEFINE k == n * PAGE
  <2>6. k \in Nat
    BY <2>3
  <2> HIDE DEF l, n, m, E
  <2>9. /\ Table(E) /\ Tiling(E, HeapEnd + k) /\ DOMAIN E = DOMAIN hdrs
        /\ \A h \in DOMAIN hdrs : h # l => E[h] = hdrs[h]
        /\ E[l].size = hdrs[l].size + k
        /\ E[l].next = hdrs[l].next /\ E[l].prev = hdrs[l].prev /\ E[l].free = hdrs[l].free
    BY <1>0, <2>2, <2>3, ExtendKeeps DEF E
  <2> HIDE DEF k
  <2>10. k >= size
    BY <2>3 DEF k
  <2>11. E[l].size >= size /\ E[l].size >= hdrs[l].size
    BY <2>5, <2>6, <2>9, <2>10
  <2>12. /\ Tiling(m.hdrs, heap_base_address + ((heap_size + m.pages) * PAGE))
         /\ heap_base_address + ((heap_size + m.pages) * PAGE) \in Nat
    BY <2>1, <2>4, <2>9 DEF k
  <2>13. m.hdr = LastSegment /\ hdrs[m.hdr].next = NULL /\ m.pages > 0
    BY <2>1, <2>2, <2>3 DEF l
  <2>14. /\ m.hdr \in DOMAIN hdrs /\ m.pages \in Nat
         /\ Table(m.hdrs) /\ DOMAIN m.hdrs = DOMAIN hdrs
         /\ \A h \in DOMAIN hdrs : h # m.hdr => m.hdrs[h] = hdrs[h]
    BY <2>1, <2>2, <2>3, <2>9
  <2>15. /\ m.hdrs[m.hdr].size >= size /\ m.hdrs[m.hdr].size >= hdrs[m.hdr].size
         /\ m.hdrs[m.hdr].next = hdrs[m.hdr].next /\ m.hdrs[m.hdr].prev = hdrs[m.hdr].prev
         /\ m.hdrs[m.hdr].free = hdrs[m.hdr].free
    BY <2>1, <2>9, <2>11, Zenon
  <2> QED BY <2>12, <2>13, <2>14, <2>15 DEF m
<1> QED BY <1>1, <1>2

\* What malloc leaves behind: the tiling, one segment marked and large enough,
\* every other segment as it was but for the one it split off.
LEMMA Granted ==
  ASSUME TypeOK, Tiling(hdrs, HeapEnd), NEW c \in Clients, NEW size \in Sizes, Grant(c, size)
  PROVE  LET g == Chosen(size).hdr
         IN  /\ g \in DOMAIN hdrs /\ DOMAIN hdrs \subseteq DOMAIN hdrs'
             /\ Table(hdrs') /\ Tiling(hdrs', HeapEnd')
             /\ heap_size' \in 1 .. MaxHeapPages
             /\ \A h \in DOMAIN hdrs : h # g => hdrs'[h] = hdrs[h]
             /\ ~hdrs'[g].free /\ hdrs'[g].size >= size /\ hdrs'[g].prev = hdrs[g].prev
             /\ \/ DOMAIN hdrs' = DOMAIN hdrs /\ hdrs'[g].next = hdrs[g].next
                \/ \E new \in Nat \ DOMAIN hdrs :
                     /\ DOMAIN hdrs' = DOMAIN hdrs \cup {new} /\ hdrs'[g].next = new
                     /\ hdrs'[new].free /\ hdrs'[new].prev = g /\ hdrs'[new].next = hdrs[g].next
             /\ \/ hdrs[g].free
                \/ g = LastSegment /\ hdrs[g].next = NULL /\ heap_size' > heap_size
<1> DEFINE m == Chosen(size)
           g == m.hdr
           M == m.hdrs
           end == heap_base_address + ((heap_size + m.pages) * PAGE)
           S == heap_split_segment(M, g, size)
           R == Mark(S, g, FALSE)
           new == g + HDR + size
<1>0. size \in Nat /\ Table(hdrs) /\ heap_size \in Nat /\ heap_size >= 1 /\ MaxHeapPages \in Nat
  BY HeapAssumption DEF TypeOK, Table
<1>1. /\ g \in DOMAIN hdrs /\ m.pages \in Nat
      /\ Table(M) /\ DOMAIN M = DOMAIN hdrs
      /\ Tiling(M, end) /\ end \in Nat
      /\ M[g].size >= size
      /\ \A h \in DOMAIN hdrs : h # g => M[h] = hdrs[h]
      /\ M[g].next = hdrs[g].next /\ M[g].prev = hdrs[g].prev
      /\ \/ hdrs[g].free
         \/ g = LastSegment /\ hdrs[g].next = NULL /\ m.pages > 0
  BY <1>0, ChosenFits
<1>2. /\ heap_size + m.pages <= MaxHeapPages /\ heap_size' = heap_size + m.pages /\ hdrs' = R
  BY DEF Grant, Mark
<1>3. HeapEnd' = end
  BY <1>2 DEF HeapEnd
<1> HIDE DEF m, g, M, end
<1>4. /\ Table(S) /\ Tiling(S, end)
      /\ DOMAIN M \subseteq DOMAIN S
      /\ \A h \in DOMAIN M : h # g => S[h] = M[h]
      /\ S[g].prev = M[g].prev /\ S[g].size >= size
      /\ \/ S = M
         \/ /\ new \notin DOMAIN M /\ DOMAIN S = DOMAIN M \cup {new} /\ S[g].next = new
            /\ S[new].free /\ S[new].prev = g /\ S[new].next = M[g].next
  BY <1>0, <1>1, SplitKeeps
<1> HIDE DEF S
<1>5. g \in DOMAIN S
  BY <1>1, <1>4
<1>6. /\ Table(R) /\ DOMAIN R = DOMAIN S /\ Tiling(R, end)
      /\ \A h \in DOMAIN S : /\ R[h].prev = S[h].prev /\ R[h].next = S[h].next
                             /\ R[h].size = S[h].size
                             /\ h # g => R[h] = S[h]
  <2>1. Table(S) /\ Tiling(S, end)
    BY <1>4
  <2>2. Table(R) /\ Tiling(R, end) /\ SameBut(R, S, g)
    BY <2>1, <1>5, MarkKeeps
  <2> HIDE DEF R
  <2> QED BY <2>2 DEF SameBut
<1>7. ~R[g].free
  <2>1. R[g].free = FALSE
    BY <1>4, <1>5, MarkKeeps, Zenon
  <2> QED BY <2>1, Zenon
<1> HIDE DEF R
<1>8. DOMAIN hdrs \subseteq DOMAIN R /\ \A h \in DOMAIN hdrs : h # g => R[h] = hdrs[h]
  BY <1>1, <1>4, <1>6
<1>9. R[g].size >= size /\ R[g].prev = hdrs[g].prev
  BY <1>1, <1>4, <1>5, <1>6
<1>10. \/ DOMAIN R = DOMAIN hdrs /\ R[g].next = hdrs[g].next
       \/ \E n \in Nat \ DOMAIN hdrs :
            /\ DOMAIN R = DOMAIN hdrs \cup {n} /\ R[g].next = n
            /\ R[n].free /\ R[n].prev = g /\ R[n].next = hdrs[g].next
  <2>1. CASE S = M
    BY <2>1, <1>1, <1>5, <1>6
  <2>2. CASE S # M
    <3>1. /\ new \notin DOMAIN M /\ DOMAIN S = DOMAIN M \cup {new} /\ S[g].next = new
          /\ S[new].free /\ S[new].prev = g /\ S[new].next = M[g].next
      BY <2>2, <1>4
    <3>2. new \in Nat
      BY <3>1, <1>4 DEF Table
    <3> HIDE DEF new
    <3>3. new # g /\ new \in DOMAIN S
      BY <3>1, <1>1
    <3>4. R[new] = S[new]
      BY <3>3, <1>6
    <3> QED BY <3>1, <3>2, <3>3, <3>4, <1>1, <1>5, <1>6
  <2> QED BY <2>1, <2>2
<1>11. heap_size' \in 1 .. MaxHeapPages /\ (m.pages > 0 => heap_size' > heap_size)
  BY <1>0, <1>1, <1>2
<1> QED BY <1>1, <1>2, <1>3, <1>6, <1>7, <1>8, <1>9, <1>10, <1>11 DEF g, m

-----------------------------------------------------------------------------
\* The inductive invariant

\* The segment of client c's block is in the table, in use and large enough,
\* and no other client has it.
HeldBy(c) ==
  LET h == blocks[c].ptr - HDR
  IN  /\ h \in DOMAIN hdrs /\ ~hdrs[h].free /\ hdrs[h].size >= blocks[c].size
      /\ \A d \in Clients \ {c} : blocks[d] = NoBlock \/ blocks[d].ptr # blocks[c].ptr

Sound == Tiling(hdrs, HeapEnd) /\ \A c \in Clients : blocks[c] = NoBlock \/ HeldBy(c)

IInv == TypeOK /\ ListUntilFreed /\ (health = "ok" => Sound)

\* heap_init establishes the invariant.
LEMMA InitHolds == Init => IInv
<1> SUFFICES ASSUME Init PROVE IInv
  OBVIOUS
<1> DEFINE hd == [prev |-> NULL, next |-> NULL, size |-> PAGE - HDR, free |-> TRUE]
<1>1. /\ PAGE \in Nat /\ HDR \in Nat \ {0} /\ PAGE - HDR \in Nat /\ heap_base_address \in Nat \ {0}
      /\ MaxHeapPages \in Nat \ {0}
  BY HeapAssumption
<1>2. hdrs = [h \in {heap_base_address} |-> hd]
  BY DEF Init
<1>3. /\ hd \in Headers /\ hd.prev = NULL /\ hd.next = NULL /\ hd.size = PAGE - HDR
  BY <1>1 DEF Headers, NULL
<1> HIDE DEF hd
<1>4. DOMAIN hdrs = {heap_base_address} /\ hdrs[heap_base_address] = hd
  BY <1>2
<1>5. Table(hdrs)
  BY <1>1, <1>2, <1>3 DEF Table
<1>6. NoBlock \in [ptr : Nat, size : Nat]
  BY DEF NoBlock, NULL
<1>7. freed \in BOOLEAN
  BY Zenon DEF Init
<1>8. TypeOK
  BY <1>1, <1>5, <1>6, <1>7 DEF Init, TypeOK, Table
<1>9. ListUntilFreed
  BY <1>3, <1>4 DEF ListUntilFreed
<1>10. EndIn(hdrs, heap_base_address) = HeapEnd /\ HeapEnd \in Nat
  BY <1>1, <1>3, <1>4 DEF Init, EndIn, HeapEnd
<1>11. Tiling(hdrs, HeapEnd)
  BY <1>1, <1>3, <1>4, <1>10 DEF Tiling, Linked, Apart
<1>12. \A c \in Clients : blocks[c] = NoBlock
  BY DEF Init
<1> QED BY <1>8, <1>9, <1>11, <1>12 DEF IInv, Sound

\* The block of a client that has one, in a sound heap.
LEMMA BlockOf ==
  ASSUME TypeOK, Sound, NEW c \in Clients, blocks[c] # NoBlock
  PROVE  /\ blocks[c].ptr - HDR \in DOMAIN hdrs /\ HeldBy(c)
         /\ blocks[c].ptr \in Nat /\ blocks[c].size \in Nat
         /\ \A d \in Clients : blocks[d].ptr \in Nat /\ blocks[d].size \in Nat
         /\ HDR \in Nat \ {0}
BY HeapAssumption DEF TypeOK, Sound, HeldBy

\* malloc and realloc keep the parts of the invariant that are about the heap.
LEMMA GrantKeeps ==
  ASSUME IInv, health = "ok", NEW c \in Clients, NEW size \in Sizes, Grant(c, size),
         UNCHANGED freed, copied' \in Nat
  PROVE  IInv'
<1> DEFINE g == Chosen(size).hdr
<1>0. TypeOK /\ Sound /\ Tiling(hdrs, HeapEnd) /\ Table(hdrs) /\ size \in Nat /\ HDR \in Nat \ {0}
  BY HeapAssumption DEF IInv, Sound, TypeOK, Table
<1>1. /\ g \in DOMAIN hdrs /\ DOMAIN hdrs \subseteq DOMAIN hdrs'
      /\ Table(hdrs') /\ Tiling(hdrs', HeapEnd')
      /\ heap_size' \in 1 .. MaxHeapPages
      /\ \A h \in DOMAIN hdrs : h # g => hdrs'[h] = hdrs[h]
      /\ ~hdrs'[g].free /\ hdrs'[g].size >= size /\ hdrs'[g].prev = hdrs[g].prev
      /\ \/ DOMAIN hdrs' = DOMAIN hdrs /\ hdrs'[g].next = hdrs[g].next
         \/ \E new \in Nat \ DOMAIN hdrs :
              /\ DOMAIN hdrs' = DOMAIN hdrs \cup {new} /\ hdrs'[g].next = new
              /\ hdrs'[new].free /\ hdrs'[new].prev = g /\ hdrs'[new].next = hdrs[g].next
      /\ \/ hdrs[g].free
         \/ g = LastSegment /\ hdrs[g].next = NULL /\ heap_size' > heap_size
  BY <1>0, Granted
<1>2. /\ blocks' = [blocks EXCEPT ![c] = [ptr |-> g + HDR, size |-> size]]
      /\ health' = IF \E d \in Clients \ {c} : blocks[d].ptr = g + HDR THEN "corrupt" ELSE "ok"
  BY DEF Grant
<1> HIDE DEF g
<1>3. g \in Nat \ {0}
  BY <1>0, <1>1 DEF Table
<1>4. blocks \in [Clients -> [ptr : Nat, size : Nat]]
  BY <1>0 DEF TypeOK
<1> DEFINE b == [ptr |-> g + HDR, size |-> size]
<1>5. b \in [ptr : Nat, size : Nat] /\ b.ptr = g + HDR /\ b.size = size
  BY <1>0, <1>3
<1> HIDE DEF b
<1>6. /\ blocks'[c] = b /\ blocks' \in [Clients -> [ptr : Nat, size : Nat]]
      /\ \A d \in Clients \ {c} : blocks'[d] = blocks[d]
  BY <1>2, <1>4, <1>5 DEF b
<1>7. TypeOK'
  <2>1. freed' \in BOOLEAN
    BY <1>0, Zenon DEF TypeOK
  <2>2. health' \in {"ok", "fault", "corrupt"}
    BY <1>2
  <2> QED BY <2>1, <2>2, <1>1, <1>6 DEF TypeOK, Table
<1>8. ListUntilFreed'
  <2> SUFFICES ASSUME ~freed, NEW h \in DOMAIN hdrs'
               PROVE  /\ hdrs'[h].free => hdrs'[h].next = NULL
                      /\ hdrs'[h].next # NULL => hdrs'[hdrs'[h].next].prev = h
    <3>1. ~freed' => ~freed
      OBVIOUS
    <3> QED BY <3>1 DEF ListUntilFreed
  <2>1. \A k \in DOMAIN hdrs : /\ hdrs[k].free => hdrs[k].next = NULL
                               /\ hdrs[k].next # NULL => /\ hdrs[hdrs[k].next].prev = k
                                                        /\ hdrs[k].next \in DOMAIN hdrs
    BY <1>0 DEF IInv, ListUntilFreed, Tiling, Linked
  <2>2. hdrs[g].next = NULL
    BY <1>1, <2>1
  <2>3. CASE h \in DOMAIN hdrs /\ h # g
    <3>1. hdrs'[h] = hdrs[h]
      BY <2>3, <1>1
    <3>2. \A k \in DOMAIN hdrs : hdrs'[k].prev = hdrs[k].prev
      BY <1>1
    <3> QED BY <2>1, <2>3, <3>1, <3>2
  <2>4. CASE DOMAIN hdrs' = DOMAIN hdrs /\ hdrs'[g].next = hdrs[g].next
    BY <2>2, <2>3, <2>4, <1>1
  <2>5. ASSUME NEW new \in Nat \ DOMAIN hdrs,
               DOMAIN hdrs' = DOMAIN hdrs \cup {new}, hdrs'[g].next = new,
               hdrs'[new].free, hdrs'[new].prev = g, hdrs'[new].next = hdrs[g].next
        PROVE  /\ hdrs'[h].free => hdrs'[h].next = NULL
               /\ hdrs'[h].next # NULL => hdrs'[hdrs'[h].next].prev = h
    BY <2>2, <2>3, <2>5, <1>1
  <2> QED BY <2>4, <2>5, <1>1
<1>9. ASSUME health' = "ok" PROVE Sound'
  <2>1. \A d \in Clients \ {c} : blocks[d].ptr # g + HDR
    BY <1>2, <1>9
  <2>2. HeldBy(c)'
    <3>1. blocks'[c].ptr - HDR = g /\ blocks'[c].size = size /\ blocks'[c].ptr = g + HDR
      BY <1>0, <1>3, <1>5, <1>6
    <3> QED BY <3>1, <2>1, <1>1, <1>6 DEF HeldBy
  <2>3. ASSUME NEW d \in Clients \ {c}, blocks'[d] # NoBlock PROVE HeldBy(d)'
    <3>1. blocks'[d] = blocks[d] /\ blocks[d] # NoBlock
      BY <2>3, <1>6
    <3>2. /\ blocks[d].ptr - HDR \in DOMAIN hdrs /\ HeldBy(d) /\ blocks[d].ptr \in Nat
      BY <3>1, <1>0, BlockOf
    <3> DEFINE k == blocks[d].ptr - HDR
    <3>3. k # g
      BY <2>1, <3>2, <1>0, <1>3
    <3>4. hdrs'[k] = hdrs[k] /\ k \in DOMAIN hdrs'
      BY <3>2, <3>3, <1>1
    <3>5. \A e \in Clients \ {d} : blocks'[e] = NoBlock \/ blocks'[e].ptr # blocks'[d].ptr
      <4> SUFFICES ASSUME NEW e \in Clients \ {d}, blocks'[e] # NoBlock PROVE blocks'[e].ptr # blocks'[d].ptr
        OBVIOUS
      <4>1. CASE e = c
        BY <4>1, <2>1, <3>1, <1>5, <1>6
      <4>2. CASE e # c
        BY <4>2, <3>1, <3>2, <1>6 DEF HeldBy
      <4> QED BY <4>1, <4>2
    <3>6. ~hdrs[k].free /\ hdrs[k].size >= blocks[d].size
      BY <3>2 DEF HeldBy
    <3> QED BY <3>1, <3>4, <3>5, <3>6 DEF HeldBy
  <2> QED BY <2>2, <2>3, <1>1 DEF Sound
<1> QED BY <1>7, <1>8, <1>9 DEF IInv

-----------------------------------------------------------------------------
\* free

\* A merge leaves a table of headers.
LEMMA MergeTable ==
  ASSUME NEW H, Table(H), NEW curr \in DOMAIN H, H[curr].next \in DOMAIN H
  PROVE  Table(heap_merge_forward(H, curr))
<1> DEFINE absorbed == H[curr].next
           after == H[absorbed].next
           M == heap_merge_forward(H, curr)
           zero == [prev |-> NULL, next |-> NULL, size |-> 0, free |-> FALSE]
           whole == [H[curr] EXCEPT !.size = @ + HDR + H[absorbed].size, !.next = after]
<1>1. M = [h \in DOMAIN H \ {absorbed} |-> IF h = curr THEN whole ELSE IF h = after THEN zero ELSE H[h]]
  BY DEF heap_merge_forward
<1>2. zero \in Headers
  BY DEF Headers, NULL
<1>3. whole \in Headers
  <2>1. HDR \in Nat /\ after \in Nat /\ H[absorbed].size \in Nat /\ H[curr] \in Headers
    BY Fields
  <2>2. PICK n \in Nat : n = H[curr].size + HDR + H[absorbed].size
    BY <2>1, Fields
  <2>3. whole = [H[curr] EXCEPT !.size = n, !.next = after]
    BY <2>2
  <2> HIDE DEF after, absorbed, whole
  <2> QED BY <2>1, <2>2, <2>3 DEF Headers
<1>4. \A h \in DOMAIN H : H[h] \in Headers
  BY DEF Table
<1> HIDE DEF zero, whole, M, after, absorbed
<1>5. DOMAIN M = DOMAIN H \ {absorbed} /\ M \in [DOMAIN H \ {absorbed} -> Headers]
  BY <1>1, <1>2, <1>3, <1>4
<1>6. Table(M)
  BY <1>5 DEF Table
<1> QED BY <1>6 DEF M

\* What free finds at the two links of the segment it was given.
LEMMA Neighbours ==
  ASSUME Table(hdrs), HeapEnd \in Nat, Tiling(hdrs, HeapEnd), NEW h \in DOMAIN hdrs
  PROVE  LET H == Mark(hdrs, h, TRUE)
             prev == H[h].prev
             next == H[h].next
         IN  /\ Table(H) /\ Tiling(H, HeapEnd) /\ DOMAIN H = DOMAIN hdrs
             /\ prev = hdrs[h].prev /\ next = hdrs[h].next
             /\ \A g \in DOMAIN hdrs : g # h => H[g] = hdrs[g]
             /\ prev # NULL => prev \in DOMAIN hdrs /\ prev # h /\ H[prev].next \in DOMAIN H
             /\ next # NULL => next \in DOMAIN hdrs /\ next # h /\ next = EndOf(h)
             /\ next = NULL => EndOf(h) = HeapEnd
<1> DEFINE H == Mark(hdrs, h, TRUE)
<1>1. Table(H) /\ Tiling(H, HeapEnd) /\ SameBut(H, hdrs, h)
  BY MarkKeeps
<1> HIDE DEF H
<1>2. /\ DOMAIN H = DOMAIN hdrs /\ H[h].prev = hdrs[h].prev /\ H[h].next = hdrs[h].next
      /\ \A g \in DOMAIN hdrs : g # h => H[g] = hdrs[g]
  BY <1>1 DEF SameBut
<1>3. hdrs[h].prev # NULL => hdrs[h].prev \in DOMAIN hdrs /\ hdrs[h].prev # h /\ H[hdrs[h].prev].next \in DOMAIN H
  <2> SUFFICES ASSUME hdrs[h].prev # NULL
               PROVE  hdrs[h].prev \in DOMAIN hdrs /\ hdrs[h].prev # h /\ H[hdrs[h].prev].next \in DOMAIN H
    OBVIOUS
  <2> DEFINE p == hdrs[h].prev
  <2>1. p \in DOMAIN hdrs /\ p < h /\ p \in Nat /\ h \in Nat
    BY Fields DEF Tiling, Linked
  <2>2. hdrs[p].next # NULL
    <3>1. ASSUME hdrs[p].next = NULL PROVE FALSE
      <4>1. h <= p
        BY <2>1, <3>1, LastIsLast
      <4> QED BY <4>1, <2>1
    <3> QED BY <3>1
  <2>3. hdrs[p].next \in DOMAIN hdrs
    BY <2>1, <2>2 DEF Tiling, Linked
  <2>4. p # h
    BY <2>1
  <2> QED BY <2>1, <2>3, <2>4, <1>2
<1>4. /\ hdrs[h].next # NULL => hdrs[h].next \in DOMAIN hdrs /\ hdrs[h].next # h /\ hdrs[h].next = EndOf(h)
      /\ hdrs[h].next = NULL => EndOf(h) = HeapEnd
  <2>1. EndOf(h) = EndIn(hdrs, h) /\ EndIn(hdrs, h) > h /\ h \in Nat
    BY Fields DEF EndOf, EndIn
  <2> QED BY <2>1 DEF Tiling, Linked
<1> QED BY <1>1, <1>2, <1>3, <1>4 DEF H

\* free keeps the invariant, which after a merge only asks for the types.
LEMMA FreeKeeps ==
  ASSUME IInv, NEW c \in Clients, free(c)
  PROVE  IInv'
<1> DEFINE h == blocks[c].ptr - HDR
           H == Mark(hdrs, h, TRUE)
           prev == H[h].prev
           next == H[h].next
<1>0. /\ health = "ok" /\ blocks[c] # NoBlock /\ blocks' = [blocks EXCEPT ![c] = NoBlock]
      /\ copied' = 0 /\ UNCHANGED heap_size
  BY DEF free
<1>1. freed'
  <2>1. freed' = TRUE
    BY Zenon DEF free
  <2> QED BY <2>1, Zenon
<1>2. \/ prev # NULL /\ hdrs' = heap_merge_forward(H, prev) /\ health' = MergeHealth(H, prev)
      \/ next = NULL /\ hdrs' = H /\ health' = "fault"
      \/ next # NULL /\ hdrs' = heap_merge_forward(H, h) /\ health' = MergeHealth(H, h)
      \/ hdrs' = H /\ health' = "ok"
  BY DEF free, Mark
<1>3. TypeOK /\ Sound /\ Tiling(hdrs, HeapEnd) /\ Table(hdrs) /\ HeapEnd \in Nat
  <2>1. TypeOK /\ Sound /\ Tiling(hdrs, HeapEnd) /\ Table(hdrs) /\ heap_size \in Nat
    BY <1>0 DEF IInv, Sound, TypeOK, Table
  <2> QED BY <2>1, EndIsNat
<1>4. h \in DOMAIN hdrs /\ HeldBy(c)
  BY <1>0, <1>3, BlockOf
<1>5. /\ Table(H) /\ Tiling(H, HeapEnd) /\ DOMAIN H = DOMAIN hdrs
      /\ prev = hdrs[h].prev /\ next = hdrs[h].next
      /\ \A g \in DOMAIN hdrs : g # h => H[g] = hdrs[g]
      /\ prev # NULL => prev \in DOMAIN hdrs /\ H[prev].next \in DOMAIN H
      /\ next # NULL => next \in DOMAIN hdrs
  <2> HIDE DEF h
  <2> QED BY <1>3, <1>4, Neighbours
<1> HIDE DEF H, h
<1>6. Table(hdrs') /\ health' \in {"ok", "fault", "corrupt"}
  <2>1. CASE prev # NULL /\ hdrs' = heap_merge_forward(H, prev) /\ health' = MergeHealth(H, prev)
    BY <2>1, <1>5, MergeTable DEF MergeHealth
  <2>2. CASE next # NULL /\ hdrs' = heap_merge_forward(H, h) /\ health' = MergeHealth(H, h)
    BY <2>2, <1>4, <1>5, MergeTable DEF MergeHealth
  <2>3. CASE hdrs' = H /\ health' \in {"ok", "fault"}
    BY <2>3, <1>5
  <2> QED BY <2>1, <2>2, <2>3, <1>2
<1>7. blocks \in [Clients -> [ptr : Nat, size : Nat]] /\ NoBlock \in [ptr : Nat, size : Nat]
  BY <1>3 DEF TypeOK, NoBlock, NULL
<1>8. /\ blocks'[c] = NoBlock /\ blocks' \in [Clients -> [ptr : Nat, size : Nat]]
      /\ \A d \in Clients \ {c} : blocks'[d] = blocks[d]
  BY <1>0, <1>7
<1>9. TypeOK'
  <2>1. freed' \in BOOLEAN
    BY Zenon DEF free
  <2>2. heap_size' \in 1 .. MaxHeapPages
    BY <1>0, <1>3 DEF TypeOK
  <2> QED BY <2>1, <2>2, <1>0, <1>6, <1>8 DEF TypeOK, Table
<1>10. ListUntilFreed'
  BY <1>1 DEF ListUntilFreed
<1>11. ASSUME health' = "ok" PROVE Sound'
  <2>1. hdrs' = H
    BY <1>2, <1>11 DEF MergeHealth
  <2>2. HeapEnd' = HeapEnd
    BY <1>0 DEF HeapEnd
  <2>3. ASSUME NEW d \in Clients, blocks'[d] # NoBlock PROVE HeldBy(d)'
    <3>1. d # c /\ blocks'[d] = blocks[d] /\ blocks[d] # NoBlock
      BY <2>3, <1>8
    <3>2. /\ blocks[d].ptr - HDR \in DOMAIN hdrs /\ HeldBy(d)
          /\ blocks[d].ptr \in Nat /\ blocks[c].ptr \in Nat /\ HDR \in Nat
      BY <3>1, <1>3, BlockOf
    <3> DEFINE k == blocks[d].ptr - HDR
    <3>3. k # h
      BY <3>1, <3>2, <1>0 DEF HeldBy, h
    <3>4. hdrs'[k] = hdrs[k] /\ k \in DOMAIN hdrs'
      BY <2>1, <3>2, <3>3, <1>5
    <3>5. \A e \in Clients \ {d} : blocks'[e] = NoBlock \/ blocks'[e].ptr # blocks'[d].ptr
      BY <3>1, <3>2, <1>8 DEF HeldBy
    <3>6. ~hdrs[k].free /\ hdrs[k].size >= blocks[d].size
      BY <3>2 DEF HeldBy
    <3> QED BY <3>1, <3>4, <3>5, <3>6 DEF HeldBy
  <2> QED BY <2>1, <2>2, <2>3, <1>5 DEF Sound
<1> QED BY <1>9, <1>10, <1>11 DEF IInv

\* Every call keeps the invariant.
LEMMA NextPreserves == IInv /\ [Next]_vars => IInv'
<1> SUFFICES ASSUME IInv, [Next]_vars PROVE IInv'
  OBVIOUS
<1>1. ASSUME NEW c \in Clients, NEW size \in Sizes, malloc(c, size) PROVE IInv'
  BY <1>1, GrantKeeps DEF malloc
<1>2. ASSUME NEW c \in Clients, NEW size \in Sizes, realloc(c, size) PROVE IInv'
  <2>1. /\ health = "ok" /\ Grant(c, size) /\ UNCHANGED freed /\ blocks[c] # NoBlock
        /\ copied' = CopyLength(hdrs'[blocks[c].ptr - HDR].size, size)
    BY <1>2 DEF realloc
  <2>2. TypeOK /\ Sound /\ Tiling(hdrs, HeapEnd) /\ size \in Nat
    BY <2>1, HeapAssumption DEF IInv, Sound
  <2>3. blocks[c].ptr - HDR \in DOMAIN hdrs' /\ Table(hdrs')
    BY <2>1, <2>2, BlockOf, Granted
  <2>4. copied' \in Nat
    BY <2>1, <2>2, <2>3, Fields DEF CopyLength
  <2> QED BY <2>1, <2>4, GrantKeeps
<1>3. ASSUME NEW c \in Clients, free(c) PROVE IInv'
  BY <1>3, FreeKeeps
<1>4. ASSUME UNCHANGED vars PROVE IInv'
  BY <1>4 DEF vars, IInv, TypeOK, ListUntilFreed, Sound, HeldBy, HeapEnd
<1> QED BY <1>1, <1>2, <1>3, <1>4 DEF Next

\* The invariant holds throughout.
LEMMA Invariance == Spec => []IInv
BY InitHolds, NextPreserves, PTL DEF Spec

-----------------------------------------------------------------------------
\* Theorems

\* Every variable of the heap always has its type, also when a merge has
\* cleared a live header.
THEOREM TypeCorrect == Spec => []TypeOK
BY Invariance, PTL DEF IInv

\* As long as no call has broken it, the heap's segments tile it: a walk along
\* next visits every header in address order and ends with the last page.
THEOREM HeapTiled == Spec => []SegmentsTile
<1>1. IInv => SegmentsTile
  BY DEF IInv, Sound, Tiling, Linked, EndIn, EndOf, SegmentsTile
<1> QED BY <1>1, Invariance, PTL

\* As long as no call has broken the heap, each client's block is a segment of
\* its own in use and large enough, no header lies in it, and no two blocks
\* share a byte.
THEOREM BlocksApart == Spec => []BlocksSound
<1>1. ASSUME IInv PROVE BlocksSound
  <2> SUFFICES ASSUME health = "ok", NEW c \in Clients, blocks[c] # NoBlock
               PROVE  LET b == blocks[c]
                      IN  /\ b.ptr - HDR \in DOMAIN hdrs
                          /\ ~hdrs[b.ptr - HDR].free
                          /\ hdrs[b.ptr - HDR].size >= b.size
                          /\ \A k \in DOMAIN hdrs : k >= b.ptr + b.size \/ k + HDR <= b.ptr
                          /\ \A d \in Clients \ {c} :
                               \/ blocks[d] = NoBlock
                               \/ blocks[d].ptr >= b.ptr + b.size + HDR
                               \/ blocks[d].ptr + blocks[d].size + HDR <= b.ptr
    BY DEF BlocksSound
  <2>1. TypeOK /\ Sound /\ Table(hdrs) /\ Apart(hdrs)
    BY <1>1 DEF IInv, Sound, TypeOK, Table, Tiling
  <2> DEFINE h == blocks[c].ptr - HDR
  <2>2. /\ h \in DOMAIN hdrs /\ ~hdrs[h].free /\ hdrs[h].size >= blocks[c].size
        /\ blocks[c].ptr \in Nat /\ blocks[c].size \in Nat /\ HDR \in Nat \ {0}
    BY <2>1, BlockOf DEF HeldBy
  <2>3. h \in Nat /\ hdrs[h].size \in Nat /\ blocks[c].ptr = h + HDR
    BY <2>1, <2>2, Fields
  <2>4. ASSUME NEW k \in DOMAIN hdrs, k # h
        PROVE  \/ k >= blocks[c].ptr + blocks[c].size
               \/ k + HDR + hdrs[k].size <= h
    <3>1. k \in Nat /\ hdrs[k].size \in Nat
      BY <2>1, Fields
    <3>2. CASE k < h
      BY <3>2, <2>1, <2>2 DEF Apart, EndIn
    <3>3. CASE h < k
      <4>1. h + HDR + hdrs[h].size <= k
        BY <3>3, <2>1, <2>2 DEF Apart, EndIn
      <4> HIDE DEF h
      <4> QED BY <4>1, <3>1, <2>2, <2>3
    <3> QED BY <3>1, <3>2, <3>3, <2>3, <2>4
  <2>5. ASSUME NEW k \in DOMAIN hdrs PROVE k >= blocks[c].ptr + blocks[c].size \/ k + HDR <= blocks[c].ptr
    <3>1. k \in Nat /\ hdrs[k].size \in Nat
      BY <2>1, Fields
    <3> QED BY <3>1, <2>2, <2>3, <2>4
  <2>6. ASSUME NEW d \in Clients \ {c}, blocks[d] # NoBlock
        PROVE  \/ blocks[d].ptr >= blocks[c].ptr + blocks[c].size + HDR
               \/ blocks[d].ptr + blocks[d].size + HDR <= blocks[c].ptr
    <3> DEFINE k == blocks[d].ptr - HDR
    <3>1. /\ k \in DOMAIN hdrs /\ hdrs[k].size >= blocks[d].size
          /\ blocks[d].ptr \in Nat /\ blocks[d].size \in Nat
      BY <2>1, <2>6, BlockOf DEF HeldBy
    <3>2. k \in Nat /\ hdrs[k].size \in Nat /\ blocks[d].ptr = k + HDR
      BY <2>1, <2>2, <3>1, Fields
    <3>3. k # h
      <4>1. blocks[d].ptr # blocks[c].ptr
        BY <2>1, <2>6, BlockOf DEF HeldBy
      <4> QED BY <4>1, <3>2, <2>3
    <3> HIDE DEF k, h
    <3>4. CASE k >= blocks[c].ptr + blocks[c].size
      BY <3>4, <3>2, <2>2
    <3>5. CASE k + HDR + hdrs[k].size <= h
      BY <3>5, <3>1, <3>2, <2>2, <2>3
    <3> QED BY <3>1, <3>3, <3>4, <3>5, <2>4
  <2> QED BY <2>2, <2>5, <2>6
<1> QED BY <1>1, Invariance, PTL

\* Until the first free, a free segment is always the last one and every back
\* link names the segment's neighbour.
THEOREM ListSoundUntilFreed == Spec => []ListUntilFreed
BY Invariance, PTL DEF IInv

\* realloc copies every byte both blocks have room for and writes none past
\* the new segment.
THEOREM CopySafe == Spec => ReallocCopies
<1> DEFINE Safe(c) == blocks[c] # NoBlock /\ blocks'[c] # NoBlock /\ blocks'[c] # blocks[c] =>
                        /\ copied' <= hdrs'[blocks'[c].ptr - HDR].size
                        /\ copied' >= Min({blocks[c].size, blocks'[c].size})
<1>1. ASSUME IInv, [Next]_vars PROVE [\A c \in Clients : Safe(c)]_vars
  <2> SUFFICES ASSUME NEW c \in Clients, blocks[c] # NoBlock, blocks'[c] # NoBlock, blocks'[c] # blocks[c]
               PROVE  /\ copied' <= hdrs'[blocks'[c].ptr - HDR].size
                      /\ copied' >= Min({blocks[c].size, blocks'[c].size})
    OBVIOUS
  <2>1. blocks \in [Clients -> [ptr : Nat, size : Nat]]
    BY <1>1 DEF IInv, TypeOK
  <2>2. PICK size \in Sizes : realloc(c, size)
    <3>1. ASSUME NEW d \in Clients, NEW size \in Sizes, malloc(d, size) PROVE FALSE
      BY <3>1, <2>1 DEF malloc, Grant
    <3>2. ASSUME NEW d \in Clients, free(d) PROVE FALSE
      BY <3>2, <2>1 DEF free
    <3>3. ASSUME NEW d \in Clients, NEW size \in Sizes, realloc(d, size) PROVE d = c
      BY <3>3, <2>1 DEF realloc, Grant
    <3>4. Next
      BY <1>1 DEF vars
    <3> QED BY <3>1, <3>2, <3>3, <3>4 DEF Next
  <2>3. /\ health = "ok" /\ Grant(c, size)
        /\ copied' = CopyLength(hdrs'[blocks[c].ptr - HDR].size, size)
    BY <2>2 DEF realloc
  <2>4. TypeOK /\ Sound /\ Tiling(hdrs, HeapEnd) /\ Table(hdrs) /\ size \in Nat
    BY <1>1, <2>3, HeapAssumption DEF IInv, Sound, TypeOK, Table
  <2> DEFINE h == blocks[c].ptr - HDR
             g == Chosen(size).hdr
  <2>5. h \in DOMAIN hdrs /\ hdrs[h].size >= blocks[c].size /\ blocks[c].size \in Nat /\ HDR \in Nat
    BY <2>4, BlockOf DEF HeldBy
  <2>6. /\ g \in DOMAIN hdrs /\ DOMAIN hdrs \subseteq DOMAIN hdrs' /\ Table(hdrs')
        /\ hdrs'[g].size >= size /\ (h # g => hdrs'[h] = hdrs[h])
    BY <2>3, <2>4, <2>5, Granted
  <2>7. blocks'[c].ptr - HDR = g /\ blocks'[c].size = size
    <3>1. g \in Nat
      BY <2>4, <2>6, Fields
    <3>2. blocks'[c] = [ptr |-> g + HDR, size |-> size]
      BY <2>1, <2>3 DEF Grant
    <3> HIDE DEF g
    <3> QED BY <3>1, <3>2, <2>5
  <2> HIDE DEF g, h
  <2>8. hdrs'[h].size \in Nat /\ hdrs'[g].size \in Nat
    BY <2>5, <2>6, Fields
  <2>9. copied' = IF hdrs'[h].size < size THEN hdrs'[h].size ELSE size
    BY <2>3 DEF CopyLength, h
  <2>10. hdrs'[h].size >= blocks[c].size \/ hdrs'[h].size >= size
    BY <2>5, <2>6
  <2>11. /\ Min({blocks[c].size, size}) \in Nat
         /\ Min({blocks[c].size, size}) <= blocks[c].size /\ Min({blocks[c].size, size}) <= size
    BY <2>4, <2>5, MinIsLeast
  <2> QED BY <2>4, <2>5, <2>6, <2>7, <2>8, <2>9, <2>10, <2>11
<1>2. IInv /\ [Next]_vars => [\A c \in Clients : Safe(c)]_vars
  BY <1>1
<1> HIDE DEF Safe
<1>3. Spec => [][\A c \in Clients : Safe(c)]_vars
  BY <1>2, Invariance, PTL DEF Spec
<1> QED BY <1>3 DEF Safe, ReallocCopies

\* Which calls can break the heap, and that no other can.
THEOREM BreaksExplained == Spec => BreaksOnlyWhere
<1> DEFINE Explained ==
      health = "ok" /\ health' # "ok" =>
        \/ heap_size' > heap_size /\ ~hdrs[LastSegment].free
        \/ \E c \in Clients :
             LET h == blocks[c].ptr - HDR
             IN  /\ blocks[c] # NoBlock /\ blocks'[c] = NoBlock
                 /\ \/ EndOf(h) = HeapEnd
                    \/ hdrs[h].prev # NULL /\ hdrs[hdrs[h].prev].free
                    \/ \E g \in DOMAIN hdrs : hdrs[g].free /\ EndOf(h) = g
<1>1. ASSUME IInv, Next, health = "ok", health' # "ok" PROVE Explained
  <2>1. TypeOK /\ Sound /\ Tiling(hdrs, HeapEnd) /\ Table(hdrs) /\ HeapEnd \in Nat
    <3>1. TypeOK /\ Sound /\ Tiling(hdrs, HeapEnd) /\ Table(hdrs) /\ heap_size \in Nat
      BY <1>1 DEF IInv, Sound, TypeOK, Table
    <3> QED BY <3>1, EndIsNat
  <2>2. ASSUME NEW c \in Clients, NEW size \in Sizes, Grant(c, size)
        PROVE  heap_size' > heap_size /\ ~hdrs[LastSegment].free
    <3> DEFINE g == Chosen(size).hdr
    <3>1. /\ g \in DOMAIN hdrs
          /\ hdrs[g].free \/ (g = LastSegment /\ hdrs[g].next = NULL /\ heap_size' > heap_size)
      BY <2>1, <2>2, Granted
    <3>2. PICK d \in Clients \ {c} : blocks[d].ptr = g + HDR
      BY <1>1, <2>2 DEF Grant
    <3>3. g \in Nat \ {0} /\ HDR \in Nat \ {0}
      BY <2>1, <3>1, Fields
    <3> HIDE DEF g
    <3>4. blocks[d] # NoBlock /\ blocks[d].ptr - HDR = g
      BY <3>2, <3>3 DEF NoBlock, NULL
    <3>5. ~hdrs[g].free
      BY <3>4, <2>1, BlockOf DEF HeldBy
    <3> QED BY <3>1, <3>5
  <2>3. ASSUME NEW c \in Clients, free(c) PROVE Explained
    <3> DEFINE h == blocks[c].ptr - HDR
               H == Mark(hdrs, h, TRUE)
               prev == H[h].prev
               next == H[h].next
    <3>1. /\ blocks[c] # NoBlock /\ blocks' = [blocks EXCEPT ![c] = NoBlock]
          /\ (prev # NULL /\ H[prev].free) \/ next = NULL \/ (next # NULL /\ H[next].free)
      BY <1>1, <2>3 DEF free, Mark
    <3>2. blocks'[c] = NoBlock
      BY <3>1, <2>1 DEF TypeOK
    <3>3. h \in DOMAIN hdrs
      BY <3>1, <2>1, BlockOf
    <3>4. /\ prev = hdrs[h].prev /\ next = hdrs[h].next
          /\ \A g \in DOMAIN hdrs : g # h => H[g] = hdrs[g]
          /\ prev # NULL => prev \in DOMAIN hdrs /\ prev # h
          /\ next # NULL => next \in DOMAIN hdrs /\ next # h /\ next = EndOf(h)
          /\ next = NULL => EndOf(h) = HeapEnd
      <4> HIDE DEF h
      <4> QED BY <3>3, <2>1, Neighbours
    <3> HIDE DEF H
    <3>5. \/ EndOf(h) = HeapEnd
          \/ hdrs[h].prev # NULL /\ hdrs[hdrs[h].prev].free
          \/ \E g \in DOMAIN hdrs : hdrs[g].free /\ EndOf(h) = g
      <4> HIDE DEF h
      <4> QED BY <3>1, <3>4
    <3> QED BY <3>1, <3>2, <3>5
  <2>4. ASSUME NEW c \in Clients, NEW size \in Sizes, malloc(c, size) \/ realloc(c, size) PROVE Explained
    BY <2>2, <2>4 DEF malloc, realloc
  <2> QED BY <1>1, <2>3, <2>4 DEF Next
<1>2. IInv /\ [Next]_vars => [Explained]_vars
  BY <1>1 DEF vars
<1> HIDE DEF Explained
<1>3. Spec => [][Explained]_vars
  BY <1>2, Invariance, PTL DEF Spec
<1> QED BY <1>3 DEF Explained, BreaksOnlyWhere
=============================================================================
