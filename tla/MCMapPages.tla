------------------------------ MODULE MCMapPages -----------------------------
(***************************************************************************)
(* TLC instance of MapPages on the machine of MCVmm (tables of four        *)
(* entries, 112 pages of one byte). The bases lie on and around the        *)
(* boundaries of a PT, PD and PDPT; the lengths go past two PDPT entries,  *)
(* so that every threshold is met from both sides.                         *)
(***************************************************************************)
EXTENDS MapPages

Area(b, n, t) == [base |-> b, length |-> n, type |-> t]

MCMemmap ==
  << Area(0, 16, "RESERVED"), Area(16, 96, "USABLE") >>

MCPhysPages == 0 .. 111

MCBootMem ==
  LET Pointers(f) == [i \in Indices |-> IF i \in DOMAIN f THEN Entry(f[i], FALSE) ELSE NoEntry]
  IN  [k \in 4 .. 13 |->
         CASE k = 4 -> Pointers([i \in 2 .. 3 |-> 3 + i])
           [] k = 5 -> Pointers([i \in 0 .. 3 |-> 7 + i])
           [] k = 6 -> Pointers([i \in 0 .. 2 |-> 11 + i])
           [] k \in 7 .. 13 -> [i \in Indices |-> Entry((16 * (k - 7)) + (4 * i), TRUE)]]

MCBases == {0, 1, 15, 16, 60}

MCLengths == (1 .. 7) \cup (15 .. 24) \cup {34}
=============================================================================
