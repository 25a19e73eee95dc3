----------------------------- MODULE BootProofs ------------------------------
(***************************************************************************)
(* Proofs about kentry: its steps through Boot keep the type invariant, so *)
(* that font_load's scan stays in the font's table, and every way it ends  *)
(* is explained by what the bootloader gave.                               *)
(***************************************************************************)
EXTENDS Boot, TLAPS

-----------------------------------------------------------------------------
\* The invariant

Started == {"kentry", "framebuffer_init"}
Searching == Started \union {"font_load"}
Loading == Searching \union {"header"}
Asking == {Mandatory[k] : k \in DOMAIN Mandatory}
Ended == {"kernel", "hung", "panicked"}
Places == Loading \union {"scan", "renderer_init"} \union Asking \union Ended

Named(m) == does_string_end_with(boot.modules[m].path, FONT_PATH)

\* The search begins with the first module, and no module it has passed is the font's.
SearchInv ==
  /\ pc \in Started => i = 0
  /\ pc = "font_load" => i \in Nat
  /\ pc = "font_load" /\ boot.modules # NULL => \A m \in DOMAIN boot.modules : m <= i => ~Named(m)

\* The file found is the one the search is for.
FileInv ==
  /\ pc \in Loading => ascii = 0 /\ line = 0
  /\ pc = "header" => i = 0
  /\ pc \notin Searching \union {"hung"} =>
       /\ boot.modules # NULL
       /\ file = FontModule
       /\ file \in ToSet(boot.modules)
  /\ pc \notin Loading \union {"hung"} => file.magic \in {"PSF1", "PSF2"}

\* The answers checked so far
AnswersInv ==
  /\ pc \notin {"kentry", "hung"} => boot.supported
  /\ pc \notin Started \union {"hung"} => HasFramebuffer
  /\ \A k \in DOMAIN Mandatory :
       pc = Mandatory[k] =>
         /\ "renderer" \in bootdata
         /\ \A n \in 1 .. k - 1 : Mandatory[n] \in bootdata \intersect boot.responses

IInv == TypeOK /\ pc \in Places /\ SearchInv /\ FileInv /\ AnswersInv /\ OutcomeExplained

-----------------------------------------------------------------------------
\* The comparison from the end on is the comparison with a suffix.

LEMMA EndIsSuffix ==
  ASSUME NEW str, IsSequence(str), NEW end, IsSequence(end)
  PROVE  does_string_end_with(str, end) <=> IsSuffix(end, str)
<1> DEFINE s == Reverse(str)
           e == Reverse(end)
<1>1. Len(str) \in Nat /\ Len(end) \in Nat
  BY DEF IsSequence
<1>2. /\ s \in Seq(ToSet(str)) /\ Len(s) = Len(str)
      /\ \A k \in 1 .. Len(str) : s[k] = str[(Len(str) - k) + 1]
  <2>1. \A k \in 1 .. Len(str) : str[(Len(str) - k) + 1] \in ToSet(str)
    BY <1>1 DEF IsSequence, ToSet
  <2> QED BY <1>1, <2>1 DEF Reverse
<1>3. /\ e \in Seq(ToSet(end)) /\ Len(e) = Len(end)
      /\ \A k \in 1 .. Len(end) : e[k] = end[(Len(end) - k) + 1]
  <2>1. \A k \in 1 .. Len(end) : end[(Len(end) - k) + 1] \in ToSet(end)
    BY <1>1 DEF IsSequence, ToSet
  <2> QED BY <1>1, <2>1 DEF Reverse
<1>4. IsSuffix(end, str) <=> Len(end) <= Len(str) /\ \A k \in 1 .. Len(end) : e[k] = s[k]
  <2> HIDE DEF s, e
  <2>1. Len(end) <= Len(str) =>
          (SubSeq(e, 1, Len(e)) = SubSeq(s, 1, Len(e)) <=> \A k \in 1 .. Len(end) : e[k] = s[k])
    BY <1>1, <1>2, <1>3
  <2>2. IsPrefix(e, s) <=> Len(end) <= Len(str) /\ \A k \in 1 .. Len(end) : e[k] = s[k]
    BY <1>2, <1>3, <2>1 DEF IsPrefix
  <2> QED BY <2>2 DEF IsSuffix, s, e
<1> HIDE DEF s, e
<1>5. ASSUME Len(end) <= Len(str)
      PROVE  (\A k \in 1 .. Len(end) : e[k] = s[k])
               <=> \A k \in 0 .. Len(end) - 1 : str[Len(str) - k] = end[Len(end) - k]
  <2>1. ASSUME \A k \in 1 .. Len(end) : e[k] = s[k], NEW k \in 0 .. Len(end) - 1
        PROVE  str[Len(str) - k] = end[Len(end) - k]
    <3>1. k + 1 \in 1 .. Len(end) /\ k + 1 \in 1 .. Len(str)
      BY <1>1, <1>5, <2>1
    <3>2. (Len(end) - (k + 1)) + 1 = Len(end) - k /\ (Len(str) - (k + 1)) + 1 = Len(str) - k
      BY <1>1, <2>1
    <3> QED BY <1>2, <1>3, <2>1, <3>1, <3>2
  <2>2. ASSUME \A k \in 0 .. Len(end) - 1 : str[Len(str) - k] = end[Len(end) - k],
               NEW k \in 1 .. Len(end)
        PROVE  e[k] = s[k]
    <3>1. k - 1 \in 0 .. Len(end) - 1 /\ k \in 1 .. Len(str)
      BY <1>1, <1>5, <2>2
    <3>2. (Len(end) - k) + 1 = Len(end) - (k - 1) /\ (Len(str) - k) + 1 = Len(str) - (k - 1)
      BY <1>1, <2>2
    <3> QED BY <1>2, <1>3, <2>2, <3>1, <3>2
  <2> QED BY <2>1, <2>2
<1> QED BY <1>1, <1>4, <1>5 DEF does_string_end_with

\* The font's module is the first one the search accepts, if there is one.
LEMMA FontModuleIs ==
  ASSUME boot \in Bootloaders
  PROVE  /\ boot.modules = NULL => FontModule = NULL
         /\ boot.modules # NULL /\ (\A m \in DOMAIN boot.modules : ~Named(m)) => FontModule = NULL
         /\ \A m \in DOMAIN boot.modules :
              /\ boot.modules # NULL /\ Named(m)
              /\ \A n \in DOMAIN boot.modules : n < m => ~Named(n)
              => FontModule = boot.modules[m]
<1>1. boot.modules = NULL => FontModule = NULL
  BY DEF FontModule
<1>2. ASSUME boot.modules # NULL
      PROVE  /\ (\A m \in DOMAIN boot.modules : ~Named(m)) => FontModule = NULL
             /\ \A m \in DOMAIN boot.modules :
                  Named(m) /\ (\A n \in DOMAIN boot.modules : n < m => ~Named(n))
                  => FontModule = boot.modules[m]
  <2> DEFINE named == {m \in DOMAIN boot.modules : IsSuffix(FONT_PATH, boot.modules[m].path)}
  <2>1. \A m \in DOMAIN boot.modules : m \in Nat /\ (m \in named <=> Named(m))
    <3> TAKE m \in DOMAIN boot.modules
    <3>1. IsSequence(boot.modules) /\ IsSequence(FONT_PATH) /\ IsSequence(boot.modules[m].path)
      BY <1>2, BootAssumption DEF ToSet
    <3>2. m \in Nat
      BY <3>1 DEF IsSequence
    <3> QED BY <3>1, <3>2, EndIsSuffix DEF Named
  <2>2. FontModule = IF named = {} THEN NULL
                     ELSE boot.modules[CHOOSE m \in named : \A n \in named : m <= n]
    BY <1>2 DEF FontModule
  <2>3. (\A m \in DOMAIN boot.modules : ~Named(m)) => named = {}
    BY <2>1
  <2>4. ASSUME NEW m \in DOMAIN boot.modules, Named(m),
               \A n \in DOMAIN boot.modules : n < m => ~Named(n)
        PROVE  FontModule = boot.modules[m]
    <3>1. m \in named /\ \A n \in named : n \in Nat /\ m <= n
      BY <2>1, <2>4
    <3>2. \A k \in named : (\A n \in named : k <= n) => k = m
      BY <2>1, <3>1
    <3> HIDE DEF named
    <3>3. (CHOOSE k \in named : \A n \in named : k <= n) = m
      BY <3>1, <3>2
    <3> QED BY <2>2, <3>1, <3>3
  <2> QED BY <2>2, <2>3, <2>4
<1> QED BY <1>1, <1>2


-----------------------------------------------------------------------------
\* The invariant is inductive.

LEMMA BootKept ==
  boot' = boot => /\ FontModule' = FontModule
                  /\ ScreenUsable' <=> ScreenUsable
                  /\ HasFramebuffer' <=> HasFramebuffer
                  /\ \A m : Named(m)' <=> Named(m)
BY DEF FontModule, ScreenUsable, HasFramebuffer, Named

LEMMA PlacesAre ==
  /\ DOMAIN Mandatory = 1 .. 3 /\ Len(Mandatory) = 3
  /\ Mandatory[1] = "hhdm" /\ Mandatory[2] = "memmap" /\ Mandatory[3] = "rsdp"
  /\ Asking = {"hhdm", "memmap", "rsdp"}
<1>1. /\ DOMAIN Mandatory = 1 .. 3 /\ Len(Mandatory) = 3
      /\ Mandatory[1] = "hhdm" /\ Mandatory[2] = "memmap" /\ Mandatory[3] = "rsdp"
  BY DEF Mandatory
<1>2. \A k : k \in 1 .. 3 <=> k = 1 \/ k = 2 \/ k = 3
  OBVIOUS
<1> QED BY <1>1, <1>2 DEF Asking

LEMMA InitInv == Init => IInv
<1> SUFFICES ASSUME Init PROVE IInv
  OBVIOUS
<1>1. pc = "kentry" /\ i = 0 /\ ascii = 0 /\ line = 0 /\ boot \in Bootloaders
  BY DEF Init
<1>2. mappings \in [Chars -> Nat]
  BY DEF Init
<1>3. TypeOK
  BY <1>1, <1>2 DEF TypeOK
<1>4. pc \in Places /\ pc \in Loading /\ pc \notin Asking
  BY <1>1, PlacesAre DEF Places, Loading, Searching, Started
<1>5. SearchInv
  BY <1>1 DEF SearchInv
<1>6. FileInv
  BY <1>1 DEF FileInv, Loading, Searching, Started
<1>7. AnswersInv
  BY <1>1, PlacesAre DEF AnswersInv, Started, Asking
<1>8. OutcomeExplained
  BY <1>1 DEF OutcomeExplained
<1> QED BY <1>3, <1>4, <1>5, <1>6, <1>7, <1>8 DEF IInv

LEMMA BaseRevision == IInv /\ base_revision => IInv'
<1> SUFFICES ASSUME IInv, base_revision PROVE IInv'
  OBVIOUS
<1>1. /\ pc = "kentry" /\ boot' = boot /\ file' = file /\ bootdata' = bootdata
      /\ i' = i /\ ascii' = ascii /\ line' = line /\ mappings' = mappings
  BY DEF base_revision, scanVars
<1>2. \/ boot.supported /\ pc' = "framebuffer_init"
      \/ ~boot.supported /\ pc' = "hung"
  BY DEF base_revision, GoOrHang
<1>3. i = 0 /\ ascii = 0 /\ line = 0 /\ boot \in Bootloaders /\ mappings \in [Chars -> Nat]
  BY <1>1 DEF IInv, SearchInv, FileInv, TypeOK, Loading, Searching, Started
<1>4. TypeOK'
  BY <1>1, <1>2, <1>3 DEF TypeOK
<1>5. pc' \in Places
  BY <1>2 DEF Places, Loading, Searching, Started, Ended
<1>6. SearchInv'
  BY <1>1, <1>2, <1>3 DEF SearchInv
<1>7. FileInv'
  BY <1>1, <1>2, <1>3 DEF FileInv, Loading, Searching, Started
<1>8. AnswersInv'
  BY <1>1, <1>2, PlacesAre DEF AnswersInv, Started
<1>9. OutcomeExplained'
  BY <1>1, <1>2, BootKept DEF OutcomeExplained, ScreenUsable
<1> QED BY <1>4, <1>5, <1>6, <1>7, <1>8, <1>9 DEF IInv

LEMMA FramebufferInit == IInv /\ framebuffer_init => IInv'
<1> SUFFICES ASSUME IInv, framebuffer_init PROVE IInv'
  OBVIOUS
<1>1. /\ pc = "framebuffer_init" /\ boot' = boot /\ file' = file
      /\ i' = i /\ ascii' = ascii /\ line' = line /\ mappings' = mappings
  BY DEF framebuffer_init, scanVars
<1>2. \/ HasFramebuffer /\ pc' = "font_load"
      \/ ~HasFramebuffer /\ pc' = "hung"
  BY DEF framebuffer_init, GoOrHang
<1>3. /\ i = 0 /\ ascii = 0 /\ line = 0 /\ boot \in Bootloaders /\ mappings \in [Chars -> Nat]
      /\ boot.supported
  BY <1>1 DEF IInv, SearchInv, FileInv, AnswersInv, TypeOK, Loading, Searching, Started
<1>4. TypeOK'
  BY <1>1, <1>2, <1>3 DEF TypeOK
<1>5. pc' \in Places
  BY <1>2 DEF Places, Loading, Searching, Started, Ended
<1>6. SearchInv'
  <2>1. boot.modules # NULL => \A m \in DOMAIN boot.modules : m \in Nat /\ ~(m <= 0)
    BY <1>3, BootAssumption DEF IsSequence
  <2> QED BY <1>1, <1>2, <1>3, <2>1 DEF SearchInv, Started
<1>7. FileInv'
  BY <1>1, <1>2, <1>3 DEF FileInv, Loading, Searching, Started
<1>8. AnswersInv'
  BY <1>1, <1>2, <1>3, PlacesAre, BootKept DEF AnswersInv, Started
<1>9. OutcomeExplained'
  <2>1. ~HasFramebuffer => ~ScreenUsable
    <3>1. boot.framebuffers # NULL /\ boot.framebuffers # << >> => Len(boot.framebuffers) >= 1
      BY <1>3, BootAssumption DEF IsSequence
    <3> QED BY <3>1 DEF HasFramebuffer, ScreenUsable
  <2> QED BY <1>1, <1>2, <2>1, BootKept DEF OutcomeExplained
<1> QED BY <1>4, <1>5, <1>6, <1>7, <1>8, <1>9 DEF IInv

LEMMA FindModule == IInv /\ find_module => IInv'
<1> SUFFICES ASSUME IInv, find_module PROVE IInv'
  OBVIOUS
<1>1. /\ pc = "font_load" /\ boot' = boot /\ bootdata' = bootdata
      /\ ascii' = ascii /\ line' = line /\ mappings' = mappings
  BY DEF find_module
<1>2. /\ i \in Nat /\ ascii = 0 /\ line = 0 /\ boot \in Bootloaders /\ mappings \in [Chars -> Nat]
      /\ boot.supported /\ HasFramebuffer
      /\ boot.modules # NULL => \A m \in DOMAIN boot.modules : m <= i => ~Named(m)
  BY <1>1 DEF IInv, SearchInv, FileInv, AnswersInv, TypeOK, Loading, Searching, Started
<1>3. boot.modules # NULL => /\ DOMAIN boot.modules = 1 .. Len(boot.modules)
                             /\ Len(boot.modules) \in Nat
  BY <1>2, BootAssumption DEF IsSequence
<1>4. CASE boot.modules # NULL /\ i < Len(boot.modules) /\ Named(i + 1)
  <2>1. file' = boot.modules[i + 1] /\ i' = 0 /\ pc' = "header"
    BY <1>4 DEF find_module, Named
  <2>2. i + 1 \in DOMAIN boot.modules /\ \A n \in DOMAIN boot.modules : n < i + 1 => ~Named(n)
    BY <1>2, <1>3, <1>4
  <2>3. file' = FontModule /\ file' \in ToSet(boot.modules)
    BY <1>2, <1>4, <2>1, <2>2, FontModuleIs DEF ToSet
  <2>4. TypeOK'
    BY <1>1, <1>2, <2>1 DEF TypeOK
  <2>5. pc' \in Places
    BY <2>1 DEF Places, Loading
  <2>6. SearchInv'
    BY <2>1 DEF SearchInv, Started
  <2>7. FileInv'
    BY <1>1, <1>2, <1>4, <2>1, <2>3, BootKept DEF FileInv, Loading
  <2>8. AnswersInv'
    BY <1>1, <1>2, <2>1, PlacesAre, BootKept DEF AnswersInv
  <2>9. OutcomeExplained'
    BY <2>1 DEF OutcomeExplained
  <2> QED BY <2>4, <2>5, <2>6, <2>7, <2>8, <2>9 DEF IInv
<1>5. CASE boot.modules # NULL /\ i < Len(boot.modules) /\ ~Named(i + 1)
  <2>1. i' = i + 1 /\ pc' = pc /\ file' = file
    BY <1>5 DEF find_module, Named
  <2>2. \A m \in DOMAIN boot.modules : m <= i + 1 => ~Named(m)
    <3> SUFFICES ASSUME NEW m \in DOMAIN boot.modules, m <= i + 1 PROVE ~Named(m)
      OBVIOUS
    <3>1. m \in Nat /\ (m <= i \/ m = i + 1)
      BY <1>2, <1>3, <1>5
    <3> QED BY <1>2, <1>5, <3>1
  <2>4. TypeOK'
    BY <1>1, <1>2, <2>1 DEF TypeOK
  <2>5. pc' \in Places
    BY <2>1 DEF IInv
  <2>6. SearchInv'
    BY <1>1, <1>2, <2>1, <2>2, BootKept DEF SearchInv, Started
  <2>7. FileInv'
    BY <1>1, <1>2, <2>1 DEF FileInv, Loading, Searching
  <2>8. AnswersInv'
    BY <1>1, <1>2, <2>1, PlacesAre, BootKept DEF AnswersInv
  <2>9. OutcomeExplained'
    BY <1>1, <2>1 DEF OutcomeExplained
  <2> QED BY <2>4, <2>5, <2>6, <2>7, <2>8, <2>9 DEF IInv
<1>6. CASE ~(boot.modules # NULL /\ i < Len(boot.modules))
  <2>1. pc' = "hung"
    BY <1>6 DEF find_module
  <2>2. FontModule = NULL
    <3>1. boot.modules # NULL => \A m \in DOMAIN boot.modules : ~Named(m)
      BY <1>2, <1>3, <1>6
    <3> QED BY <1>2, <3>1, FontModuleIs
  <2>4. TypeOK'
    BY <1>1, <1>2, <2>1 DEF TypeOK
  <2>5. pc' \in Places
    BY <2>1 DEF Places, Ended
  <2>6. SearchInv' /\ FileInv'
    BY <2>1 DEF SearchInv, FileInv, Loading, Searching, Started
  <2>7. AnswersInv'
    BY <2>1, PlacesAre DEF AnswersInv
  <2>8. OutcomeExplained'
    BY <1>1, <2>1, <2>2, BootKept DEF OutcomeExplained, ScreenUsable
  <2> QED BY <2>4, <2>5, <2>6, <2>7, <2>8 DEF IInv
<1> QED BY <1>4, <1>5, <1>6

LEMMA LoadHeader == IInv /\ load_header => IInv'
<1> SUFFICES ASSUME IInv, load_header PROVE IInv'
  OBVIOUS
<1>1. /\ pc = "header" /\ boot' = boot /\ file' = file /\ bootdata' = bootdata
      /\ i' = i /\ ascii' = ascii /\ line' = line
  BY DEF load_header
<1>2. /\ i = 0 /\ ascii = 0 /\ line = 0 /\ boot \in Bootloaders /\ mappings \in [Chars -> Nat]
      /\ boot.supported /\ HasFramebuffer /\ boot.modules # NULL
      /\ file = FontModule /\ file \in ToSet(boot.modules)
  BY <1>1 DEF IInv, FileInv, AnswersInv, TypeOK, Loading, Searching, Started
<1>3. file # NULL /\ Len(UnicodeTable(file)) \in Nat \ {0}
  BY <1>2, BootAssumption
<1>4. \/ file.magic \in {"PSF1", "PSF2"} /\ pc' \in {"scan", "renderer_init"}
      \/ file.magic \notin {"PSF1", "PSF2"} /\ pc' = "hung"
  BY DEF load_header
<1>5. mappings' \in [Chars -> Nat]
  <2>1. [a \in Chars |-> a] \in [Chars -> Nat]
    BY BootAssumption DEF Chars
  <2> QED BY <1>2, <2>1 DEF load_header
<1>6. TypeOK'
  <2>1. 0 \in Chars /\ 0 \in 0 .. Len(UnicodeTable(file)) - 1
    BY <1>3, BootAssumption DEF Chars
  <2> QED BY <1>1, <1>2, <1>5, <2>1 DEF TypeOK
<1>7. pc' \in Places
  BY <1>4 DEF Places, Ended
<1>8. SearchInv'
  BY <1>4 DEF SearchInv, Started
<1>9. FileInv'
  BY <1>1, <1>2, <1>4, BootKept DEF FileInv, Loading, Searching, Started
<1>10. AnswersInv'
  BY <1>1, <1>2, <1>4, PlacesAre, BootKept DEF AnswersInv, Started
<1>11. OutcomeExplained'
  BY <1>1, <1>2, <1>4, BootKept DEF OutcomeExplained, ScreenUsable
<1> QED BY <1>6, <1>7, <1>8, <1>9, <1>10, <1>11 DEF IInv

\* The scan goes on with an offset of the table, or with the next character.
LEMMA ScanByte == IInv /\ scan_byte => IInv'
<1> SUFFICES ASSUME IInv, scan_byte PROVE IInv'
  OBVIOUS
<1> DEFINE byte == UnicodeTable(file)[i + 1]
           line2 == IF byte = 255 THEN line + 1 ELSE line
           size == Len(UnicodeTable(file))
<1>1. pc = "scan" /\ boot' = boot /\ file' = file /\ bootdata' = bootdata
  BY DEF scan_byte
<1>2. /\ boot \in Bootloaders /\ mappings \in [Chars -> Nat]
      /\ ascii \in Chars /\ line \in Nat /\ i \in 0 .. size - 1
      /\ boot.supported /\ HasFramebuffer /\ boot.modules # NULL
      /\ file = FontModule /\ file \in ToSet(boot.modules)
      /\ file.magic \in {"PSF1", "PSF2"}
  BY <1>1 DEF IInv, FileInv, AnswersInv, TypeOK, Loading, Searching, Started
<1>3. size \in Nat \ {0}
  BY <1>2, BootAssumption
<1>4. mappings' \in [Chars -> Nat]
  BY <1>2 DEF scan_byte
<1>5. \/ NextChar
      \/ /\ InTable(i + charlen(byte))
         /\ line' = line2 /\ i' = i + charlen(byte) /\ ascii' = ascii /\ pc' = pc
  BY DEF scan_byte
<1>6. ASSUME NextChar
      PROVE  /\ pc' \in {"scan", "renderer_init"}
             /\ pc' = "scan" => ascii' \in Chars /\ line' \in Nat /\ i' \in 0 .. size - 1
  <2>1. i' = 0 /\ line' = 0 /\ ascii' = ascii + 1
    BY <1>6 DEF NextChar
  <2>2. \/ ascii + 1 = CHARS /\ pc' = "renderer_init"
        \/ ascii + 1 # CHARS /\ pc' = "scan"
    BY <1>1, <1>6 DEF NextChar, LastChar
  <2>3. ascii + 1 # CHARS => ascii + 1 \in Chars
    BY <1>2, BootAssumption DEF Chars
  <2> HIDE DEF size
  <2>4. 0 \in 0 .. size - 1
    BY <1>3
  <2> QED BY <2>1, <2>2, <2>3, <2>4
<1>7. ASSUME InTable(i + charlen(byte)), line' = line2, i' = i + charlen(byte),
             ascii' = ascii, pc' = pc
      PROVE  /\ pc' \in {"scan", "renderer_init"}
             /\ pc' = "scan" => ascii' \in Chars /\ line' \in Nat /\ i' \in 0 .. size - 1
  <2>1. charlen(byte) \in Nat
    <3> HIDE DEF byte
    <3> QED BY DEF charlen
  <2>2. size > i + charlen(byte)
    BY <1>7 DEF InTable
  <2>3. line2 \in Nat
    BY <1>2
  <2> HIDE DEF size, byte, line2
  <2>4. i + charlen(byte) \in 0 .. size - 1
    BY <1>2, <1>3, <2>1, <2>2
  <2> QED BY <1>1, <1>2, <1>7, <2>3, <2>4
<1>8. /\ pc' \in {"scan", "renderer_init"}
      /\ pc' = "scan" => ascii' \in Chars /\ line' \in Nat /\ i' \in 0 .. size - 1
  BY <1>5, <1>6, <1>7
<1>9. TypeOK'
  BY <1>1, <1>2, <1>4, <1>8 DEF TypeOK
<1> HIDE DEF size, byte, line2
<1>10. pc' \in Places
  BY <1>8 DEF Places
<1>11. SearchInv'
  BY <1>8 DEF SearchInv, Started
<1>12. FileInv'
  BY <1>1, <1>2, <1>8, BootKept DEF FileInv, Loading, Searching, Started
<1>13. AnswersInv'
  BY <1>1, <1>2, <1>8, PlacesAre, BootKept DEF AnswersInv
<1>14. OutcomeExplained'
  BY <1>8 DEF OutcomeExplained
<1> QED BY <1>9, <1>10, <1>11, <1>12, <1>13, <1>14 DEF IInv

LEMMA RendererInit == IInv /\ renderer_init => IInv'
<1> SUFFICES ASSUME IInv, renderer_init PROVE IInv'
  OBVIOUS
<1>1. /\ pc = "renderer_init" /\ boot' = boot /\ file' = file /\ mappings' = mappings
      /\ pc' = "hhdm" /\ "renderer" \in bootdata'
  BY PlacesAre DEF renderer_init, scanVars
<1>2. /\ boot \in Bootloaders /\ mappings \in [Chars -> Nat]
      /\ boot.supported /\ HasFramebuffer /\ boot.modules # NULL
      /\ file = FontModule /\ file \in ToSet(boot.modules)
      /\ file.magic \in {"PSF1", "PSF2"}
  BY <1>1 DEF IInv, FileInv, AnswersInv, TypeOK, Loading, Searching, Started
<1>3. TypeOK'
  BY <1>1, <1>2 DEF TypeOK
<1>4. pc' \in Places
  BY <1>1, PlacesAre DEF Places
<1>5. SearchInv'
  BY <1>1 DEF SearchInv, Started
<1>6. FileInv'
  BY <1>1, <1>2, BootKept DEF FileInv, Loading, Searching, Started
<1>7. AnswersInv'
  <2>1. \A k \in DOMAIN Mandatory : pc' = Mandatory[k] => k = 1
    BY <1>1, PlacesAre
  <2>2. \A n \in 1 .. 1 - 1 : FALSE
    OBVIOUS
  <2> QED BY <1>1, <1>2, <2>1, <2>2, BootKept DEF AnswersInv
<1>8. OutcomeExplained'
  BY <1>1 DEF OutcomeExplained
<1> QED BY <1>3, <1>4, <1>5, <1>6, <1>7, <1>8 DEF IInv

LEMMA TakeAnswer ==
  ASSUME NEW k \in DOMAIN Mandatory PROVE IInv /\ take_answer(k) => IInv'
<1> SUFFICES ASSUME IInv, take_answer(k) PROVE IInv'
  OBVIOUS
<1>1. pc = Mandatory[k] /\ boot' = boot /\ file' = file /\ mappings' = mappings
  BY DEF take_answer, scanVars
<1>2. pc \in {"hhdm", "memmap", "rsdp"} /\ k \in 1 .. 3
  BY <1>1, PlacesAre
<1>3. /\ boot \in Bootloaders /\ mappings \in [Chars -> Nat]
      /\ boot.supported /\ HasFramebuffer /\ boot.modules # NULL
      /\ file = FontModule /\ file \in ToSet(boot.modules)
      /\ file.magic \in {"PSF1", "PSF2"}
      /\ "renderer" \in bootdata
      /\ \A n \in 1 .. k - 1 : Mandatory[n] \in bootdata \intersect boot.responses
  BY <1>1, <1>2 DEF IInv, FileInv, AnswersInv, TypeOK, Loading, Searching, Started
<1>4. ScreenUsable
  <2>1. boot.framebuffers # NULL /\ boot.framebuffers # << >>
    BY <1>3, BootAssumption DEF HasFramebuffer, IsSequence
  <2>2. file # NULL
    BY <1>3, BootAssumption
  <2> QED BY <1>3, <2>1, <2>2 DEF ScreenUsable
<1>5. /\ pc' \in {"memmap", "rsdp", "kernel", "panicked"}
      /\ bootdata \subseteq bootdata'
      /\ pc' # "panicked" => Mandatory[k] \in bootdata' \intersect boot.responses
      /\ pc' = "memmap" => k = 1
      /\ pc' = "rsdp" => k = 2
      /\ pc' = "kernel" => k = 3
      /\ pc' = "panicked" => Mandatory[k] \notin boot.responses /\ message' = Mandatory[k]
  BY <1>1, <1>2, PlacesAre DEF take_answer, faults_panic, Answered
<1>6. TypeOK'
  BY <1>1, <1>3, <1>5 DEF TypeOK
<1>7. pc' \in Places
  BY <1>5, PlacesAre DEF Places, Ended
<1>8. SearchInv'
  BY <1>5 DEF SearchInv, Started
<1>9. FileInv'
  BY <1>1, <1>3, <1>5, BootKept DEF FileInv, Loading, Searching, Started
<1>10. \A n \in 1 .. k : pc' # "panicked" => Mandatory[n] \in bootdata' \intersect boot.responses
  <2> SUFFICES ASSUME NEW n \in 1 .. k, pc' # "panicked"
               PROVE  Mandatory[n] \in bootdata' \intersect boot.responses
    OBVIOUS
  <2>1. n \in 1 .. k - 1 \/ n = k
    BY <1>2
  <2>2. CASE n \in 1 .. k - 1
    BY <1>3, <1>5, <2>2
  <2>3. CASE n = k
    BY <1>5, <2>3
  <2> QED BY <2>1, <2>2, <2>3
<1>11. AnswersInv'
  <2>1. ASSUME NEW j \in DOMAIN Mandatory, pc' = Mandatory[j]
        PROVE  j - 1 = k /\ pc' # "panicked"
    <3>1. j = 1 \/ j = 2 \/ j = 3
      BY PlacesAre
    <3>2. j # 1
      BY <1>5, <2>1, PlacesAre
    <3>3. j = 2 => pc' = "memmap"
      BY <2>1, PlacesAre
    <3>4. j = 3 => pc' = "rsdp"
      BY <2>1, PlacesAre
    <3>5. (pc' = "memmap" => k = 1) /\ (pc' = "rsdp" => k = 2)
      BY <1>5
    <3> QED BY <3>1, <3>2, <3>3, <3>4, <3>5
  <2>2. ASSUME NEW j \in DOMAIN Mandatory, pc' = Mandatory[j]
        PROVE  \A n \in 1 .. j - 1 : Mandatory[n] \in bootdata' \intersect boot.responses
    BY <1>10, <2>1, <2>2
  <2> QED BY <1>1, <1>3, <1>5, <2>2, BootKept DEF AnswersInv
<1>12. OutcomeExplained'
  <2>1. pc' = "panicked" =>
          message' = Mandatory[CHOOSE j \in DOMAIN Mandatory :
                                 /\ Mandatory[j] \notin boot.responses
                                 /\ \A n \in 1 .. j - 1 : Mandatory[n] \in boot.responses]
    <3> SUFFICES ASSUME pc' = "panicked"
                 PROVE  (CHOOSE j \in DOMAIN Mandatory :
                           /\ Mandatory[j] \notin boot.responses
                           /\ \A n \in 1 .. j - 1 : Mandatory[n] \in boot.responses) = k
      BY <1>5
    <3> DEFINE First(j) == /\ Mandatory[j] \notin boot.responses
                           /\ \A n \in 1 .. j - 1 : Mandatory[n] \in boot.responses
    <3>1. First(k)
      BY <1>3, <1>5
    <3>2. ASSUME NEW j \in DOMAIN Mandatory, First(j) PROVE j = k
      <4>1. j \in 1 .. 3 /\ (j \in 1 .. k - 1 \/ j = k \/ k \in 1 .. j - 1)
        BY <1>2, PlacesAre
      <4> QED BY <3>1, <3>2, <4>1
    <3> QED BY <3>1, <3>2
  <2>2. pc' = "kernel" => ToSet(Mandatory) \subseteq bootdata' \intersect boot.responses
    <3> SUFFICES ASSUME pc' = "kernel", NEW n \in 1 .. 3
                 PROVE  Mandatory[n] \in bootdata' \intersect boot.responses
      BY PlacesAre DEF ToSet
    <3>1. k = 3 /\ pc' # "panicked"
      BY <1>5
    <3> QED BY <1>10, <3>1
  <2> QED BY <1>1, <1>3, <1>4, <1>5, <2>1, <2>2, BootKept DEF OutcomeExplained
<1> QED BY <1>6, <1>7, <1>8, <1>9, <1>11, <1>12 DEF IInv

LEMMA StutterKeeps == IInv /\ UNCHANGED vars => IInv'
<1> SUFFICES ASSUME IInv, UNCHANGED vars PROVE IInv'
  OBVIOUS
<1>1. /\ boot' = boot /\ pc' = pc /\ file' = file /\ bootdata' = bootdata /\ message' = message
      /\ i' = i /\ ascii' = ascii /\ line' = line /\ mappings' = mappings
  BY DEF vars, scanVars
<1>2. TypeOK' /\ SearchInv' /\ FileInv' /\ AnswersInv' /\ OutcomeExplained'
  BY <1>1 DEF IInv, TypeOK, SearchInv, FileInv, AnswersInv, OutcomeExplained, FontModule,
              ScreenUsable, HasFramebuffer, Named
<1> QED BY <1>1, <1>2 DEF IInv, Places

LEMMA StepKeeps == IInv /\ [Next]_vars => IInv'
<1> SUFFICES ASSUME IInv, [Next]_vars PROVE IInv'
  OBVIOUS
<1>1. CASE UNCHANGED vars
  BY <1>1, StutterKeeps
<1>2. CASE Step
  BY <1>2, BaseRevision, FramebufferInit, FindModule, LoadHeader, ScanByte, RendererInit,
     TakeAnswer DEF Step
<1> QED BY <1>1, <1>2 DEF Next, kernel_runs

-----------------------------------------------------------------------------
\* The theorems

LEMMA Invariance == Spec => []IInv
BY InitInv, StepKeeps, PTL DEF Spec

\* For every bootloader, font and number of characters: font_load's scan reads
\* inside of the font file and writes inside of font->mappings (font.c:53-81).
THEOREM TypeCorrect == Spec => []TypeOK
<1>1. IInv => TypeOK
  BY DEF IInv
<1> QED BY <1>1, Invariance, PTL

\* For every set of answers: kentry hangs only where it cannot show a message,
\* panics over the first answer that is missing, and enters the kernel only
\* with all of them (kentry.c:87-147).
THEOREM EndsExplained == Spec => []OutcomeExplained
<1>1. IInv => OutcomeExplained
  BY DEF IInv
<1> QED BY <1>1, Invariance, PTL
=============================================================================
