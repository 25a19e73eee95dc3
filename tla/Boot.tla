-------------------------------- MODULE Boot ---------------------------------
(***************************************************************************)
(* The entry of the kernel (src/kentry.c): what it takes from the boot-    *)
(* loader, in which order, and where it stops when something is missing:   *)
(* framebuffer_init (src/rendering/framebuffer.c), font_load (font.c),     *)
(* faults_hang and faults_panic (src/inc/faults.c).                        *)
(*                                                                         *)
(* A font's table of characters is scanned a byte at a time, as in         *)
(* font_load; its glyphs and the framebuffer's pixels are not modelled.    *)
(***************************************************************************)
EXTENDS Integers, SequencesExt

CONSTANTS
  Bootloaders,  \* what the bootloader may answer, see below
  FONT_PATH,    \* "ter-u14n.psf", a sequence of letters
  CHARS,        \* number of characters mapped to glyphs (128)
  NULL

VARIABLES
  boot,         \* the answers: [supported, framebuffers, modules, responses], where
                \* framebuffers and modules are sequences or NULL, and responses
                \* a set of the other answers given
  pc,           \* where kentry is, and at last "kernel", "hung" or "panicked"
  i,            \* font_load: the module, then the offset in the unicode table
  file,         \* the font file, or NULL: [path, magic, flags, lines]
  ascii, line,  \* font_load: the character looked for, the line of the table
  mappings,     \* font->mappings, of a static variable: zero at first
  bootdata,     \* the answers kept
  message       \* what the panic is about

scanVars == <<i, ascii, line, mappings>>
vars == <<boot, pc, file, scanVars, bootdata, message>>

Optional == {"bootloader", "firmware"}
Mandatory == <<"hhdm", "memmap", "rsdp">>
Chars == 0 .. CHARS - 1

-----------------------------------------------------------------------------
\* External: the unicode table of a PSF2 font. A line is a sequence of
\* characters, a character a sequence of bytes, and 255 ends a line.

LineBytes(chars) == FlattenSeq(chars) \o <<255>>

UnicodeTable(f) == FlattenSeq([n \in DOMAIN f.lines |-> LineBytes(f.lines[n])])

IsSequence(s) == s \in Seq(ToSet(s))

\* What a bootloader gives are sequences, their entries no NULL pointers; and a
\* font has a glyph, whose line of the table has at least the byte that ends it.
ASSUME BootAssumption ==
  /\ CHARS \in Nat \ {0}
  /\ IsSequence(FONT_PATH)
  /\ \A b \in Bootloaders :
       /\ b.framebuffers # NULL => IsSequence(b.framebuffers)
       /\ b.modules # NULL =>
            /\ IsSequence(b.modules)
            /\ \A f \in ToSet(b.modules) :
                 f # NULL /\ IsSequence(f.path) /\ Len(UnicodeTable(f)) \in Nat \ {0}

-----------------------------------------------------------------------------

Init ==
  /\ boot \in Bootloaders
  /\ pc = "kentry"
  /\ file = NULL
  /\ i = 0 /\ ascii = 0 /\ line = 0
  /\ mappings = [a \in Chars |-> 0]
  /\ bootdata = {}
  /\ message = NULL

\* faults_hang, when the guard of a step does not hold
GoOrHang(go, to) == pc' = IF go THEN to ELSE "hung"

base_revision ==
  /\ pc = "kentry"
  /\ GoOrHang(boot.supported, "framebuffer_init")
  /\ UNCHANGED <<boot, file, scanVars, bootdata, message>>

\* Mutant: an answer without a framebuffer will do.
HasFramebuffer_Answer == boot.framebuffers # NULL

HasFramebuffer == boot.framebuffers # NULL /\ Len(boot.framebuffers) >= 1

framebuffer_init ==
  /\ pc = "framebuffer_init"
  /\ GoOrHang(HasFramebuffer, "font_load")
  /\ bootdata' = IF HasFramebuffer THEN bootdata \union {"framebuffer"} ELSE bootdata
  /\ UNCHANGED <<boot, file, scanVars, message>>

\* Compared from the end on.
does_string_end_with(str, end) ==
  /\ Len(str) >= Len(end)
  /\ \A k \in 0 .. Len(end) - 1 : str[Len(str) - k] = end[Len(end) - k]

\* font_load looks for its file.
find_module ==
  /\ pc = "font_load"
  /\ IF boot.modules # NULL /\ i < Len(boot.modules)
     THEN IF does_string_end_with(boot.modules[i + 1].path, FONT_PATH)
          THEN file' = boot.modules[i + 1] /\ i' = 0 /\ pc' = "header"
          ELSE i' = i + 1 /\ UNCHANGED <<file, pc>>
     ELSE pc' = "hung" /\ UNCHANGED <<file, i>>
  /\ UNCHANGED <<boot, ascii, line, mappings, bootdata, message>>

\* A PSF2 font without a table keeps the mappings of zero.
load_header ==
  /\ pc = "header"
  /\ \/ /\ file.magic = "PSF1"
        /\ mappings' = [a \in Chars |-> a]
        /\ pc' = "renderer_init"
     \/ /\ file.magic = "PSF2"
        /\ pc' = IF "unicode" \in file.flags THEN "scan" ELSE "renderer_init"
        /\ UNCHANGED mappings
     \/ /\ file.magic \notin {"PSF1", "PSF2"}
        /\ pc' = "hung"
        /\ UNCHANGED mappings
  /\ UNCHANGED <<boot, file, i, ascii, line, bootdata, message>>

\* Mutant: single bytes do not count.
charlen_FromZero(byte) == IF byte \in 192 .. 223 THEN 2 ELSE IF byte \in 224 .. 239 THEN 3
                          ELSE IF byte \in 240 .. 247 THEN 4 ELSE 0

\* Bytes of the UTF-8 character that starts with this one; 1 for the marks too
charlen(byte) == IF byte \in 192 .. 223 THEN 2 ELSE IF byte \in 224 .. 239 THEN 3
                 ELSE IF byte \in 240 .. 247 THEN 4 ELSE 1

\* Mutant: goes on at the end of the file.
InTable_End(offset) == Len(UnicodeTable(file)) >= offset

\* font_file->size > unicode_table_offset + i
InTable(offset) == Len(UnicodeTable(file)) > offset

\* Mutant: one line more.
InReach_OneMore(l) == l <= CHARS

InReach(l) == l < CHARS

LastChar == ascii + 1 = CHARS

NextChar ==
  /\ i' = 0 /\ line' = 0 /\ ascii' = ascii + 1
  /\ pc' = IF LastChar THEN "renderer_init" ELSE pc

\* One round of the loop over the table's bytes
scan_byte ==
  LET byte  == UnicodeTable(file)[i + 1]
      line2 == IF byte = 255 THEN line + 1 ELSE line
  IN  /\ pc = "scan"
      /\ \/ byte = ascii /\ mappings' = [mappings EXCEPT ![ascii] = line] /\ NextChar
         \/ /\ byte # ascii
            /\ IF InReach(line2) /\ InTable(i + charlen(byte))
               THEN line' = line2 /\ i' = i + charlen(byte) /\ UNCHANGED <<ascii, pc>>
               ELSE NextChar
            /\ UNCHANGED mappings
      /\ UNCHANGED <<boot, file, bootdata, message>>

\* renderer_init, and the answers the kernel can do without
renderer_init ==
  /\ pc = "renderer_init"
  /\ bootdata' = bootdata \union {"renderer"} \union (Optional \intersect boot.responses)
  /\ pc' = Mandatory[1]
  /\ UNCHANGED <<boot, file, scanVars, message>>

Answered(request) == request \in boot.responses

faults_panic ==
  /\ message' = pc
  /\ pc' = "panicked"
  /\ UNCHANGED bootdata

\* hhdm, memmap and rsdp in turn; then the screen is cleared for the kernel.
take_answer(k) ==
  /\ pc = Mandatory[k]
  /\ IF Answered(pc)
     THEN /\ bootdata' = bootdata \union {pc}
          /\ pc' = IF k = Len(Mandatory) THEN "kernel" ELSE Mandatory[k + 1]
          /\ UNCHANGED message
     ELSE faults_panic
  /\ UNCHANGED <<boot, file, scanVars>>

kernel_runs == pc \in {"kernel", "hung", "panicked"} /\ UNCHANGED vars

Step ==
  \/ base_revision \/ framebuffer_init \/ find_module \/ load_header \/ scan_byte
  \/ renderer_init \/ \E k \in DOMAIN Mandatory : take_answer(k)

Next == Step \/ kernel_runs

\* The processor runs.
Spec == Init /\ [][Next]_vars /\ WF_vars(Step)

-----------------------------------------------------------------------------
\* Properties

\* Type invariant: font_load writes inside of font->mappings, and its scan
\* never reads past the end of the font file (font.c:80), also where the table
\* ends with the last line it looks at.
TypeOK ==
  /\ boot \in Bootloaders
  /\ mappings \in [Chars -> Nat]
  /\ pc = "scan" => ascii \in Chars /\ line \in Nat /\ i \in 0 .. Len(UnicodeTable(file)) - 1

Lists(f, n, a) == <<a>> \in ToSet(f.lines[n + 1])

Loaded == pc \notin {"kentry", "framebuffer_init", "font_load", "header", "scan", "hung"}

\* Once loaded, a character's glyph is the first of the first 128 whose line
\* of the table lists the character, and so one the file holds; it is glyph 0
\* where none does; whatever longer UTF-8 characters and sequence marks lie
\* between (font.c:53-81).
MappingsAsListed ==
  Loaded /\ file.magic = "PSF2" /\ "unicode" \in file.flags =>
    \A a \in Chars :
      LET listed == {n \in Chars : n < Len(file.lines) /\ Lists(file, n, a)}
      IN  IF listed = {} THEN mappings[a] = 0
          ELSE mappings[a] \in listed /\ \A n \in listed : mappings[a] <= n

\* The file font_load takes: the first whose path ends with the font's
FontModule ==
  LET named == IF boot.modules = NULL THEN {}
               ELSE {m \in DOMAIN boot.modules : IsSuffix(FONT_PATH, boot.modules[m].path)}
  IN  IF named = {} THEN NULL ELSE boot.modules[CHOOSE m \in named : \A n \in named : m <= n]

ScreenUsable ==
  /\ boot.supported /\ boot.framebuffers # NULL /\ boot.framebuffers # << >>
  /\ FontModule # NULL /\ FontModule.magic \in {"PSF1", "PSF2"}

\* kentry hangs without a word only where there is no way to show one; it
\* panics only on a screen and with a font, over the first answer missing; and
\* it enters the kernel only with every answer the kernel uses (kentry.c:87-147).
OutcomeExplained ==
  /\ pc = "hung" => ~ScreenUsable
  /\ pc \in {"panicked", "kernel"} => ScreenUsable /\ file = FontModule /\ "renderer" \in bootdata
  /\ pc = "panicked" =>
       message = Mandatory[CHOOSE k \in DOMAIN Mandatory :
                             /\ Mandatory[k] \notin boot.responses
                             /\ \A n \in 1 .. k - 1 : Mandatory[n] \in boot.responses]
  /\ pc = "kernel" => ToSet(Mandatory) \subseteq bootdata \intersect boot.responses

\* kentry comes to an end: the search for the font's file and the scans of
\* its table are over some time (font.c:20, 57-80).
BootDecided == <>(pc \in {"kernel", "hung", "panicked"})
=============================================================================
