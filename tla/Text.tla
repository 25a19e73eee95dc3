-------------------------------- MODULE Text ---------------------------------
(***************************************************************************)
(* Text on the screen: printf (src/inc/stdio.c) and the renderer's cursor  *)
(* (src/rendering/renderer.c). The screen is two columns of lines. Text    *)
(* runs down the left one, then the right one; then the screen is cleared. *)
(*                                                                         *)
(* A character is a one letter string. Pixels are not modelled: a glyph    *)
(* covers the rectangle at the place it is drawn. A step is one character  *)
(* of the format, or one character of a conversion's text.                 *)
(***************************************************************************)
EXTENDS Integers, SequencesExt

CONSTANTS
  Framebuffers,  \* the screens, [width, height] in pixels
  FW, FH,        \* r_font->info.width, height
  Calls,         \* what the kernel prints, [format, args]
  Messages,      \* what it panics with
  Unprintable,   \* characters outside of ASCII
  UINT64,        \* number of values of a uint64_t
  UINT32,        \* and of a uint32_t
  COLOUR_PRINT, COLOUR_PRINT_ERROR,
  MaxY,          \* bound: no call starts with the cursor further down
  NULL

\* A place on the screen: the cursor's, or a glyph's
Places == [x : Nat, y : Nat, on_second_half : BOOLEAN]

\* A line holds several characters and a column a line at least; 64 bits can
\* count the pixels.
ASSUME ScreenAssumption ==
  /\ FW \in Nat \ {0} /\ FH \in Nat \ {0} /\ UINT64 \in Nat
  /\ \A fb \in Framebuffers :
       /\ fb.width \in Nat /\ fb.height \in Nat
       /\ fb.width >= 6 * FW /\ fb.height > FH /\ fb.width + FW < UINT64
  /\ NULL \notin Places

\* The conversions that take an argument
TakesArgument == {"c", "s", "u", "d", "X", "x", "C"}

\* Those among the first n - 1 characters of a format
Takers(format, n) ==
  {k \in 1 .. n - 1 : k < Len(format) /\ format[k] = "%" /\ format[k + 1] \in TakesArgument}

\* No format ends within a conversion, and each conversion has its argument.
WellFormed(c) ==
  /\ Len(c.format) \in Nat /\ Len(c.args) \in Nat
  /\ \A k \in 1 .. Len(c.format) : c.format[k] = "%" => k < Len(c.format)
  /\ Cardinality(Takers(c.format, Len(c.format))) <= Len(c.args)

\* The kernel's own calls are.
ASSUME CallsAssumption == \A c \in Calls : WellFormed(c)

VARIABLES
  r_fb,          \* the framebuffer
  r,             \* the cursor: [x, y, on_second_half]
  last,          \* history: the place last drawn at since the screen was cleared
  page,          \* history: flips when the screen is cleared
  print_colour, print_colour_start,
  call,          \* the call of printf under way, or NULL
  i,             \* its position in the format, from 1
  arg,           \* its next argument
  todo,          \* text of a conversion still to be drawn: [string, wraps]
  number,        \* history: the last number converted, [conversion, value, text]
  lines,         \* history: the line each position of the format was drawn on
  panicked       \* whether faults_panic was called

vars == <<r_fb, r, last, page, print_colour, print_colour_start, call, i, arg, todo, number, lines, panicked>>

Half == r_fb.width \div 2

SecondHalf == Half + FW

NoText == [string |-> << >>, wraps |-> FALSE]

-----------------------------------------------------------------------------
\* The renderer. A pen is the cursor with its history, [r, last, page].

Pen == [r |-> r, last |-> last, page |-> page]

LineStart(c) == IF c.on_second_half THEN SecondHalf ELSE 0

NewLine(c) == [c EXCEPT !.y = @ + FH, !.x = LineStart(c)]

LineFull(c) == c.x >= (IF c.on_second_half THEN r_fb.width ELSE Half)

Wrapped(c) == IF LineFull(c) THEN NewLine(c) ELSE c

\* Mutant: the last line may hang over the edge.
ColumnFull_Overhang(c) == c.y >= r_fb.height

ColumnFull(c) == c.y + FH >= r_fb.height

OtherColumn(c) ==
  [x |-> IF c.on_second_half THEN 0 ELSE SecondHalf, y |-> 0, on_second_half |-> ~c.on_second_half]

renderer_draw_char_at(pen, c) ==
  [pen EXCEPT !.last = IF c \in Unprintable THEN @ ELSE pen.r]

\* The cursor's column stays.
renderer_clear_screen(pen) ==
  [r |-> [pen.r EXCEPT !.x = 0, !.y = 0], last |-> NULL, page |-> ~pen.page]

\* Mutant: the screen is not cleared at the bottom of the right column.
Turned_NotCleared(pen) == IF ColumnFull(pen.r) THEN [pen EXCEPT !.r = OtherColumn(@)] ELSE pen

\* From the bottom of the right column on, the screen is cleared.
Turned(pen) ==
  IF ~ColumnFull(pen.r) THEN pen
  ELSE LET turned == [pen EXCEPT !.r = OtherColumn(@)]
       IN  IF pen.r.on_second_half THEN renderer_clear_screen(turned) ELSE turned

Advance(pen) == [pen EXCEPT !.r.x = @ + FW]

renderer_draw_char(pen, c) ==
  IF c = "\n" THEN [pen EXCEPT !.r = NewLine(@)]
  ELSE Advance(renderer_draw_char_at(Turned([pen EXCEPT !.r = Wrapped(@)]), c))

\* In unsigned arithmetic: past the end of the line it is a very large number.
renderer_chars_left_on_line ==
  (((IF r.on_second_half THEN r_fb.width ELSE Half) - r.x) % UINT64) \div FW

renderer_chars_per_line == Half \div FW

\* Whether a space or the end of the text is among its characters from .. to
SpaceIn(text, from, to) ==
  \E k \in from .. to : k = Len(text) + 1 \/ (k <= Len(text) /\ text[k] = " ")

Crowded == renderer_chars_left_on_line < renderer_chars_per_line

\* The characters of a number, most significant first
Digits(value, base, capitalise) ==
  LET letters == IF capitalise THEN <<"A", "B", "C", "D", "E", "F">> ELSE <<"a", "b", "c", "d", "e", "f">>
      chars   == <<"0", "1", "2", "3", "4", "5", "6", "7", "8", "9">> \o letters
      digits[n \in Nat] == IF n < base THEN <<chars[n + 1]>>
                           ELSE Append(digits[n \div base], chars[(n % base) + 1])
  IN  digits[value]

\* Mutant: the magnitude of a negative number is one too small.
Magnitude_Complement(val) == UINT64 - 1 - val

Magnitude(val) == (UINT64 - val) % UINT64

\* The text of renderer_draw_number. The sign comes before the prefix.
NumberText(val, base, is_signed, capitalise) ==
  LET negative == is_signed /\ val >= UINT64 \div 2
  IN  (IF negative THEN <<"-">> ELSE << >>)
      \o (IF base = 16 THEN <<"0", "x">> ELSE << >>)
      \o Digits(IF negative THEN Magnitude(val) ELSE val, base, capitalise)

-----------------------------------------------------------------------------
\* printf

Init ==
  /\ r_fb \in Framebuffers
  /\ r = [x |-> 0, y |-> 0, on_second_half |-> FALSE]
  /\ last = NULL /\ page = FALSE
  /\ print_colour = COLOUR_PRINT /\ print_colour_start = COLOUR_PRINT
  /\ call = NULL /\ i = 1 /\ arg = 1
  /\ todo = NoText
  /\ number = NULL
  /\ lines = << >>
  /\ panicked = FALSE

Draw(pen) == r' = pen.r /\ last' = pen.last /\ page' = pen.page

penVars == <<r, last, page>>

\* printf is entered with a format and its arguments.
Start(new) ==
  /\ call = NULL /\ ~panicked /\ r.y <= MaxY
  /\ call' = new /\ i' = 1 /\ arg' = 1 /\ lines' = << >>
  /\ print_colour_start' = print_colour
  /\ UNCHANGED <<r_fb, penVars, print_colour, todo, number>>

printf(new) == Start(new) /\ UNCHANGED panicked

printf_returns ==
  /\ call # NULL /\ todo = NoText /\ i > Len(call.format)
  /\ call' = NULL /\ i' = 1 /\ arg' = 1 /\ lines' = << >> /\ number' = NULL
  /\ print_colour' = print_colour_start
  /\ UNCHANGED <<r_fb, penVars, print_colour_start, todo, panicked>>

InFormat == call # NULL /\ todo = NoText /\ i <= Len(call.format)

\* Mutant: looks one character too far for a space.
NoRoom_OneMore(format) == Crowded /\ ~SpaceIn(format, i + 1, i + renderer_chars_left_on_line + 1)

\* No space within what is left of the line
NoRoom(format) == Crowded /\ ~SpaceIn(format, i + 1, i + renderer_chars_left_on_line)

\* The pen from which an ordinary character of the format is drawn
Broken(format, c) ==
  IF (c = " " \/ i = 1) /\ NoRoom(format)
  THEN IF i = 1 THEN renderer_draw_char(renderer_draw_char(Pen, "\n"), " ") ELSE renderer_draw_char(Pen, "\n")
  ELSE Pen

literal ==
  /\ InFormat /\ call.format[i] # "%"
  /\ Draw(renderer_draw_char(Broken(call.format, call.format[i]), call.format[i]))
  /\ lines' = Append(lines, <<r'.on_second_half, r'.y>>)
  /\ i' = i + 1
  /\ UNCHANGED <<r_fb, print_colour, print_colour_start, call, arg, todo, number, panicked>>

Conversion == InFormat /\ call.format[i] = "%"

\* Mutant: every "%" takes an argument.
Past_TakesArgument(args) == i' = i + 2 /\ arg' = arg + 1 /\ lines' = lines \o <<NULL, NULL>>

\* Past the two characters of a conversion
Past(args) ==
  /\ i' = i + 2
  /\ arg' = arg + args
  /\ lines' = lines \o <<NULL, NULL>>

convert_char ==
  /\ Conversion /\ call.format[i + 1] = "c"
  /\ todo' = [string |-> <<call.args[arg]>>, wraps |-> FALSE]
  /\ Past(1)
  /\ UNCHANGED <<r_fb, penVars, print_colour, print_colour_start, call, number, panicked>>

convert_string ==
  /\ Conversion /\ call.format[i + 1] = "s"
  /\ todo' = [string |-> call.args[arg], wraps |-> TRUE]
  /\ Past(1)
  /\ UNCHANGED <<r_fb, penVars, print_colour, print_colour_start, call, number, panicked>>

\* (uint64_t)(int32_t) of what was passed
Int32(value) ==
  LET low == value % UINT32
  IN  (IF low < UINT32 \div 2 THEN low ELSE low - UINT32) % UINT64

Number(value, base, is_signed, capitalise) ==
  LET text == NumberText(value, base, is_signed, capitalise)
  IN  /\ todo' = [string |-> text, wraps |-> FALSE]
      /\ number' = [conversion |-> call.format[i + 1], value |-> call.args[arg], text |-> text]

convert_number ==
  /\ Conversion
  /\ \/ call.format[i + 1] = "u" /\ Number(call.args[arg], 10, FALSE, TRUE)
     \/ call.format[i + 1] = "d" /\ Number(Int32(call.args[arg]), 10, TRUE, TRUE)
     \/ call.format[i + 1] = "X" /\ Number(call.args[arg], 16, FALSE, TRUE)
     \/ call.format[i + 1] = "x" /\ Number(call.args[arg], 16, FALSE, FALSE)
  /\ Past(1)
  /\ UNCHANGED <<r_fb, penVars, print_colour, print_colour_start, call, panicked>>

convert_colour ==
  /\ Conversion /\ call.format[i + 1] = "C"
  /\ print_colour' = call.args[arg]
  /\ Past(1)
  /\ UNCHANGED <<r_fb, penVars, print_colour_start, call, todo, number, panicked>>

\* Any other character is dropped with its "%".
convert_other ==
  /\ Conversion /\ call.format[i + 1] \notin TakesArgument
  /\ Past(0)
  /\ UNCHANGED <<r_fb, penVars, print_colour, print_colour_start, call, todo, number, panicked>>

\* renderer_draw_string looks for a space from the space itself on, so that it
\* breaks the line only where no whole character is left of it.
BrokenString(text) ==
  IF todo.wraps /\ Head(text) = " " /\ Crowded /\ ~SpaceIn(text, 1, renderer_chars_left_on_line)
  THEN renderer_draw_char(Pen, "\n") ELSE Pen

\* One character of a conversion's text; an empty one is done with.
converted ==
  /\ todo # NoText
  /\ IF todo.string = << >>
     THEN todo' = NoText /\ UNCHANGED penVars
     ELSE /\ Draw(renderer_draw_char(BrokenString(todo.string), Head(todo.string)))
          /\ todo' = [todo EXCEPT !.string = Tail(@)]
  /\ UNCHANGED <<r_fb, print_colour, print_colour_start, call, i, arg, number, lines, panicked>>

\* FAULTS_PANIC_INLINE is set: the message follows the text already there.
PanicCall(message) ==
  [format |-> <<"\n", "%", "C", "a", "%", "C", " ", "%", "s", "\n">>,
   args   |-> <<COLOUR_PRINT_ERROR, COLOUR_PRINT, message>>]

faults_panic(message) == Start(PanicCall(message)) /\ panicked' = TRUE

faults_hang == panicked /\ call = NULL /\ UNCHANGED vars

Next ==
  \/ \E new \in Calls : printf(new)
  \/ literal \/ converted \/ printf_returns
  \/ convert_char \/ convert_string \/ convert_number \/ convert_colour \/ convert_other
  \/ (\E message \in Messages : faults_panic(message)) \/ faults_hang

Spec == Init /\ [][Next]_vars

-----------------------------------------------------------------------------
\* Properties

\* Type invariant of the cursor, of the call under way and of its histories.
TypeOK ==
  /\ r_fb \in Framebuffers
  /\ r.x \in 0 .. r_fb.width + FW /\ r.y \in Nat /\ r.on_second_half \in BOOLEAN
  /\ page \in BOOLEAN /\ panicked \in BOOLEAN
  /\ call \in Calls \union {PanicCall(message) : message \in Messages} \union {NULL}
  /\ call # NULL => i \in 1 .. Len(call.format) + 1 /\ arg \in 1 .. Len(call.args) + 1
  /\ call # NULL => Len(lines) = i - 1

\* Place q comes after place p in the order the screen is filled in, clear of
\* the glyph drawn at p.
After(p, q) ==
  \/ ~p.on_second_half /\ q.on_second_half
  \/ /\ p.on_second_half = q.on_second_half
     /\ q.y >= p.y + FH \/ (q.y = p.y /\ q.x >= p.x + FW)

\* No glyph is drawn over another one before the screen is cleared
\* (renderer_draw_char): each comes after the one before it.
NoOverdraw ==
  [][(last # NULL /\ last' # NULL /\ page' = page /\ last' # last) => After(last, last')]_vars

\* A glyph starts on the screen and its last row is on it; one of the left
\* column ends before the right column starts; and one of the right column
\* starts there (renderer_draw_char).
InItsColumn ==
  last # NULL =>
    /\ last.x < r_fb.width /\ last.y + FH <= r_fb.height
    /\ ~last.on_second_half => last.x + FW <= SecondHalf
    /\ last.on_second_half => last.x >= SecondHalf

Letter(c) == c \notin {" ", "\n", "%"} \union Unprintable

\* Positions a to b of the format are a whole word of letters between spaces
Word(format, a, b) ==
  /\ \A k \in a .. b : Letter(format[k])
  /\ a = 1 \/ format[a - 1] = " "
  /\ b = Len(format) \/ format[b + 1] = " "

\* printf breaks lines between words: a word that fits on a line with the
\* space before it is not cut in two.
WordsWhole ==
  call # NULL =>
    \A a, b \in 1 .. Len(lines) :
      a <= b /\ b - a < renderer_chars_per_line - 2 /\ Word(call.format, a, b) => lines[a] = lines[b]

\* What a reader takes a text of digits for, in the given base
ReadDigits(text, base) ==
  LET value(c) == CHOOSE n \in 0 .. 15 :
        c \in {<<"0", "1", "2", "3", "4", "5", "6", "7", "8", "9", "A", "B", "C", "D", "E", "F">>[n + 1],
               <<"0", "1", "2", "3", "4", "5", "6", "7", "8", "9", "a", "b", "c", "d", "e", "f">>[n + 1]}
  IN  FoldLeft(LAMBDA n, c : n * base + value(c), 0, text)

\* What is printed for a number reads back as the argument: a %d as the signed
\* number its low 32 bits are, the smallest included, a %x and a %X after "0x"
\* (printf, renderer_draw_number).
NumberReadsBack ==
  number # NULL =>
    CASE number.conversion = "u" -> ReadDigits(number.text, 10) = number.value
      [] number.conversion = "d" ->
           LET low == number.value % UINT32
           IN  IF low < UINT32 \div 2 THEN ReadDigits(number.text, 10) = low
               ELSE Head(number.text) = "-" /\ ReadDigits(Tail(number.text), 10) = UINT32 - low
      [] OTHER -> /\ SubSeq(number.text, 1, 2) = <<"0", "x">>
                  /\ ReadDigits(SubSeq(number.text, 3, Len(number.text)), 16) = number.value
=============================================================================
