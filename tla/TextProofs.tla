----------------------------- MODULE TextProofs ------------------------------
(***************************************************************************)
(* Proofs about the text on the screen: for every screen, font and format  *)
(* the cursor stays in its column, every glyph is drawn inside of it, and  *)
(* none over another one before the screen is cleared.                     *)
(***************************************************************************)
EXTENDS Text, FiniteSetTheorems, SequenceTheorems, TLAPS

-----------------------------------------------------------------------------
\* Formats

LEMMA ThreeTakers == IsFiniteSet({2, 5, 8}) /\ Cardinality({2, 5, 8}) = 3
<1>1. IsFiniteSet({2}) /\ Cardinality({2}) = 1
  BY FS_Singleton
<1>2. IsFiniteSet({2} \cup {5}) /\ Cardinality({2} \cup {5}) = 2
  BY <1>1, FS_AddElement
<1>3. IsFiniteSet(({2} \cup {5}) \cup {8}) /\ Cardinality(({2} \cup {5}) \cup {8}) = 3
  BY <1>2, FS_AddElement
<1>4. ({2} \cup {5}) \cup {8} = {2, 5, 8}
  OBVIOUS
<1> QED BY <1>3, <1>4

\* The format faults_panic prints with has its three arguments.
LEMMA PanicWellFormed ==
  ASSUME NEW message PROVE WellFormed(PanicCall(message))
<1> DEFINE f == PanicCall(message).format
           a == PanicCall(message).args
<1>1. /\ f = <<"\n", "%", "C", "a", "%", "C", " ", "%", "s", "\n">>
      /\ a = <<COLOUR_PRINT_ERROR, COLOUR_PRINT, message>>
  BY DEF PanicCall
<1> HIDE DEF f, a
<1>2. Len(f) = 10 /\ Len(a) = 3
  BY <1>1
<1>3. \A k \in 1 .. 10 : f[k] = "%" => k \in {2, 5, 8}
  <2>1. f[1] # "%" /\ f[3] # "%" /\ f[4] # "%" /\ f[6] # "%" /\ f[7] # "%" /\ f[9] # "%" /\ f[10] # "%"
    BY <1>1
  <2> QED BY <2>1
<1>4. Takers(f, 10) \subseteq {2, 5, 8}
  BY <1>2, <1>3 DEF Takers
<1>5. Cardinality(Takers(f, 10)) <= 3
  BY <1>4, ThreeTakers, FS_Subset, FS_CardinalityType
<1> QED BY <1>2, <1>3, <1>5 DEF WellFormed, f, a

\* A format's conversions up to a place are finite; one more counts one more.
LEMMA TakersFinite ==
  ASSUME NEW format, NEW n \in Nat
  PROVE  IsFiniteSet(Takers(format, n)) /\ Cardinality(Takers(format, n)) \in Nat
<1>1. IsFiniteSet(1 .. n - 1)
  BY FS_Interval
<1>2. Takers(format, n) \subseteq 1 .. n - 1
  BY DEF Takers
<1> QED BY <1>1, <1>2, FS_Subset, FS_CardinalityType

LEMMA TakersGrow ==
  ASSUME NEW format, NEW m \in Nat, NEW n \in Nat, m <= n
  PROVE  Cardinality(Takers(format, m)) <= Cardinality(Takers(format, n))
<1>1. Takers(format, m) \subseteq Takers(format, n)
  BY DEF Takers
<1> QED BY <1>1, TakersFinite, FS_Subset

LEMMA TakersAdd ==
  ASSUME NEW format, NEW n \in Nat \ {0}, Len(format) \in Nat, n < Len(format),
         format[n] = "%", format[n + 1] \in TakesArgument
  PROVE  Cardinality(Takers(format, n)) + 1 <= Cardinality(Takers(format, n + 2))
<1>1. n \notin Takers(format, n) /\ Takers(format, n) \cup {n} \subseteq Takers(format, n + 2)
  BY DEF Takers
<1>2. Cardinality(Takers(format, n) \cup {n}) = Cardinality(Takers(format, n)) + 1
  BY <1>1, TakersFinite, FS_AddElement
<1>3. Cardinality(Takers(format, n) \cup {n}) <= Cardinality(Takers(format, n + 2))
  BY <1>1, TakersFinite, FS_Subset
<1> QED BY <1>2, <1>3

\* All of them come before the format's last character.
LEMMA TakersAll ==
  ASSUME NEW format, Len(format) \in Nat, NEW n \in Nat
  PROVE  Cardinality(Takers(format, n)) <= Cardinality(Takers(format, Len(format)))
<1>1. Takers(format, n) \subseteq Takers(format, Len(format))
  BY DEF Takers
<1> QED BY <1>1, TakersFinite, FS_Subset

-----------------------------------------------------------------------------
\* The pen

\* A pen in its column: the cursor is in a column, no further than a character
\* beyond its end, and it comes after the glyph drawn last, which is inside of
\* its column.
InColumn(q) ==
  /\ IF q.on_second_half THEN SecondHalf <= q.x /\ q.x < r_fb.width + FW ELSE q.x < Half + FW

Inside(q) ==
  /\ q.x < r_fb.width /\ q.y + FH <= r_fb.height
  /\ ~q.on_second_half => q.x + FW <= SecondHalf
  /\ q.on_second_half => q.x >= SecondHalf

PenOK(pen) ==
  /\ pen.r \in Places /\ InColumn(pen.r)
  /\ pen.page \in BOOLEAN
  /\ pen.last # NULL => pen.last \in Places /\ Inside(pen.last) /\ After(pen.last, pen.r)

Pens == [r : Places, last : Places \cup {NULL}, page : BOOLEAN]

\* The screen
LEMMA Screen ==
  ASSUME r_fb \in Framebuffers
  PROVE  /\ r_fb.width \in Nat /\ r_fb.height \in Nat /\ FW \in Nat /\ FH \in Nat
         /\ FW > 0 /\ FH > 0 /\ FH < r_fb.height
         /\ Half \in Nat /\ SecondHalf \in Nat /\ SecondHalf = Half + FW
         /\ SecondHalf + FW < r_fb.width /\ 2 * FW < Half /\ 2 * Half <= r_fb.width
<1>1. /\ r_fb.width \in Nat /\ r_fb.height \in Nat /\ FW \in Nat /\ FH \in Nat
      /\ FW > 0 /\ FH > 0 /\ FH < r_fb.height /\ 6 * FW <= r_fb.width
  BY ScreenAssumption
<1>2. PICK w \in Nat : w = r_fb.width
  BY <1>1
<1>3. w \div 2 \in Nat /\ 2 * (w \div 2) <= w /\ w < 2 * (w \div 2) + 2
  BY <1>2
<1>4. Half \in Nat /\ 2 * Half <= w /\ w < 2 * Half + 2
  BY <1>2, <1>3 DEF Half
<1>5. PICK h \in Nat : h = Half /\ 2 * h <= w /\ w < 2 * h + 2
  BY <1>4
<1>6. 3 * FW <= h
  BY <1>1, <1>2, <1>5
<1>7. h + FW \in Nat /\ h + FW + FW < w /\ 2 * FW < h
  BY <1>1, <1>2, <1>5, <1>6
<1> QED BY <1>1, <1>2, <1>5, <1>7 DEF SecondHalf

LEMMA NewLineOK ==
  ASSUME r_fb \in Framebuffers, NEW c \in Places
  PROVE  /\ NewLine(c) \in Places /\ InColumn(NewLine(c))
         /\ NewLine(c).y = c.y + FH /\ NewLine(c).on_second_half = c.on_second_half
         /\ NewLine(c).x = LineStart(c)
<1>1. LineStart(c) \in Nat /\ c.y + FH \in Nat /\ c.on_second_half \in BOOLEAN
  BY Screen DEF LineStart, Places
<1>2. /\ NewLine(c) \in Places
      /\ NewLine(c).y = c.y + FH /\ NewLine(c).on_second_half = c.on_second_half
      /\ NewLine(c).x = LineStart(c)
  BY <1>1 DEF NewLine, Places
<1>3. InColumn(NewLine(c))
  BY <1>1, <1>2, Screen DEF LineStart, InColumn
<1> QED BY <1>2, <1>3

LEMMA WrappedOK ==
  ASSUME r_fb \in Framebuffers, NEW c \in Places, InColumn(c)
  PROVE  /\ Wrapped(c) \in Places /\ InColumn(Wrapped(c)) /\ ~LineFull(Wrapped(c))
         /\ Wrapped(c).on_second_half = c.on_second_half
         /\ Wrapped(c) = c \/ Wrapped(c).y = c.y + FH
BY Screen, NewLineOK DEF Wrapped, LineFull, LineStart, InColumn, Places

LEMMA OtherColumnOK ==
  ASSUME r_fb \in Framebuffers, NEW c \in Places
  PROVE  /\ OtherColumn(c) \in Places /\ InColumn(OtherColumn(c)) /\ ~LineFull(OtherColumn(c))
         /\ OtherColumn(c).y = 0
         /\ OtherColumn(c).on_second_half <=> ~c.on_second_half
         /\ c.on_second_half => OtherColumn(c).x = 0
<1>1. (~c.on_second_half) \in BOOLEAN
  BY DEF Places
<1>2. OtherColumn(c).on_second_half = ~c.on_second_half
  BY DEF OtherColumn
<1>3. /\ OtherColumn(c).y = 0
      /\ OtherColumn(c).x = IF c.on_second_half THEN 0 ELSE SecondHalf
  BY DEF OtherColumn
<1>4. OtherColumn(c) \in Places
  BY <1>1, Screen DEF OtherColumn, Places
<1>5. OtherColumn(c).on_second_half <=> ~c.on_second_half
  BY <1>2, Zenon
<1> QED BY <1>3, <1>4, <1>5, Screen DEF LineFull, InColumn

\* The order of places
LEMMA AfterTransitive ==
  ASSUME NEW a \in Places, NEW b \in Places, NEW c \in Places, After(a, b), After(b, c)
  PROVE  After(a, c)
BY ScreenAssumption DEF After, Places

\* The pen's cursor moves on in its column, or from the left one to the right.
LEMMA AfterOn ==
  ASSUME NEW a \in Places, NEW b \in Places, NEW c \in Places, After(a, b),
         \/ c.on_second_half = b.on_second_half /\ (c = b \/ c.y >= b.y + FH \/ (c.y = b.y /\ c.x >= b.x))
         \/ ~b.on_second_half /\ c.on_second_half
  PROVE  After(a, c)
BY ScreenAssumption DEF After, Places

\* renderer_draw_char, character by character: a line break moves the cursor
\* alone.
LEMMA BreakOK ==
  ASSUME r_fb \in Framebuffers, NEW pen \in Pens, PenOK(pen)
  PROVE  LET q == renderer_draw_char(pen, "\n")
         IN  /\ q \in Pens /\ PenOK(q)
             /\ q.last = pen.last /\ q.page = pen.page
<1> DEFINE q == renderer_draw_char(pen, "\n")
<1>1. q = [pen EXCEPT !.r = NewLine(pen.r)]
  BY DEF renderer_draw_char
<1>2. pen.r \in Places
  BY DEF Pens
<1>3. /\ NewLine(pen.r) \in Places /\ InColumn(NewLine(pen.r))
      /\ NewLine(pen.r).y = pen.r.y + FH /\ NewLine(pen.r).on_second_half = pen.r.on_second_half
  BY <1>2, NewLineOK
<1>4. q \in Pens /\ q.r = NewLine(pen.r) /\ q.last = pen.last /\ q.page = pen.page
  BY <1>1, <1>3 DEF Pens
<1> HIDE DEF q
<1>5. pen.last # NULL => After(pen.last, q.r)
  <2> SUFFICES ASSUME pen.last # NULL PROVE After(pen.last, q.r)
    OBVIOUS
  <2>1. pen.last \in Places /\ After(pen.last, pen.r)
    BY DEF PenOK
  <2>2. q.r.y >= pen.r.y + FH
    BY <1>2, <1>3, <1>4, Screen DEF Places
  <2> QED BY <2>1, <2>2, <1>2, <1>3, <1>4, AfterOn
<1>6. PenOK(q)
  BY <1>3, <1>4, <1>5 DEF PenOK
<1> QED BY <1>4, <1>6 DEF q

LEMMA FlipFlips == ASSUME NEW p \in BOOLEAN PROVE (~p) \in BOOLEAN /\ (~p) # p
OBVIOUS

\* Wrapping the line
LEMMA WrapOK ==
  ASSUME r_fb \in Framebuffers, NEW pen \in Pens, PenOK(pen),
         NEW q, q = [pen EXCEPT !.r = Wrapped(@)]
  PROVE  /\ q \in Pens /\ PenOK(q) /\ ~LineFull(q.r)
         /\ q.r = Wrapped(pen.r) /\ q.last = pen.last /\ q.page = pen.page
<1>1. pen.r \in Places /\ InColumn(pen.r)
  BY DEF PenOK
<1>2. /\ Wrapped(pen.r) \in Places /\ InColumn(Wrapped(pen.r)) /\ ~LineFull(Wrapped(pen.r))
      /\ Wrapped(pen.r).on_second_half = pen.r.on_second_half
      /\ Wrapped(pen.r) = pen.r \/ Wrapped(pen.r).y = pen.r.y + FH
  BY <1>1, WrappedOK
<1>3. q \in Pens /\ q.r = Wrapped(pen.r) /\ q.last = pen.last /\ q.page = pen.page
  BY <1>2 DEF Pens
<1>4. pen.last # NULL => After(pen.last, q.r)
  <2> SUFFICES ASSUME pen.last # NULL PROVE After(pen.last, q.r)
    OBVIOUS
  <2>1. pen.last \in Places /\ After(pen.last, pen.r)
    BY DEF PenOK
  <2>2. q.r = pen.r \/ q.r.y >= pen.r.y + FH
    BY <1>1, <1>2, <1>3, Screen DEF Places
  <2> QED BY <2>1, <2>2, <1>1, <1>2, <1>3, AfterOn
<1> QED BY <1>2, <1>3, <1>4 DEF PenOK

\* Turning to the other column: from the left to the right one, or from the
\* right one to a cleared screen
LEMMA TurnOK ==
  ASSUME r_fb \in Framebuffers, NEW pen \in Pens, PenOK(pen), ~LineFull(pen.r)
  PROVE  LET q == Turned(pen)
         IN  /\ q \in Pens /\ PenOK(q) /\ ~LineFull(q.r) /\ q.r.y + FH <= r_fb.height
             /\ \/ q.page = pen.page /\ q.last = pen.last
                \/ /\ q.page # pen.page /\ q.last = NULL /\ ColumnFull(pen.r)
                   /\ q.r.x = 0 /\ q.r.y = 0 /\ ~q.r.on_second_half
<1> DEFINE q == Turned(pen)
           o == OtherColumn(pen.r)
           t == [pen EXCEPT !.r = OtherColumn(@)]
<1>1. pen.r \in Places /\ pen.r.y \in Nat /\ pen.page \in BOOLEAN
  BY DEF PenOK, Places
<1>2. /\ o \in Places /\ InColumn(o) /\ ~LineFull(o) /\ o.y = 0
      /\ o.on_second_half <=> ~pen.r.on_second_half
      /\ pen.r.on_second_half => o.x = 0
  BY <1>1, OtherColumnOK
<1>3. CASE ~ColumnFull(pen.r)
  <2>1. q = pen
    BY <1>3 DEF Turned
  <2>2. pen.r.y + FH <= r_fb.height
    BY <1>1, <1>3, Screen DEF ColumnFull
  <2> QED BY <2>1, <2>2
<1>4. CASE ColumnFull(pen.r) /\ ~pen.r.on_second_half
  <2>1. q = t
    BY <1>4 DEF Turned
  <2>2. t \in Pens /\ t.r = o /\ t.last = pen.last /\ t.page = pen.page
    BY <1>2 DEF Pens
  <2> HIDE DEF q, t, o
  <2>3. pen.last # NULL => After(pen.last, t.r)
    <3> SUFFICES ASSUME pen.last # NULL PROVE After(pen.last, t.r)
      OBVIOUS
    <3>1. pen.last \in Places /\ After(pen.last, pen.r)
      BY DEF PenOK
    <3> QED BY <3>1, <2>2, <1>1, <1>2, <1>4, AfterOn
  <2>4. PenOK(t)
    BY <1>1, <1>2, <2>2, <2>3 DEF PenOK
  <2>5. 0 + FH <= r_fb.height
    BY Screen
  <2> QED BY <2>1, <2>2, <2>4, <2>5, <1>2 DEF q
<1>5. CASE ColumnFull(pen.r) /\ pen.r.on_second_half
  <2>1. q = renderer_clear_screen(t)
    BY <1>5 DEF Turned
  <2>2. t.r = o /\ t.page = pen.page
    BY <1>2 DEF Pens
  <2>3. q.last = NULL /\ q.page = (~pen.page) /\ q.r = [o EXCEPT !.x = 0, !.y = 0]
    BY <2>1, <2>2 DEF renderer_clear_screen
  <2>4. q = [r |-> q.r, last |-> q.last, page |-> q.page]
    BY <2>1 DEF renderer_clear_screen
  <2> HIDE DEF q, t, o
  <2>5. q.r \in Places /\ q.r.x = 0 /\ q.r.y = 0 /\ q.r.on_second_half = o.on_second_half
    BY <2>3, <1>2 DEF Places
  <2>6. ~q.r.on_second_half
    BY <2>5, <1>2, <1>5, Zenon
  <2>7. InColumn(q.r) /\ ~LineFull(q.r)
    BY <2>5, <2>6, Screen DEF InColumn, LineFull
  <2>8. q.page \in BOOLEAN /\ q.page # pen.page
    BY <2>3, <1>1, FlipFlips
  <2>9. q \in Pens
    BY <2>3, <2>4, <2>5, <2>8 DEF Pens
  <2>10. PenOK(q)
    BY <2>3, <2>5, <2>7, <2>8 DEF PenOK
  <2>11. 0 + FH <= r_fb.height
    BY Screen
  <2> QED BY <2>3, <2>5, <2>6, <2>7, <2>8, <2>9, <2>10, <2>11, <1>5 DEF q
<1> QED BY <1>3, <1>4, <1>5

\* A glyph is drawn inside of the column, and the cursor moves past it.
LEMMA GlyphOK ==
  ASSUME r_fb \in Framebuffers, NEW pen \in Pens, PenOK(pen), NEW c,
         ~LineFull(pen.r), pen.r.y + FH <= r_fb.height
  PROVE  LET q == Advance(renderer_draw_char_at(pen, c))
         IN  /\ q \in Pens /\ PenOK(q)
             /\ q.page = pen.page
             /\ q.last = pen.last \/ (q.last = pen.r /\ q.last \in Places)
             /\ q.r.x = pen.r.x + FW /\ q.r.y = pen.r.y /\ q.r.on_second_half = pen.r.on_second_half
<1> DEFINE p == renderer_draw_char_at(pen, c)
           q == Advance(p)
<1>1. /\ pen.r \in Places /\ InColumn(pen.r) /\ pen.page \in BOOLEAN
      /\ pen.r.x \in Nat /\ pen.r.y \in Nat /\ pen.r.on_second_half \in BOOLEAN
  BY DEF PenOK, Places
<1>2. p \in Pens /\ p.r = pen.r /\ p.page = pen.page /\ (p.last = pen.last \/ p.last = pen.r)
  BY <1>1 DEF Pens, renderer_draw_char_at
<1> HIDE DEF p
<1>3. q = [p EXCEPT !.r = [pen.r EXCEPT !.x = pen.r.x + FW]]
  BY <1>1, <1>2 DEF Pens, Advance
<1> DEFINE a == [pen.r EXCEPT !.x = pen.r.x + FW]
<1>4. /\ a \in Places /\ a.x = pen.r.x + FW /\ a.y = pen.r.y
      /\ a.on_second_half = pen.r.on_second_half
  BY <1>1, Screen DEF Places
<1>5. q = [p EXCEPT !.r = a]
  BY <1>3
<1> HIDE DEF a, q
<1>6. q \in Pens /\ q.r = a /\ q.page = pen.page /\ q.last = p.last
  BY <1>2, <1>4, <1>5 DEF Pens
<1>7. InColumn(a)
  BY <1>1, <1>4, Screen DEF InColumn, LineFull
<1>8. Inside(pen.r)
  BY <1>1, Screen DEF InColumn, LineFull, Inside
<1>9. After(pen.r, a)
  BY <1>1, <1>4, Screen DEF After
<1>10. q.last # NULL => q.last \in Places /\ Inside(q.last) /\ After(q.last, a)
  <2>1. CASE q.last = pen.r
    BY <2>1, <1>1, <1>8, <1>9
  <2>2. CASE q.last = pen.last /\ pen.last # NULL
    <3>1. pen.last \in Places /\ Inside(pen.last) /\ After(pen.last, pen.r)
      BY <2>2 DEF PenOK
    <3> QED BY <3>1, <2>2, <1>1, <1>4, <1>9, AfterTransitive
  <2> QED BY <2>1, <2>2, <1>2, <1>6
<1>11. PenOK(q)
  BY <1>1, <1>4, <1>6, <1>7, <1>10 DEF PenOK
<1> QED BY <1>1, <1>2, <1>4, <1>6, <1>11 DEF q, p

\* A character into the first line
FirstLine(q) == q.x = FW /\ q.y = 0 /\ ~q.on_second_half

\* A pen q that pen p became: the screen is the same and what was drawn last
\* comes after what was drawn before it, or the screen was cleared and the
\* cursor is in its first line.
Onward(p, q) ==
  \/ /\ q.page = p.page
     /\ q.last = p.last \/ (q.last \in Places /\ (p.last # NULL => After(p.last, q.last)))
  \/ q.page # p.page /\ FirstLine(q.r)

\* renderer_draw_char draws onward; at the start of a cleared screen there is
\* room for a character, and the screen is not cleared again.
LEMMA DrawOK ==
  ASSUME r_fb \in Framebuffers, NEW pen \in Pens, PenOK(pen), NEW c
  PROVE  /\ renderer_draw_char(pen, c) \in Pens /\ PenOK(renderer_draw_char(pen, c))
         /\ Onward(pen, renderer_draw_char(pen, c))
         /\ FirstLine(pen.r) => renderer_draw_char(pen, c).page = pen.page
<1>1. CASE c = "\n"
  BY <1>1, BreakOK DEF Onward
<1>2. CASE c # "\n"
  <2> DEFINE w == [pen EXCEPT !.r = Wrapped(@)]
             t == Turned(w)
             q == Advance(renderer_draw_char_at(t, c))
  <2>1. renderer_draw_char(pen, c) = q
    BY <1>2 DEF renderer_draw_char
  <2>2. /\ w \in Pens /\ PenOK(w) /\ ~LineFull(w.r)
        /\ w.r = Wrapped(pen.r) /\ w.last = pen.last /\ w.page = pen.page
    BY WrapOK
  <2> HIDE DEF w
  <2>3. /\ t \in Pens /\ PenOK(t) /\ ~LineFull(t.r) /\ t.r.y + FH <= r_fb.height
        /\ \/ t.page = w.page /\ t.last = w.last
           \/ /\ t.page # w.page /\ t.last = NULL /\ ColumnFull(w.r)
              /\ t.r.x = 0 /\ t.r.y = 0 /\ ~t.r.on_second_half
    BY <2>2, TurnOK
  <2> HIDE DEF t
  <2>4. /\ q \in Pens /\ PenOK(q) /\ q.page = t.page
        /\ q.last = t.last \/ (q.last = t.r /\ q.last \in Places)
        /\ q.r.x = t.r.x + FW /\ q.r.y = t.r.y /\ q.r.on_second_half = t.r.on_second_half
    BY <2>3, GlyphOK
  <2> HIDE DEF q
  <2>5. CASE t.page = w.page /\ t.last = w.last
    <3>1. pen.last # NULL => After(pen.last, t.r)
      BY <2>2, <2>3, <2>5 DEF PenOK
    <3>2. Onward(pen, q)
      BY <2>2, <2>4, <2>5, <3>1 DEF Onward
    <3> QED BY <2>1, <2>2, <2>4, <2>5, <3>2
  <2>6. CASE /\ t.page # w.page /\ t.last = NULL /\ ColumnFull(w.r)
             /\ t.r.x = 0 /\ t.r.y = 0 /\ ~t.r.on_second_half
    <3>1. ~q.r.on_second_half
      BY <2>4, <2>6, Zenon
    <3>2. FirstLine(q.r)
      BY <2>4, <2>6, <3>1, Screen DEF FirstLine
    <3>3. Onward(pen, q)
      BY <2>2, <2>4, <2>6, <3>2 DEF Onward
    <3>4. ~FirstLine(pen.r)
      <4> SUFFICES ASSUME FirstLine(pen.r) PROVE FALSE
        OBVIOUS
      <4>1. ~LineFull(pen.r)
        BY Screen DEF FirstLine, LineFull
      <4>2. w.r = pen.r
        BY <2>2, <4>1 DEF Wrapped
      <4> QED BY <4>2, <2>6, Screen DEF FirstLine, ColumnFull
    <3> QED BY <2>1, <2>4, <3>3, <3>4
  <2> QED BY <2>3, <2>5, <2>6
<1> QED BY <1>1, <1>2

\* Two characters after each other are drawn onward too.
LEMMA DrawTwice ==
  ASSUME r_fb \in Framebuffers, NEW pen \in Pens, PenOK(pen), NEW b, NEW c
  PROVE  LET q == renderer_draw_char(renderer_draw_char(pen, b), c)
         IN  /\ q \in Pens /\ PenOK(q)
             /\ pen.last # NULL /\ q.last # NULL /\ q.page = pen.page /\ q.last # pen.last =>
                  After(pen.last, q.last)
<1> DEFINE p == renderer_draw_char(pen, b)
           q == renderer_draw_char(p, c)
<1>1. p \in Pens /\ PenOK(p) /\ Onward(pen, p)
  BY DrawOK
<1> HIDE DEF p
<1>2. q \in Pens /\ PenOK(q) /\ Onward(p, q) /\ (FirstLine(p.r) => q.page = p.page)
  BY <1>1, DrawOK
<1> HIDE DEF q
<1>3. ASSUME pen.last # NULL, q.last # NULL, q.page = pen.page, q.last # pen.last
      PROVE  After(pen.last, q.last)
  <2>1. p.page = pen.page
    BY <1>1, <1>2, <1>3 DEF Onward
  <2>2. p.last = pen.last \/ (p.last \in Places /\ After(pen.last, p.last))
    BY <1>1, <1>3, <2>1 DEF Onward
  <2>3. p.last # NULL
    BY <2>2, <1>3, ScreenAssumption
  <2>4. q.last = p.last \/ (q.last \in Places /\ After(p.last, q.last))
    BY <1>2, <1>3, <2>1, <2>3 DEF Onward
  <2>5. pen.last \in Places
    BY <1>3 DEF PenOK
  <2> QED BY <2>2, <2>4, <2>5, <1>3, AfterTransitive
<1> QED BY <1>2, <1>3 DEF q, p

-----------------------------------------------------------------------------
\* The invariant

\* What is drawn from pen p to pen q of the same screen comes after it.
Beyond(p, q) ==
  p.last # NULL /\ q.last # NULL /\ q.page = p.page /\ q.last # p.last => After(p.last, q.last)

\* No properties are inductive by themselves. Every place a glyph is drawn at
\* is one the cursor was at, so the cursor has to be in its column and after
\* the last glyph; and the arguments are counted by the conversions before i.
IInv ==
  /\ r_fb \in Framebuffers
  /\ Pen \in Pens /\ PenOK(Pen)
  /\ panicked \in BOOLEAN
  /\ call \in Calls \union {PanicCall(message) : message \in Messages} \union {NULL}
  /\ call # NULL =>
       /\ i \in 1 .. Len(call.format) + 1
       /\ arg \in Nat \ {0} /\ arg <= Cardinality(Takers(call.format, i)) + 1
       /\ Len(lines) = i - 1
  /\ lines \in Seq((BOOLEAN \X Nat) \union {NULL})

LEMMA CallWellFormed == ASSUME IInv, call # NULL PROVE WellFormed(call)
BY CallsAssumption, PanicWellFormed DEF IInv

LEMMA InitEstablishes == Init => IInv
<1> SUFFICES ASSUME Init PROVE IInv
  OBVIOUS
<1>1. /\ r_fb \in Framebuffers /\ r.x = 0 /\ r.y = 0 /\ r \in Places
      /\ r = [x |-> 0, y |-> 0, on_second_half |-> FALSE] /\ last = NULL /\ page \in BOOLEAN
      /\ call = NULL /\ lines = << >> /\ panicked \in BOOLEAN
  BY DEF Init, Places
<1>2. r.on_second_half = FALSE
  BY <1>1
<1>3. ~r.on_second_half
  BY <1>2, Zenon
<1>4. InColumn(r)
  BY <1>1, <1>3, Screen DEF InColumn
<1>5. Pen \in Pens /\ PenOK(Pen)
  BY <1>1, <1>4 DEF Pen, Pens, PenOK
<1> QED BY <1>1, <1>5 DEF IInv

\* The type invariant and the place of the glyph drawn last follow from it.
LEMMA Implies == IInv => TypeOK /\ InItsColumn
<1> SUFFICES ASSUME IInv PROVE TypeOK /\ InItsColumn
  OBVIOUS
<1>1. r \in Places /\ InColumn(r) /\ page \in BOOLEAN /\ r_fb \in Framebuffers
  BY DEF IInv, PenOK, Pen
<1>2. r.x \in Nat /\ r.y \in Nat /\ r.on_second_half \in BOOLEAN
  BY <1>1 DEF Places
<1>3. r.x \in 0 .. r_fb.width + FW
  BY <1>1, <1>2, Screen DEF InColumn
<1>4. call # NULL => arg \in 1 .. Len(call.args) + 1
  <2> SUFFICES ASSUME call # NULL PROVE arg \in 1 .. Len(call.args) + 1
    OBVIOUS
  <2>1. WellFormed(call)
    BY CallWellFormed
  <2>2. i \in Nat /\ arg \in Nat \ {0} /\ arg <= Cardinality(Takers(call.format, i)) + 1
    BY <2>1 DEF IInv, WellFormed
  <2>3. Cardinality(Takers(call.format, i)) <= Cardinality(Takers(call.format, Len(call.format)))
    BY <2>1, <2>2, TakersAll DEF WellFormed
  <2>4. /\ Cardinality(Takers(call.format, i)) \in Nat
        /\ Cardinality(Takers(call.format, Len(call.format))) \in Nat
    BY <2>1, <2>2, TakersFinite DEF WellFormed
  <2> QED BY <2>1, <2>2, <2>3, <2>4 DEF WellFormed
<1>5. TypeOK
  BY <1>1, <1>2, <1>3, <1>4 DEF IInv, TypeOK
<1>6. last # NULL => Inside(last)
  BY DEF IInv, PenOK, Pen
<1> QED BY <1>5, <1>6 DEF InItsColumn, Inside

\* printf's own characters, with the line broken before them or not
LEMMA LiteralPen ==
  ASSUME IInv, NEW format, NEW c
  PROVE  LET q == renderer_draw_char(Broken(format, c), c)
         IN  q \in Pens /\ PenOK(q) /\ Beyond(Pen, q)
<1>1. r_fb \in Framebuffers /\ Pen \in Pens /\ PenOK(Pen)
  BY DEF IInv
<1> DEFINE n == renderer_draw_char(Pen, "\n")
<1>2. n \in Pens /\ PenOK(n) /\ n.last = Pen.last /\ n.page = Pen.page
  BY <1>1, BreakOK
<1>3. CASE Broken(format, c) = Pen
  <2>1. renderer_draw_char(Pen, c) \in Pens /\ PenOK(renderer_draw_char(Pen, c))
    BY <1>1, DrawOK
  <2>2. Onward(Pen, renderer_draw_char(Pen, c))
    BY <1>1, DrawOK
  <2> QED BY <1>3, <2>1, <2>2 DEF Onward, Beyond
<1>4. CASE Broken(format, c) = n
  <2> HIDE DEF n
  <2>1. renderer_draw_char(n, c) \in Pens /\ PenOK(renderer_draw_char(n, c))
    BY <1>1, <1>2, DrawOK
  <2>2. Onward(n, renderer_draw_char(n, c))
    BY <1>1, <1>2, DrawOK
  <2> QED BY <1>2, <1>4, <2>1, <2>2 DEF Onward, Beyond
<1>5. CASE Broken(format, c) = renderer_draw_char(n, " ")
  <2> HIDE DEF n
  <2> DEFINE q == renderer_draw_char(renderer_draw_char(n, " "), c)
  <2>1. q \in Pens /\ PenOK(q) /\ (n.last # NULL /\ q.last # NULL /\ q.page = n.page /\ q.last # n.last =>
                                    After(n.last, q.last))
    BY <1>1, <1>2, DrawTwice
  <2> QED BY <1>2, <1>5, <2>1 DEF Beyond
<1>6. Broken(format, c) \in {Pen, n, renderer_draw_char(n, " ")}
  BY DEF Broken
<1> QED BY <1>3, <1>4, <1>5, <1>6

\* A conversion's characters
LEMMA ConvertedPen ==
  ASSUME IInv, NEW text, NEW c
  PROVE  LET q == renderer_draw_char(BrokenString(text), c)
         IN  q \in Pens /\ PenOK(q) /\ Beyond(Pen, q)
<1>1. r_fb \in Framebuffers /\ Pen \in Pens /\ PenOK(Pen)
  BY DEF IInv
<1> DEFINE n == renderer_draw_char(Pen, "\n")
<1>2. n \in Pens /\ PenOK(n) /\ n.last = Pen.last /\ n.page = Pen.page
  BY <1>1, BreakOK
<1>3. BrokenString(text) \in {Pen, n}
  BY DEF BrokenString
<1> HIDE DEF n
<1>4. PICK b \in Pens : b = BrokenString(text) /\ PenOK(b) /\ b.last = Pen.last /\ b.page = Pen.page
  BY <1>1, <1>2, <1>3
<1>5. renderer_draw_char(b, c) \in Pens /\ PenOK(renderer_draw_char(b, c))
  BY <1>1, <1>4, DrawOK
<1>6. Onward(b, renderer_draw_char(b, c))
  BY <1>1, <1>4, DrawOK
<1> QED BY <1>4, <1>5, <1>6 DEF Onward, Beyond

\* The pen after a step that draws, and after one that does not
LEMMA Drawn ==
  ASSUME IInv, r_fb' = r_fb, NEW q \in Pens, PenOK(q), Beyond(Pen, q), Draw(q)
  PROVE  Pen' \in Pens /\ PenOK(Pen)' /\ Beyond(Pen, Pen')
<1>1. Pen' = q
  BY DEF Draw, Pen, Pens
<1>2. PenOK(Pen)'
  BY <1>1 DEF PenOK, InColumn, Inside, Half, SecondHalf, After
<1> QED BY <1>1, <1>2

LEMMA NotDrawn ==
  ASSUME IInv, r_fb' = r_fb, UNCHANGED penVars
  PROVE  Pen' \in Pens /\ PenOK(Pen)' /\ Beyond(Pen, Pen')
<1>1. Pen' = Pen
  BY DEF penVars, Pen
<1>2. PenOK(Pen)'
  BY <1>1 DEF IInv, PenOK, InColumn, Inside, Half, SecondHalf, After
<1> QED BY <1>1, <1>2 DEF IInv, Beyond

\* Past a conversion: it counts its argument, and ends within the format.
LEMMA PastOK ==
  ASSUME IInv, Conversion, NEW args \in {0, 1}, Past(args), call' = call,
         args = 1 => call.format[i + 1] \in TakesArgument
  PROVE  /\ i' \in 1 .. Len(call'.format) + 1
         /\ arg' \in Nat \ {0} /\ arg' <= Cardinality(Takers(call'.format, i')) + 1
         /\ Len(lines') = i' - 1
         /\ lines' \in Seq((BOOLEAN \X Nat) \union {NULL})
<1>1. WellFormed(call) /\ call # NULL /\ call.format[i] = "%" /\ i <= Len(call.format)
  BY CallWellFormed DEF Conversion, InFormat
<1>2. /\ Len(call.format) \in Nat /\ i \in 1 .. Len(call.format) + 1
      /\ arg \in Nat \ {0} /\ arg <= Cardinality(Takers(call.format, i)) + 1
      /\ Len(lines) = i - 1 /\ lines \in Seq((BOOLEAN \X Nat) \union {NULL})
  BY <1>1 DEF IInv, WellFormed
<1>3. i \in Nat \ {0} /\ i < Len(call.format)
  BY <1>1, <1>2 DEF WellFormed
<1>4. Cardinality(Takers(call.format, i)) <= Cardinality(Takers(call.format, i + 2))
  BY <1>3, TakersGrow
<1>5. args = 1 => Cardinality(Takers(call.format, i)) + 1 <= Cardinality(Takers(call.format, i + 2))
  BY <1>1, <1>2, <1>3, TakersAdd
<1>6. /\ Cardinality(Takers(call.format, i)) \in Nat
      /\ Cardinality(Takers(call.format, i + 2)) \in Nat
  BY <1>3, TakersFinite
<1>7. i' = i + 2 /\ arg' = arg + args /\ lines' = lines \o <<NULL, NULL>>
  BY DEF Past
<1>8. /\ lines' \in Seq((BOOLEAN \X Nat) \union {NULL})
      /\ Len(lines') = Len(lines) + 2
  BY <1>2, <1>7
<1>9. arg + args \in Nat \ {0} /\ arg + args <= Cardinality(Takers(call.format, i + 2)) + 1
  BY <1>2, <1>4, <1>5, <1>6
<1> QED BY <1>2, <1>3, <1>7, <1>8, <1>9

\* A call is entered at the first character of its format.
LEMMA StartOK ==
  ASSUME IInv, Start(call'), panicked' \in BOOLEAN,
         call' \in Calls \union {PanicCall(message) : message \in Messages}
  PROVE  IInv' /\ Beyond(Pen, Pen')
<1>1. Pen' \in Pens /\ PenOK(Pen)' /\ Beyond(Pen, Pen') /\ r_fb' \in Framebuffers
  BY NotDrawn DEF Start, IInv
<1>2. WellFormed(call')
  BY CallsAssumption, PanicWellFormed
<1>3. i' = 1 /\ arg' = 1 /\ lines' = << >>
  BY DEF Start
<1>4. Cardinality(Takers(call'.format, 1)) \in Nat
  BY TakersFinite
<1>5. /\ i' \in 1 .. Len(call'.format) + 1
      /\ arg' \in Nat \ {0} /\ arg' <= Cardinality(Takers(call'.format, i')) + 1
      /\ Len(lines') = i' - 1 /\ lines' \in Seq((BOOLEAN \X Nat) \union {NULL})
  BY <1>2, <1>3, <1>4 DEF WellFormed
<1> QED BY <1>1, <1>5 DEF IInv

LEMMA StepPreserves == IInv /\ [Next]_vars => IInv' /\ Beyond(Pen, Pen')
<1> SUFFICES ASSUME IInv, [Next]_vars PROVE IInv' /\ Beyond(Pen, Pen')
  OBVIOUS
<1> DEFINE AllCalls == Calls \union {PanicCall(message) : message \in Messages}
<1>1. ASSUME NEW new \in Calls, printf(new) PROVE IInv' /\ Beyond(Pen, Pen')
  <2>1. call' = new /\ Start(new) /\ panicked' \in BOOLEAN
    BY <1>1 DEF printf, Start, IInv
  <2> QED BY <2>1, StartOK
<1>2. ASSUME NEW message \in Messages, faults_panic(message) PROVE IInv' /\ Beyond(Pen, Pen')
  <2>1. call' = PanicCall(message) /\ Start(PanicCall(message)) /\ panicked' \in BOOLEAN
    BY <1>2 DEF faults_panic, Start
  <2> QED BY <2>1, StartOK
<1>3. CASE literal
  <2> DEFINE q == renderer_draw_char(Broken(call.format, call.format[i]), call.format[i])
  <2>1. q \in Pens /\ PenOK(q) /\ Beyond(Pen, q)
    BY LiteralPen
  <2>2. Draw(q) /\ r_fb' = r_fb /\ call' = call /\ panicked' = panicked /\ i' = i + 1 /\ arg' = arg
    BY <1>3 DEF literal
  <2>3. lines' = Append(lines, <<r'.on_second_half, r'.y>>) /\ call # NULL /\ i <= Len(call.format)
    BY <1>3 DEF literal, InFormat
  <2> HIDE DEF q
  <2>4. Pen' \in Pens /\ PenOK(Pen)' /\ Beyond(Pen, Pen')
    BY <2>1, <2>2, Drawn
  <2>5. r' \in Places
    BY <2>1, <2>2 DEF Draw, Pens
  <2>6. <<r'.on_second_half, r'.y>> \in BOOLEAN \X Nat
    BY <2>5 DEF Places
  <2>7. /\ i \in 1 .. Len(call.format) + 1 /\ Len(call.format) \in Nat
        /\ arg \in Nat \ {0} /\ arg <= Cardinality(Takers(call.format, i)) + 1
        /\ Len(lines) = i - 1 /\ lines \in Seq((BOOLEAN \X Nat) \union {NULL})
    BY <2>3, CallWellFormed DEF IInv, WellFormed
  <2>8. lines' \in Seq((BOOLEAN \X Nat) \union {NULL}) /\ Len(lines') = Len(lines) + 1
    BY <2>3, <2>6, <2>7
  <2>9. arg <= Cardinality(Takers(call.format, i + 1)) + 1
    <3>1. Cardinality(Takers(call.format, i)) <= Cardinality(Takers(call.format, i + 1))
      BY <2>7, TakersGrow
    <3>2. /\ Cardinality(Takers(call.format, i)) \in Nat
          /\ Cardinality(Takers(call.format, i + 1)) \in Nat
      BY <2>7, TakersFinite
    <3> QED BY <2>7, <3>1, <3>2
  <2>10. i' \in 1 .. Len(call.format) + 1 /\ Len(lines') = i' - 1
    BY <2>2, <2>3, <2>7, <2>8
  <2> QED BY <2>2, <2>4, <2>7, <2>8, <2>9, <2>10 DEF IInv
<1>4. CASE converted
  <2>1. /\ r_fb' = r_fb /\ call' = call /\ panicked' = panicked /\ i' = i /\ arg' = arg
        /\ lines' = lines
    BY <1>4 DEF converted
  <2>2. Pen' \in Pens /\ PenOK(Pen)' /\ Beyond(Pen, Pen')
    <3>1. CASE todo.string = << >>
      BY <1>4, <2>1, <3>1, NotDrawn DEF converted
    <3>2. CASE todo.string # << >>
      <4> DEFINE q == renderer_draw_char(BrokenString(todo.string), Head(todo.string))
      <4>1. q \in Pens /\ PenOK(q) /\ Beyond(Pen, q)
        BY ConvertedPen
      <4>2. Draw(q)
        BY <1>4, <3>2 DEF converted
      <4> HIDE DEF q
      <4> QED BY <2>1, <4>1, <4>2, Drawn
    <3> QED BY <3>1, <3>2
  <2> QED BY <2>1, <2>2 DEF IInv
<1>5. CASE printf_returns
  <2>1. Pen' \in Pens /\ PenOK(Pen)' /\ Beyond(Pen, Pen')
    BY <1>5, NotDrawn DEF printf_returns
  <2> QED BY <1>5, <2>1 DEF printf_returns, IInv
<1>6. ASSUME Conversion, NEW args \in {0, 1}, Past(args), UNCHANGED <<r_fb, penVars, call, panicked>>,
             args = 1 => call.format[i + 1] \in TakesArgument
      PROVE  IInv' /\ Beyond(Pen, Pen')
  <2>1. Pen' \in Pens /\ PenOK(Pen)' /\ Beyond(Pen, Pen')
    BY <1>6, NotDrawn
  <2>2. /\ i' \in 1 .. Len(call'.format) + 1
        /\ arg' \in Nat \ {0} /\ arg' <= Cardinality(Takers(call'.format, i')) + 1
        /\ Len(lines') = i' - 1
        /\ lines' \in Seq((BOOLEAN \X Nat) \union {NULL})
    BY <1>6, PastOK
  <2> QED BY <1>6, <2>1, <2>2 DEF IInv
<1>7. CASE convert_char
  BY <1>6, <1>7 DEF convert_char, TakesArgument
<1>8. CASE convert_string
  BY <1>6, <1>8 DEF convert_string, TakesArgument
<1>9. CASE convert_number
  BY <1>6, <1>9 DEF convert_number, TakesArgument
<1>10. CASE convert_colour
  BY <1>6, <1>10 DEF convert_colour, TakesArgument
<1>11. CASE convert_other
  BY <1>6, <1>11 DEF convert_other
<1>12. CASE UNCHANGED vars
  <2>1. Pen' \in Pens /\ PenOK(Pen)' /\ Beyond(Pen, Pen')
    BY <1>12, NotDrawn DEF vars, penVars
  <2> QED BY <1>12, <2>1 DEF IInv, vars
<1>13. CASE faults_hang
  BY <1>12, <1>13 DEF faults_hang
<1> QED BY <1>1, <1>2, <1>3, <1>4, <1>5, <1>7, <1>8, <1>9, <1>10, <1>11, <1>12, <1>13 DEF Next

LEMMA Invariance == Spec => []IInv
BY InitEstablishes, StepPreserves, PTL DEF Spec

-----------------------------------------------------------------------------
\* Theorems

\* In every state the cursor is on the screen or at most a character beyond
\* the end of a line, printf is inside of its format, never past its last
\* argument, and has a line for each character it is past.
THEOREM TypeCorrect == Spec => []TypeOK
BY Invariance, Implies, PTL

\* renderer_draw_char draws every glyph inside of its column, on every screen
\* a line of six characters fits on.
THEOREM GlyphsInside == Spec => []InItsColumn
BY Invariance, Implies, PTL

\* No glyph is drawn over an earlier one before the screen is cleared, however
\* the calls of printf follow each other and whether a step draws one glyph or
\* the space before it too.
THEOREM NothingOverdrawn == Spec => NoOverdraw
<1> DEFINE P == (last # NULL /\ last' # NULL /\ page' = page /\ last' # last) => After(last, last')
<1>1. IInv /\ [Next]_vars => [P]_vars
  <2> SUFFICES ASSUME IInv, [Next]_vars PROVE P
    OBVIOUS
  <2>1. Beyond(Pen, Pen')
    BY StepPreserves
  <2> QED BY <2>1 DEF Beyond, Pen
<1> HIDE DEF P
<1>2. Spec => [][P]_vars
  BY <1>1, Invariance, PTL DEF Spec
<1> QED BY <1>2 DEF P, NoOverdraw
=============================================================================
