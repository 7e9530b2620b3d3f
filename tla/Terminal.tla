------------------------------- MODULE Terminal -------------------------------
(***************************************************************************)
(* The basic terminal (axon/source/gfx/basic_terminal.c): a console that    *)
(* prints words and numbers at a cursor, and a mode for graphics.  The       *)
(* screen is the set of rectangles that have been drawn on it, each with     *)
(* the frame it belongs in; fonts, colours and pixel formats are left out.  *)
(* A call is one step: its callers hold axk_basicterminal_lock around it.    *)
(***************************************************************************)
EXTENDS Integers, Sequences, FiniteSets

CONSTANTS
  Width, Height, \* of the frame buffer
  Places,        \* the decimal places that a number may have: ten, or twenty
  HexBytes,      \* the bytes of a number in hexadecimal: four, or eight
  Texts,         \* bound: the strings printed, sequences of classes of characters
  Figures,       \* bound: the numbers printed
  Spots, Extents, \* bound: the places and the extents of what is drawn
  MaxDrawn       \* bound: the drawings between two changes of mode

Border     == 8  \* BASIC_TERMINAL_BORDER_SIZE
CharWidth  == 9  \* of the font, and BASIC_TERMINAL_CHAR_EXTRA_WIDTH
CharHeight == 17 \* of the font, and BASIC_TERMINAL_CHAR_EXTRA_HEIGHT

Classes == {"char", "space", "tab", "newline"}

(* Every mode of a frame buffer has room for a character.                      *)
ASSUME ScreenAssumption ==
  /\ Width \in Nat /\ Width >= 2 * Border + CharWidth
  /\ Height \in Nat /\ Height >= 2 * Border + CharHeight
  /\ Places \in Nat /\ HexBytes \in Nat
  /\ Texts \subseteq Seq(Classes)
  /\ Spots \subseteq Nat \X Nat /\ Extents \subseteq Nat \X Nat

VARIABLES
  mode,      \* g_mode
  cursor,    \* g_pos_x and g_pos_y
  screen,    \* the rectangles drawn
  number,    \* history: the number just printed, and its characters
  reprinted, \* history: a character of the console was printed over another
  scribbled  \* history: memory past the frame buffer or the font was used

terminalVars == <<mode, cursor, screen, number, reprinted, scribbled>>

Rect(x, y, w, h) == [x |-> x, y |-> y, w |-> w, h |-> h]

WholeScreen == Rect(0, 0, Width, Height)
TextArea    == Rect(Border, Border, Width - 2 * Border, Height - 2 * Border)

Home == <<Border, Border>>

NoNumber == [value |-> 0, base |-> 10, chars |-> <<0>>]

(* axk_basicterminal_init. *)
TerminalInit ==
  /\ mode = "console" /\ cursor = Home /\ screen = {}
  /\ number = NoNumber /\ reprinted = FALSE /\ scribbled = FALSE

-----------------------------------------------------------------------------
(* The console: a print takes a record of the cursor, what is drawn and whether *)
(* the screen had to scroll from character to character.  The length of what    *)
(* scrolling moves is taken from the height of a character instead of the       *)
(* screen's: it wraps, and four gigabytes are moved.                            *)
NewLine(t) ==
  IF t.y + 2 * CharHeight > Height - Border THEN [t EXCEPT !.x = Border, !.overrun = TRUE]
  ELSE [t EXCEPT !.x = Border, !.y = @ + CharHeight]

(* A word of a quarter of a line or more is split at the end of the line.    *)
IsLong(count) == count * CharWidth >= (Width - 2 * Border) \div 4

PrintChar(t, long) ==
  LET s == IF long /\ t.x + CharWidth > Width - Border THEN NewLine(t) ELSE t
      glyph == [at |-> Rect(s.x, s.y, 8, 16), frame |-> TextArea, by |-> "console"]
  IN  [s EXCEPT !.x = @ + CharWidth, !.drawn = @ \union {glyph},
                !.twice = @ \/ glyph \in s.drawn]

PrintChars(start, count, long) ==
  LET after[i \in 0 .. count] == IF i = 0 THEN start ELSE PrintChar(after[i - 1], long)
  IN  after[count]

(* Mutant: words of any length start where the cursor is. *)
PrintWordInLine(t, count) == PrintChars(t, count, IsLong(count))

PrintWord(t, count) ==
  PrintChars(IF ~ IsLong(count) /\ t.x + count * CharWidth > Width - Border
             THEN NewLine(t) ELSE t, count, IsLong(count))

(* A word ends at a space, which it takes along, a tab, a new line or the end;  *)
(* a space that no word comes before is not printed.                         *)
PrintWordEnd(t, c) ==
  LET s == IF t.word = 0 THEN t ELSE PrintWord(t, t.word + IF c = "space" THEN 1 ELSE 0)
      next == CASE c = "tab" -> PrintWord(s, 4)
                [] c = "newline" -> NewLine(s)
                [] OTHER -> s
  IN  [next EXCEPT !.word = 0]

Printed(text) ==
  LET start == [x |-> cursor[1], y |-> cursor[2], drawn |-> screen,
                word |-> 0, overrun |-> FALSE, twice |-> reprinted]
      after[i \in 0 .. Len(text)] ==
        IF i = 0 THEN start
        ELSE IF text[i] = "char" THEN [after[i - 1] EXCEPT !.word = @ + 1]
        ELSE PrintWordEnd(after[i - 1], text[i])
  IN  PrintWordEnd(after[Len(text)], "end")

Show(text) ==
  LET t == Printed(text)
  IN  IF t.overrun THEN scribbled' = TRUE /\ UNCHANGED <<cursor, screen, reprinted>>
      ELSE /\ cursor' = <<t.x, t.y>>
           /\ screen' = t.drawn /\ reprinted' = t.twice
           /\ UNCHANGED scribbled

(* axk_basicterminal_prints, printnl and printtab.                          *)
Prints(text) == mode = "console" /\ Show(text) /\ number' = NoNumber /\ UNCHANGED mode

-----------------------------------------------------------------------------
(* Numbers, digit by digit from the highest place down.  What a decimal place   *)
(* and what a byte is worth.                                                 *)
Tens[n \in 0 .. Places] == IF n = 0 THEN 1 ELSE 10 * Tens[n - 1]

Weights[n \in 0 .. HexBytes] == IF n = 0 THEN 1 ELSE 256 * Weights[n - 1]

Digit(acc, place) ==
  IF acc.chars = <<>> /\ place > acc.left THEN acc
  ELSE [chars |-> Append(acc.chars, acc.left \div place), left |-> acc.left % place]

Decimal(value) ==
  LET after[i \in 0 .. Places] ==
        IF i = 0 THEN [chars |-> <<>>, left |-> value]
        ELSE Digit(after[i - 1], Tens[Places - i])
  IN  IF value = 0 THEN <<0>> ELSE after[Places].chars

(* Mutant: the flag is not set when only the lower digit is printed.         *)
HexByteForgetful(acc, byte) ==
  LET high == byte \div 16
      low == byte % 16
  IN  IF acc.zeros \/ high > 0 THEN [chars |-> acc.chars \o <<high, low>>, zeros |-> TRUE]
      ELSE IF low > 0 THEN [acc EXCEPT !.chars = Append(@, low)]
      ELSE acc

(* _print_hex_byte: two digits once a digit has been printed.                *)
HexByte(acc, byte) ==
  LET high == byte \div 16
      low == byte % 16
  IN  IF acc.zeros \/ high > 0 THEN [chars |-> acc.chars \o <<high, low>>, zeros |-> TRUE]
      ELSE IF low > 0 THEN [chars |-> Append(acc.chars, low), zeros |-> TRUE]
      ELSE acc

Hex(value, zeros) ==
  LET after[i \in 0 .. HexBytes] ==
        IF i = 0 THEN [chars |-> <<>>, zeros |-> zeros]
        ELSE HexByte(after[i - 1], (value \div Weights[HexBytes - i]) % 256)
      all == after[HexBytes]
  IN  IF all.zeros THEN all.chars ELSE Append(all.chars, 0)

Letters(count) == [i \in 1 .. count |-> "char"]

(* printu32 and printu64; printh32 and printh64, after the two characters 0x.  *)
PrintNumber(value, base, zeros) ==
  LET chars == IF base = 10 THEN Decimal(value) ELSE Hex(value, zeros)
  IN  /\ mode = "console"
      /\ Show(Letters(IF base = 10 THEN Len(chars) ELSE 2 + Len(chars)))
      /\ number' = [value |-> value, base |-> base, chars |-> chars]
      /\ UNCHANGED mode

(* The places and the bytes are enough for the numbers that are printed.        *)
ASSUME FiguresAssumption ==
  \A value \in Figures : value \in Nat /\ value < Tens[Places] /\ value < Weights[HexBytes]

-----------------------------------------------------------------------------
ClearScreen == cursor' = Home /\ screen' = {}

SetMode(new) ==
  /\ mode' = new
  /\ IF new = mode THEN UNCHANGED <<cursor, screen>> ELSE ClearScreen
  /\ number' = NoNumber
  /\ UNCHANGED <<reprinted, scribbled>>

OnScreen(x, y) == x < Width /\ y < Height

Least(a, b) == IF a < b THEN a ELSE b

(* Mutant: every pixel is written. *)
ClippedNot(r) == r

(* _draw_pixel leaves out what is not on the screen.                         *)
Clipped(r) ==
  Rect(r.x, r.y, Least(r.w, Width - r.x), Least(r.h, Height - r.y))

Draw(rects, frame) ==
  /\ screen' = screen \union {[at |-> Clipped(r), frame |-> frame, by |-> "graphics"] : r \in rects}
  /\ number' = NoNumber
  /\ UNCHANGED <<mode, cursor, reprinted, scribbled>>

CanDraw == Cardinality({d \in screen : d.by = "graphics"}) < MaxDrawn

(* draw_text, draw_text_n, draw_number and draw_hex.                        *)
DrawText(count, x, y) ==
  /\ mode = "graphics" /\ OnScreen(x, y)
  /\ Draw({r \in {Rect(x + CharWidth * i, y, 8, 16) : i \in 0 .. count - 1} : OnScreen(r.x, r.y)},
          WholeScreen)

(* A character with its top bit set reads beyond the font here.              *)
DrawTextBreaks(x, y) ==
  /\ mode = "graphics" /\ OnScreen(x, y)
  /\ scribbled' = TRUE
  /\ UNCHANGED <<mode, cursor, screen, number, reprinted>>

(* draw_text_box: by lines, as many characters to each as fit, the last line   *)
(* cut at the bottom of the box; the box itself when it has a background.      *)
DrawTextBox(count, box, transparent) ==
  LET columns == box.w \div CharWidth
      Place(i) == Rect(box.x + CharWidth * (i % columns),
                       box.y + CharHeight * (i \div columns), 8,
                       Least(16, box.h - CharHeight * (i \div columns)))
      glyphs == IF columns = 0 THEN {} ELSE {Place(i) : i \in 0 .. count - 1}
      all == IF transparent THEN glyphs ELSE glyphs \union {box}
  IN  /\ mode = "graphics" /\ OnScreen(box.x, box.y)
      /\ Draw({r \in all : r.h > 0 /\ OnScreen(r.x, r.y)}, box)

(* draw_box; its outline is drawn inside it.                                 *)
DrawBox(box) ==
  /\ mode = "graphics" /\ OnScreen(box.x, box.y)
  /\ Draw({box}, box)

(* draw_pixel does not look at the mode.                                     *)
DrawPixel(x, y) == OnScreen(x, y) /\ Draw({Rect(x, y, 1, 1)}, WholeScreen)

TerminalNext ==
  /\ ~ scribbled
  /\ \/ \E text \in Texts : Prints(text)
     \/ \E value \in Figures :
          \/ PrintNumber(value, 10, FALSE)
          \/ \E zeros \in BOOLEAN : PrintNumber(value, 16, zeros)
     \/ \E new \in {"console", "graphics"} : SetMode(new)
     \/ /\ CanDraw
        /\ \E p \in Spots :
             \/ DrawPixel(p[1], p[2])
             \/ DrawTextBreaks(p[1], p[2])
             \/ \E count \in 1 .. 3 : DrawText(count, p[1], p[2])
             \/ \E s \in Extents :
                  LET box == Rect(p[1], p[2], s[1], s[2])
                  IN  \/ DrawBox(box)
                      \/ \E count \in 1 .. 3, transparent \in BOOLEAN :
                           DrawTextBox(count, box, transparent)

TerminalSpec == TerminalInit /\ [][TerminalNext]_terminalVars

-----------------------------------------------------------------------------
Inside(r, frame) ==
  /\ frame.x <= r.x /\ r.x + r.w <= frame.x + frame.w
  /\ frame.y <= r.y /\ r.y + r.h <= frame.y + frame.h

(* What is drawn stays inside the screen and inside the area of the console    *)
(* or the box it belongs to, no character of the console is printed over       *)
(* another, wherever words were split or put on the next line, and no text of  *)
(* the console is left in the mode for graphics, or the other way round but    *)
(* for single pixels.                                                        *)
ScreenHolds ==
  /\ ~ reprinted
  /\ \A d \in screen : Inside(d.at, WholeScreen) /\ Inside(d.at, d.frame)
  /\ \A d \in screen : d.by = mode \/ (d.at.w = 1 /\ d.at.h = 1)

Denoted(chars, numeral) ==
  LET upto[i \in 0 .. Len(chars)] == IF i = 0 THEN 0 ELSE upto[i - 1] * numeral + chars[i]
  IN  upto[Len(chars)]

(* The digits of a number denote it, and none is missing or superfluous.      *)
NumbersRead ==
  /\ \A i \in DOMAIN number.chars : number.chars[i] < number.base
  /\ Denoted(number.chars, number.base) = number.value
  /\ \/ number.chars = <<0>>
     \/ number.chars[1] > 0
     \/ number.base = 16 /\ Len(number.chars) = 2 * HexBytes
=============================================================================
