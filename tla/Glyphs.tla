------------------------------- MODULE Glyphs -------------------------------
(***************************************************************************)
(* How text becomes pixels: which font of the GT30L24A3W chip a letter     *)
(* gets (lcd.c get_utf8_data), how large its cell is, what create_text     *)
(* allocates for a line and read_char writes into it (cyberpi.cpp), and    *)
(* how draw_log cuts a message into lines (display.cpp).  Pure operators;  *)
(* Screen uses them in its steps.                                          *)
(*                                                                         *)
(* A line repeats one letter: only cells and lengths matter here.          *)
(***************************************************************************)
EXTENDS Naturals, Sequences, SequencesExt

\* the sizes of the font chip (GT30L24A3W.h), by number
Ascii12A   == 4
Ascii8x16  == 5
Ascii12x24 == 6
Ascii16A   == 9
Ascii24B   == 10

\* the characters U2G, U2J or U2K find for Chinese, Japanese and Korean
Cjk == UNION {\h20..\h7FE, \h2000..\h27FE, \h2B05..\h2B06, \h2E81..\h2ECA,
              \h3000..\h33FE, \h3447..\h3CE0, \h4056..\h478D, \h4947..\h49B7,
              \h4C77..\h4DAE, \h4E00..\h9FFE, \hAC00..\hD79D, \hE816..\hE864,
              \hF900..\hFFFF}

Latin == UNION {\hA0..\h17F, \h1A0..\h1CF, \h1F0..\h1FF, \h210..\h21F, \h1EA0..\h1EFF}

Arabic == UNION {\h600..\h6FF, \hFB50..\hFBFF, \hFE70..\hFEFF}

Letters == 0..65535   \* a letter is 16 bits: U+0000 to U+FFFF

\* the branch get_utf8_data takes for a letter; the first that fits
Script(c) ==
  IF c \in 0..\h7F THEN "ascii"
  ELSE IF c \in Latin THEN "latin"
  ELSE IF c \in \h400..\h45F \cup \h490..\h4FF THEN "cyrillic"
  ELSE IF c \in \h370..\h3CF THEN "greek"
  ELSE IF c \in \h590..\h5FF \cup \hFB1D..\hFB4F THEN "hebrew"
  ELSE IF c \in Arabic THEN "arabic"
  ELSE IF c \in \hE00..\hE5F THEN "thai"
  ELSE IF c \in Cjk THEN "cjk"
  ELSE "none"

\* what the chip's conversion tables say of a letter: a code the small Chinese
\* fonts have, one only the 24-point font has, a Japanese or a Korean one
Codes == {"gb12", "gb", "jis", "ksc", "none"}

CjkFont(code, size) ==
  CASE code = "gb12" -> IF size <= Ascii12A THEN Ascii12A
                        ELSE IF size = Ascii16A THEN Ascii16A ELSE Ascii24B
    [] code = "gb"   -> Ascii24B
    [] code = "jis"  -> IF size <= Ascii8x16 \/ size = Ascii16A THEN Ascii16A
                        ELSE IF size >= Ascii24B THEN Ascii24B ELSE 0
    [] code = "ksc"  -> IF size <= Ascii16A THEN Ascii16A ELSE Ascii24B
    [] code = "none" -> 0

\* get_utf8_data's answer; 0: no font was read, the buffer keeps what it held
FontOf(c, size, code) ==
  LET s == Script(c)
  IN  CASE s = "ascii" -> size
        [] s \in {"latin", "cyrillic", "greek"} ->
             IF size <= Ascii8x16 THEN Ascii8x16
             ELSE IF size = Ascii16A THEN Ascii16A ELSE Ascii12x24
        [] s \in {"hebrew", "thai"} -> IF size <= Ascii8x16 THEN Ascii8x16 ELSE Ascii12x24
        [] s = "arabic" -> IF size <= Ascii16A THEN Ascii16A ELSE Ascii24B
        [] s = "cjk" -> CjkFont(code, size)
        [] s = "none" -> 0

\* width and height of a letter, font by font
Cells == <<[w |-> 5, h |-> 7], [w |-> 7, h |-> 8], [w |-> 6, h |-> 12],
           [w |-> 12, h |-> 12], [w |-> 8, h |-> 16], [w |-> 12, h |-> 24],
           [w |-> 12, h |-> 24], [w |-> 16, h |-> 32], [w |-> 16, h |-> 16],
           [w |-> 24, h |-> 24], [w |-> 32, h |-> 32]>>

\* a letter without a font leaves the width and height as they were: at first
\* the size that was asked for
CellOf(c, size, code) ==
  LET f == FontOf(c, IF c < 256 THEN 6 ELSE 10, code)
  IN  IF f = 0 THEN [w |-> size, h |-> size] ELSE Cells[f]

-----------------------------------------------------------------------------
(* The bitmap of a line of n such letters.  Its sides are uint8_t.         *)

Advance(cell, size) == (cell.w * size) \div cell.h

BitmapOf(c, n, size, code) ==
  LET cell == CellOf(c, size, code)
  IN  [cell |-> cell, n |-> n, size |-> size, end |-> n * Advance(cell, size),
       width |-> (n * Advance(cell, size)) % 256, height |-> (size + 1) % 256]

Larger(a, b) == IF a > b THEN a ELSE b

\* the last column and row read_char writes for one letter: the cell as it is, or
\* scaled, once letter pixel by letter pixel and once bitmap pixel by bitmap pixel
Reach(b) ==
  LET w == b.cell.w
      h == b.cell.h
  IN  IF b.size = h THEN [col |-> w - 1, row |-> h - 1]
      ELSE [col |-> Larger(((w - 1) * b.size) \div h,
                           (2 * w * b.size + h) \div (2 * h) - 1),
            row |-> Larger(((h - 1) * b.size) \div h, b.size - 1)]

\* the place in the buffer of the last pixel of the last letter
LastPixel(b) == (b.n - 1) * Advance(b.cell, b.size) + Reach(b).col + Reach(b).row * b.width

-----------------------------------------------------------------------------
(* draw_log's lines.  A message is the lengths of the pieces between its   *)
(* newlines (<<0>>: the empty message) and the letter it is made of.       *)

MaxCharPerLine == 20

\* a newline at the end starts no line
Segments(m) == IF Len(m.text) > 1 /\ Last(m.text) = 0 THEN Front(m.text) ELSE m.text

Pieces_whole(m, s) == <<[m |-> m, seg |-> s, from |-> 0, len |-> Segments(m)[s]]>>
Pieces_short(m, s) ==
  LET n == Segments(m)[s]
  IN  [k \in 1..(IF n = 0 THEN 1 ELSE (n + MaxCharPerLine - 1) \div MaxCharPerLine) |->
         [m |-> m, seg |-> s, from |-> (k - 1) * (MaxCharPerLine - 1),
          len |-> IF n - (k - 1) * MaxCharPerLine > MaxCharPerLine THEN MaxCharPerLine
                  ELSE n - (k - 1) * MaxCharPerLine]]
\* the lines of one piece: full ones and what is left, or one empty line
Pieces(m, s) ==
  LET n == Segments(m)[s]
  IN  [k \in 1..(IF n = 0 THEN 1 ELSE (n + MaxCharPerLine - 1) \div MaxCharPerLine) |->
         [m |-> m, seg |-> s, from |-> (k - 1) * MaxCharPerLine,
          len |-> IF n - (k - 1) * MaxCharPerLine > MaxCharPerLine THEN MaxCharPerLine
                  ELSE n - (k - 1) * MaxCharPerLine]]

Wrap(m) == FlattenSeq([s \in 1..Len(Segments(m)) |-> Pieces(m, s)])
=============================================================================
