------------------------------ MODULE MCScreen ------------------------------
(* Screen with a log of two lines.  The message is two pieces: 45 letters  *)
(* whose font the chip's tables decide (0x85), and an empty one.           *)
EXTENDS Screen

MCMessages == {[text |-> <<45, 0, 0>>, letter |-> \h85]}

\* any letter of 16 bits, in any size the firmware asks for, gets a cell the
\* buffer for one letter holds (400 bytes)
ASSUME GlyphBufferHolds ==
  \A c \in {0, 65, 127, 128, 160, 383, 384, 416, 511, 528, 880, 975, 1024, 1119, 1168,
            1424, 1535, 1536, 1791, 3584, 3675, 7840, 8192, 9000, 10238, 10240, 12288,
            19968, 40894, 44032, 64285, 64335, 64336, 65136, 65279, 65535}:
    \A size \in {12, 16, 18}: \A code \in Codes:
      LET cell == CellOf(c, size, code)
      IN  ((cell.w + 7) \div 8) * cell.h + 2 <= 400
=============================================================================
