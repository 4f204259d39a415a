---------------------------- MODULE ScreenProofs ----------------------------
(***************************************************************************)
(* Lemmas and theorems about the screen: the letters and the lines of the  *)
(* log for every letter of 16 bits and every length of a message, the      *)
(* bitmaps and what destroys them for every number of lines, messages of   *)
(* the boot, updates and commands.                                         *)
(***************************************************************************)
EXTENDS Screen, SequenceTheorems, WellFoundedInduction, TLAPS

-----------------------------------------------------------------------------
(* FlattenSeq builds its answer from the front, one sequence at a time.    *)

LessThan == {p \in Nat \X Nat : p[1] < p[2]}
LEMMA LessThanWellFounded == IsWellFoundedOn(LessThan, Nat)
  BY NatLessThanWellFounded, Zenon DEF OpToRel, LessThan

LEMMA LeastNumber ==
  ASSUME NEW T \in SUBSET Nat, T # {}
  PROVE  \E m \in T : \A k \in T : m <= k
<1>1. PICK x \in T : \A y \in T : ~ (<<y, x>> \in LessThan)
  BY LessThanWellFounded, WFMin
<1>2. ASSUME NEW k \in T PROVE x <= k
  <2>1. k \in Nat /\ x \in Nat /\ <<k, x>> \notin LessThan
    BY <1>1
  <2> QED BY <2>1 DEF LessThan
<1> QED BY <1>1, <1>2

\* Counting up from 1 to n by ones.
LEMMA CountsUp ==
  ASSUME NEW n \in Nat, n # 0, NEW B, 1 \in B, \A i \in 2 .. n : i - 1 \in B => i \in B
  PROVE  n \in B
<1> SUFFICES ASSUME n \notin B PROVE FALSE
  OBVIOUS
<1> DEFINE T == (1 .. n) \ B
<1>1. T \in SUBSET Nat /\ n \in T
  OBVIOUS
<1>2. PICK m \in T : \A k \in T : m <= k
  <2> HIDE DEF T
  <2> QED BY <1>1, LeastNumber
<1>3. m \in 2 .. n /\ m \notin B /\ m - 1 \in 1 .. n /\ ~(m <= m - 1)
  OBVIOUS
<1>4. m - 1 \in B
  BY <1>2, <1>3
<1> QED BY <1>3, <1>4

LEMMA FlattenExists ==
  ASSUME NEW S, NEW ss \in Seq(Seq(S)), NEW n \in Nat, n <= Len(ss)
  PROVE  \E f : f = [i \in 1 .. n |-> IF i = 1 THEN ss[i] ELSE f[i-1] \o ss[i]]
<1> DEFINE Def(f, k) == f = [i \in 1 .. k |-> IF i = 1 THEN ss[i] ELSE f[i-1] \o ss[i]]
           T == {k \in 0 .. n : ~ \E f : Def(f, k)}
<1> SUFFICES ASSUME T # {} PROVE FALSE
  <2>1. n \in 0 .. n
    OBVIOUS
  <2> QED BY <2>1
<1>1. PICK m \in T : \A k \in T : m <= k
  <2> HIDE DEF Def
  <2>1. T \in SUBSET Nat
    OBVIOUS
  <2> HIDE DEF T
  <2> QED BY <2>1, LeastNumber
<1>0. m \in 0 .. n
  OBVIOUS
<1>2. m # 0
  <2>1. Def([i \in {} |-> <<>>], 0)
    OBVIOUS
  <2> QED BY <2>1
<1>3. m - 1 \in 0 .. n /\ m - 1 \notin T
  <2> HIDE DEF T
  <2> QED BY <1>0, <1>1, <1>2
<1>4. PICK f : Def(f, m - 1)
  BY <1>3
<1> DEFINE g == [i \in 1 .. m |-> IF i = 1 THEN ss[i] ELSE f[i-1] \o ss[i]]
<1>5. ASSUME NEW i \in 1 .. m - 1
      PROVE  g[i] = f[i]
  <2>1. f = [j \in 1 .. m - 1 |-> IF j = 1 THEN ss[j] ELSE f[j-1] \o ss[j]]
    BY <1>4
  <2>2. f[i] = IF i = 1 THEN ss[i] ELSE f[i-1] \o ss[i]
    BY <2>1, Zenon
  <2>3. g[i] = IF i = 1 THEN ss[i] ELSE f[i-1] \o ss[i]
    OBVIOUS
  <2> QED BY <2>2, <2>3, Zenon
<1>6. g = [i \in 1 .. m |-> IF i = 1 THEN ss[i] ELSE g[i-1] \o ss[i]]
  <2>1. ASSUME NEW i \in 1 .. m, i # 1
        PROVE  f[i-1] \o ss[i] = g[i-1] \o ss[i]
    <3>1. i - 1 \in 1 .. m - 1
      BY <2>1, <1>2
    <3> QED BY <3>1, <1>5
  <2> HIDE DEF T
  <2> QED BY <2>1, Zenon
<1>7. Def(g, m)
  BY <1>6
<1> QED BY <1>7, <1>1

LEMMA Flattened ==
  ASSUME NEW S, NEW ss \in Seq(Seq(S)), ss # <<>>
  PROVE  \E f : /\ f[1] = ss[1]
                /\ \A i \in 2 .. Len(ss) : f[i] = f[i - 1] \o ss[i]
                /\ f[Len(ss)] = FlattenSeq(ss)
<1> DEFINE n == Len(ss)
           Def(f) == f = [i \in 1 .. n |-> IF i = 1 THEN ss[i] ELSE f[i-1] \o ss[i]]
           f == CHOOSE f : Def(f)
<1>1. n \in Nat /\ n >= 1
  OBVIOUS
<1>2. \E g : Def(g)
  <2>1. n <= Len(ss)
    BY <1>1
  <2> QED BY <1>1, <2>1, FlattenExists
<1>3. Def(f)
  BY <1>2, Zenon
<1>4. FlattenSeq(ss) = f[n]
  <2>1. Len(ss) # 0
    BY <1>1
  <2> QED BY <2>1, Zenon DEF FlattenSeq
<1>5. \A i \in 1 .. n : f[i] = IF i = 1 THEN ss[i] ELSE f[i-1] \o ss[i]
  BY <1>3, Zenon
<1> HIDE DEF f, n
<1>6. f[1] = ss[1]
  <2>1. 1 \in 1 .. n
    BY <1>1
  <2> QED BY <1>5, <2>1, Zenon
<1>7. ASSUME NEW i \in 2 .. n PROVE f[i] = f[i - 1] \o ss[i]
  <2>1. i \in 1 .. n /\ i # 1
    BY <1>1
  <2> QED BY <1>5, <2>1, Zenon
<1> QED BY <1>4, <1>6, <1>7 DEF n

-----------------------------------------------------------------------------
(* The letters. *)

Sizes == {12, 16, 18}   \* the sizes the firmware asks for

\* A letter comes as one of three cells of the font chip, or as the square that
\* was asked for when the chip has none.
CellsUsed(size) ==
  {[w |-> 12, h |-> 24], [w |-> 16, h |-> 16], [w |-> 24, h |-> 24], [w |-> size, h |-> size]}

LEMMA CellIsUsed ==
  ASSUME NEW c \in Letters, NEW size \in Sizes, NEW code \in Codes
  PROVE  CellOf(c, size, code) \in CellsUsed(size)
<1> DEFINE chosen == IF c < 256 THEN 6 ELSE 10
           f == FontOf(c, chosen, code)
<1>1. /\ Cells[6] = [w |-> 12, h |-> 24]
      /\ Cells[9] = [w |-> 16, h |-> 16]
      /\ Cells[10] = [w |-> 24, h |-> 24]
  BY DEF Cells
<1>2. CellOf(c, size, code) = IF f = 0 THEN [w |-> size, h |-> size] ELSE Cells[f]
  BY DEF CellOf
<1>3. chosen = 6 \/ chosen = 10
  OBVIOUS
<1> HIDE DEF chosen
<1>4. Script(c) \in {"ascii", "latin", "cyrillic", "greek", "hebrew", "arabic", "thai",
                     "cjk", "none"}
  BY DEF Script
<1>5. CjkFont(code, chosen) \in {0, 9, 10}
  BY <1>3 DEF CjkFont, Codes, Ascii12A, Ascii8x16, Ascii16A, Ascii24B
<1>6. f \in {0, 6, 9, 10}
  BY <1>3, <1>4, <1>5 DEF FontOf, Ascii8x16, Ascii12x24, Ascii16A, Ascii24B
<1> HIDE DEF f
<1> QED BY <1>1, <1>2, <1>6 DEF CellsUsed

\* The buffer for one letter has room for every letter in every size (400 bytes,
\* two of them for the sides: lcd.c get_utf8_data, cyberpi.cpp:111-129).
THEOREM GlyphBufferHoldsAlways ==
  ASSUME NEW c \in Letters, NEW size \in Sizes, NEW code \in Codes
  PROVE  LET cell == CellOf(c, size, code)
         IN  ((cell.w + 7) \div 8) * cell.h + 2 <= 400
<1>1. PICK cell \in CellsUsed(size) : cell = CellOf(c, size, code)
  BY CellIsUsed
<1>2. ((cell.w + 7) \div 8) * cell.h + 2 <= 400
  BY <1>1 DEF CellsUsed, Sizes
<1> QED BY <1>1, <1>2

LEMMA RowsBefore ==
  ASSUME NEW row \in 0 .. 11, NEW w \in Nat
  PROVE  row * w \in Nat /\ row * w <= 11 * w
<1>1. row \in {0, 1, 2, 3, 4, 5, 6, 7, 8, 9, 10, 11}
  OBVIOUS
<1> QED BY <1>1

\* The last pixel of a line of the log is inside its bitmap, and the line inside
\* the columns a uint8_t can name, whatever the letter is and however its cell is
\* scaled (cyberpi.cpp:111-220).
THEOREM LineFits ==
  ASSUME NEW c \in Letters, NEW n \in 0 .. MaxCharPerLine, NEW code \in Codes
  PROVE  LET b == BitmapOf(c, n, 12, code)
         IN  2 + b.end <= 256 /\ LastPixel(b) < b.width * b.height
<1> DEFINE b == BitmapOf(c, n, 12, code)
           cell == CellOf(c, 12, code)
           a == Advance(cell, 12)
<1>1. cell \in CellsUsed(12)
  BY CellIsUsed DEF Sizes
<1>2. n \in 0 .. 20
  BY DEF MaxCharPerLine
<1>3. b = [cell |-> cell, n |-> n, size |-> 12, end |-> n * a,
           width |-> (n * a) % 256, height |-> 13]
  BY DEF BitmapOf
<1> HIDE DEF b, cell
<1>4. (a = 6 /\ cell.w = 12 /\ cell.h = 24) \/ (a = 12 /\ cell.w = cell.h /\ cell.w \in {12, 16, 24})
  BY <1>1 DEF CellsUsed, Advance
<1>5. Reach(b).col < a /\ Reach(b).row <= 11 /\ Reach(b).col \in Nat /\ Reach(b).row \in Nat
  BY <1>3, <1>4 DEF Reach, Larger
<1> HIDE DEF a
<1>6. /\ b.width = n * a /\ b.height = 13 /\ b.n = n /\ b.cell = cell /\ b.size = 12
      /\ b.end = n * a /\ n * a \in Nat /\ n * a <= 240
      /\ (n - 1) * a = n * a - a
  BY <1>2, <1>3, <1>4
<1>7. PICK col \in 0 .. a - 1, row \in 0 .. 11 : col = Reach(b).col /\ row = Reach(b).row
  BY <1>4, <1>5
<1>8. LastPixel(b) = n * a - a + col + row * (n * a)
  BY <1>6, <1>7 DEF LastPixel, a
<1>9. row * (n * a) \in Nat /\ row * (n * a) <= 11 * (n * a)
  BY <1>6, RowsBefore
<1>10. LastPixel(b) < b.width * b.height
  BY <1>4, <1>6, <1>7, <1>8, <1>9
<1> QED BY <1>6, <1>10 DEF b

-----------------------------------------------------------------------------
(* draw_log's lines. *)

\* The lines of a piece cover it without a gap or an overlap, none is longer than
\* the screen is wide, and only an empty piece has an empty one: what LogIsTail of
\* Screen asks of the lines of one piece, for every length (display.cpp:152-198).
THEOREM PiecesTile ==
  ASSUME NEW m, NEW s, NEW n \in Nat, n = Segments(m)[s]
  PROVE  LET p == Pieces(m, s)
         IN  /\ p[1].from = 0
             /\ \A k \in 1 .. Len(p) : p[k].len \in 0 .. MaxCharPerLine /\ (n > 0 => p[k].len > 0)
             /\ \A k \in 1 .. Len(p) - 1 : p[k + 1].from = p[k].from + p[k].len
             /\ p[Len(p)].from + p[Len(p)].len = n
<1> DEFINE last == IF n = 0 THEN 1 ELSE (n + 19) \div 20
           len(k) == IF n - (k - 1) * 20 > 20 THEN 20 ELSE n - (k - 1) * 20
           line(k) == [m |-> m, seg |-> s, from |-> (k - 1) * 20, len |-> len(k)]
           p == [k \in 1 .. last |-> line(k)]
<1>1. p = Pieces(m, s)
  BY DEF Pieces, MaxCharPerLine
<1>2. last \in Nat /\ last >= 1 /\ n <= 20 * last /\ (n > 0 => 20 * last < n + 20)
      /\ (n = 0 => last = 1)
  OBVIOUS
<1> HIDE DEF last
<1>3. Len(p) = last
  BY <1>2
<1>4. \A k \in 1 .. last : p[k].from = (k - 1) * 20 /\ p[k].len = len(k)
  BY <1>2
<1>5. \A k \in 1 .. last - 1 : p[k + 1].from = p[k].from + p[k].len
  <2> SUFFICES ASSUME NEW k \in 1 .. last - 1
               PROVE  p[k + 1].from = p[k].from + p[k].len
    OBVIOUS
  <2>1. k \in 1 .. last /\ k + 1 \in 1 .. last /\ n - (k - 1) * 20 > 20
    BY <1>2
  <2>2. p[k].len = 20 /\ p[k].from = (k - 1) * 20 /\ p[k + 1].from = ((k + 1) - 1) * 20
    BY <1>4, <2>1
  <2> QED BY <2>1, <2>2
<1>6. p[last].from + p[last].len = n
  <2>1. last \in 1 .. last /\ ~(n - (last - 1) * 20 > 20)
    BY <1>2
  <2>2. p[last].from = (last - 1) * 20 /\ p[last].len = n - (last - 1) * 20
    BY <1>4, <2>1
  <2> QED BY <1>2, <2>2
<1>7. p[1].from = 0
  BY <1>2, <1>4
<1>8. \A k \in 1 .. last : p[k].len \in 0 .. 20 /\ (n > 0 => p[k].len > 0)
  <2> SUFFICES ASSUME NEW k \in 1 .. last
               PROVE  p[k].len \in 0 .. 20 /\ (n > 0 => p[k].len > 0)
    OBVIOUS
  <2>1. len(k) \in 0 .. 20 /\ (n > 0 => len(k) > 0)
    BY <1>2
  <2>2. p[k].len = len(k)
    OBVIOUS
  <2> HIDE DEF p, len
  <2> QED BY <2>1, <2>2
<1> HIDE DEF p, len, line
<1>9. \A k \in 1 .. Len(p) : p[k].len \in 0 .. MaxCharPerLine /\ (n > 0 => p[k].len > 0)
  BY <1>3, <1>8 DEF MaxCharPerLine
<1>10. \A k \in 1 .. Len(p) - 1 : p[k + 1].from = p[k].from + p[k].len
  BY <1>3, <1>5
<1>11. p[Len(p)].from + p[Len(p)].len = n
  BY <1>3, <1>6
<1> QED BY <1>1, <1>7, <1>9, <1>10, <1>11

-----------------------------------------------------------------------------
(* Programs of a drawer: what every suffix of one keeps to.                *)

StepNames == {"io", "lcd", "gyro", "threads", "ready", "console", "append", "forget",
              "destroy", "unlink", "clean", "render", "delay", "delaying"}
Texts == {Text("HkVLib", 16, 1, 6, 18, TRUE), Text("Firmware Boot", 16, MaxLines, 13, 12, TRUE),
          Text("title", 4, 1, 15, 16, FALSE)}
Pictures == {BootPicture, TeamPicture, BootFrame, PingPattern}
Steps == {Step(name) : name \in StepNames} \cup {[op |-> "line", i |-> i] : i \in Nat \ {0}}
           \cup Pictures \cup Texts

\* the step makes a bitmap that has to be destroyed
Keeps(step) == step.op = "line" \/ (step.op = "text" /\ step.kept)

\* after place j the program renders before it destroys
RendersNext(s, j) ==
  \E i \in j + 1 .. Len(s) :
    s[i].op = "render" /\ \A k \in j + 1 .. i - 1 : s[k].op # "destroy"

Orderly(s) ==
  /\ \A k \in 1 .. Len(s) : s[k].op = "destroy" => k < Len(s) /\ s[k + 1].op = "unlink"
  /\ \A k \in 1 .. Len(s) : Keeps(s[k]) => RendersNext(s, k)

Programs == {s \in Seq(Steps) : Orderly(s)}

LEMMA NoProgram == <<>> \in Programs
BY DEF Programs, Orderly

LEMMA JoinPrograms ==
  ASSUME NEW s \in Programs, NEW t \in Programs
  PROVE  s \o t \in Programs
<1> DEFINE u == s \o t
<1>1. /\ s \in Seq(Steps) /\ t \in Seq(Steps) /\ u \in Seq(Steps)
      /\ Len(s) \in Nat /\ Len(t) \in Nat /\ Len(u) = Len(s) + Len(t)
  BY DEF Programs
<1>2. \A i \in 1 .. Len(s) : u[i] = s[i]
  BY <1>1
<1>3. \A i \in 1 .. Len(t) : u[Len(s) + i] = t[i]
  BY <1>1
<1> HIDE DEF u
<1>4. ASSUME NEW k \in 1 .. Len(u), u[k].op = "destroy"
      PROVE  k < Len(u) /\ u[k + 1].op = "unlink"
  <2>1. CASE k <= Len(s)
    <3>1. s[k].op = "destroy"
      BY <1>1, <1>2, <1>4, <2>1
    <3>2. k < Len(s) /\ s[k + 1].op = "unlink"
      BY <1>1, <2>1, <3>1 DEF Programs, Orderly
    <3>3. k + 1 \in 1 .. Len(s) /\ k < Len(u)
      BY <1>1, <2>1, <3>2
    <3>4. u[k + 1] = s[k + 1]
      BY <1>2, <3>3, Zenon
    <3> QED BY <3>2, <3>3, <3>4
  <2>2. CASE k > Len(s)
    <3> DEFINE j == k - Len(s)
    <3>1. j \in 1 .. Len(t) /\ k = Len(s) + j
      BY <1>1, <2>2
    <3>2. t[j].op = "destroy"
      BY <1>3, <1>4, <3>1
    <3>3. j < Len(t) /\ t[j + 1].op = "unlink"
      BY <3>1, <3>2 DEF Programs, Orderly
    <3>4. u[Len(s) + (j + 1)] = t[j + 1]
      BY <1>1, <1>3, <3>1, <3>3
    <3> QED BY <1>1, <3>1, <3>3, <3>4
  <2> QED BY <1>1, <2>1, <2>2
<1>5. ASSUME NEW k \in 1 .. Len(u), Keeps(u[k])
      PROVE  RendersNext(u, k)
  <2>1. CASE k <= Len(s)
    <3>1. Keeps(s[k])
      BY <1>1, <1>2, <1>5, <2>1
    <3>2. RendersNext(s, k)
      BY <1>1, <2>1, <3>1 DEF Programs, Orderly
    <3>3. PICK i \in k + 1 .. Len(s) :
            s[i].op = "render" /\ \A m \in k + 1 .. i - 1 : s[m].op # "destroy"
      BY <3>2 DEF RendersNext
    <3>4. i \in k + 1 .. Len(u) /\ u[i] = s[i] /\ \A m \in k + 1 .. i - 1 : u[m] = s[m]
      BY <1>1, <1>2, <3>3
    <3> QED BY <3>3, <3>4 DEF RendersNext
  <2>2. CASE k > Len(s)
    <3> DEFINE j == k - Len(s)
    <3>1. j \in 1 .. Len(t) /\ k = Len(s) + j
      BY <1>1, <2>2
    <3>2. Keeps(t[j])
      BY <1>3, <1>5, <3>1
    <3>3. RendersNext(t, j)
      BY <3>1, <3>2 DEF Programs, Orderly
    <3>4. PICK i \in j + 1 .. Len(t) :
            t[i].op = "render" /\ \A m \in j + 1 .. i - 1 : t[m].op # "destroy"
      BY <3>3 DEF RendersNext
    <3> DEFINE h == Len(s) + i
    <3>5. h \in k + 1 .. Len(u) /\ u[h] = t[i]
      BY <1>1, <1>3, <3>1, <3>4
    <3>6. ASSUME NEW m \in k + 1 .. h - 1
          PROVE  u[m].op # "destroy"
      <4>1. m - Len(s) \in j + 1 .. i - 1 /\ m - Len(s) \in 1 .. Len(t)
            /\ m = Len(s) + (m - Len(s))
        BY <1>1, <3>1, <3>4
      <4>2. u[m] = t[m - Len(s)]
        BY <1>3, <4>1
      <4> QED BY <3>4, <4>1, <4>2
    <3> QED BY <3>4, <3>5, <3>6 DEF RendersNext
  <2> QED BY <1>1, <2>1, <2>2
<1> QED BY <1>1, <1>4, <1>5 DEF u, Programs, Orderly

\* What is left of a program is one; what was to be rendered is, unless it just was.
LEMMA RestOfProgram ==
  ASSUME NEW s \in Programs, s # <<>>
  PROVE  /\ Tail(s) \in Programs
         /\ s[1].op = "destroy" => Tail(s) # <<>> /\ Tail(s)[1].op = "unlink"
         /\ Keeps(s[1]) => RendersNext(Tail(s), 0)
         /\ RendersNext(s, 0) => s[1].op # "destroy" /\
              (s[1].op = "render" \/ RendersNext(Tail(s), 0))
<1> DEFINE t == Tail(s)
<1>1. /\ s \in Seq(Steps) /\ t \in Seq(Steps)
      /\ Len(s) \in Nat /\ Len(s) >= 1 /\ Len(t) = Len(s) - 1
  BY DEF Programs
<1>2. \A i \in 1 .. Len(t) : t[i] = s[i + 1]
  BY <1>1
<1> HIDE DEF t
<1>3. ASSUME NEW k \in 1 .. Len(t), t[k].op = "destroy"
      PROVE  k < Len(t) /\ t[k + 1].op = "unlink"
  <2>1. s[k + 1].op = "destroy" /\ k + 1 \in 1 .. Len(s)
    BY <1>1, <1>2, <1>3
  <2>2. k + 1 < Len(s) /\ s[(k + 1) + 1].op = "unlink"
    BY <2>1 DEF Programs, Orderly
  <2> QED BY <1>1, <1>2, <2>2
<1>4. ASSUME NEW k \in Nat, k >= 1, k <= Len(s), RendersNext(s, k)
      PROVE  RendersNext(t, k - 1)
  <2>1. PICK i \in k + 1 .. Len(s) :
          s[i].op = "render" /\ \A m \in k + 1 .. i - 1 : s[m].op # "destroy"
    BY <1>4 DEF RendersNext
  <2>2. i - 1 \in (k - 1) + 1 .. Len(t) /\ t[i - 1] = s[i]
    BY <1>1, <1>2, <1>4, <2>1
  <2>3. ASSUME NEW m \in (k - 1) + 1 .. (i - 1) - 1
        PROVE  t[m].op # "destroy"
    <3>1. m + 1 \in k + 1 .. i - 1 /\ m \in 1 .. Len(t)
      BY <1>1, <1>4, <2>1
    <3> QED BY <1>2, <2>1, <3>1
  <2> QED BY <2>1, <2>2, <2>3 DEF RendersNext
<1>5. ASSUME NEW k \in 1 .. Len(t), Keeps(t[k])
      PROVE  RendersNext(t, k)
  <2>1. Keeps(s[k + 1]) /\ k + 1 \in 1 .. Len(s)
    BY <1>1, <1>2, <1>5
  <2>2. RendersNext(s, k + 1)
    BY <2>1 DEF Programs, Orderly
  <2>3. RendersNext(t, (k + 1) - 1)
    BY <1>4, <2>1, <2>2
  <2> QED BY <2>3
<1>6. s[1].op = "destroy" => t # <<>> /\ t[1].op = "unlink"
  <2> SUFFICES ASSUME s[1].op = "destroy" PROVE t # <<>> /\ t[1].op = "unlink"
    OBVIOUS
  <2>1. 1 < Len(s) /\ s[1 + 1].op = "unlink"
    BY <1>1 DEF Programs, Orderly
  <2> QED BY <1>1, <1>2, <2>1
<1>7. Keeps(s[1]) => RendersNext(t, 0)
  <2> SUFFICES ASSUME Keeps(s[1]) PROVE RendersNext(t, 0)
    OBVIOUS
  <2>1. RendersNext(s, 1)
    BY <1>1 DEF Programs, Orderly
  <2>2. RendersNext(t, 1 - 1)
    BY <1>1, <1>4, <2>1
  <2> QED BY <2>2
<1>8. RendersNext(s, 0) => s[1].op # "destroy" /\ (s[1].op = "render" \/ RendersNext(t, 0))
  <2> SUFFICES ASSUME RendersNext(s, 0)
               PROVE  s[1].op # "destroy" /\ (s[1].op = "render" \/ RendersNext(t, 0))
    OBVIOUS
  <2>1. PICK i \in 0 + 1 .. Len(s) :
          s[i].op = "render" /\ \A m \in 0 + 1 .. i - 1 : s[m].op # "destroy"
    BY DEF RendersNext
  <2>2. CASE i = 1
    BY <2>1, <2>2
  <2>3. CASE i > 1
    <3>1. 1 \in 0 + 1 .. i - 1 /\ i \in 1 + 1 .. Len(s)
      BY <1>1, <2>3
    <3>2. RendersNext(s, 1)
      BY <2>1, <3>1 DEF RendersNext
    <3>3. RendersNext(t, 1 - 1)
      BY <1>1, <1>4, <3>2
    <3> QED BY <2>1, <3>1, <3>3
  <2> QED BY <1>1, <2>2, <2>3
<1> QED BY <1>1, <1>3, <1>5, <1>6, <1>7, <1>8 DEF t, Programs, Orderly

LEMMA CleanupIsProgram == CleanupBitmaps \in Programs
<1>1. CleanupBitmaps \in Seq(Steps) /\ Len(CleanupBitmaps) = 2
  BY DEF CleanupBitmaps, Steps, Step, StepNames
<1>2. Orderly(CleanupBitmaps)
  BY DEF Orderly, CleanupBitmaps, Keeps, Step
<1> QED BY <1>1, <1>2 DEF Programs

LEMMA DrawLogIsProgram == DrawLog \in Programs
<1> DEFINE first == <<Step("append")>>
           drawn == <<Step("clean"), [op |-> "line", i |-> 1], Step("render"), Step("delay")>>
<1>1. first \in Programs
  <2>1. first \in Seq(Steps)
    BY DEF Steps, Step, StepNames
  <2>2. Orderly(first)
    BY DEF Orderly, Keeps, Step
  <2> QED BY <2>1, <2>2 DEF Programs
<1>2. drawn \in Programs
  <2>1. drawn \in Seq(Steps)
    BY DEF Steps, Step, StepNames
  <2>2. Orderly(drawn)
    <3>1. Len(drawn) = 4 /\ drawn[3].op = "render" /\ drawn[2].op = "line"
          /\ drawn[1].op = "clean" /\ drawn[4].op = "delay"
      BY DEF Step
    <3> HIDE DEF drawn
    <3>2. \A k \in 1 .. 4 : drawn[k].op # "destroy" /\ (Keeps(drawn[k]) => k = 2)
      <4>1. \A k \in 1 .. 4 : k = 1 \/ k = 2 \/ k = 3 \/ k = 4
        OBVIOUS
      <4> QED BY <3>1, <4>1 DEF Keeps
    <3>3. RendersNext(drawn, 2)
      BY <3>1 DEF RendersNext
    <3> QED BY <3>1, <3>2, <3>3 DEF Orderly
  <2> QED BY <2>1, <2>2 DEF Programs
<1> HIDE DEF first, drawn
<1>3. DrawLog = ((first \o CleanupBitmaps) \o drawn) \o CleanupBitmaps
  BY DEF DrawLog, first, drawn
<1>4. first \o CleanupBitmaps \in Programs
  BY <1>1, CleanupIsProgram, JoinPrograms
<1>5. (first \o CleanupBitmaps) \o drawn \in Programs
  BY <1>2, <1>4, JoinPrograms
<1>6. ((first \o CleanupBitmaps) \o drawn) \o CleanupBitmaps \in Programs
  BY <1>5, CleanupIsProgram, JoinPrograms
<1> QED BY <1>3, <1>6

LEMMA DrawBootIsProgram == DrawBoot \in Programs
<1> DEFINE drawn ==
      <<Step("clean"), BootPicture, Step("render"), Step("delay"), Step("clean"), BootFrame,
        Text("HkVLib", 16, 1, 6, 18, TRUE), Text("Firmware Boot", 16, MaxLines, 13, 12, TRUE),
        Step("render")>>
<1>1. drawn \in Seq(Steps)
  BY DEF Steps, Step, StepNames, Pictures, Texts
<1>2. /\ Len(drawn) = 9
      /\ drawn[1].op = "clean" /\ drawn[3].op = "render" /\ drawn[4].op = "delay"
      /\ drawn[5].op = "clean" /\ drawn[9].op = "render"
  BY DEF Step
<1>3. drawn[2].op = "picture" /\ drawn[6].op = "picture"
  BY DEF BootPicture, BootFrame
<1>4. drawn[7].op = "text" /\ drawn[8].op = "text"
  BY DEF Text
<1>5. DrawBoot = drawn \o CleanupBitmaps
  BY DEF DrawBoot
<1> HIDE DEF drawn
<1>6. \A k \in 1 .. 9 : drawn[k].op # "destroy" /\ (Keeps(drawn[k]) => k = 7 \/ k = 8)
  <2>1. \A k \in 1 .. 9 : k = 1 \/ k = 2 \/ k = 3 \/ k = 4 \/ k = 5 \/ k = 6 \/ k = 7 \/ k = 8
                          \/ k = 9
    OBVIOUS
  <2> QED BY <1>2, <1>3, <1>4, <2>1 DEF Keeps
<1>7. RendersNext(drawn, 7) /\ RendersNext(drawn, 8)
  BY <1>2, <1>4 DEF RendersNext
<1>8. drawn \in Programs
  BY <1>1, <1>2, <1>6, <1>7 DEF Programs, Orderly
<1> QED BY <1>5, <1>8, CleanupIsProgram, JoinPrograms

\* a program that neither makes a bitmap nor destroys one
LEMMA PlainProgram ==
  ASSUME NEW s \in Seq(Steps), \A k \in 1 .. Len(s) : s[k].op # "destroy" /\ ~Keeps(s[k])
  PROVE  s \in Programs
BY DEF Programs, Orderly

LEMMA DrawTeamIsProgram == DrawTeam \in Programs
<1> DEFINE drawn == <<Step("clean"), TeamPicture, Step("render"), Step("delay")>>
<1>1. drawn \in Seq(Steps)
  BY DEF Steps, Step, StepNames, Pictures
<1>2. \A k \in 1 .. Len(drawn) : drawn[k].op \in {"clean", "picture", "render", "delay"}
  BY DEF Step, TeamPicture
<1> HIDE DEF drawn
<1>3. drawn \in Programs
  BY <1>1, <1>2, PlainProgram DEF Keeps
<1> QED BY <1>3, CleanupIsProgram, JoinPrograms DEF DrawTeam, drawn

LEMMA ClearIsProgram == Clear \in Programs
<1> DEFINE drawn == <<Step("clean"), Step("render"), Step("delay")>>
           first == <<Step("forget")>>
<1>1. drawn \in Seq(Steps) /\ first \in Seq(Steps)
  BY DEF Steps, Step, StepNames
<1>2. /\ \A k \in 1 .. Len(drawn) : drawn[k].op \in {"clean", "render", "delay"}
      /\ \A k \in 1 .. Len(first) : first[k].op = "forget"
  BY DEF Step
<1> HIDE DEF drawn, first
<1>3. drawn \in Programs /\ first \in Programs
  BY <1>1, <1>2, PlainProgram DEF Keeps
<1>4. first \o CleanupBitmaps \in Programs
  BY <1>3, CleanupIsProgram, JoinPrograms
<1>5. (first \o CleanupBitmaps) \o drawn \in Programs
  BY <1>3, <1>4, JoinPrograms
<1> QED BY <1>5 DEF Clear, drawn, first

LEMMA DisplayPingIsProgram == DisplayPing \in Programs
<1> DEFINE drawn == <<Step("clean"), PingPattern, Step("render"), Step("delay")>>
<1>1. drawn \in Seq(Steps)
  BY DEF Steps, Step, StepNames, Pictures
<1>2. \A k \in 1 .. Len(drawn) : drawn[k].op \in {"clean", "picture", "render", "delay"}
  BY DEF Step, PingPattern
<1> HIDE DEF drawn
<1>3. drawn \in Programs
  BY <1>1, <1>2, PlainProgram DEF Keeps
<1> QED BY <1>3, DrawLogIsProgram, JoinPrograms DEF DisplayPing, drawn

LEMMA BeginDisplayIsProgram == BeginDisplay \in Programs
<1> DEFINE names == {"io", "lcd", "gyro", "threads", "ready", "text", "render"}
<1>1. BeginDisplay \in Seq(Steps)
  BY DEF BeginDisplay, Steps, Step, StepNames, Texts
<1>2. \A k \in 1 .. Len(BeginDisplay) :
        BeginDisplay[k].op \in names /\ (BeginDisplay[k].op = "text" => ~BeginDisplay[k].kept)
  BY DEF BeginDisplay, Step, Text
<1> QED BY <1>1, <1>2, PlainProgram DEF Keeps

\* What is built by joining programs is one.
LEMMA JoinedIsProgram ==
  ASSUME NEW n \in Nat, n # 0, NEW f, f[1] \in Programs,
         NEW ss, \A i \in 1 .. n : ss[i] \in Programs,
         \A i \in 2 .. n : f[i] = f[i - 1] \o ss[i]
  PROVE  f[n] \in Programs
<1> DEFINE B == {i \in 1 .. n : f[i] \in Programs}
<1>1. 1 \in B
  OBVIOUS
<1>2. ASSUME NEW i \in 2 .. n, i - 1 \in B
      PROVE  i \in B
  <2>1. f[i - 1] \in Programs /\ ss[i] \in Programs /\ i \in 1 .. n
    BY <1>2
  <2> QED BY <2>1, JoinPrograms
<1>3. n \in B
  <2> HIDE DEF B
  <2> QED BY <1>1, <1>2, CountsUp
<1> QED BY <1>3

\* However many messages the boot logs.
LEMMA BootLogsAreProgram == FlattenSeq([k \in 1 .. BootLogs |-> DrawLog]) \in Programs
<1> DEFINE ss == [k \in 1 .. BootLogs |-> DrawLog]
<1>1. BootLogs \in Nat
  BY ScreenAssumption
<1>2. DrawLog \in Seq(Steps)
  BY DrawLogIsProgram DEF Programs
<1>3. ss \in Seq(Seq(Steps)) /\ Len(ss) = BootLogs
  <2> HIDE DEF Steps
  <2> QED BY <1>1, <1>2
<1>4. \A k \in 1 .. BootLogs : ss[k] \in Programs
  BY DrawLogIsProgram
<1> HIDE DEF ss
<1>5. CASE BootLogs = 0
  <2>1. ss = <<>>
    BY <1>3, <1>5
  <2>2. FlattenSeq(ss) = ss
    BY <1>3, <1>5, Zenon DEF FlattenSeq
  <2> QED BY <2>1, <2>2, NoProgram DEF ss
<1>6. CASE BootLogs # 0
  <2>1. ss # <<>>
    BY <1>1, <1>3, <1>6
  <2>2. PICK f : /\ f[1] = ss[1]
                 /\ \A i \in 2 .. Len(ss) : f[i] = f[i - 1] \o ss[i]
                 /\ f[Len(ss)] = FlattenSeq(ss)
    <3>1. ss \in Seq(Seq(Steps))
      BY <1>3
    <3> QED BY <2>1, <3>1, Flattened, Zenon
  <2>3. 1 \in 1 .. BootLogs
    BY <1>1, <1>6
  <2>4. f[1] \in Programs
    BY <1>4, <2>2, <2>3
  <2>5. f[BootLogs] \in Programs
    BY <1>1, <1>3, <1>4, <1>6, <2>2, <2>4, JoinedIsProgram
  <2> QED BY <1>3, <2>2, <2>5 DEF ss
<1> QED BY <1>5, <1>6

LEMMA BootIsProgram == BootProgram \in Programs
<1> DEFINE logs == FlattenSeq([k \in 1 .. BootLogs |-> DrawLog])
           console == <<Step("console")>>
           delay == <<Step("delay")>>
<1>1. console \in Programs /\ delay \in Programs
  <2>1. console \in Seq(Steps) /\ delay \in Seq(Steps)
    BY DEF Steps, Step, StepNames
  <2>2. /\ \A k \in 1 .. Len(console) : console[k].op = "console"
        /\ \A k \in 1 .. Len(delay) : delay[k].op = "delay"
    BY DEF Step
  <2> HIDE DEF console, delay
  <2> QED BY <2>1, <2>2, PlainProgram DEF Keeps
<1> HIDE DEF logs, console, delay
<1>2. BeginDisplay \o DrawLog \o console \o DrawBoot \in Programs
  BY <1>1, BeginDisplayIsProgram, DrawLogIsProgram, DrawBootIsProgram, JoinPrograms
<1>3. (BeginDisplay \o DrawLog \o console \o DrawBoot) \o delay \o logs \in Programs
  BY <1>1, <1>2, BootLogsAreProgram, JoinPrograms DEF logs
<1>4. ((BeginDisplay \o DrawLog \o console \o DrawBoot) \o delay \o logs)
        \o DrawTeam \o Clear \in Programs
  BY <1>3, DrawTeamIsProgram, ClearIsProgram, JoinPrograms
<1>5. (((BeginDisplay \o DrawLog \o console \o DrawBoot) \o delay \o logs)
        \o DrawTeam \o Clear) \o Clear \o DrawLog \in Programs
  BY <1>4, ClearIsProgram, DrawLogIsProgram, JoinPrograms
<1> QED BY <1>5 DEF BootProgram, logs, console, delay

\* Another first step that neither destroys nor makes more bitmaps.
LEMMA InsteadIsProgram ==
  ASSUME NEW s \in Programs, s # <<>>, NEW x \in Steps, x.op # "destroy",
         Keeps(x) => Keeps(s[1])
  PROVE  LET u == <<x>> \o Tail(s)
         IN  /\ u \in Programs
             /\ RendersNext(s, 0) /\ s[1].op # "render" => RendersNext(u, 0)
<1> DEFINE u == <<x>> \o Tail(s)
<1>1. s \in Seq(Steps) /\ Len(s) \in Nat /\ Len(s) >= 1
  BY DEF Programs
<1>2. u \in Seq(Steps) /\ Len(u) = Len(s) /\ u[1] = x
  BY <1>1
<1>3. \A k \in 2 .. Len(s) : u[k] = s[k]
  BY <1>1
<1> HIDE DEF u
<1>4. ASSUME NEW k \in Nat, k >= 1, RendersNext(s, k)
      PROVE  RendersNext(u, k)
  <2>1. PICK i \in k + 1 .. Len(s) :
          s[i].op = "render" /\ \A m \in k + 1 .. i - 1 : s[m].op # "destroy"
    BY <1>4 DEF RendersNext
  <2>2. i \in k + 1 .. Len(u) /\ u[i] = s[i] /\ \A m \in k + 1 .. i - 1 : u[m] = s[m]
    BY <1>1, <1>2, <1>3, <1>4
  <2> QED BY <2>1, <2>2 DEF RendersNext
<1>5. ASSUME NEW k \in 1 .. Len(u), u[k].op = "destroy"
      PROVE  k < Len(u) /\ u[k + 1].op = "unlink"
  <2>1. k \in 2 .. Len(s)
    BY <1>1, <1>2, <1>5
  <2>2. s[k].op = "destroy" /\ k \in 1 .. Len(s)
    BY <1>3, <1>5, <2>1
  <2>3. k < Len(s) /\ s[k + 1].op = "unlink"
    BY <2>2 DEF Programs, Orderly
  <2> QED BY <1>1, <1>2, <1>3, <2>1, <2>3
<1>6. ASSUME NEW k \in 1 .. Len(u), Keeps(u[k])
      PROVE  RendersNext(u, k)
  <2>1. Keeps(s[k]) /\ k \in 1 .. Len(s)
    <3>1. CASE k = 1
      BY <1>1, <1>2, <1>6, <3>1
    <3>2. CASE k # 1
      BY <1>1, <1>2, <1>3, <1>6, <3>2
    <3> QED BY <3>1, <3>2
  <2>2. RendersNext(s, k)
    BY <2>1 DEF Programs, Orderly
  <2> QED BY <1>1, <1>4, <2>1, <2>2
<1>7. ASSUME RendersNext(s, 0), s[1].op # "render"
      PROVE  RendersNext(u, 0)
  <2>1. PICK i \in 0 + 1 .. Len(s) :
          s[i].op = "render" /\ \A m \in 0 + 1 .. i - 1 : s[m].op # "destroy"
    BY <1>7 DEF RendersNext
  <2>2. i # 1
    BY <1>7, <2>1
  <2>3. i \in 0 + 1 .. Len(u) /\ u[i] = s[i]
    BY <1>1, <1>2, <1>3, <2>1, <2>2
  <2>4. ASSUME NEW m \in 0 + 1 .. i - 1 PROVE u[m].op # "destroy"
    <3>1. CASE m = 1
      BY <1>2, <3>1
    <3>2. CASE m # 1
      BY <1>1, <1>3, <2>1, <3>2
    <3> QED BY <3>1, <3>2
  <2> QED BY <2>1, <2>3, <2>4 DEF RendersNext
<1>8. Orderly(u)
  BY <1>5, <1>6 DEF Orderly
<1> QED BY <1>2, <1>7, <1>8 DEF u, Programs

\* What a step is, by its name.
LEMMA LineSteps ==
  ASSUME NEW x \in Steps, x.op = "line"
  PROVE  x.i \in Nat \ {0} /\ [op |-> "line", i |-> x.i + 1] \in Steps
<1>1. x \notin {Step(name) : name \in StepNames} /\ x \notin Pictures
  BY DEF Step, StepNames, Pictures, BootPicture, TeamPicture, BootFrame, PingPattern
<1>0. x \notin Texts
  <2>1. /\ Text("HkVLib", 16, 1, 6, 18, TRUE).op = "text"
        /\ Text("Firmware Boot", 16, MaxLines, 13, 12, TRUE).op = "text"
        /\ Text("title", 4, 1, 15, 16, FALSE).op = "text"
    BY DEF Text
  <2>2. \A y \in Texts : y.op = "text"
    BY <2>1, Zenon DEF Texts
  <2> QED BY <2>2
<1>2. PICK i \in Nat \ {0} : x = [op |-> "line", i |-> i]
  BY <1>0, <1>1 DEF Steps
<1>3. x.i = i /\ i + 1 \in Nat \ {0}
  BY <1>2
<1> QED BY <1>3 DEF Steps

LEMMA TextSteps ==
  ASSUME NEW x \in Steps, x.op = "text"
  PROVE  x \in Texts
<1>1. /\ x \notin {Step(name) : name \in StepNames} /\ x \notin Pictures
      /\ x \notin {[op |-> "line", i |-> i] : i \in Nat \ {0}}
  BY DEF Step, StepNames, Pictures, BootPicture, TeamPicture, BootFrame, PingPattern
<1> QED BY <1>1 DEF Steps

-----------------------------------------------------------------------------
(* Each bitmap is destroyed once, after a render.                          *)

JobsInv == job \in [Drawers -> Programs]

\* What a drawer's step does to what is left of its call.
LEMMA Moves ==
  ASSUME JobsInv, NEW d \in Drawers, Draws(d)
  PROVE  /\ job[d] # <<>>
         /\ job' \in [Drawers -> Programs]
         /\ \A e \in Drawers : e # d => job'[e] = job[e]
         /\ RendersNext(job[d], 0) /\ job[d][1].op # "render" => RendersNext(job'[d], 0)
<1> DEFINE s == job[d]
<1>1. s \in Programs /\ (s # <<>> => Head(s) = s[1] /\ s[1] \in Steps)
  BY DEF JobsInv, Programs
<1>2. ASSUME Done(d), s # <<>>
      PROVE  /\ job' \in [Drawers -> Programs]
             /\ \A e \in Drawers : e # d => job'[e] = job[e]
             /\ RendersNext(s, 0) /\ s[1].op # "render" => RendersNext(job'[d], 0)
  <2>1. job' = [job EXCEPT ![d] = Tail(s)]
    BY <1>2 DEF Done
  <2>2. Tail(s) \in Programs /\ (RendersNext(s, 0) => s[1].op = "render" \/ RendersNext(Tail(s), 0))
    BY <1>1, <1>2, RestOfProgram
  <2> HIDE DEF s
  <2> QED BY <2>1, <2>2 DEF JobsInv
<1>3. ASSUME NEW x \in Steps, x.op # "destroy", Keeps(x) => Keeps(s[1]), Instead(d, x), s # <<>>
      PROVE  /\ job' \in [Drawers -> Programs]
             /\ \A e \in Drawers : e # d => job'[e] = job[e]
             /\ RendersNext(s, 0) /\ s[1].op # "render" => RendersNext(job'[d], 0)
  <2> DEFINE u == <<x>> \o Tail(s)
  <2>1. job' = [job EXCEPT ![d] = u]
    BY <1>3 DEF Instead
  <2>2. u \in Programs /\ (RendersNext(s, 0) /\ s[1].op # "render" => RendersNext(u, 0))
    BY <1>1, <1>3, InsteadIsProgram
  <2> HIDE DEF s, u
  <2> QED BY <2>1, <2>2 DEF JobsInv
<1>4. CASE Done(d) /\ s # <<>>
  BY <1>2, <1>4
<1>5. CASE UNCHANGED job /\ s # <<>>
  BY <1>5 DEF JobsInv
<1>6. ASSUME s # <<>>, s[1].op = "line", Instead(d, [op |-> "line", i |-> s[1].i + 1])
      PROVE  /\ job' \in [Drawers -> Programs]
             /\ \A e \in Drawers : e # d => job'[e] = job[e]
             /\ RendersNext(s, 0) /\ s[1].op # "render" => RendersNext(job'[d], 0)
  <2> DEFINE x == [op |-> "line", i |-> s[1].i + 1]
  <2>1. x \in Steps /\ x.op # "destroy"
    BY <1>1, <1>6, LineSteps
  <2>2. Keeps(x) => Keeps(s[1])
    BY <1>6 DEF Keeps
  <2>3. Instead(d, x)
    BY <1>6
  <2> HIDE DEF x, s
  <2> QED BY <1>3, <1>6, <2>1, <2>2, <2>3
<1>7. ASSUME s # <<>>, Instead(d, Step("delaying"))
      PROVE  /\ job' \in [Drawers -> Programs]
             /\ \A e \in Drawers : e # d => job'[e] = job[e]
             /\ RendersNext(s, 0) /\ s[1].op # "render" => RendersNext(job'[d], 0)
  <2>1. Step("delaying") \in Steps /\ Step("delaying").op = "delaying"
    BY DEF Steps, Step, StepNames
  <2>2. ~ Keeps(Step("delaying"))
    BY <2>1 DEF Keeps
  <2> HIDE DEF s
  <2> QED BY <1>3, <1>7, <2>1, <2>2
<1>8. CASE BeginIo(d) \/ BeginLcd(d) \/ BeginGyro(d) \/ StartPart(d) \/ AppendLog(d) \/ Forget(d)
           \/ Destroy(d) \/ Unlink(d) \/ Clean(d) \/ Picture(d)
  BY <1>4, <1>8 DEF BeginIo, BeginLcd, BeginGyro, StartPart, AppendLog, Forget, Destroy, Unlink,
                    Clean, Picture, Doing
<1>9. CASE DrawText(d) \/ Render(d) \/ EndDelay(d)
  BY <1>4, <1>9 DEF DrawText, Render, EndDelay, Doing
<1>10. CASE SkipLine(d)
  <2>1. s # <<>> /\ s[1].op = "line"
    BY <1>1, <1>10 DEF SkipLine, Doing
  <2>2. Done(d) \/ Instead(d, [op |-> "line", i |-> s[1].i + 1])
    BY <1>1, <1>10, <2>1 DEF SkipLine
  <2> QED BY <1>4, <1>6, <2>1, <2>2
<1>11. CASE OpenFont(d)
  BY <1>5, <1>11 DEF OpenFont, Doing, HasLine
<1>12. CASE DrawLine(d)
  <2>1. s # <<>> /\ s[1].op = "line"
    BY <1>1, <1>12 DEF DrawLine, HasLine, Doing
  <2>2. Instead(d, [op |-> "line", i |-> s[1].i + 1])
    BY <1>1, <1>12, <2>1 DEF DrawLine
  <2> QED BY <1>6, <2>1, <2>2
<1>13. CASE StartDelay(d)
  BY <1>7, <1>13 DEF StartDelay, Doing
<1> QED BY <1>8, <1>9, <1>10, <1>11, <1>12, <1>13 DEF Draws

-----------------------------------------------------------------------------
(* The lines of the log.                                                   *)

Lines == [m : Messages, seg : Nat, from : Nat, len : 0 .. MaxCharPerLine]

\* each line follows the one above, or starts a message after the end of another
Joined(s) ==
  \A i \in 1 .. Len(s) - 1 : Follows(s[i], s[i + 1]) \/ (Ends(s[i]) /\ Starts(s[i + 1]))

LEMMA SegmentsOf ==
  ASSUME NEW m \in Messages
  PROVE  /\ Segments(m) \in Seq(Nat) /\ Len(Segments(m)) \in Nat /\ Len(Segments(m)) >= 1
         /\ \A s \in 1 .. Len(Segments(m)) : Segments(m)[s] = m.text[s] /\ m.text[s] \in Nat
<1> DEFINE t == m.text
<1>1. t \in Seq(Nat) /\ Len(t) \in Nat /\ Len(t) >= 1
  BY ScreenAssumption
<1> HIDE DEF t
<1>2. CASE Segments(m) = t
  BY <1>1, <1>2 DEF t
<1>3. CASE Segments(m) # t
  <2>1. Len(t) > 1 /\ Segments(m) = SubSeq(t, 1, Len(t) - 1)
    BY <1>3, Zenon DEF Segments, Front, t
  <2>2. Segments(m) \in Seq(Nat) /\ Len(Segments(m)) = Len(t) - 1
    BY <1>1, <2>1
  <2>3. \A s \in 1 .. Len(t) - 1 : Segments(m)[s] = t[s]
    BY <1>1, <2>1
  <2> QED BY <1>1, <2>1, <2>2, <2>3 DEF t
<1> QED BY <1>2, <1>3

LEMMA PieceLines ==
  ASSUME NEW m \in Messages, NEW s \in 1 .. Len(Segments(m))
  PROVE  LET p == Pieces(m, s)
         IN  /\ p \in Seq(Lines) /\ Len(p) >= 1 /\ Joined(p)
             /\ \A k \in 1 .. Len(p) : p[k].m = m /\ p[k].seg = s
             /\ p[1].from = 0
             /\ p[Len(p)].from + p[Len(p)].len = m.text[s]
<1> DEFINE n == Segments(m)[s]
           p == Pieces(m, s)
           last == IF n = 0 THEN 1 ELSE (n + 19) \div 20
           len(k) == IF n - (k - 1) * 20 > 20 THEN 20 ELSE n - (k - 1) * 20
           line(k) == [m |-> m, seg |-> s, from |-> (k - 1) * 20, len |-> len(k)]
<1>1. n \in Nat /\ n = m.text[s] /\ s \in Nat
  BY SegmentsOf
<1>2. p = [k \in 1 .. last |-> line(k)]
  BY DEF Pieces, MaxCharPerLine
<1>3. last \in Nat /\ last >= 1 /\ (n = 0 => last = 1)
  BY <1>1
<1>4. /\ p[1].from = 0
      /\ \A k \in 1 .. Len(p) : p[k].len \in 0 .. MaxCharPerLine /\ (n > 0 => p[k].len > 0)
      /\ \A k \in 1 .. Len(p) - 1 : p[k + 1].from = p[k].from + p[k].len
      /\ p[Len(p)].from + p[Len(p)].len = n
  BY <1>1, PiecesTile
<1> HIDE DEF last, n, len
<1>5. Len(p) = last /\ \A k \in 1 .. last : p[k] = line(k)
  <2> HIDE DEF line
  <2> QED BY <1>2, <1>3
<1>6. \A k \in 1 .. last : line(k) \in Lines
  <2> SUFFICES ASSUME NEW k \in 1 .. last PROVE line(k) \in Lines
    OBVIOUS
  <2>1. p[k].len \in 0 .. MaxCharPerLine /\ p[k] = line(k)
    BY <1>4, <1>5
  <2>2. len(k) \in 0 .. MaxCharPerLine /\ (k - 1) * 20 \in Nat
    BY <1>3, <2>1
  <2> QED BY <1>1, <2>2 DEF Lines
<1>7. p \in Seq(Lines)
  <2> HIDE DEF line
  <2> QED BY <1>2, <1>3, <1>6
<1>8. \A k \in 1 .. last : p[k].m = m /\ p[k].seg = s
  BY <1>5
<1> HIDE DEF p, line
<1>9. Joined(p)
  <2> SUFFICES ASSUME NEW i \in 1 .. Len(p) - 1
               PROVE  Follows(p[i], p[i + 1])
    BY DEF Joined
  <2>1. i \in 1 .. last /\ i + 1 \in 1 .. last /\ last # 1
    BY <1>3, <1>5
  <2>2. n > 0 /\ p[i + 1].len > 0
    BY <1>1, <1>3, <1>4, <1>5, <2>1
  <2> QED BY <1>4, <1>8, <2>1, <2>2 DEF Follows
<1> QED BY <1>1, <1>3, <1>4, <1>5, <1>7, <1>8, <1>9 DEF p

\* Joining what is joined, when the second follows the first.
LEMMA JoinLines ==
  ASSUME NEW a \in Seq(Lines), NEW b \in Seq(Lines), Joined(a), Joined(b), b # <<>>,
         a # <<>> => \/ Follows(a[Len(a)], b[1])
                     \/ Ends(a[Len(a)]) /\ Starts(b[1])
  PROVE  /\ a \o b \in Seq(Lines) /\ a \o b # <<>> /\ Joined(a \o b)
         /\ (a \o b)[Len(a \o b)] = b[Len(b)]
         /\ a # <<>> => (a \o b)[1] = a[1]
<1> DEFINE u == a \o b
<1>1. /\ u \in Seq(Lines) /\ Len(u) = Len(a) + Len(b) /\ Len(a) \in Nat /\ Len(b) \in Nat
      /\ Len(b) >= 1 /\ (a # <<>> => Len(a) >= 1)
  BY DEF Lines
<1>2. /\ \A i \in 1 .. Len(a) : u[i] = a[i]
      /\ \A i \in 1 .. Len(b) : u[Len(a) + i] = b[i]
  BY <1>1
<1> HIDE DEF u
<1>3. ASSUME NEW i \in 1 .. Len(u) - 1
      PROVE  Follows(u[i], u[i + 1]) \/ (Ends(u[i]) /\ Starts(u[i + 1]))
  <2>1. CASE i < Len(a)
    <3>1. i \in 1 .. Len(a) - 1 /\ u[i] = a[i] /\ u[i + 1] = a[i + 1]
      BY <1>1, <1>2, <2>1
    <3> QED BY <3>1 DEF Joined
  <2>2. CASE i = Len(a)
    <3>1. u[i] = a[Len(a)] /\ u[i + 1] = b[1] /\ a # <<>>
      BY <1>1, <1>2, <2>2
    <3> QED BY <3>1
  <2>3. CASE i > Len(a)
    <3> DEFINE j == i - Len(a)
    <3>1. j \in 1 .. Len(b) - 1 /\ j \in 1 .. Len(b) /\ j + 1 \in 1 .. Len(b)
          /\ i = Len(a) + j /\ i + 1 = Len(a) + (j + 1)
      BY <1>1, <2>3
    <3>2. u[i] = b[j] /\ u[i + 1] = b[j + 1]
      BY <1>2, <3>1
    <3> HIDE DEF j
    <3> QED BY <3>1, <3>2 DEF Joined
  <2> QED BY <1>1, <2>1, <2>2, <2>3
<1>4. u # <<>> /\ u[Len(u)] = b[Len(b)] /\ (a # <<>> => u[1] = a[1])
  BY <1>1, <1>2
<1>5. Joined(u)
  BY <1>3 DEF Joined
<1> QED BY <1>1, <1>4, <1>5 DEF u

\* A message becomes lines that start it, follow each other and end it.
LEMMA WrapJoins ==
  ASSUME NEW m \in Messages
  PROVE  LET w == Wrap(m)
         IN  w \in Seq(Lines) /\ w # <<>> /\ Joined(w) /\ Starts(w[1]) /\ Ends(w[Len(w)])
<1> DEFINE n == Len(Segments(m))
           ss == [s \in 1 .. n |-> Pieces(m, s)]
<1>1. n \in Nat /\ n >= 1 /\ \A s \in 1 .. n : m.text[s] \in Nat
  BY SegmentsOf
<1>2. \A s \in 1 .. n : /\ ss[s] \in Seq(Lines) /\ Len(ss[s]) >= 1 /\ Joined(ss[s])
                        /\ \A k \in 1 .. Len(ss[s]) : ss[s][k].m = m /\ ss[s][k].seg = s
                        /\ ss[s][1].from = 0
                        /\ ss[s][Len(ss[s])].from + ss[s][Len(ss[s])].len = m.text[s]
  <2> SUFFICES ASSUME NEW s \in 1 .. n
               PROVE  /\ ss[s] \in Seq(Lines) /\ Len(ss[s]) >= 1 /\ Joined(ss[s])
                      /\ \A k \in 1 .. Len(ss[s]) : ss[s][k].m = m /\ ss[s][k].seg = s
                      /\ ss[s][1].from = 0
                      /\ ss[s][Len(ss[s])].from + ss[s][Len(ss[s])].len = m.text[s]
    OBVIOUS
  <2>1. ss[s] = Pieces(m, s)
    OBVIOUS
  <2> HIDE DEF ss
  <2> QED BY <2>1, PieceLines
<1>3. Wrap(m) = FlattenSeq(ss)
  BY DEF Wrap
<1> HIDE DEF n
<1>4. Len(ss) = n /\ ss \in Seq(Seq(Lines)) /\ ss # <<>>
  <2>1. ss \in [1 .. n -> Seq(Lines)]
    BY <1>2
  <2> HIDE DEF ss
  <2> QED BY <1>1, <2>1
<1> HIDE DEF ss
<1>5. PICK f : /\ f[1] = ss[1]
               /\ \A i \in 2 .. Len(ss) : f[i] = f[i - 1] \o ss[i]
               /\ f[Len(ss)] = FlattenSeq(ss)
  BY <1>4, Flattened, Zenon
<1> DEFINE Good(u, s) ==
             /\ u \in Seq(Lines) /\ u # <<>> /\ Joined(u) /\ Starts(u[1])
             /\ u[Len(u)].m = m /\ u[Len(u)].seg = s
             /\ u[Len(u)].from + u[Len(u)].len = m.text[s]
           B == {s \in 1 .. n : Good(f[s], s)}
<1>6. 1 \in B
  <2>1. 1 \in 1 .. n
    BY <1>1
  <2> DEFINE p == ss[1]
  <2>2. /\ p \in Seq(Lines) /\ Len(p) >= 1 /\ Joined(p)
        /\ \A k \in 1 .. Len(p) : p[k].m = m /\ p[k].seg = 1
        /\ p[1].from = 0
        /\ p[Len(p)].from + p[Len(p)].len = m.text[1]
    BY <1>2, <2>1
  <2>3. f[1] = p
    BY <1>5
  <2> HIDE DEF p, Lines
  <2>4. Len(p) \in Nat /\ 1 \in 1 .. Len(p) /\ Len(p) \in 1 .. Len(p)
    BY <2>2
  <2>5. Good(p, 1)
    BY <2>2, <2>4 DEF Starts
  <2> HIDE DEF Good
  <2> QED BY <2>1, <2>3, <2>5
<1>7. ASSUME NEW s \in 2 .. n, s - 1 \in B
      PROVE  s \in B
  <2> DEFINE p == ss[s]
             u == f[s - 1]
  <2>1. s \in 1 .. n /\ s - 1 \in 1 .. n /\ Good(u, s - 1) /\ s = (s - 1) + 1
    BY <1>1, <1>7
  <2>2. /\ p \in Seq(Lines) /\ Len(p) >= 1 /\ Joined(p)
        /\ \A k \in 1 .. Len(p) : p[k].m = m /\ p[k].seg = s
        /\ p[1].from = 0
        /\ p[Len(p)].from + p[Len(p)].len = m.text[s]
    BY <1>2, <2>1
  <2>3. f[s] = u \o p
    BY <1>4, <1>5
  <2> HIDE DEF p, u, Lines
  <2>4. Len(p) \in Nat /\ 1 \in 1 .. Len(p) /\ Len(p) \in 1 .. Len(p) /\ p # <<>>
    BY <2>2
  <2>5. Follows(u[Len(u)], p[1])
    BY <2>1, <2>2, <2>4 DEF Follows
  <2>6. /\ u \o p \in Seq(Lines) /\ u \o p # <<>> /\ Joined(u \o p)
        /\ (u \o p)[Len(u \o p)] = p[Len(p)]
        /\ (u \o p)[1] = u[1]
    BY <2>1, <2>2, <2>4, <2>5, JoinLines
  <2>7. Good(u \o p, s)
    BY <2>1, <2>2, <2>4, <2>6
  <2> HIDE DEF Good
  <2> QED BY <2>1, <2>3, <2>7
<1>8. n \in B
  <2> HIDE DEF B
  <2> QED BY <1>1, <1>6, <1>7, CountsUp
<1>9. Good(Wrap(m), n)
  BY <1>3, <1>4, <1>5, <1>8
<1>10. Ends(Wrap(m)[Len(Wrap(m))])
  BY <1>9 DEF Ends, n
<1> QED BY <1>9, <1>10

\* The texts of the boot picture fit as well.
LEMMA TextsFit ==
  /\ LET b == BitmapOf(\h41, 6, 18, "none")
     IN  16 + b.end <= 256 /\ LastPixel(b) < b.width * b.height
  /\ LET b == BitmapOf(\h41, 13, 12, "none")
     IN  16 + b.end <= 256 /\ LastPixel(b) < b.width * b.height
<1> DEFINE cell == [w |-> 12, h |-> 24]
           b1 == BitmapOf(\h41, 6, 18, "none")
           b2 == BitmapOf(\h41, 13, 12, "none")
<1>1. ASSUME NEW size \in {12, 18}
      PROVE  CellOf(\h41, size, "none") = cell
  <2>1. Script(\h41) = "ascii"
    BY DEF Script
  <2>2. FontOf(\h41, 6, "none") = 6
    BY <2>1 DEF FontOf
  <2>3. Cells[6] = cell
    BY DEF Cells
  <2> QED BY <2>2, <2>3 DEF CellOf
<1>2. Advance(cell, 18) = 9 /\ Advance(cell, 12) = 6
  BY DEF Advance
<1>3. b1 = [cell |-> cell, n |-> 6, size |-> 18, end |-> 54, width |-> 54, height |-> 19]
  BY <1>1, <1>2 DEF BitmapOf
<1>4. b2 = [cell |-> cell, n |-> 13, size |-> 12, end |-> 78, width |-> 78, height |-> 13]
  BY <1>1, <1>2 DEF BitmapOf
<1> HIDE DEF b1, b2
<1>5. Reach(b1) = [col |-> 8, row |-> 17] /\ Reach(b2) = [col |-> 5, row |-> 11]
  BY <1>3, <1>4 DEF Reach, Larger
<1>6. LastPixel(b1) = 971 /\ LastPixel(b2) = 935
  BY <1>2, <1>3, <1>4, <1>5 DEF LastPixel
<1> QED BY <1>3, <1>4, <1>6 DEF b1, b2

LEMMA KeepLastJoins ==
  ASSUME NEW s \in Seq(Lines), s # <<>>, Joined(s)
  PROVE  LET k == KeepLast(s)
         IN  k \in Seq(Lines) /\ k # <<>> /\ Joined(k) /\ k[Len(k)] = s[Len(s)]
<1>1. Len(s) \in Nat /\ Len(s) >= 1 /\ MaxLines \in Nat /\ MaxLines >= 1
  BY ScreenAssumption DEF Lines
<1>2. CASE KeepLast(s) = s
  BY <1>2
<1>3. CASE KeepLast(s) # s
  <2> DEFINE a == Len(s) - MaxLines
             k == SubSeq(s, a + 1, Len(s))
  <2>1. KeepLast(s) = k /\ Len(s) > MaxLines
    BY <1>3 DEF KeepLast
  <2>2. a \in Nat /\ a + MaxLines = Len(s)
    BY <1>1, <2>1
  <2>3. k \in Seq(Lines) /\ Len(k) = MaxLines
    <3> HIDE DEF Lines
    <3> QED BY <1>1, <2>1
  <2>4. \A i \in 1 .. MaxLines : k[i] = s[a + i]
    BY <1>1, <2>1
  <2> HIDE DEF a, k
  <2>5. Joined(k)
    <3> SUFFICES ASSUME NEW i \in 1 .. MaxLines - 1
                 PROVE  Follows(k[i], k[i + 1]) \/ (Ends(k[i]) /\ Starts(k[i + 1]))
      BY <2>3 DEF Joined
    <3>1. k[i] = s[a + i] /\ k[i + 1] = s[(a + i) + 1] /\ a + i \in 1 .. Len(s) - 1
      BY <1>1, <2>2, <2>4
    <3> QED BY <3>1 DEF Joined
  <2>6. k[Len(k)] = s[Len(s)] /\ k # <<>>
    BY <1>1, <2>2, <2>3, <2>4
  <2> QED BY <2>1, <2>3, <2>5, <2>6
<1> QED BY <1>2, <1>3

-----------------------------------------------------------------------------
(* The log is the end of what was logged.                                  *)

LogInv == log \in Seq(Lines) /\ Joined(log) /\ (log # <<>> => Ends(log[Len(log)]))

LEMMA AppendKeepsLog ==
  ASSUME LogInv, NEW m \in Messages, log' = KeepLast(log \o Wrap(m))
  PROVE  LogInv'
<1> DEFINE w == Wrap(m)
<1>1. w \in Seq(Lines) /\ w # <<>> /\ Joined(w) /\ Starts(w[1]) /\ Ends(w[Len(w)])
  BY WrapJoins
<1> HIDE DEF w
<1>2. /\ log \o w \in Seq(Lines) /\ log \o w # <<>> /\ Joined(log \o w)
      /\ (log \o w)[Len(log \o w)] = w[Len(w)]
  BY <1>1, JoinLines DEF LogInv
<1>3. /\ log' \in Seq(Lines) /\ log' # <<>> /\ Joined(log')
      /\ log'[Len(log')] = w[Len(w)]
  BY <1>2, KeepLastJoins DEF w
<1> QED BY <1>1, <1>3 DEF LogInv, Joined, Ends

\* Every step keeps the log as it is but AppendLog, Forget and a restart.
LEMMA LogStep == LogInv /\ [Next]_vars => LogInv'
<1> SUFFICES ASSUME LogInv, [Next]_vars PROVE LogInv'
  OBVIOUS
<1>1. CASE UNCHANGED log
  BY <1>1 DEF LogInv
<1>2. CASE log' = <<>>
  BY <1>2 DEF LogInv, Joined
<1>3. ASSUME NEW d \in Drawers, Draws(d) PROVE LogInv'
  <2>1. CASE AppendLog(d)
    BY <2>1, AppendKeepsLog DEF AppendLog
  <2>2. CASE Forget(d)
    BY <1>2, <2>2 DEF Forget
  <2>3. CASE ~ AppendLog(d) /\ ~ Forget(d)
    BY <1>1, <1>3, <2>3 DEF Draws, BeginIo, BeginLcd, BeginGyro, StartPart, Destroy, Unlink, Clean,
         Picture, SkipLine, OpenFont, DrawText, DrawLine, Render, StartDelay, EndDelay, drawvars
  <2> QED BY <2>1, <2>2, <2>3
<1>4. CASE AppUpdate \/ DisplayCommand \/ TakeRender \/ Transmit
  BY <1>1, <1>4 DEF AppUpdate, DisplayCommand, TakeRender, Transmit, drawvars
<1>5. CASE GyroPanic
  BY <1>2, <1>5 DEF GyroPanic
<1>6. CASE UNCHANGED vars
  BY <1>1, <1>6 DEF vars, drawvars
<1> QED BY <1>3, <1>4, <1>5, <1>6 DEF Next

\* The log shows the end of what was logged without a gap, whatever is logged,
\* however long, and whoever draws meanwhile (display.cpp:152-198).
THEOREM LogAlwaysTail == Spec => []LogIsTail
<1>1. Init => LogInv
  BY DEF Init, LogInv, Joined
<1>2. LogInv /\ [Next]_vars => LogInv'
  BY LogStep
<1>3. LogInv => LogIsTail
  BY DEF LogInv, LogIsTail, Joined, Last
<1> QED BY <1>1, <1>2, <1>3, PTL DEF Spec

-----------------------------------------------------------------------------
(* Every line of text is inside its bitmap.                                *)

Bitmaps == {BitmapOf(c, n, size, code) : c \in Letters, n \in Nat, size \in Sizes, code \in Codes}
Fits(x, b) == x + b.end <= 256 /\ LastPixel(b) < b.width * b.height
Drawings == {t \in [x : Nat, bitmap : Bitmaps, rendered : BOOLEAN, freed : BOOLEAN] :
               Fits(t.x, t.bitmap)}

TempInv == temp \in Seq(Drawings)

LEMMA BitmapIsOne ==
  ASSUME NEW c \in Letters, NEW n \in Nat, NEW size \in Sizes, NEW code \in Codes
  PROVE  BitmapOf(c, n, size, code) \in Bitmaps
BY DEF Bitmaps

LEMMA DrawnIsDrawing ==
  ASSUME NEW x \in Nat, NEW b \in Bitmaps, Fits(x, b)
  PROVE  Drawn(x, b) \in Drawings
<1>1. Drawn(x, b) \in [x : Nat, bitmap : Bitmaps, rendered : BOOLEAN, freed : BOOLEAN]
  BY DEF Drawn
<1>2. Drawn(x, b).x = x /\ Drawn(x, b).bitmap = b
  BY DEF Drawn
<1> QED BY <1>1, <1>2 DEF Drawings

LEMMA LineIsDrawing ==
  ASSUME NEW line \in Lines, NEW code \in TableCodes
  PROVE  Drawn(2, BitmapOf(line.m.letter, line.len, 12, code)) \in Drawings
<1> DEFINE b == BitmapOf(line.m.letter, line.len, 12, code)
<1>1. line.m.letter \in Letters /\ line.len \in 0 .. MaxCharPerLine /\ code \in Codes
  BY ScreenAssumption DEF Lines
<1>2. Fits(2, b)
  BY <1>1, LineFits DEF Fits
<1>3. line.len \in Nat /\ 12 \in Sizes
  BY <1>1 DEF MaxCharPerLine, Sizes
<1>4. b \in Bitmaps
  BY <1>1, <1>3, BitmapIsOne
<1>5. 2 \in Nat
  OBVIOUS
<1> HIDE DEF b
<1> QED BY <1>2, <1>4, <1>5, DrawnIsDrawing, Zenon DEF b

LEMMA TextIsDrawing ==
  ASSUME NEW t \in Texts, t.kept
  PROVE  Drawn(t.x, BitmapOf(\h41, t.letters, t.size, "none")) \in Drawings
<1>1. /\ ~ Text("title", 4, 1, 15, 16, FALSE).kept
      /\ Text("HkVLib", 16, 1, 6, 18, TRUE).x = 16
      /\ Text("HkVLib", 16, 1, 6, 18, TRUE).letters = 6
      /\ Text("HkVLib", 16, 1, 6, 18, TRUE).size = 18
      /\ Text("Firmware Boot", 16, MaxLines, 13, 12, TRUE).x = 16
      /\ Text("Firmware Boot", 16, MaxLines, 13, 12, TRUE).letters = 13
      /\ Text("Firmware Boot", 16, MaxLines, 13, 12, TRUE).size = 12
  BY DEF Text
<1>2. /\ t.x = 16
      /\ (t.letters = 6 /\ t.size = 18) \/ (t.letters = 13 /\ t.size = 12)
  BY <1>1, Zenon DEF Texts
<1> DEFINE b == BitmapOf(\h41, t.letters, t.size, "none")
<1>3. Fits(t.x, b)
  BY <1>2, TextsFit DEF Fits
<1>4. \h41 \in Letters /\ t.letters \in Nat /\ t.size \in Sizes /\ "none" \in Codes /\ t.x \in Nat
  BY <1>2 DEF Letters, Sizes, Codes
<1>5. b \in Bitmaps
  BY <1>4, BitmapIsOne, Zenon
<1> HIDE DEF b
<1> QED BY <1>3, <1>4, <1>5, DrawnIsDrawing, Zenon DEF b

\* Rendering or freeing a bitmap leaves it what it is.
LEMMA MarkedDrawing ==
  ASSUME NEW t \in Drawings
  PROVE  /\ [t EXCEPT !.freed = TRUE] \in Drawings
         /\ [t EXCEPT !.rendered = TRUE] \in Drawings
         /\ [t EXCEPT !.freed = TRUE].rendered = t.rendered
         /\ [t EXCEPT !.rendered = TRUE].freed = t.freed
         /\ [t EXCEPT !.rendered = TRUE].rendered = TRUE
<1> DEFINE Whole == [x : Nat, bitmap : Bitmaps, rendered : BOOLEAN, freed : BOOLEAN]
           f == [t EXCEPT !.freed = TRUE]
           r == [t EXCEPT !.rendered = TRUE]
<1>1. t \in Whole /\ Fits(t.x, t.bitmap)
  BY DEF Drawings
<1>2. /\ f \in Whole /\ r \in Whole
      /\ f.x = t.x /\ f.bitmap = t.bitmap /\ f.rendered = t.rendered
      /\ r.x = t.x /\ r.bitmap = t.bitmap /\ r.freed = t.freed /\ r.rendered = TRUE
  BY <1>1
<1> HIDE DEF f, r
<1>3. Fits(f.x, f.bitmap) /\ Fits(r.x, r.bitmap)
  BY <1>1, <1>2
<1>4. f \in Drawings /\ r \in Drawings
  BY <1>2, <1>3, Zenon DEF Drawings
<1> QED BY <1>2, <1>4 DEF f, r

\* The title of the screen is not kept; a step that draws text says which.
LEMMA TempStep == JobsInv /\ LogInv /\ TempInv /\ [Next]_vars => TempInv'
<1> SUFFICES ASSUME JobsInv, LogInv, TempInv, [Next]_vars PROVE TempInv'
  OBVIOUS
<1>1. CASE UNCHANGED temp
  BY <1>1 DEF TempInv
<1>2. CASE temp' = <<>>
  BY <1>2 DEF TempInv
<1>3. ASSUME NEW t \in Drawings, temp' = Append(temp, t)
      PROVE  TempInv'
  <2> HIDE DEF Drawings
  <2> QED BY <1>3 DEF TempInv
<1>4. ASSUME NEW f, temp' = [i \in DOMAIN temp |-> f[i]], \A i \in DOMAIN temp : f[i] \in Drawings
      PROVE  TempInv'
  <2> HIDE DEF Drawings
  <2> QED BY <1>4 DEF TempInv
<1>5. ASSUME NEW d \in Drawers, Draws(d) PROVE TempInv'
  <2>1. CASE Destroy(d)
    <3> DEFINE f == [i \in DOMAIN temp |-> [temp[i] EXCEPT !.freed = TRUE]]
    <3>1. ASSUME NEW i \in DOMAIN temp PROVE f[i] \in Drawings
      <4>1. temp[i] \in Drawings
        BY DEF TempInv
      <4>2. [temp[i] EXCEPT !.freed = TRUE] \in Drawings
        BY <4>1, MarkedDrawing, Zenon
      <4> QED BY <4>2
    <3>2. temp' = f
      BY <2>1 DEF Destroy
    <3>3. temp' = [i \in DOMAIN temp |-> f[i]]
      BY <3>2
    <3> HIDE DEF f
    <3> QED BY <1>4, <3>1, <3>3
  <2>2. CASE Render(d)
    <3> DEFINE f == [i \in DOMAIN temp |-> [temp[i] EXCEPT !.rendered = TRUE]]
    <3>1. ASSUME NEW i \in DOMAIN temp PROVE f[i] \in Drawings
      <4>1. temp[i] \in Drawings
        BY DEF TempInv
      <4>2. [temp[i] EXCEPT !.rendered = TRUE] \in Drawings
        BY <4>1, MarkedDrawing, Zenon
      <4> QED BY <4>2
    <3>2. temp' = f
      BY <2>2 DEF Render
    <3>3. temp' = [i \in DOMAIN temp |-> f[i]]
      BY <3>2
    <3> HIDE DEF f
    <3> QED BY <1>4, <3>1, <3>3
  <2>3. CASE Unlink(d)
    BY <1>2, <2>3 DEF Unlink
  <2>4. CASE DrawText(d)
    <3> DEFINE t == Head(job[d])
    <3>1. t \in Steps /\ t.op = "text"
      BY <2>4 DEF DrawText, Doing, JobsInv, Programs
    <3>2. t \in Texts
      BY <3>1, TextSteps
    <3>3. temp' = IF t.kept THEN Append(temp, Drawn(t.x, BitmapOf(\h41, t.letters, t.size, "none")))
                  ELSE temp
      BY <2>4 DEF DrawText
    <3> HIDE DEF t
    <3>4. CASE t.kept
      <4>1. Drawn(t.x, BitmapOf(\h41, t.letters, t.size, "none")) \in Drawings
        BY <3>2, <3>4, TextIsDrawing
      <4>2. temp' = Append(temp, Drawn(t.x, BitmapOf(\h41, t.letters, t.size, "none")))
        BY <3>3, <3>4
      <4> QED BY <1>3, <4>1, <4>2
    <3>5. CASE ~ t.kept
      BY <1>1, <3>3, <3>5
    <3> QED BY <3>4, <3>5
  <2>5. CASE DrawLine(d)
    <3>1. LineAt(d) \in Lines
      <4>1. Head(job[d]) \in Steps /\ Head(job[d]).op = "line"
        BY <2>5 DEF DrawLine, HasLine, Doing, JobsInv, Programs
      <4>2. Head(job[d]).i \in Nat \ {0} /\ Head(job[d]).i <= Len(log)
        BY <2>5, <4>1, LineSteps DEF DrawLine, HasLine
      <4> QED BY <4>2 DEF LogInv, LineAt
    <3>2. PICK code \in TableCodes :
            temp' = Append(temp, Drawn(2, BitmapOf(LineAt(d).m.letter, LineAt(d).len, 12, code)))
      BY <2>5 DEF DrawLine
    <3>3. Drawn(2, BitmapOf(LineAt(d).m.letter, LineAt(d).len, 12, code)) \in Drawings
      BY <3>1, LineIsDrawing
    <3> QED BY <1>3, <3>2, <3>3
  <2>6. CASE BeginIo(d) \/ BeginLcd(d) \/ BeginGyro(d) \/ StartPart(d) \/ AppendLog(d) \/ Forget(d)
             \/ Clean(d) \/ Picture(d) \/ SkipLine(d) \/ OpenFont(d) \/ StartDelay(d) \/ EndDelay(d)
    BY <1>1, <2>6 DEF BeginIo, BeginLcd, BeginGyro, StartPart, AppendLog, Forget, Clean, Picture,
                      SkipLine, OpenFont, StartDelay, EndDelay, drawvars
  <2> QED BY <1>5, <2>1, <2>2, <2>3, <2>4, <2>5, <2>6 DEF Draws
<1>6. CASE AppUpdate \/ DisplayCommand \/ TakeRender \/ Transmit
  BY <1>1, <1>6 DEF AppUpdate, DisplayCommand, TakeRender, Transmit, drawvars
<1>7. CASE GyroPanic
  BY <1>2, <1>7 DEF GyroPanic
<1>8. CASE UNCHANGED vars
  BY <1>1, <1>8 DEF vars, drawvars
<1> QED BY <1>5, <1>6, <1>7, <1>8 DEF Next

LEMMA InitialJobs == InitJob \in [Drawers -> Programs]
BY NoProgram, BootIsProgram DEF InitJob

LEMMA CallsArePrograms ==
  /\ DrawLog \o DrawLog \in Programs
  /\ \A call \in {DrawLog, Clear, DisplayPing} : call \in Programs
BY DrawLogIsProgram, ClearIsProgram, DisplayPingIsProgram, JoinPrograms

LEMMA JobsStep == JobsInv /\ [Next]_vars => JobsInv'
<1> SUFFICES ASSUME JobsInv, [Next]_vars PROVE JobsInv'
  OBVIOUS
<1>1. ASSUME NEW d \in Drawers, Draws(d) PROVE JobsInv'
  BY <1>1, Moves DEF JobsInv
<1>2. CASE AppUpdate
  BY <1>2, CallsArePrograms DEF AppUpdate, JobsInv
<1>3. CASE DisplayCommand
  <2>1. PICK call \in {DrawLog, Clear, DisplayPing} : job' = [job EXCEPT !["worker"] = call]
    BY <1>3 DEF DisplayCommand
  <2>2. call \in Programs
    BY CallsArePrograms
  <2> QED BY <2>1, <2>2 DEF JobsInv
<1>4. CASE TakeRender \/ Transmit \/ UNCHANGED vars
  BY <1>4 DEF TakeRender, Transmit, vars, JobsInv
<1>5. CASE GyroPanic
  BY <1>5, InitialJobs DEF GyroPanic, JobsInv
<1> QED BY <1>1, <1>2, <1>3, <1>4, <1>5 DEF Next

\* A line of text lies in the bitmap made for it and in the 256 columns of a
\* coordinate, whatever letters are logged, however many there are, and whoever else
\* draws between two steps of a call (cyberpi.cpp:126-129, 190, 200, 218).
THEOREM GlyphsAlwaysInside == Spec => []GlyphsInside
<1> DEFINE Inv == JobsInv /\ LogInv /\ TempInv
<1>1. Init => Inv
  BY InitialJobs DEF Init, JobsInv, LogInv, TempInv, Joined
<1>2. Inv /\ [Next]_vars => Inv'
  BY JobsStep, LogStep, TempStep
<1>3. Inv => GlyphsInside
  BY DEF TempInv, GlyphsInside, Drawings, Fits
<1> QED BY <1>1, <1>2, <1>3, PTL DEF Spec

-----------------------------------------------------------------------------
(* Each bitmap is destroyed once, after a render, while calls do not       *)
(* overlap.                                                                *)

\* one drawer has a call at a time
Solo == \A d, e \in Drawers : job[d] # <<>> /\ job[e] # <<>> => d = e

\* a destroyed bitmap is unlinked next; one that was not rendered will be, before it
\* is destroyed
Handled ==
  /\ \A i \in DOMAIN temp : temp[i].freed =>
        \E d \in Drawers : job[d] # <<>> /\ job[d][1].op = "unlink"
  /\ \A i \in DOMAIN temp : ~ temp[i].rendered => \E d \in Drawers : RendersNext(job[d], 0)

CareInv == Solo /\ Handled /\ harm = {}

LEMMA NoRenderLeft ==
  ASSUME NEW s \in Programs, RendersNext(s, 0)
  PROVE  s # <<>>
BY DEF RendersNext, Programs

LEMMA KeptRenders ==
  ASSUME NEW s \in Programs, s # <<>>, Keeps(s[1])
  PROVE  RendersNext(s, 0) /\ s[1].op \in {"line", "text"}
<1>1. s[1].op \in {"line", "text"}
  BY Zenon DEF Keeps
<1>2. RendersNext(s, 1) /\ 1 \in 1 .. Len(s) /\ Len(s) \in Nat
  BY DEF Programs, Orderly
<1>3. PICK i \in 1 + 1 .. Len(s) :
        s[i].op = "render" /\ \A m \in 1 + 1 .. i - 1 : s[m].op # "destroy"
  BY <1>2 DEF RendersNext
<1>4. i \in 0 + 1 .. Len(s) /\ \A m \in 0 + 1 .. i - 1 : s[m].op # "destroy"
  BY <1>1, <1>2, <1>3
<1>5. RendersNext(s, 0)
  BY <1>3, <1>4 DEF RendersNext
<1> QED BY <1>1, <1>5

LEMMA SoloStep ==
  ASSUME ~ Overlap, JobsInv, Solo, [Next]_vars
  PROVE  Solo'
<1>1. ASSUME NEW d \in Drawers, Draws(d) PROVE Solo'
  <2>1. job[d] # <<>> /\ \A e \in Drawers : e # d => job'[e] = job[e]
    BY <1>1, Moves
  <2>2. \A e \in Drawers : e # d => job'[e] = <<>>
    BY <2>1 DEF Solo
  <2> QED BY <2>2 DEF Solo
<1>2. CASE AppUpdate
  <2>1. "boot" \in Drawers /\ \A d \in Drawers : job[d] = <<>>
    BY <1>2, ScreenAssumption DEF AppUpdate
  <2>2. \A d \in Drawers : d # "boot" => job'[d] = <<>>
    BY <1>2, <2>1 DEF AppUpdate, JobsInv
  <2> QED BY <2>2 DEF Solo
<1>3. CASE DisplayCommand
  <2>1. \A d \in Drawers : job[d] = <<>>
    BY <1>3, ScreenAssumption DEF DisplayCommand
  <2>2. \A d \in Drawers : d # "worker" => job'[d] = <<>>
    BY <1>3, <2>1 DEF DisplayCommand, JobsInv
  <2> QED BY <2>2 DEF Solo
<1>4. CASE TakeRender \/ Transmit \/ UNCHANGED vars
  BY <1>4 DEF TakeRender, Transmit, vars, Solo
<1>5. CASE GyroPanic
  <2>1. \A d \in Drawers : d # "boot" => job'[d] = <<>>
    BY <1>5 DEF GyroPanic, InitJob
  <2> QED BY <2>1 DEF Solo
<1> QED BY <1>1, <1>2, <1>3, <1>4, <1>5 DEF Next

\* While nobody draws every bitmap is rendered and none is left that was destroyed.
LEMMA NothingPending ==
  ASSUME JobsInv, Handled, \A d \in Drawers : job[d] = <<>>
  PROVE  \A i \in DOMAIN temp : temp[i].rendered /\ ~ temp[i].freed
<1>1. \A d \in Drawers : ~ RendersNext(job[d], 0)
  BY NoRenderLeft DEF JobsInv
<1> QED BY <1>1 DEF Handled

\* While d has a call, what is said of some drawer is said of d.
LEMMA PendingIsMine ==
  ASSUME JobsInv, Solo, Handled, NEW d \in Drawers, job[d] # <<>>, NEW i \in DOMAIN temp
  PROVE  /\ temp[i].freed => job[d][1].op = "unlink"
         /\ ~ temp[i].rendered => RendersNext(job[d], 0)
<1>1. \A e \in Drawers : RendersNext(job[e], 0) => job[e] # <<>>
  BY NoRenderLeft DEF JobsInv
<1>2. \A e \in Drawers : job[e] # <<>> => e = d
  BY DEF Solo
<1>3. temp[i].freed => job[d][1].op = "unlink"
  <2> SUFFICES ASSUME temp[i].freed PROVE job[d][1].op = "unlink"
    OBVIOUS
  <2>1. PICK e \in Drawers : job[e] # <<>> /\ job[e][1].op = "unlink"
    BY Zenon DEF Handled
  <2> QED BY <1>2, <2>1
<1>4. ~ temp[i].rendered => RendersNext(job[d], 0)
  <2> SUFFICES ASSUME ~ temp[i].rendered PROVE RendersNext(job[d], 0)
    OBVIOUS
  <2>1. PICK e \in Drawers : RendersNext(job[e], 0)
    BY Zenon DEF Handled
  <2> QED BY <1>1, <1>2, <2>1
<1> QED BY <1>3, <1>4

LEMMA DrawsHandle ==
  ASSUME JobsInv, LogInv, TempInv, Solo, Handled, harm = {}, NEW d \in Drawers, Draws(d)
  PROVE  Handled' /\ harm' = {}
<1> DEFINE s == job[d]
<1>1. /\ s \in Programs /\ s # <<>> /\ Head(s) = s[1]
      /\ job'[d] \in Programs
      /\ RendersNext(s, 0) /\ s[1].op # "render" => RendersNext(job'[d], 0)
  <2>1. s # <<>> /\ job' \in [Drawers -> Programs]
        /\ (RendersNext(s, 0) /\ s[1].op # "render" => RendersNext(job'[d], 0))
    BY Moves
  <2>2. s \in Programs
    BY DEF JobsInv
  <2> QED BY <2>1, <2>2 DEF Programs
<1>2. \A i \in DOMAIN temp : /\ temp[i].freed => s[1].op = "unlink"
                             /\ ~ temp[i].rendered => RendersNext(s, 0)
  BY <1>1, PendingIsMine
<1> HIDE DEF s
<1>3. ASSUME UNCHANGED temp, s[1].op # "unlink", s[1].op # "render"
      PROVE  Handled'
  <2>1. \A i \in DOMAIN temp' : ~ temp'[i].freed
    BY <1>2, <1>3
  <2>2. \A i \in DOMAIN temp' : ~ temp'[i].rendered => RendersNext(job'[d], 0)
    BY <1>1, <1>2, <1>3
  <2> QED BY <2>1, <2>2 DEF Handled
<1>4. ASSUME NEW x, NEW b, Drawn(x, b) \in Drawings, temp' = Append(temp, Drawn(x, b)),
             Keeps(s[1])
      PROVE  Handled'
  <2>1. RendersNext(job'[d], 0) /\ s[1].op # "unlink"
    BY <1>1, <1>4, KeptRenders
  <2>2. DOMAIN temp' = 1 .. Len(temp) + 1 /\ DOMAIN temp = 1 .. Len(temp)
    <3> HIDE DEF Drawings
    <3> QED BY <1>4 DEF TempInv
  <2>3. \A i \in DOMAIN temp : temp'[i] = temp[i]
    <3> HIDE DEF Drawings
    <3> QED BY <1>4 DEF TempInv
  <2>4. temp'[Len(temp) + 1] = Drawn(x, b) /\ Len(temp) \in Nat
    <3> HIDE DEF Drawings
    <3> QED BY <1>4 DEF TempInv
  <2>5. \A i \in DOMAIN temp' : i \in DOMAIN temp \/ i = Len(temp) + 1
    BY <2>2, <2>4
  <2>6. ~ Drawn(x, b).freed
    BY DEF Drawn
  <2>7. \A i \in DOMAIN temp' : ~ temp'[i].freed
    BY <1>2, <2>1, <2>3, <2>4, <2>5, <2>6
  <2> QED BY <2>1, <2>7 DEF Handled
<1>5. CASE Destroy(d)
  <2>1. s[1].op = "destroy"
    BY <1>1, <1>5 DEF Destroy, Doing, s
  <2>2. \A i \in DOMAIN temp : temp[i].rendered /\ ~ temp[i].freed
    BY <1>1, <1>2, <2>1, RestOfProgram
  <2>3. harm' = {}
    BY <1>5, <2>2 DEF Destroy
  <2>4. job'[d] # <<>> /\ job'[d][1].op = "unlink"
    <3>1. job' = [job EXCEPT ![d] = Tail(s)]
      BY <1>5 DEF Destroy, Done, s
    <3>2. Tail(s) # <<>> /\ Tail(s)[1].op = "unlink"
      BY <1>1, <2>1, RestOfProgram
    <3> QED BY <3>1, <3>2 DEF JobsInv
  <2>5. \A i \in DOMAIN temp' : temp'[i].rendered
    <3>1. temp' = [i \in DOMAIN temp |-> [temp[i] EXCEPT !.freed = TRUE]]
      BY <1>5 DEF Destroy
    <3> SUFFICES ASSUME NEW i \in DOMAIN temp' PROVE temp'[i].rendered
      OBVIOUS
    <3>2. i \in DOMAIN temp /\ temp'[i] = [temp[i] EXCEPT !.freed = TRUE]
      BY <3>1, Zenon
    <3>3. temp[i] \in Drawings
      BY <3>2 DEF TempInv
    <3>4. temp'[i].rendered = temp[i].rendered
      BY <3>2, <3>3, MarkedDrawing, Zenon
    <3> QED BY <2>2, <3>2, <3>4, Zenon
  <2> QED BY <2>3, <2>4, <2>5, Zenon DEF Handled
<1>6. CASE Unlink(d)
  BY <1>6 DEF Unlink, Handled
<1>7. CASE Render(d)
  <2>1. s[1].op = "render"
    BY <1>1, <1>7 DEF Render, Doing, s
  <2>2. temp' = [i \in DOMAIN temp |-> [temp[i] EXCEPT !.rendered = TRUE]] /\ harm' = harm
    BY <1>7 DEF Render
  <2>3. ASSUME NEW i \in DOMAIN temp' PROVE temp'[i].rendered /\ ~ temp'[i].freed
    <3>1. i \in DOMAIN temp /\ temp'[i] = [temp[i] EXCEPT !.rendered = TRUE]
      BY <2>2, Zenon
    <3>2. temp[i] \in Drawings
      BY <3>1 DEF TempInv
    <3>3. temp'[i].freed = temp[i].freed /\ temp'[i].rendered = TRUE
      BY <3>1, <3>2, MarkedDrawing, Zenon
    <3>4. ~ temp[i].freed
      <4>1. s[1].op # "unlink"
        BY <2>1
      <4> QED BY <1>2, <3>1, <4>1, Zenon
    <3> QED BY <3>3, <3>4, Zenon
  <2> QED BY <2>2, <2>3, Zenon DEF Handled
<1>8. CASE DrawText(d)
  <2> DEFINE t == s[1]
             b == BitmapOf(\h41, t.letters, t.size, "none")
  <2>1. t \in Steps /\ t.op = "text" /\ harm' = harm
    BY <1>1, <1>8 DEF DrawText, Doing, Programs, s
  <2>2. temp' = IF t.kept THEN Append(temp, Drawn(t.x, b)) ELSE temp
    BY <1>1, <1>8 DEF DrawText, s
  <2> HIDE DEF t, b
  <2>3. CASE t.kept
    <3>1. temp' = Append(temp, Drawn(t.x, b)) /\ Keeps(t)
      BY <2>1, <2>2, <2>3, Zenon DEF Keeps
    <3>2. Drawn(t.x, b) \in Drawings
      BY <2>1, <2>3, TextSteps, TextIsDrawing DEF b
    <3> QED BY <1>4, <2>1, <3>1, <3>2 DEF t
  <2>4. CASE ~ t.kept
    BY <1>3, <2>1, <2>2, <2>4 DEF t
  <2> QED BY <2>3, <2>4
<1>9. CASE DrawLine(d)
  <2>1. s[1] \in Steps /\ s[1].op = "line" /\ harm' = harm
    BY <1>1, <1>9 DEF DrawLine, HasLine, Doing, Programs, s
  <2>2. Keeps(s[1])
    BY <2>1 DEF Keeps
  <2>3. LineAt(d) \in Lines
    BY <1>1, <1>9, <2>1, LineSteps DEF DrawLine, HasLine, LineAt, LogInv, s
  <2>4. PICK code \in TableCodes :
          temp' = Append(temp, Drawn(2, BitmapOf(LineAt(d).m.letter, LineAt(d).len, 12, code)))
    BY <1>9 DEF DrawLine
  <2>5. Drawn(2, BitmapOf(LineAt(d).m.letter, LineAt(d).len, 12, code)) \in Drawings
    BY <2>3, LineIsDrawing
  <2> QED BY <1>4, <2>1, <2>2, <2>4, <2>5
<1>10. CASE OpenFont(d)
  <2>1. s[1].op = "text" \/ s[1].op = "line"
    BY <1>1, <1>10 DEF OpenFont, Doing, HasLine, s
  <2> QED BY <1>3, <1>10, <2>1 DEF OpenFont, drawvars
<1>11. CASE SkipLine(d) \/ StartDelay(d) \/ EndDelay(d)
  <2>1. s[1].op \in {"line", "delay", "delaying"}
    BY <1>1, <1>11 DEF SkipLine, StartDelay, EndDelay, Doing, s
  <2> QED BY <1>3, <1>11, <2>1 DEF SkipLine, StartDelay, EndDelay, drawvars
<1>12. CASE BeginIo(d) \/ BeginLcd(d) \/ BeginGyro(d) \/ StartPart(d)
  <2>1. s[1].op \in {"io", "lcd", "gyro", "threads", "ready", "console"}
    BY <1>1, <1>12 DEF BeginIo, BeginLcd, BeginGyro, StartPart, Doing, s
  <2> QED BY <1>3, <1>12, <2>1 DEF BeginIo, BeginLcd, BeginGyro, StartPart, drawvars
<1>13. CASE AppendLog(d) \/ Forget(d) \/ Clean(d) \/ Picture(d)
  <2>1. s[1].op \in {"append", "forget", "clean", "picture"}
    BY <1>1, <1>13 DEF AppendLog, Forget, Clean, Picture, Doing, s
  <2> QED BY <1>3, <1>13, <2>1 DEF AppendLog, Forget, Clean, Picture
<1> QED BY <1>5, <1>6, <1>7, <1>8, <1>9, <1>10, <1>11, <1>12, <1>13 DEF Draws, Unlink

LEMMA CareStep == ~ Overlap /\ JobsInv /\ LogInv /\ TempInv /\ CareInv /\ [Next]_vars => CareInv'
<1> SUFFICES ASSUME ~ Overlap, JobsInv, LogInv, TempInv, CareInv, [Next]_vars PROVE CareInv'
  OBVIOUS
<1>1. Solo'
  BY SoloStep DEF CareInv
<1>2. ASSUME NEW d \in Drawers, Draws(d) PROVE Handled' /\ harm' = {}
  BY <1>2, DrawsHandle DEF CareInv
<1>3. CASE temp' = temp /\ harm' = harm /\ \A d \in Drawers : job[d] = <<>>
  <2>1. \A i \in DOMAIN temp' : temp'[i].rendered /\ ~ temp'[i].freed
    BY <1>3, NothingPending, Zenon DEF CareInv
  <2>2. Handled'
    BY <2>1, Zenon DEF Handled
  <2> QED BY <1>1, <1>3, <2>2 DEF CareInv
<1>4. CASE AppUpdate \/ DisplayCommand
  <2>1. \A d \in Drawers : job[d] = <<>>
    BY <1>4, ScreenAssumption DEF AppUpdate, DisplayCommand
  <2> QED BY <1>3, <1>4, <2>1 DEF AppUpdate, DisplayCommand, drawvars
<1>5. CASE TakeRender \/ Transmit \/ UNCHANGED vars
  <2>1. UNCHANGED <<temp, harm, job>>
    BY <1>5 DEF TakeRender, Transmit, vars, drawvars
  <2>2. Handled'
    BY <2>1, Zenon DEF CareInv, Handled
  <2> QED BY <1>1, <2>1, <2>2 DEF CareInv
<1>6. CASE GyroPanic
  <2>1. temp' = <<>> /\ harm' = {}
    BY <1>6 DEF GyroPanic
  <2>2. DOMAIN temp' = {}
    BY <2>1
  <2>3. Handled'
    BY <2>2, Zenon DEF Handled
  <2> QED BY <1>1, <2>1, <2>3 DEF CareInv
<1> QED BY <1>1, <1>2, <1>4, <1>5, <1>6 DEF Next, CareInv

\* When no two calls overlap each bitmap is destroyed once, and only after a render:
\* for every number of lines, messages, updates and commands, and with restarts
\* (display.cpp:65 "DON'T destroy before rendering!").
THEOREM AlwaysDestroyedOnce == ASSUME ~ Overlap PROVE Spec => []DestroyedOnce
<1> DEFINE Inv == JobsInv /\ LogInv /\ TempInv /\ CareInv
<1>1. Init => Inv
  <2> SUFFICES ASSUME Init PROVE Inv
    OBVIOUS
  <2>1. JobsInv /\ LogInv /\ TempInv
    BY InitialJobs DEF Init, JobsInv, LogInv, TempInv, Joined
  <2>2. Solo
    <3>1. \A d \in Drawers : d # "boot" => job[d] = <<>>
      BY DEF Init, InitJob
    <3> QED BY <3>1 DEF Solo
  <2>3. Handled /\ harm = {}
    BY DEF Init, Handled
  <2> QED BY <2>1, <2>2, <2>3 DEF CareInv
<1>2. Inv /\ [Next]_vars => Inv'
  BY JobsStep, LogStep, TempStep, CareStep
<1>3. Inv => DestroyedOnce
  BY DEF CareInv, DestroyedOnce
<1> QED BY <1>1, <1>2, <1>3, PTL DEF Spec
=============================================================================
