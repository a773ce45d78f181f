---------------------------- MODULE ConsoleProofs ----------------------------
(***************************************************************************)
(* Console.tla, for every size of the screen: the cursor stays on it, the  *)
(* waits miss no row, and it shows the end of the tape of Terminal.tla.    *)
(***************************************************************************)
EXTENDS Console, TLAPS

-----------------------------------------------------------------------------
(* The cells of the screen: rows do not overlap, and a row further down is *)
(* Cols cells further on.                                                  *)

LEMMA TimesMonotone ==
  ASSUME NEW a \in Nat, NEW b \in Nat, NEW c \in Nat, a <= b
  PROVE  a * c \in Nat /\ a * c <= b * c
<1> DEFINE d == b - a
<1>1. d \in Nat /\ b = a + d
  OBVIOUS
<1>2. (a + d) * c = a * c + d * c
  BY <1>1
<1>3. a * c \in Nat /\ d * c \in Nat
  BY <1>1
<1> HIDE DEF d
<1>4. QED
  BY <1>1, <1>2, <1>3

LEMMA NextRow ==
  ASSUME NEW r \in Nat
  PROVE  (r + 1) * Cols = r * Cols + Cols
BY ConsoleAssumption

LEMMA RowFits ==
  ASSUME NEW r \in Nat, NEW s \in Nat, r < s
  PROVE  /\ r * Cols \in Nat /\ s * Cols \in Nat
         /\ r * Cols + Cols <= s * Cols
<1>1. Cols \in Nat
  BY ConsoleAssumption
<1>2. (r + 1) * Cols = r * Cols + Cols
  BY NextRow
<1>3. r + 1 \in Nat /\ r + 1 <= s
  OBVIOUS
<1>4. /\ (r + 1) * Cols \in Nat
      /\ (r + 1) * Cols <= s * Cols
  BY <1>1, <1>3, TimesMonotone
<1>5. r * Cols \in Nat /\ s * Cols \in Nat
  BY <1>1, TimesMonotone
<1>6. QED
  BY <1>2, <1>4, <1>5

LEMMA AtOnScreen ==
  ASSUME NEW r \in Row, NEW c \in Column
  PROVE  At(r, c) \in Index
<1>1. r \in Nat /\ Rows \in Nat /\ r < Rows /\ c \in Nat /\ c < Cols /\ Cols \in Nat
  BY ConsoleAssumption DEF Row, Column
<1>2. r * Cols \in Nat /\ Rows * Cols \in Nat /\ r * Cols + Cols <= Rows * Cols
  BY <1>1, RowFits
<1>3. QED
  BY <1>1, <1>2 DEF At, Index

LEMMA AtDistinct ==
  ASSUME NEW r \in Row, NEW c \in Column, NEW s \in Row, NEW d \in Column,
         At(r, c) = At(s, d)
  PROVE  r = s /\ c = d
<1>1. /\ r \in Nat /\ s \in Nat /\ c \in Nat /\ d \in Nat
      /\ Cols \in Nat /\ c < Cols /\ d < Cols
  BY ConsoleAssumption DEF Row, Column
<1>2. r * Cols \in Nat /\ s * Cols \in Nat
  BY <1>1, TimesMonotone
<1>3. r * Cols + c = s * Cols + d
  BY DEF At
<1>4. ~(r < s)
  <2>1. r < s => r * Cols + Cols <= s * Cols
    BY <1>1, RowFits
  <2>2. QED
    BY <1>1, <1>2, <1>3, <2>1
<1>5. ~(s < r)
  <2>1. s < r => s * Cols + Cols <= r * Cols
    BY <1>1, RowFits
  <2>2. QED
    BY <1>1, <1>2, <1>3, <2>1
<1>6. r = s
  BY <1>1, <1>4, <1>5
<1>7. QED
  BY <1>1, <1>2, <1>3, <1>6

\* What scrolling by one row does, row by row.
LEMMA ScrollRows ==
  ASSUME NEW buf, NEW r \in Row, NEW c \in Column
  PROVE  VscrollUp(buf, 1)[At(r, c)] =
           IF r = Rows - 1 THEN Blank ELSE buf[At(r + 1, c)]
<1>1. /\ r \in Nat /\ Rows \in Nat /\ r < Rows /\ c \in Nat /\ Cols \in Nat /\ Rows >= 1
      /\ c < Cols
  BY ConsoleAssumption DEF Row, Column
<1>2. At(r, c) \in Index
  BY AtOnScreen
<1>3. r * Cols \in Nat /\ Rows * Cols \in Nat /\ (r + 1) * Cols = r * Cols + Cols
  BY <1>1, RowFits, NextRow
<1>4. At(r, c) + Cols = At(r + 1, c)
  BY <1>1, <1>3 DEF At
<1>5. VscrollUp(buf, 1)[At(r, c)] =
        IF At(r, c) + Cols \in Index THEN buf[At(r, c) + Cols] ELSE Blank
  <2>1. ~(1 > Rows) /\ 1 * Cols = Cols
    BY <1>1
  <2>2. (IF 1 > Rows THEN Rows ELSE 1) * Cols = Cols
    BY <2>1
  <2>3. QED
    BY <1>2, <2>2 DEF VscrollUp
<1>6. CASE r = Rows - 1
  <2>1. At(r, c) + Cols = Rows * Cols + c
    BY <1>1, <1>3, <1>6 DEF At
  <2>2. At(r, c) + Cols \notin Index
    BY <1>1, <1>3, <2>1 DEF Index
  <2>3. QED
    BY <1>5, <1>6, <2>2
<1>7. CASE r # Rows - 1
  <2>1. r + 1 \in Row
    BY <1>1, <1>7 DEF Row
  <2>2. At(r + 1, c) \in Index
    BY <2>1, AtOnScreen
  <2>3. QED
    BY <1>4, <1>5, <1>7, <2>2
<1>8. QED
  BY <1>6, <1>7

-----------------------------------------------------------------------------
(* The invariant.  The cursor never leaves the last row; rows that nobody  *)
(* has had time to read are those scrolled since the last wait, and that   *)
(* one.                                                                    *)

UnseenAtEnd == \A r \in Row : seen[r] \/ r >= Rows - 1 - hw_txt_scrolled

IInv ==
  /\ TypeOK
  /\ hw_txt_stdout_row = Rows - 1
  /\ hw_txt_scrolled = 0 \/ hw_txt_scrolled < Rows \div 4
  /\ UnseenAtEnd

\* printf leaves the row of the cursor, by scrolling, or stays in it.
InRow(ch) ==
  /\ ch # Newline /\ hw_txt_stdout_col < Cols
  /\ hw_txt_colorbuf' =
       [hw_txt_colorbuf EXCEPT ![At(Rows - 1, hw_txt_stdout_col)] = <<ch, hw_txt_color>>]
  /\ hw_txt_stdout_col' = hw_txt_stdout_col + 1
  /\ seen' = [seen EXCEPT ![Rows - 1] = FALSE]
  /\ UNCHANGED <<hw_txt_stdout_row, hw_txt_scrolled, hw_txt_color, gone>>

Scrolled == VscrollUp(hw_txt_colorbuf, 1)
Known == [r \in Row |-> Waits \/ r = Rows - 1 \/ seen[r + 1]]

NewRow(ch) ==
  /\ IF ch = Newline
     THEN hw_txt_stdout_col' = 0 /\ hw_txt_colorbuf' = Scrolled /\ seen' = Known
     ELSE /\ hw_txt_stdout_col = Cols
          /\ hw_txt_stdout_col' = 1
          /\ hw_txt_colorbuf' = [Scrolled EXCEPT ![At(Rows - 1, 0)] = <<ch, hw_txt_color>>]
          /\ seen' = [Known EXCEPT ![Rows - 1] = FALSE]
  /\ hw_txt_scrolled' = IF Waits THEN 0 ELSE hw_txt_scrolled + 1
  /\ gone' = Append(gone, RowOf(hw_txt_colorbuf, 0))
  /\ UNCHANGED <<hw_txt_stdout_row, hw_txt_color>>

LEMMA PutCharCases ==
  ASSUME IInv, NEW ch, PutChar(ch)
  PROVE  InRow(ch) \/ NewRow(ch)
<1>1. /\ Rows \in Nat /\ Rows >= 1 /\ Cols \in Nat /\ Cols >= 1
      /\ hw_txt_stdout_row = Rows - 1 /\ hw_txt_stdout_col \in Nat
      /\ hw_txt_stdout_col <= Cols
  BY ConsoleAssumption DEF IInv, TypeOK
<1>2. CASE PastLine(ch)
  <2>1. /\ hw_txt_stdout_row + (IF PastLine(ch) THEN 1 ELSE 0) >= Rows
        /\ ch # Newline => hw_txt_stdout_col = Cols
    BY <1>1, <1>2 DEF PastLine
  <2>2. NewRow(ch)
    BY <1>1, <1>2, <2>1 DEF PutChar, NewRow, Scrolled, Known
  <2>3. QED
    BY <2>2
<1>3. CASE ~PastLine(ch)
  <2>1. /\ ~(hw_txt_stdout_row + (IF PastLine(ch) THEN 1 ELSE 0) >= Rows)
        /\ ch # Newline /\ hw_txt_stdout_col < Cols
    BY <1>1, <1>3 DEF PastLine
  <2>2. InRow(ch)
    BY <1>1, <1>3, <2>1 DEF PutChar, InRow
  <2>3. QED
    BY <2>2
<1>4. QED
  BY <1>2, <1>3

LEMMA InitIInv == Init => IInv
<1> SUFFICES ASSUME Init PROVE IInv
  OBVIOUS
<1>1. Rows \in Nat /\ Rows >= 1 /\ Cols \in Nat /\ Cols >= 1
  BY ConsoleAssumption
<1>2. TypeOK
  <2>1. hw_txt_colorbuf \in [Index -> Cells]
    BY DEF Init, ClearScreen, Cells
  <2>2. hw_txt_stdout_row \in Row /\ hw_txt_stdout_col \in 0 .. Cols /\ hw_txt_scrolled \in Nat
    BY <1>1 DEF Init, Row
  <2>3. hw_txt_color \in Ink /\ gone \in Seq([Column -> Cells]) /\ seen \in [Row -> BOOLEAN]
    BY DEF Init, Ink
  <2>4. QED
    BY <2>1, <2>2, <2>3 DEF TypeOK
<1>3. UnseenAtEnd
  BY DEF Init, UnseenAtEnd
<1>4. QED
  BY <1>2, <1>3 DEF IInv, Init

\* The rows nobody has read, after printf.
LEMMA UnseenNext ==
  ASSUME IInv, NEW ch, InRow(ch) \/ NewRow(ch)
  PROVE  /\ UnseenAtEnd'
         /\ hw_txt_scrolled' \in Nat
         /\ hw_txt_scrolled' = 0 \/ hw_txt_scrolled' < Rows \div 4
         /\ seen' \in [Row -> BOOLEAN]
         /\ gone' # gone => seen[0] \/ hw_txt_scrolled' = 0
<1>1. /\ Rows \in Nat /\ Rows >= 1 /\ hw_txt_scrolled \in Nat
      /\ hw_txt_scrolled = 0 \/ hw_txt_scrolled < Rows \div 4
      /\ seen \in [Row -> BOOLEAN] /\ UnseenAtEnd
  BY ConsoleAssumption DEF IInv, TypeOK
<1>2. CASE InRow(ch)
  <2>1. /\ seen' = [seen EXCEPT ![Rows - 1] = FALSE]
        /\ hw_txt_scrolled' = hw_txt_scrolled /\ gone' = gone
    BY <1>2 DEF InRow
  <2>2. ASSUME NEW r \in Row
        PROVE  seen'[r] \/ r >= Rows - 1 - hw_txt_scrolled
    <3>1. CASE r = Rows - 1
      BY <1>1, <3>1
    <3>2. CASE r # Rows - 1
      <4>1. seen'[r] = seen[r]
        BY <1>1, <2>1, <3>2
      <4>2. QED
        BY <1>1, <4>1 DEF UnseenAtEnd
    <3>3. QED
      BY <3>1, <3>2
  <2>3. QED
    BY <1>1, <2>1, <2>2 DEF UnseenAtEnd
<1>3. CASE NewRow(ch)
  <2>1. /\ hw_txt_scrolled' = IF Waits THEN 0 ELSE hw_txt_scrolled + 1
        /\ seen' = Known \/ seen' = [Known EXCEPT ![Rows - 1] = FALSE]
    BY <1>3 DEF NewRow
  <2>2. ~Waits => hw_txt_scrolled + 1 < Rows \div 4
    BY <1>1 DEF Waits
  <2>3. hw_txt_scrolled' \in Nat /\ (hw_txt_scrolled' = 0 \/ hw_txt_scrolled' < Rows \div 4)
    BY <1>1, <2>1, <2>2
  <2>4. Waits \in BOOLEAN
    BY DEF Waits
  <2>5. ASSUME NEW r \in Row, r # Rows - 1
        PROVE  Known[r] = (Waits \/ seen[r + 1]) /\ r + 1 \in Row
    BY <1>1, <2>5 DEF Known, Row
  <2>6. Known \in [Row -> BOOLEAN]
    <3>1. ASSUME NEW r \in Row
          PROVE  (Waits \/ r = Rows - 1 \/ seen[r + 1]) \in BOOLEAN
      OBVIOUS
    <3>2. QED
      BY <3>1 DEF Known
  <2>7. seen' \in [Row -> BOOLEAN]
    BY <2>1, <2>6
  <2>8. ASSUME NEW r \in Row
        PROVE  seen'[r] \/ r >= Rows - 1 - hw_txt_scrolled'
    <3>1. CASE r = Rows - 1
      <4>1. hw_txt_scrolled' \in Nat /\ Rows \in Nat
        BY <1>1, <2>3
      <4>2. \A n \in Nat : Rows - 1 >= Rows - 1 - n
        BY <4>1
      <4>3. QED
        BY <3>1, <4>1, <4>2
    <3>2. CASE r # Rows - 1
      <4>1. seen'[r] = Known[r]
        BY <2>1, <2>6, <3>2
      <4>2. Known[r] = (Waits \/ seen[r + 1]) /\ r + 1 \in Row
        BY <2>5, <3>2
      <4>3. CASE Waits
        BY <4>1, <4>2, <4>3
      <4>4. CASE ~Waits
        <5>1. seen[r + 1] \/ r + 1 >= Rows - 1 - hw_txt_scrolled
          BY <1>1, <4>2 DEF UnseenAtEnd
        <5>2. hw_txt_scrolled' = hw_txt_scrolled + 1
          BY <2>1, <4>4
        <5>3. CASE seen[r + 1]
          BY <4>1, <4>2, <5>3
        <5>4. CASE r + 1 >= Rows - 1 - hw_txt_scrolled
          BY <1>1, <5>2, <5>4 DEF Row
        <5>5. QED
          BY <5>1, <5>3, <5>4
      <4>5. QED
        BY <4>3, <4>4
    <3>3. QED
      BY <3>1, <3>2
  <2>9. seen[0] \/ hw_txt_scrolled' = 0
    <3>1. CASE Waits
      BY <2>1, <3>1
    <3>2. CASE ~Waits
      <4>1. 0 \in Row /\ ~(0 >= Rows - 1 - hw_txt_scrolled)
        BY <1>1, <2>2, <3>2 DEF Row
      <4>2. QED
        BY <1>1, <4>1 DEF UnseenAtEnd
    <3>3. QED
      BY <3>1, <3>2
  <2>10. UnseenAtEnd'
    BY <2>8 DEF UnseenAtEnd
  <2>11. QED
    BY <2>3, <2>7, <2>9, <2>10
<1>4. QED
  BY <1>2, <1>3

\* The screen, after printf.
LEMMA ScreenNext ==
  ASSUME IInv, NEW ch \in Chars \cup {Newline}, InRow(ch) \/ NewRow(ch)
  PROVE  /\ hw_txt_colorbuf' \in [Index -> Cells]
         /\ hw_txt_stdout_col' \in 0 .. Cols
         /\ gone' \in Seq([Column -> Cells])
<1>1. /\ Rows \in Nat /\ Rows >= 1 /\ Cols \in Nat /\ Cols >= 1
      /\ hw_txt_colorbuf \in [Index -> Cells] /\ hw_txt_stdout_col \in 0 .. Cols
      /\ hw_txt_color \in Ink /\ gone \in Seq([Column -> Cells])
  BY ConsoleAssumption DEF IInv, TypeOK
<1>2. ch # Newline => <<ch, hw_txt_color>> \in Cells
  BY <1>1 DEF Cells
<1>3. CASE InRow(ch)
  <2>1. hw_txt_colorbuf' \in [Index -> Cells]
    BY <1>1, <1>2, <1>3 DEF InRow
  <2>2. hw_txt_stdout_col' \in 0 .. Cols /\ gone' = gone
    BY <1>1, <1>3 DEF InRow
  <2>3. QED
    BY <1>1, <2>1, <2>2
<1>4. CASE NewRow(ch)
  <2>1. Scrolled \in [Index -> Cells]
    <3>1. ASSUME NEW offs, NEW i \in Index
          PROVE  (IF i + offs \in Index THEN hw_txt_colorbuf[i + offs] ELSE Blank) \in Cells
      BY <1>1 DEF Cells
    <3>2. QED
      BY <3>1 DEF Scrolled, VscrollUp
  <2>2. RowOf(hw_txt_colorbuf, 0) \in [Column -> Cells]
    <3>1. \A c \in Column : hw_txt_colorbuf[At(0, c)] \in Cells
      <4>1. 0 \in Row
        BY <1>1 DEF Row
      <4>2. \A c \in Column : At(0, c) \in Index
        BY <4>1, AtOnScreen
      <4>3. QED
        BY <1>1, <4>2
    <3>2. QED
      BY <3>1 DEF RowOf
  <2>3. hw_txt_colorbuf' \in [Index -> Cells]
    BY <1>2, <1>4, <2>1 DEF NewRow
  <2>4. gone' \in Seq([Column -> Cells])
    BY <1>1, <1>4, <2>2 DEF NewRow
  <2>5. hw_txt_stdout_col' \in 0 .. Cols
    BY <1>1, <1>4 DEF NewRow
  <2>6. QED
    BY <2>3, <2>4, <2>5
<1>5. QED
  BY <1>3, <1>4

LEMMA NextIInv == IInv /\ [Next]_vars => IInv'
<1> SUFFICES ASSUME IInv, [Next]_vars PROVE IInv'
  OBVIOUS
<1>1. ASSUME NEW ch \in Chars \cup {Newline}, PutChar(ch)
      PROVE  IInv'
  <2>1. InRow(ch) \/ NewRow(ch)
    BY <1>1, PutCharCases
  <2>2. UNCHANGED <<hw_txt_stdout_row, hw_txt_color>>
    BY <2>1 DEF InRow, NewRow
  <2>3. TypeOK'
    BY <2>1, <2>2, UnseenNext, ScreenNext DEF IInv, TypeOK
  <2>4. QED
    BY <2>1, <2>2, <2>3, UnseenNext DEF IInv
<1>2. ASSUME NEW color \in Colors, SetColor(color)
      PROVE  IInv'
  BY <1>2 DEF SetColor, cursor, IInv, TypeOK, UnseenAtEnd, Ink
<1>3. CASE Clear
  <2>1. hw_txt_colorbuf' \in [Index -> Cells] /\ seen' \in [Row -> BOOLEAN]
    BY <1>3 DEF Clear, ClearScreen, Cells
  <2>2. UnseenAtEnd'
    BY <1>3 DEF Clear, UnseenAtEnd
  <2>3. QED
    BY <1>3, <2>1, <2>2 DEF Clear, cursor, IInv, TypeOK
<1>4. CASE UNCHANGED vars
  BY <1>4 DEF vars, cursor, IInv, TypeOK, UnseenAtEnd
<1>5. QED
  BY <1>1, <1>2, <1>3, <1>4 DEF Next

LEMMA ConsoleInvariant == Spec => []IInv
BY InitIInv, NextIInv, PTL DEF Spec

\* The cursor stays on the screen or just past a full row, and printf writes
\* only there, whatever the size of the screen (kernel.c:72-128).
THEOREM TypeCorrect == Spec => []TypeOK
<1>1. IInv => TypeOK
  BY DEF IInv
<1>2. QED
  BY <1>1, ConsoleInvariant, PTL

\* No row is scrolled away that has not been on the screen, complete, while
\* printf waited (kernel.c:99-113).
THEOREM EveryRowIsSeen == Spec => EveryRowSeen
<1>1. IInv /\ [Next]_vars => [gone' # gone => seen[0] \/ hw_txt_scrolled' = 0]_vars
  <2> SUFFICES ASSUME IInv, Next, gone' # gone
               PROVE  seen[0] \/ hw_txt_scrolled' = 0
    OBVIOUS
  <2>1. PICK ch \in Chars \cup {Newline} : PutChar(ch)
    BY DEF Next, SetColor, Clear
  <2>2. QED
    BY <2>1, PutCharCases, UnseenNext
<1>2. QED
  BY <1>1, ConsoleInvariant, PTL DEF Spec, EveryRowSeen

-----------------------------------------------------------------------------
(* The screen and what has left it, as a tape of lines.                    *)

Lines(g, buf) ==
  [n \in 1 .. Len(g) + Rows |-> IF n <= Len(g) THEN g[n] ELSE RowOf(buf, n - Len(g) - 1)]

Empty == [c \in Column |-> Blank]

\* A cell written into the last row, a cell written into a line, and the lines
\* on the screen wiped.
Written(buf, c, v) == [buf EXCEPT ![At(Rows - 1, c)] = v]
Put(lines, n, c, v) == [lines EXCEPT ![n] = [@ EXCEPT ![c] = v]]
Wiped(lines) ==
  [n \in 1 .. Len(lines) |-> IF n > Len(lines) - Rows THEN Empty ELSE lines[n]]

LEMMA LinesSeq ==
  ASSUME NEW S, NEW g \in Seq(S), NEW buf
  PROVE  /\ Lines(g, buf) \in Seq(S \cup {RowOf(buf, r) : r \in Row})
         /\ Len(Lines(g, buf)) = Len(g) + Rows
<1>1. Len(g) \in Nat /\ Rows \in Nat /\ DOMAIN g = 1 .. Len(g)
  BY ConsoleAssumption
<1>2. ASSUME NEW n \in 1 .. Len(g) + Rows
      PROVE  Lines(g, buf)[n] \in S \cup {RowOf(buf, r) : r \in Row}
  <2>1. CASE n <= Len(g)
    <3>1. g[n] \in S
      BY <1>1, <2>1
    <3>2. Lines(g, buf)[n] = g[n]
      BY <2>1 DEF Lines
    <3>3. QED
      BY <3>1, <3>2
  <2>2. CASE ~(n <= Len(g))
    <3>1. n - Len(g) - 1 \in Row
      BY <1>1, <2>2 DEF Row
    <3>2. Lines(g, buf)[n] = RowOf(buf, n - Len(g) - 1)
      BY <2>2 DEF Lines
    <3>3. QED
      BY <3>1, <3>2
  <2>3. QED
    BY <2>1, <2>2
<1>3. Len(g) + Rows \in Nat /\ DOMAIN Lines(g, buf) = 1 .. Len(g) + Rows
  BY <1>1 DEF Lines
<1>4. Lines(g, buf) = [n \in 1 .. Len(g) + Rows |-> Lines(g, buf)[n]]
  BY DEF Lines
<1>5. QED
  BY <1>2, <1>3, <1>4

LEMMA SeqIsFunction ==
  ASSUME NEW S, NEW s \in Seq(S)
  PROVE  s = [n \in 1 .. Len(s) |-> s[n]]
<1>1. s \in [1 .. Len(s) -> S]
  OBVIOUS
<1>2. QED
  BY <1>1

LEMMA RowWritten ==
  ASSUME NEW buf \in [Index -> Cells], NEW r \in Row, NEW c \in Column, NEW v
  PROVE  RowOf(Written(buf, c, v), r) =
           IF r = Rows - 1 THEN [RowOf(buf, r) EXCEPT ![c] = v] ELSE RowOf(buf, r)
<1>1. Rows - 1 \in Row
  BY ConsoleAssumption DEF Row
<1> DEFINE new == Written(buf, c, v)
<1>2. ASSUME NEW d \in Column
      PROVE  new[At(r, d)] = IF r = Rows - 1 /\ d = c THEN v ELSE buf[At(r, d)]
  <2>1. At(r, d) \in Index /\ At(Rows - 1, c) \in Index
    BY <1>1, AtOnScreen
  <2>2. At(r, d) = At(Rows - 1, c) => r = Rows - 1 /\ d = c
    BY <1>1, AtDistinct
  <2>3. QED
    BY <2>1, <2>2 DEF Written
<1> HIDE DEF new
<1>3. RowOf(new, r) = IF r = Rows - 1 THEN [RowOf(buf, r) EXCEPT ![c] = v] ELSE RowOf(buf, r)
  BY <1>2 DEF RowOf
<1>4. QED
  BY <1>3 DEF new

LEMMA RowScrolled ==
  ASSUME NEW buf, NEW r \in Row
  PROVE  RowOf(VscrollUp(buf, 1), r) = IF r = Rows - 1 THEN Empty ELSE RowOf(buf, r + 1)
BY ScrollRows DEF RowOf, Empty

LEMMA LinesWritten ==
  ASSUME NEW S, NEW g \in Seq(S), NEW buf \in [Index -> Cells], NEW c \in Column, NEW v
  PROVE  Lines(g, Written(buf, c, v)) = Put(Lines(g, buf), Len(g) + Rows, c, v)
<1>1. Len(g) \in Nat /\ Rows \in Nat /\ Rows >= 1
  BY ConsoleAssumption
<1> DEFINE new == Written(buf, c, v)
<1>2. ASSUME NEW r \in Row
      PROVE  RowOf(new, r) = IF r = Rows - 1 THEN [RowOf(buf, r) EXCEPT ![c] = v]
                             ELSE RowOf(buf, r)
  BY RowWritten
<1> HIDE DEF new
<1>3. ASSUME NEW n \in 1 .. Len(g) + Rows
      PROVE  Lines(g, new)[n] =
               IF n = Len(g) + Rows THEN [Lines(g, buf)[n] EXCEPT ![c] = v]
               ELSE Lines(g, buf)[n]
  <2>1. CASE n <= Len(g)
    <3>1. n # Len(g) + Rows
      BY <1>1, <2>1
    <3>2. QED
      BY <2>1, <3>1 DEF Lines
  <2>2. CASE ~(n <= Len(g))
    <3>1. n - Len(g) - 1 \in Row /\ (n - Len(g) - 1 = Rows - 1 <=> n = Len(g) + Rows)
      BY <1>1, <2>2 DEF Row
    <3>2. /\ Lines(g, new)[n] = RowOf(new, n - Len(g) - 1)
          /\ Lines(g, buf)[n] = RowOf(buf, n - Len(g) - 1)
      BY <2>2 DEF Lines
    <3>3. QED
      BY <1>2, <3>1, <3>2
  <2>3. QED
    BY <2>1, <2>2
<1>4. Lines(g, new) = Put(Lines(g, buf), Len(g) + Rows, c, v)
  <2>1. /\ Lines(g, new) = [n \in 1 .. Len(g) + Rows |-> Lines(g, new)[n]]
        /\ Lines(g, buf) = [n \in 1 .. Len(g) + Rows |-> Lines(g, buf)[n]]
    BY DEF Lines
  <2>2. QED
    BY <1>3, <2>1 DEF Put
<1>5. QED
  BY <1>4 DEF new

LEMMA LinesScrolled ==
  ASSUME NEW S, NEW g \in Seq(S), NEW buf
  PROVE  Lines(Append(g, RowOf(buf, 0)), VscrollUp(buf, 1)) = Append(Lines(g, buf), Empty)
<1>1. Len(g) \in Nat /\ Rows \in Nat /\ Rows >= 1
  BY ConsoleAssumption
<1> DEFINE h == Append(g, RowOf(buf, 0))
           new == VscrollUp(buf, 1)
<1>2. /\ Len(h) = Len(g) + 1
      /\ \A n \in 1 .. Len(g) + 1 : h[n] = IF n <= Len(g) THEN g[n] ELSE RowOf(buf, 0)
  OBVIOUS
<1>3. ASSUME NEW r \in Row
      PROVE  RowOf(new, r) = IF r = Rows - 1 THEN Empty ELSE RowOf(buf, r + 1)
  BY RowScrolled
<1> HIDE DEF h, new
<1>4. ASSUME NEW n \in 1 .. Len(g) + 1 + Rows
      PROVE  Lines(h, new)[n] =
               IF n = Len(g) + 1 + Rows THEN Empty ELSE Lines(g, buf)[n]
  <2>0. n \in 1 .. Len(h) + Rows
    BY <1>1, <1>2
  <2>1. CASE n <= Len(g)
    <3>1. n \in 1 .. Len(g) + Rows /\ n # Len(g) + 1 + Rows /\ n \in 1 .. Len(g) + 1
          /\ n <= Len(h)
      BY <1>1, <1>2, <2>1
    <3>2. Lines(h, new)[n] = h[n] /\ Lines(g, buf)[n] = g[n]
      BY <2>0, <2>1, <3>1 DEF Lines
    <3>3. QED
      BY <1>2, <2>1, <3>1, <3>2
  <2>2. CASE n = Len(g) + 1
    <3>1. /\ n \in 1 .. Len(g) + Rows /\ n # Len(g) + 1 + Rows
          /\ n <= Len(h) /\ ~(n <= Len(g)) /\ n - Len(g) - 1 = 0
      BY <1>1, <1>2, <2>2
    <3>2. Lines(h, new)[n] = h[n] /\ Lines(g, buf)[n] = RowOf(buf, 0)
      BY <2>0, <3>1 DEF Lines
    <3>3. QED
      BY <1>1, <1>2, <2>2, <3>1, <3>2
  <2>3. CASE n > Len(g) + 1
    <3>1. /\ ~(n <= Len(h)) /\ ~(n <= Len(g)) /\ n - Len(h) - 1 \in Row
          /\ n - Len(h) - 1 = Rows - 1 <=> n = Len(g) + 1 + Rows
          /\ n - Len(h) - 1 + 1 = n - Len(g) - 1
          /\ n # Len(g) + 1 + Rows => n \in 1 .. Len(g) + Rows
      BY <1>1, <1>2, <2>3 DEF Row
    <3>2. Lines(h, new)[n] = RowOf(new, n - Len(h) - 1)
      BY <2>0, <3>1 DEF Lines
    <3>3. n # Len(g) + 1 + Rows => Lines(g, buf)[n] = RowOf(buf, n - Len(g) - 1)
      BY <3>1 DEF Lines
    <3>4. QED
      BY <1>3, <3>1, <3>2, <3>3
  <2>4. QED
    BY <1>1, <2>1, <2>2, <2>3
<1>5. Len(Lines(g, buf)) = Len(g) + Rows
  BY LinesSeq
<1>6. Append(Lines(g, buf), Empty) =
        [n \in 1 .. Len(g) + 1 + Rows |-> IF n = Len(g) + 1 + Rows THEN Empty
                                          ELSE Lines(g, buf)[n]]
  <2>1. Lines(g, buf) \in Seq(S \cup {RowOf(buf, r) : r \in Row})
    BY LinesSeq
  <2> DEFINE L == Lines(g, buf)
             T == S \cup {RowOf(buf, r) : r \in Row} \cup {Empty}
  <2>2. L \in Seq(T) /\ Empty \in T /\ Len(L) = Len(g) + Rows
    BY <1>5, <2>1
  <2> HIDE DEF L, T
  <2>3. /\ Append(L, Empty) \in Seq(T)
        /\ Len(Append(L, Empty)) = Len(L) + 1
        /\ \A n \in 1 .. Len(L) : Append(L, Empty)[n] = L[n]
        /\ Append(L, Empty)[Len(L) + 1] = Empty
    BY <2>2
  <2> DEFINE A == Append(L, Empty)
  <2> HIDE DEF A
  <2>4. A = [n \in 1 .. Len(L) + 1 |-> A[n]]
    <3>1. A \in Seq(T) /\ Len(A) = Len(L) + 1
      BY <2>3 DEF A
    <3>2. A = [n \in 1 .. Len(A) |-> A[n]]
      BY <3>1, SeqIsFunction, Zenon
    <3>3. QED
      BY <3>1, <3>2
  <2>5. Len(L) + 1 = Len(g) + 1 + Rows
    BY <1>1, <2>2
  <2>6. ASSUME NEW n \in 1 .. Len(L) + 1
        PROVE  Append(L, Empty)[n] = IF n = Len(g) + 1 + Rows THEN Empty ELSE L[n]
    <3>1. CASE n = Len(L) + 1
      BY <2>3, <2>5, <3>1
    <3>2. CASE n # Len(L) + 1
      <4>1. n \in 1 .. Len(L) /\ n # Len(g) + 1 + Rows
        BY <1>1, <2>2, <3>2
      <4>2. QED
        BY <2>3, <4>1
    <3>3. QED
      BY <3>1, <3>2
  <2>7. Append(L, Empty) =
          [n \in 1 .. Len(g) + 1 + Rows |-> IF n = Len(g) + 1 + Rows THEN Empty ELSE L[n]]
    BY <2>4, <2>5, <2>6 DEF A
  <2>8. QED
    BY <2>7 DEF L
<1>7. Lines(h, new) = [n \in 1 .. Len(g) + 1 + Rows |-> Lines(h, new)[n]]
  BY <1>2 DEF Lines
<1>8. Lines(h, new) = Append(Lines(g, buf), Empty)
  BY <1>4, <1>6, <1>7
<1>9. QED
  BY <1>8 DEF h, new

LEMMA LinesCleared ==
  ASSUME NEW S, NEW g \in Seq(S), NEW buf
  PROVE  Lines(g, ClearScreen) = Wiped(Lines(g, buf))
<1> DEFINE last == Len(Lines(g, buf))
<1>1. Len(g) \in Nat /\ Rows \in Nat
  BY ConsoleAssumption
<1>2. last = Len(g) + Rows
  BY LinesSeq
<1> HIDE DEF last
<1>3. ASSUME NEW r \in Row
      PROVE  RowOf(ClearScreen, r) = Empty
  <2>1. \A c \in Column : At(r, c) \in Index
    BY AtOnScreen
  <2>2. QED
    BY <2>1 DEF RowOf, Empty, ClearScreen
<1>4. ASSUME NEW n \in 1 .. last
      PROVE  Lines(g, ClearScreen)[n] = IF n > last - Rows THEN Empty ELSE Lines(g, buf)[n]
  <2>1. CASE n <= Len(g)
    <3>1. ~(n > last - Rows)
      BY <1>1, <1>2, <2>1
    <3>2. QED
      BY <1>2, <2>1, <3>1 DEF Lines
  <2>2. CASE ~(n <= Len(g))
    <3>1. n > last - Rows /\ n - Len(g) - 1 \in Row
      BY <1>1, <1>2, <2>2 DEF Row
    <3>2. Lines(g, ClearScreen)[n] = RowOf(ClearScreen, n - Len(g) - 1)
      BY <1>2, <2>2 DEF Lines
    <3>3. QED
      BY <1>3, <3>1, <3>2
  <2>3. QED
    BY <2>1, <2>2
<1>5. Lines(g, ClearScreen) = [n \in 1 .. last |-> Lines(g, ClearScreen)[n]]
  BY <1>2 DEF Lines
<1>6. Lines(g, ClearScreen) =
        [n \in 1 .. last |-> IF n > last - Rows THEN Empty ELSE Lines(g, buf)[n]]
  BY <1>4, <1>5
<1>7. QED
  BY <1>6 DEF last, Wiped

LEMMA TapeIsLines ==
  /\ Tape = Lines(gone, hw_txt_colorbuf)
  /\ Tape' = Lines(gone', hw_txt_colorbuf')
  /\ Screen!BlankLine = Empty
BY DEF Tape, Lines, Screen!BlankLine, Empty, Screen!Column, Column

LEMMA InitTape == Init => Screen!TInit
<1> SUFFICES ASSUME Init PROVE Screen!TInit
  OBVIOUS
<1>1. Tape = [n \in 1 .. Rows |-> Screen!BlankLine]
  <2>1. gone \in Seq({Empty}) /\ gone = <<>> /\ Len(gone) = 0 /\ Rows \in Nat
    BY ConsoleAssumption DEF Init
  <2>2. Lines(gone, ClearScreen) = Wiped(Lines(gone, ClearScreen))
    BY <2>1, LinesCleared, Zenon
  <2>3. Len(Lines(gone, ClearScreen)) = Rows
    <3>1. Len(Lines(gone, ClearScreen)) = Len(gone) + Rows
      BY <2>1, LinesSeq, Zenon
    <3>2. QED
      BY <2>1, <3>1
  <2>4. \A n \in 1 .. Rows : n > Rows - Rows
    BY <2>1
  <2>5. Lines(gone, ClearScreen) = [n \in 1 .. Rows |-> Empty]
    BY <2>2, <2>3, <2>4 DEF Wiped
  <2>6. QED
    BY <2>5, TapeIsLines DEF Init
<1>2. QED
  BY <1>1 DEF Init, Screen!TInit

LEMMA InRowWrites ==
  ASSUME IInv, NEW ch \in Chars, InRow(ch)
  PROVE  Screen!TWrite(ch)
<1>1. /\ Cols \in Nat /\ hw_txt_colorbuf \in [Index -> Cells]
      /\ gone \in Seq([Column -> Cells]) /\ hw_txt_stdout_col \in 0 .. Cols
  BY ConsoleAssumption DEF IInv, TypeOK
<1>2. hw_txt_stdout_col \in Column /\ hw_txt_stdout_col # Cols
  BY <1>1 DEF InRow, Column
<1>3. Len(Tape) = Len(gone) + Rows
  BY <1>1, LinesSeq, TapeIsLines
<1>4. Tape' = [Tape EXCEPT ![Len(Tape)] =
                 [@ EXCEPT ![hw_txt_stdout_col] = <<ch, hw_txt_color>>]]
  <2>1. Tape' = Lines(gone, Written(hw_txt_colorbuf, hw_txt_stdout_col, <<ch, hw_txt_color>>))
    BY TapeIsLines DEF InRow, Written
  <2>2. Tape' = Put(Lines(gone, hw_txt_colorbuf), Len(gone) + Rows, hw_txt_stdout_col,
                    <<ch, hw_txt_color>>)
    BY <1>1, <1>2, <2>1, LinesWritten, Zenon
  <2>3. QED
    BY <1>3, <2>2, TapeIsLines DEF Put
<1>5. QED
  BY <1>2, <1>4 DEF InRow, Screen!TWrite

LEMMA NewRowAdvances ==
  ASSUME IInv, NEW ch \in Chars \cup {Newline}, NewRow(ch)
  PROVE  IF ch = Newline THEN Screen!TNewline ELSE Screen!TWrite(ch)
<1>1. /\ Cols \in Nat /\ Cols >= 1 /\ hw_txt_colorbuf \in [Index -> Cells]
      /\ gone \in Seq([Column -> Cells])
  BY ConsoleAssumption DEF IInv, TypeOK
<1>2. Lines(gone', Scrolled) = Append(Tape, Empty)
  <2>1. gone' = Append(gone, RowOf(hw_txt_colorbuf, 0))
    BY DEF NewRow
  <2>2. QED
    BY <1>1, <2>1, LinesScrolled, TapeIsLines DEF Scrolled
<1>3. CASE ch = Newline
  <2>1. Tape' = Append(Tape, Screen!BlankLine)
    BY <1>2, <1>3, TapeIsLines DEF NewRow
  <2>2. QED
    BY <1>3, <2>1 DEF NewRow, Screen!TNewline
<1>4. CASE ch # Newline
  <2>1. Scrolled \in [Index -> Cells]
    <3>1. ASSUME NEW offs, NEW i \in Index
          PROVE  (IF i + offs \in Index THEN hw_txt_colorbuf[i + offs] ELSE Blank) \in Cells
      BY <1>1 DEF Cells
    <3>2. QED
      BY <3>1 DEF Scrolled, VscrollUp
  <2>2. gone' \in Seq([Column -> Cells])
    BY ScreenNext
  <2>3. 0 \in Column
    BY <1>1 DEF Column
  <2>4. Len(Lines(gone', Scrolled)) = Len(gone') + Rows
    BY <2>2, LinesSeq
  <2>5. Tape' = [Append(Tape, Empty) EXCEPT ![Len(Append(Tape, Empty))] =
                   [@ EXCEPT ![0] = <<ch, hw_txt_color>>]]
    <3>1. hw_txt_colorbuf' = Written(Scrolled, 0, <<ch, hw_txt_color>>)
      BY <1>4 DEF NewRow, Written
    <3>2. Tape' = Lines(gone', Written(Scrolled, 0, <<ch, hw_txt_color>>))
      BY <3>1, TapeIsLines, Zenon
    <3>3. Tape' = Put(Lines(gone', Scrolled), Len(gone') + Rows, 0, <<ch, hw_txt_color>>)
      BY <2>1, <2>2, <2>3, <3>2, LinesWritten, Zenon
    <3>4. Tape' = Put(Append(Tape, Empty), Len(Append(Tape, Empty)), 0, <<ch, hw_txt_color>>)
      BY <1>2, <2>4, <3>3, Zenon
    <3>5. QED
      BY <3>4 DEF Put
  <2>6. /\ hw_txt_stdout_col = Cols /\ hw_txt_stdout_col' = 0 + 1
        /\ UNCHANGED hw_txt_color
    BY <1>4 DEF NewRow
  <2>7. Screen!TWrite(ch)
    BY <2>5, <2>6, TapeIsLines DEF Screen!TWrite
  <2>8. QED
    BY <1>4, <2>7
<1>5. QED
  BY <1>3, <1>4

LEMMA NextTape == IInv /\ [Next]_vars => [Screen!TNext]_(Screen!tvars)
<1> SUFFICES ASSUME IInv, [Next]_vars PROVE [Screen!TNext]_(Screen!tvars)
  OBVIOUS
<1>1. ASSUME NEW ch \in Chars \cup {Newline}, PutChar(ch)
      PROVE  Screen!TNext
  <2>1. InRow(ch) \/ NewRow(ch)
    BY <1>1, PutCharCases
  <2>2. CASE InRow(ch)
    <3>1. ch \in Chars
      BY <2>2 DEF InRow
    <3>2. QED
      BY <2>2, <3>1, InRowWrites DEF Screen!TNext
  <2>3. CASE NewRow(ch)
    BY <2>3, NewRowAdvances DEF Screen!TNext
  <2>4. QED
    BY <2>1, <2>2, <2>3
<1>2. ASSUME NEW color \in Colors, SetColor(color)
      PROVE  Screen!TNext
  <2>1. Tape' = Tape
    BY <1>2, TapeIsLines DEF SetColor
  <2>2. QED
    BY <1>2, <2>1 DEF SetColor, cursor, Screen!TSetColor, Screen!TNext
<1>3. CASE Clear
  <2>1. gone \in Seq([Column -> Cells])
    BY DEF IInv, TypeOK
  <2>2. Tape' = Lines(gone, ClearScreen)
    BY <1>3, TapeIsLines DEF Clear
  <2>3. Tape' = Wiped(Tape)
    BY <2>1, <2>2, LinesCleared, TapeIsLines, Zenon
  <2>4. Screen!TClear
    BY <1>3, <2>3, TapeIsLines DEF Clear, cursor, Screen!TClear, Wiped
  <2>5. QED
    BY <2>4 DEF Screen!TNext
<1>4. CASE UNCHANGED vars
  <2>1. Tape' = Tape
    BY <1>4, TapeIsLines DEF vars
  <2>2. QED
    BY <1>4, <2>1 DEF vars, cursor, Screen!tvars
<1>5. QED
  BY <1>1, <1>2, <1>3, <1>4 DEF Next

\* The screen is the end of a tape on which nothing moves: printf, scrolling
\* and clearing do what Terminal.tla says, on every screen (kernel.c:16-128).
THEOREM ShowsATape == Spec => ShowsTape
BY InitTape, NextTape, ConsoleInvariant, PTL DEF Spec, ShowsTape, Screen!TSpec
=============================================================================
