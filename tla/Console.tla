------------------------------ MODULE Console ------------------------------
(***************************************************************************)
(* The text screen of JSDOS (jsdos/kernel.c): printf puts the characters   *)
(* of a string on the screen one by one, wraps, scrolls, and waits now and *)
(* then so that what it scrolls away can be read.  The screen is one array *)
(* of cells, row after row: a cell is reached by arithmetic on the cursor. *)
(***************************************************************************)
EXTENDS Integers, Sequences

CONSTANTS
  Rows,      \* hw_txt_rows, hw_txt_cols (25 and 80)
  Cols,
  Chars,     \* the characters but the newline
  Colors,    \* the colors callers set
  Newline,
  Blank,     \* the cell hw_txt_clear_row writes: no character, color 7
  MaxLines   \* BOUND: rows scrolled away

ASSUME ConsoleAssumption ==
  /\ Rows \in Nat \ {0}
  /\ Cols \in Nat \ {0}
  /\ MaxLines \in Nat
  /\ Newline \notin Chars

VARIABLES
  hw_txt_colorbuf,    \* the cells of the screen
  hw_txt_stdout_row,  \* the cursor
  hw_txt_stdout_col,
  hw_txt_scrolled,    \* rows scrolled since printf waited last
  hw_txt_color,
  gone,               \* history: the rows that have left the screen
  seen                \* history: the rows that were there, as they are now,
                      \* during a wait, or are blank

cursor == <<hw_txt_stdout_row, hw_txt_stdout_col>>
vars == <<hw_txt_colorbuf, cursor, hw_txt_scrolled, hw_txt_color, gone, seen>>

Row == 0 .. Rows - 1
Column == 0 .. Cols - 1
Index == 0 .. Rows * Cols - 1
At(r, c) == r * Cols + c
Ink == Colors \cup {7}
Cells == (Chars \X Ink) \cup {Blank}
RowOf(buf, r) == [c \in Column |-> buf[At(r, c)]]

-----------------------------------------------------------------------------
ClearScreen == [i \in Index |-> Blank]

\* Mutant: the last row is not cleared.
VscrollUpKeepLast(buf, rows) ==
  [i \in Index |-> IF i + rows * Cols \in Index THEN buf[i + rows * Cols] ELSE buf[i]]

\* hw_txt_vscroll_up, by its result: the loop copies cells upwards from the first on
\* (kernel.c:46), so that each is read before it is overwritten; the rows at the
\* bottom are cleared.
VscrollUp(buf, rows) ==
  LET offs == (IF rows > Rows THEN Rows ELSE rows) * Cols
  IN  [i \in Index |-> IF i + offs \in Index THEN buf[i + offs] ELSE Blank]

\* Mutants: the cursor may stand one column too far; printf never waits.
PastLineLate(ch) == ch = Newline \/ hw_txt_stdout_col > Cols

WaitsNever == FALSE

\* The character belongs in the row after the cursor's: a newline, which sets
\* the column to 0 too, or a full row, which is left only now.
PastLine(ch) == ch = Newline \/ hw_txt_stdout_col >= Cols

\* Before a row is scrolled away: delay, after a quarter of the screen.
Waits == hw_txt_scrolled + 1 >= Rows \div 4

-----------------------------------------------------------------------------
Init ==
  /\ hw_txt_colorbuf = ClearScreen
  /\ hw_txt_stdout_row = Rows - 1
  /\ hw_txt_stdout_col = 0
  /\ hw_txt_scrolled = 0
  /\ hw_txt_color = 7
  /\ gone = <<>>
  /\ seen = [r \in Row |-> TRUE]

\* The loop of printf, for one character.
PutChar(ch) ==
  LET row1 == hw_txt_stdout_row + (IF PastLine(ch) THEN 1 ELSE 0)
      scrolls == row1 >= Rows
      row == IF scrolls THEN Rows - 1 ELSE row1
      col == IF PastLine(ch) \/ scrolls THEN 0 ELSE hw_txt_stdout_col
      buf == IF scrolls THEN VscrollUp(hw_txt_colorbuf, 1) ELSE hw_txt_colorbuf
      known == IF scrolls THEN [r \in Row |-> Waits \/ r = Rows - 1 \/ seen[r + 1]]
               ELSE seen
  IN  /\ scrolls => Len(gone) < MaxLines
      /\ hw_txt_stdout_row' = row
      /\ hw_txt_scrolled' = IF ~scrolls THEN hw_txt_scrolled
                            ELSE IF Waits THEN 0 ELSE hw_txt_scrolled + 1
      /\ gone' = IF scrolls THEN Append(gone, RowOf(hw_txt_colorbuf, 0)) ELSE gone
      /\ IF ch = Newline
         THEN hw_txt_stdout_col' = col /\ hw_txt_colorbuf' = buf /\ seen' = known
         ELSE /\ hw_txt_stdout_col' = col + 1
              /\ hw_txt_colorbuf' = [buf EXCEPT ![At(row, col)] = <<ch, hw_txt_color>>]
              /\ seen' = [known EXCEPT ![row] = FALSE]
      /\ UNCHANGED hw_txt_color

SetColor(color) ==
  hw_txt_color' = color
    /\ UNCHANGED <<hw_txt_colorbuf, cursor, hw_txt_scrolled, gone, seen>>

\* hw_txt_clear_screen leaves the cursor where it is.
Clear ==
  /\ hw_txt_colorbuf' = ClearScreen
  /\ seen' = [r \in Row |-> TRUE]
  /\ UNCHANGED <<cursor, hw_txt_scrolled, hw_txt_color, gone>>

Next ==
  \/ \E ch \in Chars \cup {Newline} : PutChar(ch)
  \/ \E color \in Colors : SetColor(color)
  \/ Clear

Spec == Init /\ [][Next]_vars

-----------------------------------------------------------------------------
(* Properties.                                                             *)

\* The cursor is on the screen, or just past the last column of its row, and
\* printf writes nowhere but on the screen (kernel.c:83-119).
TypeOK ==
  /\ hw_txt_colorbuf \in [Index -> Cells]
  /\ hw_txt_stdout_row \in Row
  /\ hw_txt_stdout_col \in 0 .. Cols
  /\ hw_txt_scrolled \in Nat
  /\ hw_txt_color \in Ink
  /\ gone \in Seq([Column -> Cells])
  /\ seen \in [Row -> BOOLEAN]

\* What printf scrolls away has been on the screen during a wait, complete:
\* the waits at every quarter of the screen miss no row (kernel.c:101-105).
EveryRowSeen ==
  [][gone' # gone => seen[0] \/ hw_txt_scrolled' = 0]_vars

\* The screen is a window on a tape of lines: characters go to the end of it,
\* in their color, and scrolling loses, doubles and moves none (kernel.c:38-53
\* and 72-128 against Terminal.tla).
Tape ==
  [n \in 1 .. Len(gone) + Rows |->
     IF n <= Len(gone) THEN gone[n] ELSE RowOf(hw_txt_colorbuf, n - Len(gone) - 1)]

Screen == INSTANCE Terminal WITH
  tape <- Tape, column <- hw_txt_stdout_col, ink <- hw_txt_color

ShowsTape == Screen!TSpec
=============================================================================
