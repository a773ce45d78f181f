----------------------------- MODULE Terminal -----------------------------
(***************************************************************************)
(* What a console promises: a tape of lines that grows at its end and on   *)
(* which nothing moves.  The screen shows the last Rows of them.           *)
(***************************************************************************)
EXTENDS Integers, Sequences

CONSTANTS Rows, Cols, Chars, Colors, Blank

VARIABLES
  tape,    \* the lines, from the first
  column,  \* where the next character goes in the last line
  ink      \* its color

tvars == <<tape, column, ink>>

Column == 0 .. Cols - 1
BlankLine == [c \in Column |-> Blank]

TInit ==
  /\ tape = [n \in 1 .. Rows |-> BlankLine]
  /\ column = 0
  /\ ink = 7

\* A line is full only when a character more is to go into it.
TWrite(ch) ==
  LET full == column = Cols
      lines == IF full THEN Append(tape, BlankLine) ELSE tape
      c == IF full THEN 0 ELSE column
  IN  /\ tape' = [lines EXCEPT ![Len(lines)] = [@ EXCEPT ![c] = <<ch, ink>>]]
      /\ column' = c + 1
      /\ UNCHANGED ink

TNewline ==
  /\ tape' = Append(tape, BlankLine)
  /\ column' = 0
  /\ UNCHANGED ink

TSetColor(k) == ink' = k /\ UNCHANGED <<tape, column>>

\* The lines on the screen are wiped; the next character goes where it would.
TClear ==
  /\ tape' = [n \in 1 .. Len(tape) |-> IF n > Len(tape) - Rows THEN BlankLine
                                       ELSE tape[n]]
  /\ UNCHANGED <<column, ink>>

TNext ==
  \/ \E ch \in Chars : TWrite(ch)
  \/ TNewline
  \/ \E k \in Colors : TSetColor(k)
  \/ TClear

TSpec == TInit /\ [][TNext]_tvars
=============================================================================
