------------------------------- MODULE Console -------------------------------
(***************************************************************************)
(* The text screen of the loader (debug_print.c).  debug_print formats     *)
(* into one static buffer and moves one static cursor, with interrupts     *)
(* enabled: the lines that disabled them are commented out.  irq_wrapper   *)
(* prints too, so the print of a handler can fall between any two steps of *)
(* the print of the main program.                                          *)
(*                                                                         *)
(* A text is a sequence of marks of its writer; control characters and     *)
(* colours are left out.                                                   *)
(***************************************************************************)
EXTENDS Integers, Sequences

CONSTANTS Columns, Rows,       \* the size of the screen
          MainText, IrqText    \* what the main program and irq_wrapper print

ASSUME ScreenSize == Columns \in Nat \ {0} /\ Rows \in Nat \ {0}

\* The marks that are printed.
Marks == {MainText[i] : i \in DOMAIN MainText} \union {IrqText[i] : i \in DOMAIN IrqText}

ASSUME Texts == /\ MainText \in Seq(Marks) /\ MainText # <<>>
                /\ IrqText \in Seq(Marks) /\ IrqText # <<>>

VARIABLES
  x, y,      \* _x and _y
  str,       \* the formatted text, up to its terminator
  s,         \* the main program's place in str
  shown,     \* what the main program's print has put on the screen
  disturbed  \* irq_wrapper has printed during that print

cursor      == <<x, y>>
consoleVars == <<x, y, str, s, shown, disturbed>>

ConsoleInit ==
  /\ x = 0 /\ y = 0 /\ str = <<>> /\ s = 1
  /\ shown = <<>> /\ disturbed = FALSE

\* debug_clear
Clear ==
  /\ x' = 0 /\ y' = 0
  /\ UNCHANGED <<str, s, shown, disturbed>>

\* The wrap at the last column and the scroll at the last row, in this order.
Wrapped(c) == IF c[1] >= Columns THEN <<0, c[2] + 1>> ELSE c
Clamped(c) == IF c[2] >= Rows THEN <<c[1], Rows - 1>> ELSE c
\* Mutant of Placed: the row is checked before the line is wrapped.
PlacedLate(c) == Wrapped(Clamped(c))

Placed(c)  == Clamped(Wrapped(c))

\* The cursor after n characters are printed without interruption.
After(c, n) ==
  LET after[k \in 0 .. n] ==
        IF k = 0 THEN c
        ELSE <<Placed(after[k - 1])[1] + 1, Placed(after[k - 1])[2]>>
  IN after[n]

\* The end of debug_print: the cursor goes to the start of the next row.
NextRow(c) == <<0, c[2] + 1>>

\* mem_fill and __write_f: the text of the main program replaces what the
\* buffer holds.  A print of irq_wrapper between the two leaves its tail.
Fill ==
  /\ str' = <<>> /\ s' = 1
  /\ shown' = <<>> /\ disturbed' = FALSE
  /\ UNCHANGED <<x, y>>

Write ==
  /\ str' = MainText \o SubSeq(str, Len(MainText) + 1, Len(str))
  /\ UNCHANGED <<x, y, s, shown, disturbed>>

\* One character of the loop: first its place, then the character.  Both halves
\* read *s.
MoreText == s <= Len(str)

Place ==
  /\ x' = Placed(cursor)[1] /\ y' = Placed(cursor)[2]
  /\ UNCHANGED <<str, s, shown, disturbed>>

Put ==
  /\ s' = s + 1
  /\ IF MoreText
     THEN /\ x' = x + 1
          /\ shown' = Append(shown, str[s])
     ELSE UNCHANGED <<x, shown>>
  /\ UNCHANGED <<y, str, disturbed>>

EndOfLine ==
  /\ x' = NextRow(cursor)[1] /\ y' = NextRow(cursor)[2]
  /\ s' = 1 /\ shown' = <<>> /\ disturbed' = FALSE
  /\ UNCHANGED str

\* irq_wrapper prints its line, whole: its gate keeps interrupts out.
PrintFromIrq ==
  LET c == NextRow(After(cursor, Len(IrqText))) IN
  /\ x' = c[1] /\ y' = c[2]
  /\ str' = IrqText
  /\ disturbed' = TRUE
  /\ UNCHANGED <<s, shown>>
=============================================================================
