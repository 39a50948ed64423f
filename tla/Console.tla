------------------------------ MODULE Console ------------------------------
(***************************************************************************)
(* kernel/kprintf.c: the text screen.  A screen is what vidptr shows and    *)
(* current_loc, counted in cells rather than in bytes; the attribute bytes *)
(* are left out.  Nothing in the file scrolls or checks the end of the      *)
(* screen: what is written behind the last line lands in video memory that *)
(* is not shown, and current_loc runs on.                                  *)
(***************************************************************************)
EXTENDS Naturals, Sequences, SequencesExt

CONSTANTS LINES, COLUMNS_IN_LINE,
          NL               \* '\n'

ASSUME ConsoleAssumption == LINES \in Nat \ {0} /\ COLUMNS_IN_LINE \in Nat \ {0}

Cells == 0 .. LINES * COLUMNS_IN_LINE - 1
Blank == " "
At(row, col) == row * COLUMNS_IN_LINE + col

\* vidptr[current_loc++] = c
Put(s, c) ==
  [cells |-> IF s.loc \in Cells THEN [s.cells EXCEPT ![s.loc] = c] ELSE s.cells,
   loc |-> s.loc + 1]

kprint_newline(s) == [s EXCEPT !.loc = @ + (COLUMNS_IN_LINE - (@ % COLUMNS_IN_LINE))]

\* str is what the format and its arguments come to: literal characters, the
\* digits of numbers, and strings in full, for the precision of "%.*s" is parsed
\* and then ignored.
kprintf(s, str) ==
  FoldLeft(LAMBDA t, c : IF c = NL THEN kprint_newline(t) ELSE Put(t, c), s, str)

clear_screen == [cells |-> [i \in Cells |-> Blank], loc |-> 0]

kvga_set_cursor(s, row, col) == [s EXCEPT !.loc = At(row, col)]

kvga_write_char(s, row, col, c) ==
  [s EXCEPT !.cells = [i \in Cells |-> IF i = At(row, col) THEN c ELSE @[i]]]

kvga_clear_to_eol(s, row, col) ==
  [s EXCEPT !.cells = [i \in Cells |-> IF i \in At(row, col) .. At(row + 1, 0) - 1
                                       THEN Blank ELSE @[i]]]
=============================================================================
