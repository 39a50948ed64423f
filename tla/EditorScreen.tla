---------------------------- MODULE EditorScreen ----------------------------
(***************************************************************************)
(* fs/ed.c, rendering: what editorRefreshScreen leaves on the screen after *)
(* every key.  Drawing only reads E, so the screen is computed from the    *)
(* state of Editor and no variable is added; it is drawn over whatever was *)
(* there before, and a row that ends left of coloff is printed from the    *)
(* memory behind its last character.                                       *)
(***************************************************************************)
EXTENDS Editor

\* '\n' is neither a key of a command line nor what stands for a character.
ASSUME ScreenAssumption == NL \notin {":", "k", "welcome"} /\ NL \notin Nat \X Nat

Vga == INSTANCE Console WITH LINES <- screenrows + 2, COLUMNS_IN_LINE <- screencols

\* Strings the drawing treats as one character: the welcome line, as
\* the name of the mode stands for the text of the status bar.
Welcome == <<"welcome">>
Tilde == "~"

least(a, b) == IF a < b THEN a ELSE b

\* A line behind the text: '~', or the welcome line in an empty text.
DrawFiller(s, e, y) ==
  LET wlen == least(Len(Welcome), screencols)
      pad  == (screencols - wlen) \div 2
      s1   == [Vga!kvga_write_char(s, y, 0, Tilde) EXCEPT
                 !.cells = [i \in Vga!Cells |-> IF i \in Vga!At(y, 1) .. Vga!At(y, pad) - 1
                                                THEN Vga!Blank ELSE @[i]]]
  IN  IF numrows(e) = 0 /\ y = screenrows \div 3
      THEN Vga!kvga_clear_to_eol(Vga!kprintf(Vga!kvga_set_cursor(s1, y, pad), Welcome),
                                 y, pad + wlen)
      ELSE Vga!kvga_clear_to_eol(Vga!kvga_write_char(s, y, 0, Tilde), y, 1)

\* What a string that starts at column start of row r prints: the rest of the
\* row, or the memory behind it.
From(r, start, junk) == IF start <= Len(r) THEN SubSeq(r, start + 1, Len(r)) ELSE junk

\* The whole rest of the row is printed, however long: it runs on into the lines
\* below, which are drawn later.
DrawRow(s, r, y, start, junk) ==
  LET len == IF Len(r) < start THEN 0 ELSE least(Len(r) - start, screencols)
  IN  Vga!kvga_clear_to_eol(Vga!kprintf(s, From(r, start, junk)), y, len)

editorDrawRows(s, e, junk) ==
  FoldLeft(LAMBDA t, y :
             LET filerow == y + e.rowoff
                 t1 == Vga!kvga_set_cursor(t, y, 0)
             IN  IF filerow >= numrows(e) THEN DrawFiller(t1, e, y)
                 ELSE DrawRow(t1, e.rows[filerow + 1], y, e.coloff, junk),
           s, [i \in 1 .. screenrows |-> i - 1])

\* The status bar, its text as one character, and the command line.
editorDrawStatusBar(s, e, cmdbuf) ==
  LET cmdrow == screenrows + 1
      bar == [s EXCEPT !.cells = [i \in Vga!Cells |->
                IF i = Vga!At(screenrows, 0) THEN e.mode
                ELSE IF i \in Vga!At(screenrows, 1) .. Vga!At(cmdrow, 0) - 1 THEN Vga!Blank
                ELSE @[i]]]
      s1 == Vga!kvga_set_cursor(bar, cmdrow, 0)
  IN  IF e.mode = "command"
      THEN Vga!kvga_clear_to_eol(Vga!kprintf(s1, <<":">> \o cmdbuf), cmdrow, Len(cmdbuf) + 1)
      ELSE Vga!kvga_clear_to_eol(s1, cmdrow, 0)

\* Faulty variant: the bars are drawn first, and the text over them.
RefreshBarsFirst(s, e, cmdbuf, junk) ==
  LET s1 == editorDrawRows(editorDrawStatusBar(s, e, cmdbuf), e, junk)
  IN  IF e.mode = "command" THEN Vga!kvga_set_cursor(s1, screenrows + 1, Len(cmdbuf) + 1)
      ELSE Vga!kvga_set_cursor(s1, e.cy - e.rowoff, e.cx - e.coloff)

editorRefreshScreen(s, e, cmdbuf, junk) ==
  LET s1 == editorDrawStatusBar(editorDrawRows(s, e, junk), e, cmdbuf)
  IN  IF e.mode = "command" THEN Vga!kvga_set_cursor(s1, screenrows + 1, Len(cmdbuf) + 1)
      ELSE Vga!kvga_set_cursor(s1, e.cy - e.rowoff, e.cx - e.coloff)

-----------------------------------------------------------------------------
\* A screen that holds something else everywhere, the command lines one can have
\* typed (78 characters of 80), and memory a row may be followed by.
Stale == [cells |-> [i \in Vga!Cells |-> "stale"], loc |-> 0]
CommandLines == {[i \in 1 .. n |-> "k"] : n \in 0 .. screencols - 2}
Behind == {<<>>, <<"junk", NL, "junk">>, [i \in 1 .. 3 * screencols |-> "junk"]}

\* The text with every character replaced by its place, so that a character
\* that is shown in the wrong cell is seen.
Places(e) == [e EXCEPT !.rows = [i \in DOMAIN @ |-> [j \in DOMAIN @[i] |-> <<i, j>>]]]

\* What belongs into the cell of the text area at line y, column col.
Expected(e, y, col) ==
  LET i == e.rowoff + y + 1
      j == e.coloff + col + 1
      pad == (screencols - least(Len(Welcome), screencols)) \div 2
  IN  IF i \in DOMAIN e.rows THEN IF j \in DOMAIN e.rows[i] THEN <<i, j>> ELSE Vga!Blank
      ELSE IF numrows(e) = 0 /\ y = screenrows \div 3 /\ col = pad THEN Welcome[1]
      ELSE IF col = 0 THEN Tilde ELSE Vga!Blank

\* After every key the screen shows the text and nothing else, whatever was on it
\* before, although kprintf ignores the precision of "%.*s": what a long row, or
\* the memory behind a short one, prints beyond its line is painted over by the
\* lines, the status bar and the command line that follow.  The command line is
\* blank outside command mode, so the message a refused ":q" leaves in cmdbuf is
\* never seen.  The cursor is parked inside the text area, on its own character.
ScreenShowsText ==
  open /\ E.mode # "astray" =>
    \A cmdbuf \in CommandLines, junk \in Behind :
      LET s == editorRefreshScreen(Stale, Places(E), cmdbuf, junk)
          cmdline == IF E.mode = "command" THEN <<":">> \o cmdbuf ELSE <<>>
      IN  /\ \A y \in 0 .. screenrows - 1, col \in 0 .. screencols - 1 :
               s.cells[Vga!At(y, col)] = Expected(E, y, col)
          /\ s.cells[Vga!At(screenrows, 0)] = E.mode
          /\ \A col \in 0 .. screencols - 1 :
               s.cells[Vga!At(screenrows + 1, col)] =
                 IF col < Len(cmdline) THEN cmdline[col + 1] ELSE Vga!Blank
          /\ E.mode # "command" =>
               /\ s.loc < Vga!At(screenrows, 0)
               /\ E.cx \in 0 .. size(E) - 1 => s.cells[s.loc] = <<E.cy + 1, E.cx + 1>>
               /\ E.cx = size(E) => s.cells[s.loc] \in {Vga!Blank, Tilde, Welcome[1]}
=============================================================================
