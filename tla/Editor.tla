------------------------------- MODULE Editor -------------------------------
(***************************************************************************)
(* fs/ed.c: the modal text editor the shell starts on a file.  One action  *)
(* per key: editorRun's loop alternates editorRefreshScreen, which scrolls,*)
(* with editorProcessKeypress, so an action is a key handled and the       *)
(* refresh that follows it.  E is the global editorConfig; an operator     *)
(* that takes e and returns the new one stands for a function of ed.c that *)
(* changes E.                                                              *)
(*                                                                         *)
(* A row is a sequence of characters, rows are numbered from 0 as in the   *)
(* code (row y is rows[y + 1]).  "dd" and "yy" are handled as one key, for *)
(* both keys are read by the same call and any other second key is thrown  *)
(* away.  A command line is chosen when it is entered.  The editor has the *)
(* file to itself while it runs.                                           *)
(***************************************************************************)
EXTENDS Integers, Sequences, SequencesExt, FiniteSets

CONSTANTS Chars,                    \* characters one can type
          NL,                       \* '\n'
          Capacity,                 \* BLOCK_SIZE - 1, most characters of a file
          screenrows, screencols,   \* the text area
          MaxRows, MaxCols,         \* bounds on the text: no key goes beyond
          NoFile,                   \* the file does not exist
          FirstFiles                \* files there may be before the first session

ASSUME EditorAssumption ==
  /\ NL \notin Chars
  /\ Capacity \in Nat \ {0}
  /\ screenrows \in Nat \ {0} /\ screencols \in Nat \ {0}
  /\ MaxRows \in Nat /\ MaxCols \in Nat
  /\ NoFile \notin Seq(Chars \cup {NL})
  /\ FirstFiles \ {NoFile} \subseteq Seq(Chars \cup {NL})

VARIABLES E,         \* the editor
          yank_buf,  \* the line yanked or deleted last; outlives a session
          file,      \* the file on disk
          open,      \* editorRun is running
          saved      \* history: the text as last read from or written to the file

vars == <<E, yank_buf, file, open, saved>>

\* What goes into a block, or into yank_buf.
Cut(s) == SubSeq(s, 1, IF Len(s) > Capacity THEN Capacity ELSE Len(s))

-----------------------------------------------------------------------------
\* Rows.
numrows(e) == Len(e.rows)
OnRow(e) == e.cy < numrows(e)
Row(e) == e.rows[e.cy + 1]
size(e) == IF OnRow(e) THEN Len(Row(e)) ELSE 0
SetRow(e, y, r) == [e EXCEPT !.rows[y + 1] = r, !.dirty = TRUE]

\* A position past the end is refused.
editorInsertRow(e, at, r) ==
  IF at > numrows(e) THEN e ELSE [e EXCEPT !.rows = InsertAt(@, at + 1, r)]

\* Faulty variant: the text is not marked dirty.
DelRowUnmarked(e, at) ==
  IF at >= numrows(e) THEN e ELSE [e EXCEPT !.rows = RemoveAt(@, at + 1)]

editorDelRow(e, at) ==
  IF at >= numrows(e) THEN e
  ELSE [e EXCEPT !.rows = RemoveAt(@, at + 1), !.dirty = TRUE]

editorRowInsertChar(e, y, at, c) ==
  LET r == e.rows[y + 1]
  IN  SetRow(e, y, InsertAt(r, (IF at > Len(r) THEN Len(r) ELSE at) + 1, c))

editorRowDelChar(e, y, at) ==
  IF at >= Len(e.rows[y + 1]) THEN e
  ELSE SetRow(e, y, RemoveAt(e.rows[y + 1], at + 1))

editorRowAppendString(e, y, s) == SetRow(e, y, e.rows[y + 1] \o s)

-----------------------------------------------------------------------------
\* Editing.  Where the code takes a row at a cursor that is past the line
\* after the text, it works on memory that is no row: the editor is Astray and
\* the model follows it no further.
Beyond(e) == e.cy > numrows(e)
Astray(e) == [e EXCEPT !.mode = "astray"]

editorInsertChar(e, c) ==
  LET e1 == IF e.cy = numrows(e) THEN editorInsertRow(e, numrows(e), <<>>) ELSE e
  IN  IF Beyond(e) THEN Astray(e)
      ELSE [editorRowInsertChar(e1, e.cy, e.cx, c) EXCEPT !.cx = @ + 1]

\* Faulty variant: the cursor keeps its column.
NewlineKeepsColumn(e) ==
  LET broken == [editorInsertRow(e, e.cy + 1, SubSeq(Row(e), e.cx + 1, Len(Row(e))))
                   EXCEPT !.rows[e.cy + 1] = SubSeq(@, 1, e.cx)]
      e1 == IF e.cx = 0 THEN editorInsertRow(e, e.cy, <<>>) ELSE broken
  IN  [e1 EXCEPT !.cy = @ + 1]

\* Leaves dirty alone: only the key '\n' sets it.
editorInsertNewline(e) ==
  LET broken == [editorInsertRow(e, e.cy + 1, SubSeq(Row(e), e.cx + 1, Len(Row(e))))
                   EXCEPT !.rows[e.cy + 1] = SubSeq(@, 1, e.cx)]
      e1 == IF e.cx = 0 THEN editorInsertRow(e, e.cy, <<>>) ELSE broken
  IN  [e1 EXCEPT !.cy = @ + 1, !.cx = 0]

editorDelChar(e) ==
  LET above == e.rows[e.cy]
      joined == editorDelRow(editorRowAppendString(e, e.cy - 1, Row(e)), e.cy)
  IN  CASE e.cy = numrows(e) \/ (e.cx = 0 /\ e.cy = 0) -> e
        [] Beyond(e) -> Astray(e)
        [] OTHER -> IF e.cx > 0
                    THEN [editorRowDelChar(e, e.cy, e.cx - 1) EXCEPT !.cx = @ - 1,
                                                                     !.dirty = TRUE]
                    ELSE [joined EXCEPT !.cx = Len(above), !.cy = @ - 1]

\* The cursor goes down whether or not the row was taken.
editorPasteLine(e) ==
  IF yank_buf = <<>> THEN e
  ELSE [editorInsertRow(e, e.cy + 1, yank_buf) EXCEPT !.cy = @ + 1, !.cx = 0]

editorYankLine(e) == IF OnRow(e) THEN Cut(Row(e)) ELSE yank_buf

\* Faulty variant: the cursor goes up from the first row too.
DeleteLineUp(e) ==
  LET e1 == editorDelRow(e, e.cy)
  IN  IF numrows(e) = 0 THEN e
      ELSE [e1 EXCEPT !.cy = IF @ >= numrows(e1) THEN @ - 1 ELSE @, !.cx = 0]

editorDeleteLine(e) ==
  LET e1 == editorDelRow(e, e.cy)
  IN  IF numrows(e) = 0 THEN e
      ELSE [e1 EXCEPT !.cy = IF @ >= numrows(e1) /\ @ > 0 THEN @ - 1 ELSE @, !.cx = 0]

editorScroll(e) ==
  LET Off(off, at, n) == IF at < off THEN at ELSE IF at >= off + n THEN at - n + 1 ELSE off
  IN  [e EXCEPT !.rowoff = Off(@, e.cy, screenrows), !.coloff = Off(@, e.cx, screencols)]

MoveLeft(e) ==
  LET e1 == [e EXCEPT !.cy = @ - 1]
  IN  CASE e.cx > 0  -> [e EXCEPT !.cx = @ - 1]
        [] e.cx = 0 /\ Beyond(e) -> Astray(e1)
        [] e.cx = 0 /\ e.cy = 0  -> e
        [] OTHER     -> [e1 EXCEPT !.cx = size(e1)]

\* Faulty variant: the last row does not stop the cursor.
MoveDownFreely(e) == IF e.cy <= numrows(e) THEN [e EXCEPT !.cy = @ + 1] ELSE e

MoveDown(e) == IF e.cy < numrows(e) - 1 THEN [e EXCEPT !.cy = @ + 1] ELSE e

Move(e, key) ==
  CASE key = "left"  -> MoveLeft(e)
    [] key = "right" -> IF e.cx < size(e) THEN [e EXCEPT !.cx = @ + 1] ELSE e
    [] key = "up"    -> IF e.cy > 0 THEN [e EXCEPT !.cy = @ - 1] ELSE e
    [] key = "down"  -> MoveDown(e)

editorMoveCursor(e, key) ==
  LET e1 == Move(e, key) IN [e1 EXCEPT !.cx = IF @ > size(e1) THEN size(e1) ELSE @]

-----------------------------------------------------------------------------
\* The file.  editorOpen cuts the text at every '\n' or '\0', for both of which NL
\* stands, and at its end; an empty file gives no row at all.
Ends(text) == {j \in DOMAIN text : text[j] = NL} \cup {Len(text) + 1}
EndsBefore(text, j) == {k \in Ends(text) : k < j}
RowUpTo(text, j) == SubSeq(text, Max(EndsBefore(text, j) \cup {0}) + 1, j - 1)
NthEnd(text, n) == CHOOSE j \in Ends(text) : Cardinality(EndsBefore(text, j)) = n - 1

Lines(f) ==
  LET text == Cut(f)
  IN  IF f = NoFile \/ f = <<>> THEN <<>>
      ELSE [n \in 1 .. Cardinality(Ends(text)) |-> RowUpTo(text, NthEnd(text, n))]

\* Faulty variant: the rows are run together.
ImageRunOn(rs) == Cut(FlattenSeq(rs))

\* What editorSave writes: every row with its '\n', as far as Capacity goes.
Image(rs) == Cut(FlattenSeq([i \in DOMAIN rs |-> Append(rs[i], NL)]))

\* initEditor and editorOpen.
Opened(f) ==
  [cx |-> 0, cy |-> 0, rowoff |-> 0, coloff |-> 0, rows |-> Lines(f),
   dirty |-> FALSE, mode |-> "normal"]

\* A file that is not there has to be created; the directory may be full, the
\* disk may be full or the name too long to be found again.
editorSave(created) ==
  IF file = NoFile /\ ~created
  THEN UNCHANGED <<file, saved>>
  ELSE file' = Image(E.rows) /\ saved' = E.rows

\* editorRun's first refresh of a text that starts at its top changes nothing.
Init ==
  /\ file \in FirstFiles
  /\ open = FALSE
  /\ E = Opened(NoFile)
  /\ yank_buf = <<>> /\ saved = <<>>

Bounded(e) == /\ numrows(e) <= MaxRows /\ e.cy <= MaxRows + 1
              /\ \A i \in DOMAIN e.rows : Len(e.rows[i]) <= MaxCols

editorRun ==
  /\ ~open /\ Bounded(Opened(file))
  /\ open' = TRUE
  /\ E' = Opened(file)
  /\ saved' = Lines(file)
  /\ UNCHANGED <<yank_buf, file>>

\* A key was handled, the loop refreshes the screen.
Refresh(e) == Bounded(e) /\ E' = editorScroll(e)
Text(e) == Refresh(e) /\ UNCHANGED <<yank_buf, file, open, saved>>
In(mode) == open /\ E.mode = mode

InsertMode ==
  /\ In("insert")
  /\ \/ Text([E EXCEPT !.mode = "normal", !.cx = IF @ > 0 THEN @ - 1 ELSE @])
     \/ Text([editorInsertNewline(E) EXCEPT !.dirty = TRUE])
     \/ Text(editorDelChar(E))
     \/ \E c \in Chars : Text(editorInsertChar(E, c))

x(e) ==
  LET e1 == editorRowDelChar(e, e.cy, e.cx)
  IN  IF OnRow(e) /\ e.cx < size(e)
      THEN [e1 EXCEPT !.cx = IF @ >= size(e1) /\ @ > 0 THEN @ - 1 ELSE @]
      ELSE e

\* 'o', which goes to the end of the row before it breaks it, and 'O'.
o(e) == [editorInsertNewline([e EXCEPT !.cx = IF OnRow(e) THEN size(e) ELSE @])
           EXCEPT !.mode = "insert"]
O(e) == [editorInsertRow([e EXCEPT !.cx = 0], e.cy, <<>>) EXCEPT !.mode = "insert"]

NormalMode ==
  /\ In("normal")
  /\ \/ \E key \in {"left", "right", "up", "down"} : Text(editorMoveCursor(E, key))
     \/ Text([E EXCEPT !.mode = "insert"])
     \/ Text([E EXCEPT !.mode = "insert", !.cx = IF @ < size(E) THEN @ + 1 ELSE @])
     \/ Text(o(E))
     \/ Text(O(E))
     \/ Text(x(E))
     \/ Text(editorPasteLine(E))
     \/ Text([E EXCEPT !.mode = "command"])

dd ==
  /\ In("normal")
  /\ yank_buf' = editorYankLine(E)
  /\ Refresh(editorDeleteLine(E))
  /\ UNCHANGED <<file, open, saved>>

yy ==
  /\ In("normal")
  /\ yank_buf' = editorYankLine(E)
  /\ UNCHANGED <<E, file, open, saved>>

Quit == open' = FALSE /\ UNCHANGED E
Back(e) == E' = [e EXCEPT !.mode = "normal"] /\ UNCHANGED open

\* editorExecCommand on the command line that was typed.  ":wq" leaves whether
\* or not the file could be written.
Execute(cmd) ==
  /\ In("command") /\ UNCHANGED yank_buf
  /\ CASE cmd = "q"  -> (IF E.dirty THEN Back(E) ELSE Quit) /\ UNCHANGED <<file, saved>>
       [] cmd = "q!" -> Quit /\ UNCHANGED <<file, saved>>
       [] cmd = "w"  -> \E created \in BOOLEAN :
                          /\ editorSave(created)
                          /\ Back([E EXCEPT !.dirty = @ /\ file = NoFile /\ ~created])
       [] cmd = "wq" -> Quit /\ \E created \in BOOLEAN : editorSave(created)
       [] OTHER      -> Back(E) /\ UNCHANGED <<file, saved>>      \* also '\x1b'

Next ==
  \/ editorRun
  \/ InsertMode \/ NormalMode \/ dd \/ yy
  \/ \E cmd \in {"q", "q!", "w", "wq", "other"} : Execute(cmd)

Spec == Init /\ [][Next]_vars

-----------------------------------------------------------------------------
TypeOK ==
  /\ E \in [cx : Nat, cy : Nat, rowoff : Nat, coloff : Nat, rows : Seq(Seq(Chars)),
            dirty : BOOLEAN, mode : {"normal", "insert", "command", "astray"}]
  /\ yank_buf \in Seq(Chars) /\ Len(yank_buf) <= Capacity
  /\ file = NoFile \/ file \in Seq(Chars \cup {NL})
  /\ open \in BOOLEAN
  /\ saved \in Seq(Seq(Chars))

\* Whatever keys are pressed, the cursor stays within its row, and nobody who
\* has yanked nothing gets it past the line after the text or goes astray.
CursorInText ==
  /\ E.cx <= size(E)
  /\ Beyond(E) \/ E.mode = "astray" => yank_buf # <<>>

\* The one key that takes the cursor past the line after the text is 'p' on that
\* line, where editorInsertRow refuses the row and the cursor moves all the same.
LeavesTextByPasteOnly ==
  [][Beyond(E)' /\ ~Beyond(E) =>
       E.cy = numrows(E) /\ E' = editorScroll(editorPasteLine(E))]_vars

\* A text that is not dirty has lost nothing since it was read or saved: every
\* row is still there, in order.  (Rows may have been added: 'o', 'O' and 'p' do
\* not set dirty.)
CleanKeepsRows ==
  open /\ ~E.dirty =>
    \E at \in [DOMAIN saved -> DOMAIN E.rows] :
      /\ \A i \in DOMAIN saved : saved[i] = E.rows[at[i]]
      /\ \A i, j \in DOMAIN saved : i < j => at[i] < at[j]

\* "No write since last change": ":q" asks for a write after every change, so a
\* text that is not dirty is what was read or saved.
CleanMeansSaved == open /\ ~E.dirty => E.rows = saved

\* A save that fits the block reads back as the text, with one empty row more
\* when the last '\n' fitted too; one that does not fit keeps its beginning.
SaveReadsBack ==
  file \notin FirstFiles =>
    LET all == FlattenSeq([i \in DOMAIN saved |-> Append(saved[i], NL)])
    IN  /\ IsPrefix(file, all)
        /\ Len(all) <= Capacity => Lines(file) \in {saved, Append(saved, <<>>)}
=============================================================================
