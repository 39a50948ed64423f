-------------------------------- MODULE Shell --------------------------------
(***************************************************************************)
(* kernel/Shell.c: lsh_loop reads a line, cuts it into tokens with strtok  *)
(* (string.h) and runs a command, with both buffers on the heap and grown  *)
(* as they fill, and echoes what is typed onto the screen; and the way out *)
(* of it into ring 3 and back: ring3 and ring3_shell leave the loop by     *)
(* iret, and the exit system call starts another lsh_loop on the stack of  *)
(* the one that was left (kernel.c, boot.asm).                             *)
(*                                                                         *)
(* A character is Word or Delim.  heap counts the blocks malloc has given  *)
(* out and nobody has freed; malloc and realloc may fail at any time.      *)
(* What a command prints is some lines of Out; what the commands do to     *)
(* files is the subject of EasyFS, FileClients and Editor.                 *)
(***************************************************************************)
EXTENDS Integers, Console, FiniteSets

CONSTANTS LSH_RL_BUFSIZE, LSH_TOK_BUFSIZE,
          MaxLine,        \* bound: characters of a line
          MaxLoc,         \* bound: no prompt and no output beyond this cell
          MaxVisits,      \* bound: visits to ring 3
          MaxUserBlocks,  \* bound: blocks a user program holds
          MaxDropped      \* bound: blocks the editor leaves behind

Word == "w"               \* a character of a word
Delim == "_"              \* a character of LSH_TOK_DELIM
Out == "o"                \* a character of a message or of a command's output
Prompt == <<">", Blank>>
NUL == "0"                \* '\0'
Null == 0                 \* a null pointer into the line

ASSUME ShellAssumption ==
  /\ LSH_RL_BUFSIZE \in Nat \ {0} /\ LSH_TOK_BUFSIZE \in Nat \ {0}
  /\ MaxLine \in Nat /\ MaxLoc \in Nat /\ MaxVisits \in Nat /\ MaxUserBlocks \in Nat
  /\ MaxDropped \in Nat
  /\ NL \notin {Word, Delim, Out, ">", Blank}

VARIABLES pc,
          line, bufsize,         \* lsh_read_line: what is in the buffer, its size
          tokens, tokbufsize,    \* lsh_split_line: where the tokens start, size
          cut,                   \* places of the line where strtok has put a '\0'
          strtok_ptr,            \* ___strtok
          scr,                   \* the screen
          heap,                  \* live blocks
          held,                  \* blocks the running user program has from malloc
          visits,                \* history: loops left for ring 3
          dropped                \* history: blocks that user programs held at their exit
                                 \* and that sessions of the editor left behind

reader == <<line, bufsize>>
splitter == <<tokens, tokbufsize, cut, strtok_ptr>>
user == <<held, visits, dropped>>
vars == <<pc, reader, splitter, scr, heap, user>>

position == Len(line)

Goto(from, to) == pc = from /\ pc' = to

Say(s) == kprintf(s, <<Out, NL>>)

-----------------------------------------------------------------------------
\* The prompt, and lsh_read_line asks for its buffer.
ReadLine ==
  /\ scr.loc < MaxLoc
  /\ \/ /\ Goto("prompt", "reading")
        /\ scr' = kprintf(scr, Prompt)
        /\ heap' = heap + 1
        /\ line' = <<>> /\ bufsize' = LSH_RL_BUFSIZE
        /\ UNCHANGED <<splitter, user>>
     \/ /\ Goto("prompt", "halted")                   \* "readline failed, halting"
        /\ scr' = Say(Say(kprintf(scr, Prompt)))
        /\ UNCHANGED <<reader, splitter, heap, user>>

\* Faulty variant: the start of the screen does not stop it.
EraseUnchecked(s) == [Put([s EXCEPT !.loc = @ - 1], Blank) EXCEPT !.loc = s.loc - 1]

\* The cell before the cursor is blanked, if there is one.
Erase(s) ==
  IF s.loc = 0 THEN s
  ELSE [Put([s EXCEPT !.loc = @ - 1], Blank) EXCEPT !.loc = s.loc - 1]

\* Faulty variant: the screen goes back, whether or not there is a character.
BackspaceOverPrompt ==
  /\ pc = "reading"
  /\ line' = SubSeq(line, 1, position - 1)
  /\ scr' = Erase(scr)
  /\ UNCHANGED <<pc, bufsize, splitter, heap, user>>

Backspace ==
  /\ pc = "reading" /\ position > 0
  /\ line' = SubSeq(line, 1, position - 1)
  /\ scr' = Erase(scr)
  /\ UNCHANGED <<pc, bufsize, splitter, heap, user>>

\* Faulty variant: the buffer is grown when the next character is already out.
CharLate(c) ==
  /\ pc = "reading" /\ position < MaxLine
  /\ line' = Append(line, c)
  /\ scr' = Put(scr, c)
  /\ bufsize' = IF position + 1 > bufsize THEN bufsize + LSH_RL_BUFSIZE ELSE bufsize
  /\ UNCHANGED <<pc, splitter, heap, user>>

\* A character, its echo, and the bigger buffer that a full one is exchanged for.
Char(c) ==
  /\ pc = "reading" /\ position < MaxLine
  /\ line' = Append(line, c)
  /\ \/ /\ position + 1 < bufsize
        /\ scr' = Put(scr, c)
        /\ UNCHANGED <<pc, bufsize, heap>>
     \/ /\ position + 1 >= bufsize
        /\ scr' = Put(scr, c)
        /\ bufsize' = bufsize + LSH_RL_BUFSIZE
        /\ UNCHANGED <<pc, heap>>
     \/ /\ position + 1 >= bufsize                    \* realloc fails
        /\ scr' = Say(Say(Put(scr, c)))
        /\ pc' = "halted"
        /\ heap' = heap - 1
        /\ UNCHANGED bufsize
  /\ UNCHANGED <<splitter, user>>

Enter ==
  /\ Goto("reading", "split")
  /\ scr' = kprint_newline(scr)
  /\ UNCHANGED <<reader, splitter, heap, user>>

-----------------------------------------------------------------------------
\* The character at place p of the line, '\0' behind its end.
CharAt(p) == IF p > Len(line) \/ p \in cut THEN NUL ELSE line[p]

\* The first place from p on whose character is not of the kind in kinds.
Skip(p, kinds) == CHOOSE q \in p .. Len(line) + 1 :
                    /\ CharAt(q) \notin kinds
                    /\ \A r \in p .. q - 1 : CharAt(r) \in kinds

\* Faulty variant: a scan that is under way goes on into the next line.
StrtokResumes(s) ==
  LET p == IF strtok_ptr # Null THEN strtok_ptr ELSE s
      start == Skip(p, {Delim})
      end == Skip(start, {Word})
      NULL == [token |-> Null, ptr |-> Null, cut |-> {}]
  IN  IF p = Null \/ p > Len(line) \/ CharAt(start) = NUL THEN NULL
      ELSE IF CharAt(end) = NUL THEN [NULL EXCEPT !.token = start]
      ELSE [token |-> start, ptr |-> end + 1, cut |-> {end}]

\* strtok(s, LSH_TOK_DELIM): the token it returns, ___strtok after the call, and
\* the '\0' it writes.  s is Null in every call but the first on a line.
strtok(s) ==
  LET p == IF s # Null THEN s ELSE strtok_ptr
      start == Skip(p, {Delim})
      end == Skip(start, {Word})
      NULL == [token |-> Null, ptr |-> Null, cut |-> {}]
  IN  IF p = Null \/ CharAt(start) = NUL THEN NULL
      ELSE IF CharAt(end) = NUL THEN [NULL EXCEPT !.token = start]
      ELSE [token |-> start, ptr |-> end + 1, cut |-> {end}]

\* lsh_split_line asks for the token table; without it lsh_loop frees the line.
SplitLine ==
  \/ /\ Goto("split", "first")
     /\ heap' = heap + 1
     /\ tokens' = <<>> /\ tokbufsize' = LSH_TOK_BUFSIZE
     /\ cut' = {}
     /\ UNCHANGED <<reader, strtok_ptr, scr, user>>
  \/ /\ Goto("split", "prompt")
     /\ heap' = heap - 1
     /\ scr' = Say(scr)
     /\ UNCHANGED <<reader, splitter, user>>

Strtok == strtok(IF pc = "first" THEN 1 ELSE Null)

Scanning == pc \in {"first", "token"}

Scanned ==
  /\ strtok_ptr' = Strtok.ptr
  /\ cut' = cut \cup Strtok.cut

\* Faulty variant: a table that cannot grow is forgotten and not freed.
TokenLeaks ==
  /\ Scanning /\ Strtok.token # Null
  /\ Scanned
  /\ tokens' = Append(tokens, Strtok.token)
  /\ \/ /\ pc' = "token"
        /\ tokbufsize' = IF Len(tokens') < tokbufsize THEN tokbufsize
                         ELSE tokbufsize + LSH_TOK_BUFSIZE
        /\ UNCHANGED <<scr, heap>>
     \/ /\ Len(tokens') >= tokbufsize
        /\ pc' = "prompt"
        /\ heap' = heap - 1
        /\ scr' = Say(scr)
        /\ UNCHANGED tokbufsize
  /\ UNCHANGED <<reader, user>>

\* Faulty variant: strtok is called on the line again and again.
TokenAgain ==
  /\ Scanning /\ Strtok.token # Null
  /\ tokens' = <<Strtok.token>>
  /\ UNCHANGED <<pc, tokbufsize, cut, strtok_ptr, scr, heap, reader, user>>

Token ==
  /\ Scanning /\ Strtok.token # Null
  /\ Scanned
  /\ tokens' = Append(tokens, Strtok.token)
  /\ \/ /\ pc' = "token"
        /\ tokbufsize' = IF Len(tokens') < tokbufsize THEN tokbufsize
                         ELSE tokbufsize + LSH_TOK_BUFSIZE
        /\ UNCHANGED <<scr, heap>>
     \/ /\ Len(tokens') >= tokbufsize                 \* realloc fails: both are freed
        /\ pc' = "prompt"
        /\ heap' = heap - 2
        /\ scr' = Say(scr)
        /\ UNCHANGED tokbufsize
  /\ UNCHANGED <<reader, user>>

\* tokens[position] = NULL
LastToken ==
  /\ Scanning /\ Strtok.token = Null
  /\ Scanned
  /\ pc' = "execute"
  /\ UNCHANGED <<tokens, tokbufsize, scr, reader, heap, user>>

-----------------------------------------------------------------------------
\* What a command may leave on the screen: lines of output, or with clear an
\* empty screen.  A line without tokens prints nothing.
Printed ==
  {scr} \cup (IF tokens = <<>> THEN {} ELSE {Say(scr), Say(Say(scr)), clear_screen})

\* lsh_execute and the frees that follow it, for every command that ends by itself:
\* all but edit with a file name, ring3 and ring3_shell.  lsh_shutdown returns no value: if
\* the machine is still on, the loop goes on or ends as it happens.  It ends in
\* kernel_main's last loop, or, when the loop was started by an exit, at the hlt
\* after it.
Command ==
  /\ pc = "execute"
  /\ heap' = heap - 2
  /\ scr' \in Printed
  /\ \/ pc' = "prompt"
     \/ tokens # <<>> /\ scr' = Say(scr) /\ pc' = "halted"
  /\ UNCHANGED <<reader, splitter, user>>

\* lsh_edit calls editorRun, which waits for keys until it is told to quit.
edit ==
  /\ Len(tokens) > 1
  /\ Goto("execute", "editor")
  /\ UNCHANGED <<reader, splitter, scr, heap, user>>

\* The editor clears the screen and returns; lsh_loop frees args and line.  E.rows
\* and the characters of each row stay allocated: initEditor sets E.rows to NULL
\* in the next session.
editorQuit ==
  /\ Goto("editor", "prompt")
  /\ scr' = clear_screen
  /\ \E rows \in 0 .. MaxDropped :
       /\ rows = 0 \/ dropped + rows <= MaxDropped
       /\ heap' = heap - 2 + rows
       /\ dropped' = dropped + rows
  /\ UNCHANGED <<reader, splitter, held, visits>>

shutdown ==
  /\ tokens # <<>>
  /\ Goto("execute", "off")
  /\ scr' = Say(scr)
  /\ UNCHANGED <<reader, splitter, heap, user>>

\* jump_to_userspace and jump_to_shell: line and args stay behind.
ring3 ==
  /\ tokens # <<>> /\ visits < MaxVisits
  /\ Goto("execute", "ring3")
  /\ visits' = visits + 1
  /\ UNCHANGED <<reader, splitter, scr, heap, held, dropped>>

\* syscall_dispatch: malloc and mem_free for a user program.
SysMalloc ==
  /\ pc = "ring3" /\ held < MaxUserBlocks
  /\ heap' = heap + 1 /\ held' = held + 1
  /\ UNCHANGED <<pc, reader, splitter, scr, visits, dropped>>

SysFree ==
  /\ pc = "ring3" /\ held > 0
  /\ heap' = heap - 1 /\ held' = held - 1
  /\ UNCHANGED <<pc, reader, splitter, scr, visits, dropped>>

\* syscall_dispatch: print, backspace, clear, and the cells and the cursor of an
\* editor, which a user program may leave anywhere.
SysScreen ==
  /\ pc = "ring3" /\ scr.loc < MaxLoc
  /\ \/ scr' = kprintf(scr, <<Out>>)
     \/ scr' = Erase(scr)
     \/ scr' = clear_screen
     \/ \E row \in 0 .. LINES - 1 :
          \/ scr' = kvga_set_cursor(scr, row, 0)
          \/ scr' = kvga_write_char(scr, row, 2, Out)
          \/ scr' = kvga_clear_to_eol(scr, row, 0)
  /\ UNCHANGED <<pc, reader, splitter, heap, user>>

\* exit_requested: the handler drops the user program and calls lsh_loop on the
\* kernel stack it was left on.
SysExit ==
  /\ Goto("ring3", "prompt")
  /\ dropped' = dropped + held /\ held' = 0
  /\ UNCHANGED <<reader, splitter, scr, heap, visits>>

Init ==
  /\ pc = "prompt"
  /\ line = <<>> /\ bufsize = 0
  /\ tokens = <<>> /\ tokbufsize = 0 /\ cut = {} /\ strtok_ptr = Null
  /\ scr = clear_screen
  /\ heap = 0
  /\ held = 0 /\ visits = 0 /\ dropped = 0

Parse == SplitLine \/ Token \/ LastToken
Run == Command \/ edit \/ shutdown \/ ring3

Next ==
  \/ ReadLine \/ Backspace \/ (\E c \in {Word, Delim} : Char(c)) \/ Enter
  \/ Parse \/ Run \/ editorQuit
  \/ SysMalloc \/ SysFree \/ SysScreen \/ SysExit

\* The kernel goes on by itself while it parses a line and starts a command.
\* Nothing obliges a person to type, to quit the editor or a program to exit.
Spec == Init /\ [][Next]_vars /\ WF_vars(Parse) /\ WF_vars(Run)

-----------------------------------------------------------------------------
TypeOK ==
  /\ pc \in {"prompt", "reading", "split", "first", "token", "execute", "editor", "ring3",
            "halted", "off"}
  /\ line \in Seq({Word, Delim}) /\ bufsize \in Nat
  /\ tokens \in Seq(1 .. MaxLine) /\ tokbufsize \in Nat
  /\ cut \subseteq 1 .. MaxLine /\ strtok_ptr \in 0 .. MaxLine + 1
  /\ scr \in [cells : [Cells -> {Word, Delim, Out, ">", Blank}], loc : Nat]
  /\ heap \in Nat
  /\ held \in 0 .. MaxUserBlocks /\ visits \in 0 .. MaxVisits /\ dropped \in Nat

\* There is always room for the next character or the '\0' of the line, and for
\* the next token or the NULL after the last.
RoomForNext ==
  /\ pc \in {"reading", "split"} => position < bufsize
  /\ pc \in {"first", "token", "execute"} => Len(tokens) < tokbufsize

\* While a line is typed, the cells before the cursor spell the prompt and what
\* is in the buffer, through any number of corrections and over the ends of the
\* lines, as far as they are on the screen; behind the cursor the screen is blank
\* unless a user program has moved it.
EchoShowsLine ==
  pc = "reading" =>
    LET shown == Prompt \o line
        from == scr.loc - Len(shown)
    IN  /\ from >= 0
        /\ \A i \in DOMAIN shown : from + i - 1 \in Cells => scr.cells[from + i - 1] = shown[i]
        /\ visits = 0 => \A i \in Cells : i >= scr.loc => scr.cells[i] = Blank

\* Where the words of the line start, and the places behind them.
WordStarts == {i \in DOMAIN line : line[i] = Word /\ (i = 1 \/ line[i - 1] = Delim)}
WordEnds == {i \in DOMAIN line : line[i] = Delim /\ i > 1 /\ line[i - 1] = Word}

\* The command runs on the words of the line: args is where they start, in their
\* order, each ends in a '\0', and no character of a word was overwritten.
TokensAreWords ==
  pc = "execute" =>
    /\ Range(tokens) = WordStarts
    /\ \A i, j \in DOMAIN tokens : i < j => tokens[i] < tokens[j]
    /\ WordEnds \subseteq cut
    /\ \A i \in DOMAIN line : line[i] = Word => i \notin cut

\* The line and the tokens are given back exactly once on every path that comes
\* back to the prompt, failed allocations included: the live blocks there are the
\* line and the tokens of every loop that was left for ring 3, and what user
\* programs and sessions of the editor did not give back.
PromptHeap == pc = "prompt" => heap = 2 * visits + dropped

\* A line that was entered is carried through to the next prompt, into the editor
\* or ring 3, or to the end of the shell, however many tokens it has.
LineIsRun == (pc = "split") ~> (pc \in {"prompt", "editor", "ring3", "halted", "off"})
=============================================================================
