----------------------------- MODULE ShellProofs -----------------------------
(***************************************************************************)
(* Proofs about the kernel shell, for every line length, buffer size,      *)
(* screen and number of visits to ring 3: no write past the line buffer or *)
(* the token table, line and tokens freed once on the way back to the      *)
(* prompt, the screen shows the line, and strtok hands the command the     *)
(* words of the line.                                                      *)
(***************************************************************************)
EXTENDS Shell, SequenceTheorems, NaturalsInduction, WellFoundedInduction, TLAPS

Glyphs == {Word, Delim, Out, ">", Blank}
Screens == [cells : [Cells -> Glyphs], loc : Nat]

\* Behind the cursor the screen is blank.
BlankBehind(s) == \A i \in Cells : i >= s.loc => s.cells[i] = Blank

\* The cells before the cursor spell the prompt and l, as far as they are on the
\* screen.
Spells(s, l) ==
  /\ s.loc >= Len(l) + 2
  /\ s.loc - Len(l) - 2 \in Cells => s.cells[s.loc - Len(l) - 2] = ">"
  /\ s.loc - Len(l) - 1 \in Cells => s.cells[s.loc - Len(l) - 1] = Blank
  /\ \A i \in 1 .. Len(l) :
       s.loc - Len(l) + i - 1 \in Cells => s.cells[s.loc - Len(l) + i - 1] = l[i]

ScreenInv ==
  /\ pc = "reading" => Spells(scr, line)
  /\ visits = 0 => BlankBehind(scr)

\* What is live, by where the shell is: the line, the tokens, and in ring 3 what
\* the user program holds.
HeapInv ==
  /\ pc = "prompt" => heap = 2 * visits + dropped
  /\ pc \in {"reading", "split"} => heap = 2 * visits + dropped + 1
  /\ pc \in {"first", "token", "execute", "editor"} => heap = 2 * visits + dropped + 2
  /\ pc = "ring3" => heap = 2 * visits + dropped + held /\ visits > 0
  /\ pc # "ring3" => held = 0

\* The line before place p has been cut: toks are the starts of its words and
\* cuts lie on delimiters only, the ones behind words among them.
CutUpTo(p, toks, cuts) ==
  /\ Range(toks) = {i \in WordStarts : i < p}
  /\ \A i, j \in DOMAIN toks : i < j => toks[i] < toks[j]
  /\ cuts \subseteq {i \in DOMAIN line : i < p /\ line[i] = Delim}
  /\ \A i \in WordEnds : i < p => i \in cuts

LineEnd == Len(line) + 1

ScanInv ==
  /\ pc = "first" => CutUpTo(1, tokens, cut)
  /\ pc = "token" /\ strtok_ptr # Null =>
       /\ strtok_ptr \in 2 .. LineEnd /\ line[strtok_ptr - 1] = Delim
       /\ CutUpTo(strtok_ptr, tokens, cut)
  /\ pc = "token" /\ strtok_ptr = Null => CutUpTo(LineEnd, tokens, cut)
  /\ pc = "execute" => CutUpTo(LineEnd, tokens, cut)

IInv == /\ TypeOK /\ Len(line) <= MaxLine
        /\ RoomForNext /\ HeapInv /\ ScreenInv /\ ScanInv

-----------------------------------------------------------------------------
(* The screen.                                                             *)

\* One character as kprintf prints it.
PutChar(s, c) == IF c = NL THEN kprint_newline(s) ELSE Put(s, c)

\* kprintf of two characters prints the one and then the other.
LEMMA KprintfTwo ==
  ASSUME NEW s, NEW a, NEW b
  PROVE  kprintf(s, <<a, b>>) = PutChar(PutChar(s, a), b)
  <1> DEFINE str == <<a, b>>
             Body(g, S) == IF S = {} THEN s ELSE PutChar(g[S \ {Max(S)}], str[Max(S)])
             IsFold(g) == g = [S \in SUBSET DOMAIN str |-> Body(g, S)]
             fold == CHOOSE g : IsFold(g)
             w == [S \in SUBSET {1, 2} |->
                     IF S = {} THEN s ELSE IF S = {1} THEN PutChar(s, a)
                     ELSE IF S = {2} THEN PutChar(s, b) ELSE PutChar(PutChar(s, a), b)]
  <1>1. kprintf(s, str) = fold[DOMAIN str]
    BY DEF kprintf, FoldLeft, MapThenFoldSet, PutChar
  <1>2. DOMAIN str = {1, 2} /\ str[1] = a /\ str[2] = b
    OBVIOUS
  <1>3. Max({1}) = 1 /\ Max({2}) = 2 /\ Max({1, 2}) = 2
    BY DEF Max
  <1>4. SUBSET {1, 2} = {{}, {1}, {2}, {1, 2}}
    OBVIOUS
  <1>5. {1} \ {1} = {} /\ {2} \ {2} = {} /\ {1, 2} \ {2} = {1}
    OBVIOUS
  <1>6. w[{}] = s /\ w[{1}] = PutChar(s, a) /\ w[{2}] = PutChar(s, b) /\ w[{1, 2}] = PutChar(PutChar(s, a), b)
    OBVIOUS
  <1>7. \A S \in SUBSET {1, 2} : w[S] = Body(w, S)
    <2> HIDE DEF w, str
    <2>1. w[{}] = Body(w, {})
      BY <1>6
    <2>2. w[{1}] = Body(w, {1})
      BY <1>2, <1>3, <1>5, <1>6
    <2>3. w[{2}] = Body(w, {2})
      BY <1>2, <1>3, <1>5, <1>6
    <2>4. w[{1, 2}] = Body(w, {1, 2})
      BY <1>2, <1>3, <1>5, <1>6
    <2>5. QED
      BY <1>4, <2>1, <2>2, <2>3, <2>4
  <1>8. w = [S \in SUBSET {1, 2} |-> w[S]]
    OBVIOUS
  <1>9. IsFold(w)
    <2> HIDE DEF w, str, Body
    <2>1. QED
      BY <1>2, <1>7, <1>8
  <1>10. IsFold(fold)
    <2> HIDE DEF w, IsFold
    <2>1. QED
      BY <1>9
  <1>11. \A S \in SUBSET {1, 2} : fold[S] = Body(fold, S)
    <2> HIDE DEF fold, str, Body
    <2>1. QED
      BY <1>2, <1>10
  <1>12. QED
    <2> HIDE DEF fold, str
    <2>1. fold[{}] = s
      BY <1>11
    <2>2. fold[{1}] = PutChar(fold[{}], a)
      BY <1>2, <1>3, <1>5, <1>11
    <2>3. fold[{1, 2}] = PutChar(fold[{1}], b)
      BY <1>2, <1>3, <1>5, <1>11
    <2>4. QED
      BY <1>1, <1>2, <2>1, <2>2, <2>3 DEF str

\* kprintf of one character prints it.
LEMMA KprintfOne ==
  ASSUME NEW s, NEW a
  PROVE  kprintf(s, <<a>>) = PutChar(s, a)
  <1> DEFINE str == <<a>>
             Body(g, S) == IF S = {} THEN s ELSE PutChar(g[S \ {Max(S)}], str[Max(S)])
             IsFold(g) == g = [S \in SUBSET DOMAIN str |-> Body(g, S)]
             fold == CHOOSE g : IsFold(g)
             w == [S \in SUBSET {1} |-> IF S = {} THEN s ELSE PutChar(s, a)]
  <1>1. kprintf(s, str) = fold[DOMAIN str]
    BY DEF kprintf, FoldLeft, MapThenFoldSet, PutChar
  <1>2. DOMAIN str = {1} /\ str[1] = a
    OBVIOUS
  <1>3. Max({1}) = 1
    BY DEF Max
  <1>4. SUBSET {1} = {{}, {1}} /\ {1} \ {1} = {}
    OBVIOUS
  <1>5. w[{}] = s /\ w[{1}] = PutChar(s, a)
    OBVIOUS
  <1>6. w = [S \in SUBSET {1} |-> w[S]]
    OBVIOUS
  <1>7. IsFold(w)
    <2>1. \A S \in SUBSET {1} : w[S] = Body(w, S)
      <3> HIDE DEF w, str
      <3>1. w[{}] = Body(w, {})
        BY <1>5
      <3>2. w[{1}] = Body(w, {1})
        BY <1>2, <1>3, <1>4, <1>5
      <3>3. QED
        BY <1>4, <3>1, <3>2
    <2> HIDE DEF w, str, Body
    <2>2. QED
      BY <1>2, <1>6, <2>1
  <1>8. IsFold(fold)
    <2> HIDE DEF w, IsFold
    <2>1. QED
      BY <1>7
  <1>9. \A S \in SUBSET {1} : fold[S] = Body(fold, S)
    <2> HIDE DEF fold, str, Body
    <2>1. QED
      BY <1>2, <1>8
  <1>10. QED
    <2> HIDE DEF fold, str
    <2>1. fold[{}] = s
      BY <1>9
    <2>2. fold[{1}] = PutChar(fold[{}], a)
      BY <1>2, <1>3, <1>4, <1>9
    <2>3. QED
      BY <1>1, <1>2, <2>1, <2>2 DEF str

\* A character put on the screen.
LEMMA PutFacts ==
  ASSUME NEW s \in Screens, NEW g \in Glyphs
  PROVE  /\ Put(s, g) \in Screens /\ Put(s, g).loc = s.loc + 1
         /\ s.loc \in Cells => Put(s, g).cells[s.loc] = g
         /\ \A i \in Cells : i # s.loc => Put(s, g).cells[i] = s.cells[i]
         /\ BlankBehind(s) => BlankBehind(Put(s, g))
  <1>1. s.cells \in [Cells -> Glyphs] /\ s.loc \in Nat
    BY DEF Screens
  <1>2. /\ Put(s, g).loc = s.loc + 1
        /\ Put(s, g).cells = IF s.loc \in Cells THEN [s.cells EXCEPT ![s.loc] = g] ELSE s.cells
    BY DEF Put
  <1>3. Put(s, g) = [cells |-> Put(s, g).cells, loc |-> Put(s, g).loc]
    BY DEF Put
  <1>4. Put(s, g).cells \in [Cells -> Glyphs]
    BY <1>1, <1>2
  <1>5. Put(s, g) \in Screens
    BY <1>1, <1>2, <1>3, <1>4 DEF Screens
  <1>6. /\ s.loc \in Cells => Put(s, g).cells[s.loc] = g
        /\ \A i \in Cells : i # s.loc => Put(s, g).cells[i] = s.cells[i]
    BY <1>1, <1>2
  <1>7. BlankBehind(s) => BlankBehind(Put(s, g))
    <2> SUFFICES ASSUME BlankBehind(s), NEW i \in Cells, i >= s.loc + 1
                 PROVE  Put(s, g).cells[i] = Blank
      BY <1>2 DEF BlankBehind
    <2>1. i \in Int
      BY DEF Cells
    <2>2. i # s.loc /\ i >= s.loc
      BY <1>1, <2>1
    <2>3. QED
      BY <1>6, <2>2 DEF BlankBehind
  <1>8. QED
    BY <1>2, <1>5, <1>6, <1>7

\* A new line moves the cursor on and writes nothing.
LEMMA NewlineFacts ==
  ASSUME NEW s \in Screens
  PROVE  /\ kprint_newline(s) \in Screens
         /\ BlankBehind(s) => BlankBehind(kprint_newline(s))
  <1> DEFINE skip == COLUMNS_IN_LINE - (s.loc % COLUMNS_IN_LINE)
             t == kprint_newline(s)
  <1>1. s.cells \in [Cells -> Glyphs] /\ s.loc \in Nat
    BY DEF Screens
  <1>2. skip \in Nat
    BY <1>1, ConsoleAssumption
  <1>3. t = [s EXCEPT !.loc = @ + skip]
    BY DEF kprint_newline
  <1> HIDE DEF skip
  <1>4. t.cells = s.cells /\ t.loc = s.loc + skip /\ t \in Screens
    BY <1>1, <1>2, <1>3 DEF Screens
  <1>5. Cells \subseteq Int
    BY DEF Cells
  <1>6. QED
    BY <1>1, <1>2, <1>4, <1>5 DEF BlankBehind

\* The cell before the cursor is blanked.
LEMMA EraseFacts ==
  ASSUME NEW s \in Screens
  PROVE  /\ Erase(s) \in Screens
         /\ s.loc > 0 =>
              /\ Erase(s).loc = s.loc - 1
              /\ \A i \in Cells : Erase(s).cells[i] = IF i = s.loc - 1 THEN Blank ELSE s.cells[i]
         /\ BlankBehind(s) => BlankBehind(Erase(s))
  <1>1. s.cells \in [Cells -> Glyphs] /\ s.loc \in Nat /\ Cells \subseteq Int /\ Blank \in Glyphs
    BY DEF Screens, Cells, Glyphs
  <1>2. CASE s.loc = 0
    BY <1>2 DEF Erase
  <1>3. CASE s.loc # 0
    <2> DEFINE back == [s EXCEPT !.loc = @ - 1]
               t == Put(back, Blank)
    <2>1. back \in Screens /\ back.loc = s.loc - 1 /\ back.cells = s.cells
      BY <1>1, <1>3 DEF Screens
    <2>2. /\ t \in Screens
          /\ s.loc - 1 \in Cells => t.cells[s.loc - 1] = Blank
          /\ \A i \in Cells : i # s.loc - 1 => t.cells[i] = s.cells[i]
      <3> HIDE DEF back
      <3>1. QED
        BY <1>1, <2>1, PutFacts
    <2>3. Erase(s) = [t EXCEPT !.loc = s.loc - 1]
      BY <1>3 DEF Erase
    <2> HIDE DEF t
    <2>4. Erase(s) \in Screens /\ Erase(s).loc = s.loc - 1 /\ Erase(s).cells = t.cells
      BY <1>1, <1>3, <2>2, <2>3 DEF Screens
    <2>5. \A i \in Cells : Erase(s).cells[i] = IF i = s.loc - 1 THEN Blank ELSE s.cells[i]
      BY <2>2, <2>4
    <2>6. BlankBehind(s) => BlankBehind(Erase(s))
      BY <1>1, <2>4, <2>5 DEF BlankBehind
    <2>7. QED
      BY <2>4, <2>5, <2>6
  <1>4. QED
    BY <1>2, <1>3

\* A message.
LEMMA SayFacts ==
  ASSUME NEW s \in Screens
  PROVE  Say(s) \in Screens /\ (BlankBehind(s) => BlankBehind(Say(s)))
  <1>1. Say(s) = kprint_newline(Put(s, Out))
    <2>1. Out # NL
      BY ShellAssumption
    <2>2. QED
      BY <2>1, KprintfTwo DEF Say, PutChar
  <1>2. Put(s, Out) \in Screens /\ (BlankBehind(s) => BlankBehind(Put(s, Out)))
    BY PutFacts DEF Glyphs
  <1>3. QED
    BY <1>1, <1>2, NewlineFacts

\* The prompt: the two cells before the cursor show it.
LEMMA PromptFacts ==
  ASSUME NEW s \in Screens
  PROVE  /\ kprintf(s, Prompt) \in Screens /\ Spells(kprintf(s, Prompt), << >>)
         /\ BlankBehind(s) => BlankBehind(kprintf(s, Prompt))
  <1> DEFINE t == Put(s, ">")
             u == Put(t, Blank)
  <1>1. kprintf(s, Prompt) = u
    <2>1. ">" # NL /\ Blank # NL
      BY ShellAssumption
    <2>2. QED
      BY <2>1, KprintfTwo DEF Prompt, PutChar
  <1>2. ">" \in Glyphs /\ Blank \in Glyphs /\ s.loc \in Nat
    BY DEF Glyphs, Screens
  <1>3. /\ t \in Screens /\ t.loc = s.loc + 1
        /\ s.loc \in Cells => t.cells[s.loc] = ">"
        /\ BlankBehind(s) => BlankBehind(t)
    BY <1>2, PutFacts
  <1> HIDE DEF t
  <1>4. /\ u \in Screens /\ u.loc = s.loc + 2
        /\ t.loc \in Cells => u.cells[t.loc] = Blank
        /\ \A i \in Cells : i # t.loc => u.cells[i] = t.cells[i]
        /\ BlankBehind(t) => BlankBehind(u)
    BY <1>2, <1>3, PutFacts
  <1> HIDE DEF u
  <1>5. Spells(u, << >>)
    <2>1. Len(<< >>) = 0
      OBVIOUS
    <2>2. u.loc - 0 - 2 = s.loc /\ u.loc - 0 - 1 = t.loc /\ s.loc # t.loc
      BY <1>2, <1>3, <1>4
    <2>3. s.loc \in Cells => u.cells[s.loc] = ">"
      BY <1>3, <1>4, <2>2
    <2>4. QED
      BY <1>2, <1>4, <2>1, <2>2, <2>3 DEF Spells
  <1>6. QED
    BY <1>1, <1>3, <1>4, <1>5

\* What user programs do to the screen leaves it a screen.
LEMMA UserScreenFacts ==
  ASSUME NEW s \in Screens, NEW row \in 0 .. LINES - 1
  PROVE  /\ kprintf(s, <<Out>>) \in Screens /\ clear_screen \in Screens
         /\ kvga_set_cursor(s, row, 0) \in Screens
         /\ kvga_write_char(s, row, 2, Out) \in Screens
         /\ kvga_clear_to_eol(s, row, 0) \in Screens
  <1>1. s.cells \in [Cells -> Glyphs] /\ s.loc \in Nat /\ Blank \in Glyphs /\ Out \in Glyphs
    BY DEF Screens, Glyphs
  <1>2. kprintf(s, <<Out>>) \in Screens
    <2>1. kprintf(s, <<Out>>) = Put(s, Out)
      BY ShellAssumption, KprintfOne DEF PutChar
    <2>2. QED
      BY <1>1, <2>1, PutFacts
  <1>3. clear_screen \in Screens
    BY <1>1 DEF clear_screen, Screens
  <1>4. kvga_set_cursor(s, row, 0) \in Screens
    <2>1. At(row, 0) \in Nat
      BY ConsoleAssumption DEF At
    <2>2. QED
      BY <1>1, <2>1 DEF kvga_set_cursor, Screens
  <1>5. kvga_write_char(s, row, 2, Out) \in Screens
    <2>1. [i \in Cells |-> IF i = At(row, 2) THEN Out ELSE s.cells[i]] \in [Cells -> Glyphs]
      BY <1>1
    <2>2. QED
      BY <1>1, <2>1 DEF kvga_write_char, Screens
  <1>6. kvga_clear_to_eol(s, row, 0) \in Screens
    <2>1. [i \in Cells |-> IF i \in At(row, 0) .. At(row + 1, 0) - 1 THEN Blank ELSE s.cells[i]]
            \in [Cells -> Glyphs]
      BY <1>1
    <2>2. QED
      BY <1>1, <2>1 DEF kvga_clear_to_eol, Screens
  <1>7. QED
    BY <1>2, <1>3, <1>4, <1>5, <1>6

\* A character typed and echoed: the screen spells the longer line.
LEMMA SpellsPut ==
  ASSUME NEW s \in Screens, NEW l \in Seq({Word, Delim}), NEW g \in {Word, Delim}, Spells(s, l)
  PROVE  Spells(Put(s, g), Append(l, g))
  <1> DEFINE t == Put(s, g)
             k == Append(l, g)
  <1>1. s.loc \in Nat /\ Len(l) \in Nat
    BY DEF Screens
  <1>2. /\ Len(k) = Len(l) + 1 /\ k[Len(k)] = g
        /\ \A i \in 1 .. Len(l) : k[i] = l[i]
    OBVIOUS
  <1>3. /\ t.loc = s.loc + 1
        /\ s.loc \in Cells => t.cells[s.loc] = g
        /\ \A i \in Cells : i # s.loc => t.cells[i] = s.cells[i]
    BY PutFacts DEF Glyphs
  <1> HIDE DEF t, k
  <1>4. s.loc >= Len(l) + 2
    BY DEF Spells
  <1>5. t.loc >= Len(k) + 2
    BY <1>1, <1>2, <1>3, <1>4
  <1>6. t.loc - Len(k) - 2 = s.loc - Len(l) - 2 /\ t.loc - Len(k) - 1 = s.loc - Len(l) - 1
    <2>1. \A a, b \in Nat : (a + 1) - (b + 1) - 2 = a - b - 2 /\ (a + 1) - (b + 1) - 1 = a - b - 1
      OBVIOUS
    <2>2. QED
      BY <1>1, <1>2, <1>3, <2>1
  <1>7. /\ t.loc - Len(k) - 2 \in Cells => t.cells[t.loc - Len(k) - 2] = ">"
        /\ t.loc - Len(k) - 1 \in Cells => t.cells[t.loc - Len(k) - 1] = Blank
    <2>1. s.loc - Len(l) - 2 # s.loc /\ s.loc - Len(l) - 1 # s.loc
      BY <1>1
    <2>2. QED
      BY <1>3, <1>6, <2>1 DEF Spells
  <1>8. ASSUME NEW i \in 1 .. Len(k), t.loc - Len(k) + i - 1 \in Cells
        PROVE  t.cells[t.loc - Len(k) + i - 1] = k[i]
    <2>1. t.loc - Len(k) + i - 1 = s.loc - Len(l) + i - 1
      BY <1>1, <1>2, <1>3
    <2>2. CASE i = Len(k)
      <3>1. s.loc - Len(l) + i - 1 = s.loc
        BY <1>1, <1>2, <2>2
      <3>2. QED
        BY <1>2, <1>3, <1>8, <2>1, <2>2, <3>1
    <2>3. CASE i # Len(k)
      <3>1. i \in 1 .. Len(l) /\ s.loc - Len(l) + i - 1 # s.loc
        BY <1>1, <1>2, <2>3
      <3>2. QED
        BY <1>2, <1>3, <1>8, <2>1, <3>1 DEF Spells
    <2>4. QED
      BY <2>2, <2>3
  <1>9. QED
    BY <1>5, <1>7, <1>8 DEF Spells, t, k

\* A line without its last character.
LEMMA ShorterFacts ==
  ASSUME NEW l \in Seq({Word, Delim}), Len(l) > 0
  PROVE  /\ SubSeq(l, 1, Len(l) - 1) \in Seq({Word, Delim})
         /\ Len(SubSeq(l, 1, Len(l) - 1)) = Len(l) - 1
         /\ \A i \in 1 .. Len(l) - 1 : SubSeq(l, 1, Len(l) - 1)[i] = l[i]
  <1> DEFINE n == Len(l) - 1
             S == {Word, Delim}
             k == SubSeq(l, 1, n)
  <1>1. n \in Nat /\ n \in Int /\ l \in Seq(S) /\ \A i \in 1 .. n : l[i] \in S
    <2>1. l \in Seq(S)
      OBVIOUS
    <2> HIDE DEF S
    <2>2. QED
      BY <2>1
  <1> HIDE DEF n, S
  <1>2. k = [i \in 1 .. n |-> l[i]]
    BY <1>1
  <1>3. k \in Seq(S) /\ Len(k) = n
    BY <1>1, <1>2
  <1>4. QED
    BY <1>2, <1>3 DEF n, S

\* A correction: the screen spells the shorter line.
LEMMA SpellsErase ==
  ASSUME NEW s \in Screens, NEW l \in Seq({Word, Delim}), Len(l) > 0, Spells(s, l)
  PROVE  Spells(Erase(s), SubSeq(l, 1, Len(l) - 1))
  <1> DEFINE t == Erase(s)
             k == SubSeq(l, 1, Len(l) - 1)
  <1>1. s.loc \in Nat /\ Len(l) \in Nat /\ s.loc >= Len(l) + 2
    BY DEF Screens, Spells
  <1>2. Len(k) = Len(l) - 1 /\ \A i \in 1 .. Len(k) : k[i] = l[i]
    BY ShorterFacts
  <1>3. /\ t.loc = s.loc - 1
        /\ \A i \in Cells : t.cells[i] = IF i = s.loc - 1 THEN Blank ELSE s.cells[i]
    BY <1>1, EraseFacts
  <1> HIDE DEF t, k
  <1>4. t.loc >= Len(k) + 2
    BY <1>1, <1>2, <1>3
  <1>5. t.loc - Len(k) - 2 = s.loc - Len(l) - 2 /\ t.loc - Len(k) - 1 = s.loc - Len(l) - 1
    BY <1>1, <1>2, <1>3
  <1>6. /\ t.loc - Len(k) - 2 \in Cells => t.cells[t.loc - Len(k) - 2] = ">"
        /\ t.loc - Len(k) - 1 \in Cells => t.cells[t.loc - Len(k) - 1] = Blank
    <2>1. s.loc - Len(l) - 2 # s.loc - 1
      BY <1>1
    <2>2. QED
      BY <1>3, <1>5, <2>1 DEF Spells
  <1>7. ASSUME NEW i \in 1 .. Len(k), t.loc - Len(k) + i - 1 \in Cells
        PROVE  t.cells[t.loc - Len(k) + i - 1] = k[i]
    <2>1. t.loc - Len(k) + i - 1 = s.loc - Len(l) + i - 1 /\ i \in 1 .. Len(l)
      BY <1>1, <1>2, <1>3
    <2>2. s.loc - Len(l) + i - 1 # s.loc - 1
      BY <1>1, <1>2
    <2>3. QED
      BY <1>2, <1>3, <1>7, <2>1, <2>2 DEF Spells
  <1>8. QED
    BY <1>4, <1>6, <1>7 DEF Spells, t, k

-----------------------------------------------------------------------------
(* Reading a line.                                                         *)

\* The screen is a screen.
LEMMA ScreenTyped == TypeOK => scr \in Screens
  BY DEF TypeOK, Screens, Glyphs

\* The prompt and the buffer for the line, or the end of the shell.
LEMMA ReadLineIInv ==
  ASSUME IInv, ReadLine
  PROVE  IInv'
  <1>1. scr \in Screens /\ pc = "prompt" /\ line \in Seq({Word, Delim}) /\ heap \in Nat
    BY ScreenTyped DEF IInv, ReadLine, Goto, TypeOK
  <1> DEFINE s == kprintf(scr, Prompt)
  <1>2. s \in Screens /\ Spells(s, << >>) /\ (BlankBehind(scr) => BlankBehind(s))
    BY <1>1, PromptFacts
  <1> HIDE DEF s
  <1>3. UNCHANGED <<tokens, tokbufsize, cut, strtok_ptr, held, visits, dropped>>
    BY DEF ReadLine, splitter, user
  <1>4. CASE /\ pc' = "reading" /\ scr' = s /\ heap' = heap + 1
             /\ line' = << >> /\ bufsize' = LSH_RL_BUFSIZE
    <2>1. TypeOK'
      BY <1>1, <1>2, <1>3, <1>4, ShellAssumption DEF IInv, TypeOK, Screens, Glyphs
    <2>2. Len(line') <= MaxLine /\ RoomForNext'
      BY <1>4, ShellAssumption DEF RoomForNext, position
    <2>3. HeapInv'
      BY <1>1, <1>3, <1>4 DEF IInv, HeapInv, TypeOK
    <2>4. ScreenInv' /\ ScanInv'
      BY <1>2, <1>3, <1>4 DEF IInv, ScreenInv, ScanInv
    <2>5. QED
      BY <2>1, <2>2, <2>3, <2>4 DEF IInv
  <1>5. CASE /\ pc' = "halted" /\ scr' = Say(Say(s)) /\ UNCHANGED <<line, bufsize, heap>>
    <2>1. scr' \in Screens /\ (BlankBehind(scr) => BlankBehind(scr'))
      BY <1>2, <1>5, SayFacts
    <2>2. TypeOK' /\ Len(line') <= MaxLine
      BY <1>3, <1>5, <2>1 DEF IInv, TypeOK, Screens, Glyphs
    <2>3. RoomForNext' /\ HeapInv' /\ ScanInv'
      BY <1>1, <1>3, <1>5 DEF IInv, RoomForNext, HeapInv, ScanInv
    <2>4. ScreenInv'
      BY <1>3, <1>5, <2>1 DEF IInv, ScreenInv
    <2>5. QED
      BY <2>2, <2>3, <2>4 DEF IInv
  <1>6. QED
    BY <1>4, <1>5 DEF ReadLine, Goto, reader, s

\* A correction.
LEMMA BackspaceIInv ==
  ASSUME IInv, Backspace
  PROVE  IInv'
  <1>1. /\ scr \in Screens /\ pc = "reading" /\ line \in Seq({Word, Delim}) /\ Len(line) > 0
        /\ bufsize \in Nat
    BY ScreenTyped DEF IInv, Backspace, TypeOK, position
  <1>2. /\ UNCHANGED <<pc, bufsize, tokens, tokbufsize, cut, strtok_ptr, heap, held, visits, dropped>>
        /\ line' = SubSeq(line, 1, Len(line) - 1) /\ scr' = Erase(scr)
    BY DEF Backspace, splitter, user, position
  <1>3. scr' \in Screens /\ (BlankBehind(scr) => BlankBehind(scr'))
    BY <1>1, <1>2, EraseFacts
  <1>4. line' \in Seq({Word, Delim}) /\ Len(line') = Len(line) - 1
    BY <1>1, <1>2, ShorterFacts
  <1>5. Spells(scr', line')
    BY <1>1, <1>2, SpellsErase DEF IInv, ScreenInv
  <1>6. TypeOK'
    BY <1>2, <1>3, <1>4 DEF IInv, TypeOK, Screens, Glyphs
  <1>7. Len(line') <= MaxLine /\ RoomForNext'
    BY <1>1, <1>2, <1>4, ShellAssumption DEF IInv, RoomForNext, position
  <1>8. HeapInv' /\ ScanInv'
    BY <1>1, <1>2 DEF IInv, HeapInv, ScanInv
  <1>9. ScreenInv'
    BY <1>2, <1>3, <1>5 DEF IInv, ScreenInv
  <1>10. QED
    BY <1>6, <1>7, <1>8, <1>9 DEF IInv

\* A character and the buffer that grows with it.
LEMMA CharIInv ==
  ASSUME IInv, NEW g \in {Word, Delim}, Char(g)
  PROVE  IInv'
  <1>1. /\ scr \in Screens /\ pc = "reading" /\ line \in Seq({Word, Delim})
        /\ bufsize \in Nat /\ heap \in Nat /\ Len(line) < MaxLine /\ Len(line) \in Nat
        /\ Len(line) < bufsize /\ heap = 2 * visits + dropped + 1
        /\ visits \in Nat /\ dropped \in Nat
    BY ScreenTyped DEF IInv, Char, TypeOK, position, RoomForNext, HeapInv
  <1>2. /\ UNCHANGED <<tokens, tokbufsize, cut, strtok_ptr, held, visits, dropped>>
        /\ line' = Append(line, g)
    BY DEF Char, splitter, user
  <1>3. line' \in Seq({Word, Delim}) /\ Len(line') = Len(line) + 1
    BY <1>1, <1>2
  <1>4. /\ Put(scr, g) \in Screens /\ (BlankBehind(scr) => BlankBehind(Put(scr, g)))
        /\ Spells(Put(scr, g), line')
    BY <1>1, <1>2, PutFacts, SpellsPut DEF Glyphs, IInv, ScreenInv
  <1>5. CASE /\ scr' = Put(scr, g) /\ UNCHANGED <<pc, heap>>
             /\ bufsize' \in Nat /\ Len(line) + 1 < bufsize'
    <2>1. TypeOK'
      BY <1>2, <1>3, <1>4, <1>5 DEF IInv, TypeOK, Screens, Glyphs
    <2>2. Len(line') <= MaxLine /\ RoomForNext'
      BY <1>1, <1>2, <1>3, <1>5, ShellAssumption DEF IInv, RoomForNext, position
    <2>3. HeapInv' /\ ScanInv'
      BY <1>1, <1>2, <1>5 DEF IInv, HeapInv, ScanInv
    <2>4. ScreenInv'
      BY <1>2, <1>4, <1>5 DEF IInv, ScreenInv
    <2>5. QED
      BY <2>1, <2>2, <2>3, <2>4 DEF IInv
  <1>6. CASE /\ scr' = Say(Say(Put(scr, g))) /\ pc' = "halted" /\ heap' = heap - 1
             /\ UNCHANGED bufsize
    <2>1. scr' \in Screens /\ (BlankBehind(scr) => BlankBehind(scr'))
      BY <1>4, <1>6, SayFacts
    <2>2. TypeOK'
      BY <1>1, <1>2, <1>3, <1>6, <2>1 DEF IInv, TypeOK, Screens, Glyphs
    <2>3. Len(line') <= MaxLine
      BY <1>1, <1>3, ShellAssumption
    <2>4. RoomForNext' /\ HeapInv' /\ ScanInv'
      BY <1>1, <1>2, <1>6 DEF IInv, RoomForNext, HeapInv, ScanInv
    <2>5. ScreenInv'
      BY <1>2, <1>6, <2>1 DEF IInv, ScreenInv
    <2>6. QED
      BY <2>2, <2>3, <2>4, <2>5 DEF IInv
  <1>7. QED
    <2>1. LSH_RL_BUFSIZE \in Nat /\ LSH_RL_BUFSIZE > 0
      BY ShellAssumption
    <2>2. QED
      BY <1>1, <1>5, <1>6, <2>1 DEF Char, position

\* The end of the line.
LEMMA EnterIInv ==
  ASSUME IInv, Enter
  PROVE  IInv'
  <1>1. scr \in Screens /\ pc = "reading" /\ pc' = "split" /\ scr' = kprint_newline(scr)
    BY ScreenTyped DEF IInv, Enter, Goto
  <1>2. UNCHANGED <<line, bufsize, tokens, tokbufsize, cut, strtok_ptr, heap, held, visits, dropped>>
    BY DEF Enter, reader, splitter, user
  <1>3. scr' \in Screens /\ (BlankBehind(scr) => BlankBehind(scr'))
    BY <1>1, NewlineFacts
  <1>4. TypeOK' /\ Len(line') <= MaxLine
    BY <1>1, <1>2, <1>3 DEF IInv, TypeOK, Screens, Glyphs
  <1>5. RoomForNext' /\ HeapInv' /\ ScanInv'
    BY <1>1, <1>2 DEF IInv, RoomForNext, position, HeapInv, ScanInv
  <1>6. ScreenInv'
    BY <1>1, <1>2, <1>3 DEF IInv, ScreenInv
  <1>7. QED
    BY <1>4, <1>5, <1>6 DEF IInv

-----------------------------------------------------------------------------
(* Cutting the line.                                                       *)

\* A scan stops at the first character of another kind, at the latest at the
\* '\0' behind the line.
LEMMA SkipFacts ==
  ASSUME NEW p \in Nat, NEW kinds, Len(line) \in Nat, p <= LineEnd, NUL \notin kinds
  PROVE  /\ Skip(p, kinds) \in p .. LineEnd
         /\ CharAt(Skip(p, kinds)) \notin kinds
         /\ \A r \in p .. Skip(p, kinds) - 1 : CharAt(r) \in kinds
  <1> DEFINE S == {q \in p .. LineEnd : CharAt(q) \notin kinds}
  <1>1. LineEnd \in S
    BY DEF CharAt, LineEnd
  <1>2. S \subseteq Nat
    BY DEF LineEnd
  <1>3. PICK m \in S : \A k \in S : ~(<<k, m>> \in OpToRel(<, Nat))
    BY <1>1, <1>2, WFMin, NatLessThanWellFounded, Zenon
  <1>4. \A k \in S : ~(k < m)
    BY <1>2, <1>3, Zenon DEF OpToRel
  <1>5. m \in p .. LineEnd /\ CharAt(m) \notin kinds /\ LineEnd \in Nat
    BY DEF LineEnd
  <1>6. \A r \in p .. m - 1 : r \in p .. LineEnd /\ r < m
    BY <1>5
  <1>7. \A r \in p .. m - 1 : CharAt(r) \in kinds
    BY <1>4, <1>6
  <1>8. QED
    BY <1>5, <1>7 DEF Skip, LineEnd

\* Only delimiters up to the end of the line: there is no further word.
LEMMA ScanToEnd ==
  ASSUME line \in Seq({Word, Delim}), NEW p \in 1 .. LineEnd, p = 1 \/ line[p - 1] = Delim,
         NEW toks, NEW cuts, CutUpTo(p, toks, cuts),
         \A r \in p .. Len(line) : line[r] = Delim
  PROVE  CutUpTo(LineEnd, toks, cuts)
  <1>1. Len(line) \in Nat /\ DOMAIN line = 1 .. Len(line) /\ LineEnd = Len(line) + 1
    BY DEF LineEnd
  <1>2. \A i \in 1 .. Len(line) : i < LineEnd /\ (i < p \/ i \in p .. Len(line))
    BY <1>1
  <1>3. \A i \in WordStarts : i < p
    BY <1>1, <1>2 DEF WordStarts, Word, Delim
  <1>4. \A i \in WordEnds : i < p
    <2> SUFFICES ASSUME NEW i \in WordEnds, ~(i < p)
                 PROVE  FALSE
      OBVIOUS
    <2>1. i \in p .. Len(line) /\ i > 1 /\ line[i - 1] = Word /\ i \in Int
      BY <1>1, <1>2 DEF WordEnds
    <2>2. CASE i = p
      BY <2>1, <2>2 DEF Word, Delim
    <2>3. CASE i # p
      <3>1. i - 1 \in p .. Len(line)
        BY <1>1, <2>1, <2>3
      <3>2. QED
        BY <2>1, <3>1 DEF Word, Delim
    <2>4. QED
      BY <2>2, <2>3
  <1>5. {i \in WordStarts : i < LineEnd} = {i \in WordStarts : i < p}
    BY <1>1, <1>2, <1>3 DEF WordStarts
  <1>6. QED
    BY <1>1, <1>2, <1>4, <1>5 DEF CutUpTo

\* A word found: it starts a token behind all the others.
LEMMA WordFound ==
  ASSUME line \in Seq({Word, Delim}), NEW p \in 1 .. LineEnd, p = 1 \/ line[p - 1] = Delim,
         NEW toks \in Seq(1 .. MaxLine), NEW cuts, CutUpTo(p, toks, cuts),
         NEW start \in p .. Len(line), line[start] = Word,
         \A r \in p .. start - 1 : line[r] = Delim
  PROVE  /\ start \in WordStarts
         /\ \A i \in WordStarts : i < start => i < p
         /\ \A i, j \in DOMAIN Append(toks, start) : i < j => Append(toks, start)[i] < Append(toks, start)[j]
         /\ Range(Append(toks, start)) = {i \in WordStarts : i < p} \cup {start}
  <1>1. Len(line) \in Nat /\ DOMAIN line = 1 .. Len(line) /\ start \in Nat /\ p \in Nat /\ start >= p /\ p >= 1
    BY DEF LineEnd
  <1>2. start \in WordStarts
    <2>1. start = 1 \/ line[start - 1] = Delim
      <3>1. CASE start = p
        BY <3>1
      <3>2. CASE start # p
        <4>1. start - 1 \in p .. start - 1
          BY <1>1, <3>2
        <4>2. QED
          BY <4>1
      <3>3. QED
        BY <3>1, <3>2
    <2>2. start \in 1 .. Len(line)
      BY <1>1
    <2>3. QED
      BY <1>1, <2>1, <2>2 DEF WordStarts
  <1>3. \A i \in WordStarts : i < start => i < p
    <2> SUFFICES ASSUME NEW i \in WordStarts, i < start, ~(i < p)
                 PROVE  FALSE
      OBVIOUS
    <2>1. i \in 1 .. Len(line) /\ line[i] = Word
      BY <1>1 DEF WordStarts
    <2>2. i \in p .. start - 1
      BY <1>1, <2>1
    <2>3. QED
      BY <2>1, <2>2 DEF Word, Delim
  <1> DEFINE n == Len(toks)
             more == Append(toks, start)
  <1>4. /\ n \in Nat /\ DOMAIN toks = 1 .. n /\ DOMAIN more = 1 .. n + 1
        /\ more[n + 1] = start /\ \A i \in 1 .. n : more[i] = toks[i]
    OBVIOUS
  <1>5. Range(toks) = {toks[i] : i \in 1 .. n} /\ Range(more) = {more[i] : i \in 1 .. n + 1}
    BY <1>4 DEF Range
  <1>6. \A i \in 1 .. n : toks[i] \in WordStarts /\ toks[i] < p
    BY <1>5 DEF CutUpTo
  <1> HIDE DEF n, more
  <1>7. Range(more) = Range(toks) \cup {start}
    <2>1. 1 .. n + 1 = (1 .. n) \cup {n + 1}
      BY <1>4
    <2>2. QED
      BY <1>4, <1>5, <2>1
  <1>8. \A i, j \in DOMAIN more : i < j => more[i] < more[j]
    <2> SUFFICES ASSUME NEW i \in 1 .. n + 1, NEW j \in 1 .. n + 1, i < j
                 PROVE  more[i] < more[j]
      BY <1>4
    <2>1. i \in 1 .. n /\ more[i] = toks[i]
      BY <1>4
    <2>2. CASE j = n + 1
      <3>1. toks[i] \in 1 .. Len(line)
        BY <1>1, <1>6, <2>1 DEF WordStarts
      <3>2. QED
        BY <1>1, <1>4, <1>6, <2>1, <2>2, <3>1
    <2>3. CASE j # n + 1
      <3>1. j \in 1 .. n
        BY <1>4, <2>3
      <3>2. QED
        BY <1>4, <2>1, <3>1 DEF CutUpTo
    <2>4. QED
      BY <2>2, <2>3
  <1>9. QED
    BY <1>2, <1>3, <1>7, <1>8 DEF CutUpTo, more

\* The word up to its end: the line is cut behind it, or ends there.
LEMMA ScanWord ==
  ASSUME line \in Seq({Word, Delim}), NEW p \in 1 .. LineEnd, p = 1 \/ line[p - 1] = Delim,
         NEW toks \in Seq(1 .. MaxLine), NEW cuts, CutUpTo(p, toks, cuts),
         NEW start \in p .. Len(line), line[start] = Word,
         \A r \in p .. start - 1 : line[r] = Delim,
         NEW end \in start .. LineEnd, \A r \in start .. end - 1 : line[r] = Word
  PROVE  /\ end = LineEnd => CutUpTo(LineEnd, Append(toks, start), cuts)
         /\ end # LineEnd /\ line[end] = Delim =>
              CutUpTo(end + 1, Append(toks, start), cuts \cup {end})
  <1> DEFINE more == Append(toks, start)
  <1>1. /\ Len(line) \in Nat /\ DOMAIN line = 1 .. Len(line) /\ LineEnd = Len(line) + 1
        /\ start \in Nat /\ p \in Nat /\ end \in Nat /\ p >= 1 /\ start >= p /\ end >= start /\ end <= LineEnd
    BY DEF LineEnd
  <1>2. /\ start \in WordStarts
        /\ \A i \in WordStarts : i < start => i < p
        /\ \A i, j \in DOMAIN more : i < j => more[i] < more[j]
        /\ Range(more) = {i \in WordStarts : i < p} \cup {start}
    BY WordFound
  <1> HIDE DEF more
  <1>3. \A i \in WordStarts : i > start => ~(i < end)
    <2> SUFFICES ASSUME NEW i \in WordStarts, i > start, i < end
                 PROVE  FALSE
      OBVIOUS
    <2>1. i \in 1 .. Len(line) /\ (i = 1 \/ line[i - 1] = Delim)
      BY <1>1 DEF WordStarts
    <2>2. i - 1 \in start .. end - 1 /\ i # 1
      BY <1>1, <2>1
    <2>3. QED
      BY <2>1, <2>2 DEF Word, Delim
  <1>4. \A i \in WordEnds : i < end => i < p
    <2> SUFFICES ASSUME NEW i \in WordEnds, i < end, ~(i < p)
                 PROVE  FALSE
      OBVIOUS
    <2>1. i \in 1 .. Len(line) /\ line[i] = Delim /\ i > 1 /\ line[i - 1] = Word
      BY <1>1 DEF WordEnds
    <2>2. i < start
      <3>1. i \notin start .. end - 1
        BY <2>1 DEF Word, Delim
      <3>2. QED
        BY <1>1, <2>1, <3>1
    <2>3. CASE i = p
      BY <2>1, <2>3 DEF Word, Delim
    <2>4. CASE i # p
      <3>1. i - 1 \in p .. start - 1
        BY <1>1, <2>1, <2>2, <2>4
      <3>2. QED
        BY <2>1, <3>1 DEF Word, Delim
    <2>5. QED
      BY <2>3, <2>4
  <1>5. cuts \subseteq {i \in 1 .. Len(line) : i < p /\ line[i] = Delim} /\ \A i \in WordEnds : i < p => i \in cuts
    BY <1>1 DEF CutUpTo
  <1>6. WordStarts \subseteq 1 .. Len(line) /\ WordEnds \subseteq 1 .. Len(line)
    BY <1>1 DEF WordStarts, WordEnds
  <1>7. CASE end = LineEnd
    <2>1. {i \in WordStarts : i < LineEnd} = {i \in WordStarts : i < p} \cup {start}
      <3>1. \A i \in WordStarts : i < LineEnd <=> i < p \/ i = start
        <4> TAKE i \in WordStarts
        <4>1. i \in 1 .. Len(line)
          BY <1>6
        <4>2. i < LineEnd
          BY <1>1, <4>1
        <4>3. i < start \/ i = start \/ i > start
          BY <1>1, <4>1
        <4>4. QED
          BY <1>2, <1>3, <1>7, <4>2, <4>3
      <3>2. QED
        BY <1>2, <3>1
    <2>2. \A i \in WordEnds : i < LineEnd => i \in cuts
      BY <1>4, <1>5, <1>7
    <2>3. cuts \subseteq {i \in 1 .. Len(line) : i < LineEnd /\ line[i] = Delim}
      BY <1>1, <1>5
    <2>4. QED
      BY <1>1, <1>2, <1>7, <2>1, <2>2, <2>3 DEF CutUpTo, more
  <1>8. CASE end # LineEnd /\ line[end] = Delim
    <2>1. end \in 1 .. Len(line) /\ start # end
      <3>1. start # end
        BY <1>8 DEF Word, Delim
      <3>2. QED
        BY <1>1, <1>8, <3>1
    <2>2. end \notin WordStarts
      BY <1>8 DEF WordStarts, Word, Delim
    <2>3. {i \in WordStarts : i < end + 1} = {i \in WordStarts : i < p} \cup {start}
      <3>1. \A i \in WordStarts : i < end + 1 <=> i < p \/ i = start
        <4> TAKE i \in WordStarts
        <4>1. i \in 1 .. Len(line) /\ i # end
          BY <1>6, <2>2
        <4>2. i < end + 1 <=> i < end
          BY <1>1, <4>1
        <4>3. i < start \/ i = start \/ i > start
          BY <1>1, <4>1
        <4>4. /\ (i < p \/ i = start => i < end)
          BY <1>1, <2>1, <4>1
        <4>5. QED
          BY <1>2, <1>3, <4>2, <4>3, <4>4
      <3>2. QED
        BY <1>2, <3>1
    <2>4. \A i \in WordEnds : i < end + 1 => i \in cuts \cup {end}
      BY <1>1, <1>4, <1>5, <1>6
    <2>5. cuts \cup {end} \subseteq {i \in 1 .. Len(line) : i < end + 1 /\ line[i] = Delim}
      BY <1>1, <1>5, <1>8, <2>1
    <2>6. QED
      BY <1>1, <1>2, <1>8, <2>3, <2>4, <2>5 DEF CutUpTo, more
  <1>9. QED
    BY <1>7, <1>8 DEF more

\* One call of strtok during a scan: no further word, or the next word of the
\* line, with the rest of the line left for the next call.
LEMMA StrtokFacts ==
  ASSUME IInv, Scanning
  PROVE  /\ Strtok.token = Null =>
              Strtok.ptr = Null /\ Strtok.cut = {} /\ CutUpTo(LineEnd, tokens, cut)
         /\ Strtok.token # Null =>
              /\ Strtok.token \in 1 .. Len(line)
              /\ \/ /\ Strtok.ptr = Null
                    /\ CutUpTo(LineEnd, Append(tokens, Strtok.token), cut \cup Strtok.cut)
                 \/ /\ Strtok.ptr \in 2 .. LineEnd /\ line[Strtok.ptr - 1] = Delim
                    /\ CutUpTo(Strtok.ptr, Append(tokens, Strtok.token), cut \cup Strtok.cut)
  <1> DEFINE p == IF pc = "first" THEN 1 ELSE strtok_ptr
             start == Skip(p, {Delim})
             end == Skip(start, {Word})
             none == [token |-> Null, ptr |-> Null, cut |-> {}]
  <1>1. /\ line \in Seq({Word, Delim}) /\ Len(line) \in Nat /\ LineEnd = Len(line) + 1
        /\ tokens \in Seq(1 .. MaxLine)
    BY DEF IInv, TypeOK, LineEnd
  <1>2. Strtok = IF p = Null \/ CharAt(start) = NUL THEN none
                 ELSE IF CharAt(end) = NUL THEN [token |-> start, ptr |-> Null, cut |-> {}]
                 ELSE [token |-> start, ptr |-> end + 1, cut |-> {end}]
    <2> DEFINE s == IF pc = "first" THEN 1 ELSE Null
    <2>1. (IF s # Null THEN s ELSE strtok_ptr) = p
      BY DEF Null
    <2>2. [none EXCEPT !.token = start] = [token |-> start, ptr |-> Null, cut |-> {}]
      OBVIOUS
    <2>3. Strtok = strtok(s)
      BY DEF Strtok
    <2> HIDE DEF s, p
    <2>4. QED
      BY <2>1, <2>2, <2>3 DEF strtok
  <1>3. CASE p = Null
    <2>1. CutUpTo(LineEnd, tokens, cut)
      BY <1>3 DEF IInv, ScanInv, Scanning, Null
    <2>2. QED
      BY <1>2, <1>3, <2>1
  <1>4. CASE p # Null
    <2>1. /\ p \in 1 .. LineEnd /\ (p = 1 \/ line[p - 1] = Delim)
          /\ CutUpTo(p, tokens, cut)
      BY <1>1, <1>4 DEF IInv, ScanInv, Scanning, Null
    <2> HIDE DEF p
    <2>2. /\ \A r \in p .. Len(line) : CharAt(r) = line[r] /\ line[r] \in {Word, Delim}
          /\ CharAt(LineEnd) = NUL
      <3>1. \A r \in p .. Len(line) : r \in 1 .. Len(line) /\ ~(r < p) /\ ~(r > Len(line))
        BY <1>1, <2>1
      <3>2. \A r \in p .. Len(line) : r \notin cut
        BY <2>1, <3>1 DEF CutUpTo
      <3>3. \A r \in p .. Len(line) : CharAt(r) = line[r]
        BY <3>1, <3>2 DEF CharAt
      <3>4. \A r \in 1 .. Len(line) : line[r] \in {Word, Delim}
        BY <1>1
      <3>5. CharAt(LineEnd) = NUL
        BY <1>1 DEF CharAt
      <3>6. QED
        BY <3>1, <3>3, <3>4, <3>5
    <2>3. /\ start \in p .. LineEnd /\ CharAt(start) # Delim
          /\ \A r \in p .. start - 1 : CharAt(r) = Delim
      <3>1. NUL \notin {Delim}
        BY DEF NUL, Delim
      <3>2. p \in Nat /\ p <= LineEnd
        BY <1>1, <2>1
      <3>3. QED
        BY <1>1, <3>1, <3>2, SkipFacts
    <2> HIDE DEF start
    <2>4. \A r \in p .. start - 1 : r \in p .. Len(line) /\ line[r] = Delim
      BY <1>1, <2>1, <2>2, <2>3
    <2>5. CASE start = LineEnd
      <3>1. \A r \in p .. Len(line) : line[r] = Delim
        BY <1>1, <2>1, <2>4, <2>5
      <3>2. CutUpTo(LineEnd, tokens, cut)
        BY <1>1, <2>1, <3>1, ScanToEnd
      <3>3. QED
        BY <1>2, <2>2, <2>5, <3>2
    <2>6. CASE start # LineEnd
      <3>1. start \in p .. Len(line) /\ start \in 1 .. Len(line)
        BY <1>1, <2>1, <2>3, <2>6
      <3>2. CharAt(start) = Word /\ line[start] = Word /\ CharAt(start) # NUL
        BY <2>2, <2>3, <3>1 DEF Word, NUL
      <3>3. /\ end \in start .. LineEnd /\ CharAt(end) # Word
            /\ \A r \in start .. end - 1 : CharAt(r) = Word
        <4>1. NUL \notin {Word} /\ start \in Nat /\ start <= LineEnd
          BY <1>1, <3>1 DEF NUL, Word
        <4>2. QED
          BY <1>1, <4>1, SkipFacts
      <3> HIDE DEF end
      <3>4. \A r \in start .. end - 1 : line[r] = Word
        <4>1. \A r \in start .. end - 1 : r \in p .. Len(line)
          BY <1>1, <2>1, <3>1, <3>3
        <4>2. QED
          BY <2>2, <3>3, <4>1
      <3>5. /\ end = LineEnd => CutUpTo(LineEnd, Append(tokens, start), cut)
            /\ end # LineEnd /\ line[end] = Delim =>
                 CutUpTo(end + 1, Append(tokens, start), cut \cup {end})
        BY <1>1, <2>1, <2>4, <3>1, <3>2, <3>3, <3>4, ScanWord
      <3>6. CASE end = LineEnd
        <4>1. Strtok = [token |-> start, ptr |-> Null, cut |-> {}]
          BY <1>2, <1>4, <2>2, <3>2, <3>6
        <4>2. cut \cup {} = cut /\ start # Null
          BY <3>1 DEF Null
        <4>3. QED
          BY <3>1, <3>5, <3>6, <4>1, <4>2
      <3>7. CASE end # LineEnd
        <4>1. end \in p .. Len(line)
          BY <1>1, <2>1, <3>1, <3>3, <3>7
        <4>2. line[end] = Delim /\ CharAt(end) # NUL
          BY <2>2, <3>3, <4>1 DEF Delim, NUL
        <4>3. Strtok = [token |-> start, ptr |-> end + 1, cut |-> {end}]
          BY <1>2, <1>4, <3>2, <4>2
        <4>4. end + 1 \in 2 .. LineEnd /\ (end + 1) - 1 = end /\ start # Null
          BY <1>1, <2>1, <3>1, <4>1 DEF Null
        <4>5. QED
          BY <3>1, <3>5, <3>7, <4>2, <4>3, <4>4
      <3>8. QED
        BY <3>6, <3>7
    <2>7. QED
      BY <2>5, <2>6
  <1>5. QED
    BY <1>3, <1>4

\* The token table, or without it the next prompt.
LEMMA SplitLineIInv ==
  ASSUME IInv, SplitLine
  PROVE  IInv'
  <1>1. /\ scr \in Screens /\ pc = "split" /\ line \in Seq({Word, Delim}) /\ heap \in Nat
        /\ visits \in Nat /\ dropped \in Nat /\ heap = 2 * visits + dropped + 1
    BY ScreenTyped DEF IInv, SplitLine, Goto, TypeOK, HeapInv
  <1>2. UNCHANGED <<line, bufsize, strtok_ptr, held, visits, dropped>>
    BY DEF SplitLine, reader, splitter, user
  <1>3. CASE /\ pc' = "first" /\ heap' = heap + 1
             /\ tokens' = << >> /\ tokbufsize' = LSH_TOK_BUFSIZE /\ cut' = {} /\ scr' = scr
    <2>1. TypeOK' /\ Len(line') <= MaxLine
      <3>1. << >> \in Seq(1 .. MaxLine) /\ {} \subseteq 1 .. MaxLine
        OBVIOUS
      <3>2. LSH_TOK_BUFSIZE \in Nat /\ heap + 1 \in Nat
        BY <1>1, ShellAssumption
      <3>3. QED
        BY <1>2, <1>3, <3>1, <3>2 DEF IInv, TypeOK
    <2>2. RoomForNext'
      BY <1>3, ShellAssumption DEF RoomForNext
    <2>3. HeapInv'
      BY <1>1, <1>2, <1>3 DEF IInv, HeapInv
    <2>4. ScreenInv'
      BY <1>2, <1>3 DEF IInv, ScreenInv
    <2>5. ScanInv'
      <3>1. {i \in WordStarts : i < 1} = {} /\ {i \in WordEnds : i < 1} = {}
        BY <1>1 DEF WordStarts, WordEnds
      <3>2. Range(<< >>) = {} /\ DOMAIN << >> = {}
        BY DEF Range
      <3>3. CutUpTo(1, << >>, {})
        BY <3>1, <3>2 DEF CutUpTo
      <3>4. CutUpTo(1, tokens, cut)'
        BY <1>2, <1>3, <3>3 DEF CutUpTo, WordStarts, WordEnds
      <3>5. QED
        BY <1>3, <3>4 DEF ScanInv
    <2>6. QED
      BY <2>1, <2>2, <2>3, <2>4, <2>5 DEF IInv
  <1>4. CASE /\ pc' = "prompt" /\ heap' = heap - 1 /\ scr' = Say(scr)
             /\ UNCHANGED <<tokens, tokbufsize, cut>>
    <2>1. scr' \in Screens /\ (BlankBehind(scr) => BlankBehind(scr'))
      BY <1>1, <1>4, SayFacts
    <2>2. TypeOK' /\ Len(line') <= MaxLine
      BY <1>1, <1>2, <1>4, <2>1 DEF IInv, TypeOK, Screens, Glyphs
    <2>3. RoomForNext' /\ ScanInv'
      BY <1>4 DEF RoomForNext, ScanInv
    <2>4. HeapInv'
      BY <1>1, <1>2, <1>4 DEF IInv, HeapInv
    <2>5. ScreenInv'
      BY <1>2, <1>4, <2>1 DEF IInv, ScreenInv
    <2>6. QED
      BY <2>2, <2>3, <2>4, <2>5 DEF IInv
  <1>5. QED
    BY <1>3, <1>4 DEF SplitLine, Goto, splitter

\* A token and the table that grows with it.
LEMMA TokenIInv ==
  ASSUME IInv, Token
  PROVE  IInv'
  <1> DEFINE t == Strtok.token
             more == Append(tokens, t)
             q == Strtok.ptr
             cuts == cut \cup Strtok.cut
  <1>1. /\ scr \in Screens /\ Scanning /\ t # Null /\ line \in Seq({Word, Delim}) /\ heap \in Nat
        /\ visits \in Nat /\ dropped \in Nat /\ heap = 2 * visits + dropped + 2
        /\ tokens \in Seq(1 .. MaxLine) /\ tokbufsize \in Nat /\ Len(tokens) < tokbufsize
        /\ held = 0
    BY ScreenTyped DEF IInv, Token, Scanning, TypeOK, HeapInv, RoomForNext
  <1>2. /\ UNCHANGED <<line, bufsize, held, visits, dropped>>
        /\ tokens' = more /\ strtok_ptr' = q /\ cut' = cuts
    BY DEF Token, Scanned, reader, user
  <1>3. /\ t \in 1 .. Len(line)
        /\ \/ q = Null /\ CutUpTo(LineEnd, more, cuts)
           \/ q \in 2 .. LineEnd /\ line[q - 1] = Delim /\ CutUpTo(q, more, cuts)
    BY <1>1, StrtokFacts
  <1>4. Len(line) \in Nat /\ Len(line) <= MaxLine /\ MaxLine \in Nat /\ LineEnd = Len(line) + 1
    BY <1>1, ShellAssumption DEF IInv, LineEnd
  <1>5. more \in Seq(1 .. MaxLine) /\ Len(more) = Len(tokens) + 1
    <2>1. t \in 1 .. MaxLine
      BY <1>3, <1>4
    <2> HIDE DEF t
    <2>2. QED
      BY <1>1, <2>1
  <1> HIDE DEF t, q
  <1>6. cuts \subseteq 1 .. MaxLine
    <2>1. cuts \subseteq DOMAIN line
      BY <1>3 DEF CutUpTo
    <2>2. QED
      BY <1>1, <1>4, <2>1
  <1>7. q \in 0 .. MaxLine + 1
    BY <1>3, <1>4 DEF Null
  <1> HIDE DEF more, cuts
  <1>8. CASE /\ pc' = "token" /\ UNCHANGED <<scr, heap>>
             /\ tokbufsize' = IF Len(tokens') < tokbufsize THEN tokbufsize
                              ELSE tokbufsize + LSH_TOK_BUFSIZE
    <2>1. LSH_TOK_BUFSIZE \in Nat /\ LSH_TOK_BUFSIZE > 0
      BY ShellAssumption
    <2>2. tokbufsize' \in Nat /\ Len(tokens') < tokbufsize'
      BY <1>1, <1>2, <1>5, <1>8, <2>1
    <2>3. TypeOK' /\ Len(line') <= MaxLine
      BY <1>2, <1>5, <1>6, <1>7, <1>8, <2>2 DEF IInv, TypeOK
    <2>4. RoomForNext'
      BY <1>8, <2>2 DEF RoomForNext
    <2>5. HeapInv'
      BY <1>1, <1>2, <1>8 DEF HeapInv
    <2>6. ScreenInv'
      BY <1>2, <1>8 DEF IInv, ScreenInv
    <2>7. ScanInv'
      BY <1>2, <1>3, <1>8 DEF ScanInv, CutUpTo, WordStarts, WordEnds, LineEnd, Null
    <2>8. QED
      BY <2>3, <2>4, <2>5, <2>6, <2>7 DEF IInv
  <1>9. CASE pc' = "prompt" /\ heap' = heap - 2 /\ scr' = Say(scr) /\ UNCHANGED tokbufsize
    <2>1. scr' \in Screens /\ (BlankBehind(scr) => BlankBehind(scr'))
      BY <1>1, <1>9, SayFacts
    <2>2. TypeOK' /\ Len(line') <= MaxLine
      BY <1>1, <1>2, <1>5, <1>6, <1>7, <1>9, <2>1 DEF IInv, TypeOK, Screens, Glyphs
    <2>3. RoomForNext' /\ ScanInv'
      BY <1>9 DEF RoomForNext, ScanInv
    <2>4. HeapInv'
      BY <1>1, <1>2, <1>9 DEF HeapInv
    <2>5. ScreenInv'
      BY <1>2, <1>9, <2>1 DEF IInv, ScreenInv
    <2>6. QED
      BY <2>2, <2>3, <2>4, <2>5 DEF IInv
  <1>10. QED
    BY <1>8, <1>9 DEF Token

\* The end of the tokens.
LEMMA LastTokenIInv ==
  ASSUME IInv, LastToken
  PROVE  IInv'
  <1>1. /\ Scanning /\ pc' = "execute"
        /\ UNCHANGED <<tokens, tokbufsize, scr, line, bufsize, heap, held, visits, dropped>>
        /\ Strtok.ptr = Null /\ Strtok.cut = {} /\ CutUpTo(LineEnd, tokens, cut)
        /\ strtok_ptr' = Strtok.ptr /\ cut' = cut \cup Strtok.cut
    BY StrtokFacts DEF LastToken, Scanned, reader, user
  <1>2. strtok_ptr' = Null /\ cut' = cut
    BY <1>1
  <1>3. TypeOK' /\ Len(line') <= MaxLine
    BY <1>1, <1>2, ShellAssumption DEF IInv, TypeOK, Null
  <1>4. RoomForNext' /\ HeapInv' /\ ScreenInv'
    BY <1>1 DEF IInv, Scanning, RoomForNext, HeapInv, ScreenInv
  <1>5. ScanInv'
    BY <1>1, <1>2 DEF ScanInv, CutUpTo, WordStarts, WordEnds, LineEnd
  <1>6. QED
    BY <1>3, <1>4, <1>5 DEF IInv

-----------------------------------------------------------------------------
(* Running a line, and ring 3.                                             *)

\* A command and the frees that follow it.
LEMMA CommandIInv ==
  ASSUME IInv, Command
  PROVE  IInv'
  <1>1. /\ scr \in Screens /\ pc = "execute" /\ heap \in Nat
        /\ visits \in Nat /\ dropped \in Nat /\ heap = 2 * visits + dropped + 2 /\ held = 0
    BY ScreenTyped DEF IInv, Command, TypeOK, HeapInv
  <1>2. /\ UNCHANGED <<line, bufsize, tokens, tokbufsize, cut, strtok_ptr, held, visits, dropped>>
        /\ heap' = heap - 2 /\ pc' \in {"prompt", "halted"}
    BY DEF Command, reader, splitter, user
  <1>3. scr' \in {scr, Say(scr), Say(Say(scr)), clear_screen}
    BY DEF Command, Printed
  <1>4. clear_screen \in Screens /\ BlankBehind(clear_screen)
    BY DEF clear_screen, Screens, Glyphs, BlankBehind
  <1>5. scr' \in Screens /\ (BlankBehind(scr) => BlankBehind(scr'))
    BY <1>1, <1>3, <1>4, SayFacts
  <1>6. TypeOK' /\ Len(line') <= MaxLine
    BY <1>1, <1>2, <1>5 DEF IInv, TypeOK, Screens, Glyphs
  <1>7. RoomForNext' /\ ScanInv'
    BY <1>2 DEF RoomForNext, ScanInv
  <1>8. HeapInv'
    BY <1>1, <1>2 DEF HeapInv
  <1>9. ScreenInv'
    BY <1>2, <1>5 DEF IInv, ScreenInv
  <1>10. QED
    BY <1>6, <1>7, <1>8, <1>9 DEF IInv

\* The way into the editor.
LEMMA EditIInv ==
  ASSUME IInv, edit
  PROVE  IInv'
  <1>1. /\ pc = "execute" /\ pc' = "editor"
        /\ UNCHANGED <<line, bufsize, tokens, tokbufsize, cut, strtok_ptr, scr, heap, held, visits,
                       dropped>>
    BY DEF edit, Goto, reader, splitter, user
  <1>2. TypeOK' /\ Len(line') <= MaxLine
    BY <1>1 DEF IInv, TypeOK
  <1>3. RoomForNext' /\ ScanInv'
    BY <1>1 DEF RoomForNext, ScanInv
  <1>4. HeapInv'
    BY <1>1 DEF IInv, HeapInv
  <1>5. ScreenInv'
    BY <1>1 DEF IInv, ScreenInv
  <1>6. QED
    BY <1>2, <1>3, <1>4, <1>5 DEF IInv

\* The way back from the editor: the line and the tokens are freed, the rows of
\* the session are dropped.
LEMMA EditorQuitIInv ==
  ASSUME IInv, editorQuit
  PROVE  IInv'
  <1>1. /\ pc = "editor" /\ pc' = "prompt" /\ scr' = clear_screen
        /\ visits \in Nat /\ dropped \in Nat /\ heap = 2 * visits + dropped + 2 /\ held = 0
        /\ UNCHANGED <<line, bufsize, tokens, tokbufsize, cut, strtok_ptr, held, visits>>
    BY DEF IInv, TypeOK, HeapInv, editorQuit, Goto, reader, splitter
  <1>2. PICK rows \in 0 .. MaxDropped : heap' = heap - 2 + rows /\ dropped' = dropped + rows
    BY DEF editorQuit
  <1>3. /\ dropped' \in Nat /\ heap' \in Nat
        /\ heap' = 2 * visits + dropped'
    BY <1>1, <1>2, ShellAssumption
  <1>4. clear_screen \in Screens /\ BlankBehind(clear_screen)
    BY DEF clear_screen, Screens, Glyphs, BlankBehind
  <1>5. TypeOK' /\ Len(line') <= MaxLine
    BY <1>1, <1>3, <1>4 DEF IInv, TypeOK, Screens, Glyphs
  <1>6. RoomForNext' /\ ScanInv'
    BY <1>1 DEF RoomForNext, ScanInv
  <1>7. HeapInv'
    BY <1>1, <1>3 DEF HeapInv
  <1>8. ScreenInv'
    BY <1>1, <1>4 DEF ScreenInv
  <1>9. QED
    BY <1>5, <1>6, <1>7, <1>8 DEF IInv

\* Power off.
LEMMA ShutdownIInv ==
  ASSUME IInv, shutdown
  PROVE  IInv'
  <1>1. scr \in Screens /\ pc = "execute" /\ pc' = "off" /\ scr' = Say(scr)
    BY ScreenTyped DEF IInv, shutdown, Goto
  <1>2. UNCHANGED <<line, bufsize, tokens, tokbufsize, cut, strtok_ptr, heap, held, visits, dropped>>
    BY DEF shutdown, reader, splitter, user
  <1>3. scr' \in Screens /\ (BlankBehind(scr) => BlankBehind(scr'))
    BY <1>1, SayFacts
  <1>4. TypeOK' /\ Len(line') <= MaxLine
    BY <1>1, <1>2, <1>3 DEF IInv, TypeOK, Screens, Glyphs
  <1>5. RoomForNext' /\ HeapInv' /\ ScanInv'
    BY <1>1, <1>2 DEF IInv, RoomForNext, HeapInv, ScanInv
  <1>6. ScreenInv'
    BY <1>1, <1>2, <1>3 DEF IInv, ScreenInv
  <1>7. QED
    BY <1>4, <1>5, <1>6 DEF IInv

\* The way into ring 3: the line and the tokens stay behind.
LEMMA Ring3IInv ==
  ASSUME IInv, ring3
  PROVE  IInv'
  <1>1. /\ pc = "execute" /\ pc' = "ring3" /\ visits' = visits + 1 /\ visits < MaxVisits
        /\ visits \in Nat /\ dropped \in Nat /\ heap = 2 * visits + dropped + 2 /\ held = 0
        /\ UNCHANGED <<line, bufsize, tokens, tokbufsize, cut, strtok_ptr, scr, heap, held, dropped>>
    BY DEF IInv, TypeOK, HeapInv, ring3, Goto, reader, splitter
  <1>2. TypeOK' /\ Len(line') <= MaxLine
    BY <1>1, ShellAssumption DEF IInv, TypeOK
  <1>3. RoomForNext' /\ ScanInv'
    BY <1>1 DEF RoomForNext, ScanInv
  <1>4. HeapInv'
    BY <1>1 DEF HeapInv
  <1>5. ScreenInv'
    BY <1>1 DEF ScreenInv
  <1>6. QED
    BY <1>2, <1>3, <1>4, <1>5 DEF IInv

\* Blocks of a user program.
LEMMA SysHeapIInv ==
  ASSUME IInv, SysMalloc \/ SysFree
  PROVE  IInv'
  <1>1. /\ pc = "ring3" /\ held \in 0 .. MaxUserBlocks /\ visits \in Nat /\ dropped \in Nat
        /\ heap = 2 * visits + dropped + held /\ visits > 0
        /\ UNCHANGED <<pc, line, bufsize, tokens, tokbufsize, cut, strtok_ptr, scr, visits, dropped>>
    BY DEF IInv, TypeOK, HeapInv, SysMalloc, SysFree, reader, splitter
  <1>2. /\ held' \in 0 .. MaxUserBlocks
        /\ heap' \in Nat /\ heap' = 2 * visits + dropped + held'
    <2>1. MaxUserBlocks \in Nat
      BY ShellAssumption
    <2>2. CASE SysMalloc
      BY <1>1, <2>1, <2>2 DEF SysMalloc
    <2>3. CASE SysFree
      BY <1>1, <2>1, <2>3 DEF SysFree
    <2>4. QED
      BY <2>2, <2>3
  <1>3. TypeOK' /\ Len(line') <= MaxLine
    BY <1>1, <1>2 DEF IInv, TypeOK
  <1>4. RoomForNext' /\ ScanInv'
    BY <1>1 DEF RoomForNext, ScanInv
  <1>5. HeapInv'
    BY <1>1, <1>2 DEF HeapInv
  <1>6. ScreenInv'
    BY <1>1 DEF IInv, ScreenInv
  <1>7. QED
    BY <1>3, <1>4, <1>5, <1>6 DEF IInv

\* A user program writes on the screen.
LEMMA SysScreenIInv ==
  ASSUME IInv, SysScreen
  PROVE  IInv'
  <1>1. /\ scr \in Screens /\ pc = "ring3" /\ visits > 0 /\ visits \in Nat
        /\ UNCHANGED <<pc, line, bufsize, tokens, tokbufsize, cut, strtok_ptr, heap, held, visits, dropped>>
    BY ScreenTyped DEF IInv, TypeOK, HeapInv, SysScreen, reader, splitter, user
  <1>2. scr' \in Screens
    <2>1. 0 \in 0 .. LINES - 1
      BY ConsoleAssumption
    <2>2. CASE scr' = kprintf(scr, <<Out>>) \/ scr' = Erase(scr) \/ scr' = clear_screen
      BY <1>1, <2>1, <2>2, EraseFacts, UserScreenFacts
    <2>3. ASSUME NEW row \in 0 .. LINES - 1,
                 \/ scr' = kvga_set_cursor(scr, row, 0)
                 \/ scr' = kvga_write_char(scr, row, 2, Out)
                 \/ scr' = kvga_clear_to_eol(scr, row, 0)
          PROVE  scr' \in Screens
      BY <1>1, <2>3, UserScreenFacts
    <2>4. QED
      BY <2>2, <2>3 DEF SysScreen
  <1>3. TypeOK' /\ Len(line') <= MaxLine
    BY <1>1, <1>2 DEF IInv, TypeOK, Screens, Glyphs
  <1>4. RoomForNext' /\ ScanInv' /\ HeapInv'
    BY <1>1 DEF IInv, RoomForNext, ScanInv, HeapInv
  <1>5. ScreenInv'
    BY <1>1 DEF ScreenInv
  <1>6. QED
    BY <1>3, <1>4, <1>5 DEF IInv

\* The way back: what the user program holds is dropped.
LEMMA SysExitIInv ==
  ASSUME IInv, SysExit
  PROVE  IInv'
  <1>1. /\ pc = "ring3" /\ pc' = "prompt" /\ held \in Nat /\ visits \in Nat /\ dropped \in Nat
        /\ heap = 2 * visits + dropped + held /\ visits > 0
        /\ dropped' = dropped + held /\ held' = 0
        /\ UNCHANGED <<line, bufsize, tokens, tokbufsize, cut, strtok_ptr, scr, heap, visits>>
    BY DEF IInv, TypeOK, HeapInv, SysExit, Goto, reader, splitter
  <1>2. TypeOK' /\ Len(line') <= MaxLine
    BY <1>1, ShellAssumption DEF IInv, TypeOK
  <1>3. RoomForNext' /\ ScanInv'
    BY <1>1 DEF RoomForNext, ScanInv
  <1>4. HeapInv'
    BY <1>1 DEF HeapInv
  <1>5. ScreenInv'
    BY <1>1 DEF ScreenInv
  <1>6. QED
    BY <1>2, <1>3, <1>4, <1>5 DEF IInv

-----------------------------------------------------------------------------
(* The theorems.                                                           *)

\* The cleared screen, no line and no block.
LEMMA InitIInv == Init => IInv
  <1> SUFFICES ASSUME Init
               PROVE  IInv
    OBVIOUS
  <1>1. clear_screen \in Screens /\ BlankBehind(clear_screen)
    BY DEF clear_screen, Screens, Glyphs, BlankBehind
  <1>2. Len(line) = 0 /\ Len(line) <= MaxLine
    BY ShellAssumption DEF Init
  <1>3. TypeOK
    BY <1>1, ShellAssumption DEF Init, TypeOK, Screens, Glyphs, Null
  <1>4. RoomForNext /\ HeapInv /\ ScanInv
    BY DEF Init, RoomForNext, HeapInv, ScanInv
  <1>5. ScreenInv
    BY <1>1 DEF Init, ScreenInv
  <1>6. QED
    BY <1>2, <1>3, <1>4, <1>5 DEF IInv

\* The inductive invariant of the shell: every step of it and of the user programs
\* it starts preserves IInv.
THEOREM ShellInvariant == Spec => []IInv
  <1>1. IInv /\ [Next]_vars => IInv'
    <2> SUFFICES ASSUME IInv, [Next]_vars
                 PROVE  IInv'
      OBVIOUS
    <2>1. CASE UNCHANGED vars
      BY <2>1 DEF vars, reader, splitter, user, IInv, TypeOK, RoomForNext, position, HeapInv,
        ScreenInv, ScanInv, CutUpTo, WordStarts, WordEnds, LineEnd
    <2>2. CASE ReadLine \/ Backspace \/ (\E g \in {Word, Delim} : Char(g)) \/ Enter
      BY <2>2, ReadLineIInv, BackspaceIInv, CharIInv, EnterIInv
    <2>3. CASE Parse
      BY <2>3, SplitLineIInv, TokenIInv, LastTokenIInv DEF Parse
    <2>4. CASE Run
      BY <2>4, CommandIInv, EditIInv, ShutdownIInv, Ring3IInv DEF Run
    <2>5. CASE editorQuit \/ SysMalloc \/ SysFree \/ SysScreen \/ SysExit
      BY <2>5, EditorQuitIInv, SysHeapIInv, SysScreenIInv, SysExitIInv
    <2>6. QED
      BY <2>1, <2>2, <2>3, <2>4, <2>5 DEF Next
  <1>2. QED
    BY <1>1, InitIInv, PTL DEF Spec

\* Every variable of the shell stays in its type: no cell outside the screen is
\* written and no count of blocks goes below zero.
THEOREM ShellTypeCorrect == Spec => []TypeOK
  <1>1. IInv => TypeOK
    BY DEF IInv
  <1>2. QED
    BY <1>1, ShellInvariant, PTL

\* lsh_read_line and lsh_split_line grow their buffers in time: the next character
\* or '\0', and the next token or NULL, always has a place.
THEOREM ShellRoomForNext == Spec => []RoomForNext
  <1>1. IInv => RoomForNext
    BY DEF IInv
  <1>2. QED
    BY <1>1, ShellInvariant, PTL

\* Every path of lsh_loop back to the prompt frees the line and the tokens, each
\* once; what is live beside them was left by visits to ring 3, by user programs
\* and by sessions of the editor.
THEOREM ShellPromptHeap == Spec => []PromptHeap
  <1>1. IInv => PromptHeap
    BY DEF IInv, HeapInv, PromptHeap
  <1>2. QED
    BY <1>1, ShellInvariant, PTL

\* strtok gives the command exactly the words of the line, in order, each closed
\* by a '\0' and none of them damaged.
THEOREM ShellTokens == Spec => []TokensAreWords
  <1>1. IInv => TokensAreWords
    <2> SUFFICES ASSUME IInv, pc = "execute"
                 PROVE  /\ Range(tokens) = WordStarts
                        /\ \A i, j \in DOMAIN tokens : i < j => tokens[i] < tokens[j]
                        /\ WordEnds \subseteq cut
                        /\ \A i \in DOMAIN line : line[i] = Word => i \notin cut
      BY DEF TokensAreWords
    <2>1. CutUpTo(LineEnd, tokens, cut) /\ line \in Seq({Word, Delim})
      BY DEF IInv, ScanInv, TypeOK
    <2>2. \A i \in DOMAIN line : i < LineEnd
      BY <2>1 DEF LineEnd
    <2>3. {i \in WordStarts : i < LineEnd} = WordStarts /\ \A i \in WordEnds : i < LineEnd
      BY <2>2 DEF WordStarts, WordEnds
    <2>4. \A i \in cut : line[i] # Word
      BY <2>1 DEF CutUpTo, Word, Delim
    <2>5. QED
      BY <2>1, <2>3, <2>4 DEF CutUpTo
  <1>2. QED
    BY <1>1, ShellInvariant, PTL

\* While a line is typed the cells before the cursor spell the prompt and the
\* buffer, and behind it the screen is blank until a user program has moved it.
THEOREM ShellEcho == Spec => []EchoShowsLine
  <1>1. IInv => EchoShowsLine
    <2> DEFINE shown == Prompt \o line
               from == scr.loc - Len(shown)
    <2> SUFFICES ASSUME IInv, pc = "reading"
                 PROVE  /\ from >= 0
                        /\ \A i \in DOMAIN shown :
                             from + i - 1 \in Cells => scr.cells[from + i - 1] = shown[i]
                        /\ visits = 0 => \A i \in Cells : i >= scr.loc => scr.cells[i] = Blank
      BY DEF EchoShowsLine
    <2>1. scr \in Screens /\ line \in Seq({Word, Delim}) /\ Spells(scr, line)
      BY ScreenTyped DEF IInv, TypeOK, ScreenInv
    <2>2. scr.loc \in Nat /\ Len(line) \in Nat
      BY <2>1 DEF Screens
    <2>3. Prompt \in Seq(Glyphs) /\ line \in Seq(Glyphs) /\ Len(Prompt) = 2 /\ Prompt[1] = ">" /\ Prompt[2] = Blank
      BY <2>1 DEF Prompt, Glyphs
    <2>4. /\ Len(shown) = Len(Prompt) + Len(line) /\ shown \in Seq(Glyphs)
          /\ \A i \in 1 .. Len(Prompt) + Len(line) :
               shown[i] = IF i <= Len(Prompt) THEN Prompt[i] ELSE line[i - Len(Prompt)]
      BY <2>3, ConcatProperties, Zenon
    <2> HIDE DEF shown
    <2>5. Len(shown) = Len(line) + 2 /\ DOMAIN shown = 1 .. Len(line) + 2
      BY <2>2, <2>3, <2>4
    <2>6. from = scr.loc - Len(line) - 2 /\ from >= 0
      BY <2>1, <2>2, <2>5 DEF Spells
    <2> HIDE DEF from
    <2>7. ASSUME NEW i \in 1 .. Len(line) + 2, from + i - 1 \in Cells
          PROVE  scr.cells[from + i - 1] = shown[i]
      <3>1. CASE i = 1
        <4>1. from + i - 1 = scr.loc - Len(line) - 2 /\ shown[i] = ">"
          BY <2>2, <2>3, <2>4, <2>6, <3>1
        <4>2. QED
          BY <2>1, <2>7, <4>1 DEF Spells
      <3>2. CASE i = 2
        <4>1. from + i - 1 = scr.loc - Len(line) - 1 /\ shown[i] = Blank
          BY <2>2, <2>3, <2>4, <2>6, <3>2
        <4>2. QED
          BY <2>1, <2>7, <4>1 DEF Spells
      <3>3. CASE i # 1 /\ i # 2
        <4>1. i - 2 \in 1 .. Len(line) /\ shown[i] = line[i - 2]
          BY <2>2, <2>3, <2>4, <3>3
        <4>2. from + i - 1 = scr.loc - Len(line) + (i - 2) - 1
          BY <2>2, <2>6, <3>3
        <4>3. QED
          BY <2>1, <2>7, <4>1, <4>2 DEF Spells
      <3>4. QED
        BY <3>1, <3>2, <3>3
    <2>8. QED
      BY <2>5, <2>6, <2>7 DEF IInv, ScreenInv, BlankBehind
  <1>2. QED
    BY <1>1, ShellInvariant, PTL
=============================================================================
