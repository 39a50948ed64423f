---------------------------- MODULE FileClients ----------------------------
(***************************************************************************)
(* The clients of fs/easyfs.c taken together: the shell's touch and del    *)
(* (kernel/Shell.c), the file system calls of user programs (kernel.c) and *)
(* the sessions of the editor (fs/ed.c), which opens a file, keeps its     *)
(* text in memory and saves it by looking the name up, creating it when it *)
(* is not there, looking it up again and writing one block.  The shell     *)
(* waits while the editor runs, so nothing comes between the steps of a    *)
(* save.                                                                   *)
(*                                                                         *)
(* A text is the block it makes, Empty or <<v, 0>>, and whether it has     *)
(* more than a block holds; what the keys do to it is the subject of       *)
(* Editor.                                                                 *)
(***************************************************************************)
EXTENDS EasyFS

Empty == <<"empty", 0>>
TextSize == BLOCK_SIZE - 1        \* bytes of a text that is not empty

ASSUME ClientsAssumption == TextSize > 0 /\ TextSize \in Sizes /\ 0 \in Sizes

VARIABLES pc,         \* "shell", "keys" in the editor, "w" and "wq" in its save
          filename,   \* E.filename
          text,       \* the rows of E, as far as one block goes
          rest,       \* there is more of them than that
          dirty,      \* E.dirty
          unmarked    \* history: a row was added since the text was read or saved
                      \* and dirty was left as it was

fs == <<fs_bitmap, free_block_count, dir, fs_disk>>
E == <<filename, text, rest, dirty, unmarked>>
cvars == <<fs, pc, E>>

-----------------------------------------------------------------------------
\* touch and del, and the calls 6, 7 and 9 of a program in ring 3.
lsh_touch(n) == pc = "shell" /\ fs_create_file(n) /\ UNCHANGED <<pc, E>>
lsh_del(n) == pc = "shell" /\ fs_delete_file(n) /\ UNCHANGED <<pc, E>>
SysWriteFile(n, v, size) == pc = "shell" /\ fs_write_file(n, v, size) /\ UNCHANGED <<pc, E>>

\* initEditor and editorOpen: a file that is missing or has no size gives no
\* rows; otherwise its first block is read, whatever the size is.
editorOpen(n) ==
  LET i == fs_find_file(n)
  IN  /\ pc = "shell"
      /\ pc' = "keys"
      /\ filename' = n
      /\ text' = IF i = NoSlot \/ file_size[i] = 0 THEN Empty ELSE fs_disk[first_data_block[i]]
      /\ rest' = FALSE
      /\ dirty' = FALSE /\ unmarked' = FALSE
      /\ UNCHANGED fs

\* The keys that type, delete and split: E.dirty = 1.
Edit(t, more) ==
  /\ pc = "keys"
  /\ more => t # Empty
  /\ text' = t /\ rest' = more /\ dirty' = TRUE
  /\ UNCHANGED <<fs, pc, filename, unmarked>>

\* 'o', 'O' and 'p' add a row, and none of them touches E.dirty.
AddRow(t, more) ==
  /\ pc = "keys"
  /\ t # Empty /\ (rest => more)
  /\ text' = t /\ rest' = more /\ unmarked' = TRUE
  /\ UNCHANGED <<fs, pc, filename, dirty>>

\* Faulty variant: a file that is not there is not created.
SaveExistingOnly(cmd) ==
  /\ pc = "keys" /\ pc' = cmd
  /\ UNCHANGED <<fs, E>>

\* ":w" and ":wq": fs_create_file, which may refuse, unless the name is found.
SaveCreate(cmd) ==
  /\ pc = "keys" /\ pc' = cmd
  /\ IF fs_find_file(filename) = NoSlot /\ FreeSlots # {} /\ FreeBits # {}
     THEN fs_create_file(filename)
     ELSE UNCHANGED fs
  /\ UNCHANGED E

\* Faulty variant: the text counts as saved before the entry is looked up.
SaveMarksFirst ==
  LET i == fs_find_file(filename)
  IN  /\ pc \in {"w", "wq"}
      /\ pc' = IF pc = "wq" THEN "shell" ELSE "keys"
      /\ dirty' = FALSE /\ unmarked' = FALSE
      /\ IF i = NoSlot THEN UNCHANGED fs
         ELSE /\ fs_disk' = [fs_disk EXCEPT ![first_data_block[i]] = text]
              /\ file_size' = [file_size EXCEPT ![i] = IF text = Empty THEN 0 ELSE TextSize]
              /\ UNCHANGED <<fs_bitmap, free_block_count, name, first_data_block, is_used>>
      /\ UNCHANGED <<filename, text, rest>>

\* The name is looked up again, in full: a name the directory has cut is not
\* found, and nothing is written.  The rest of a text that is more than a block is
\* not written, and the text counts as saved all the same.  ":wq" leaves either way.
SaveWrite ==
  LET i == fs_find_file(filename)
  IN  /\ pc \in {"w", "wq"}
      /\ pc' = IF pc = "wq" THEN "shell" ELSE "keys"
      /\ IF i = NoSlot THEN UNCHANGED <<fs, dirty, unmarked>>
         ELSE /\ fs_disk' = [fs_disk EXCEPT ![first_data_block[i]] = text]
              /\ file_size' = [file_size EXCEPT ![i] = IF text = Empty THEN 0 ELSE TextSize]
              /\ dirty' = FALSE /\ unmarked' = FALSE
              /\ UNCHANGED <<fs_bitmap, free_block_count, name, first_data_block, is_used>>
      /\ UNCHANGED <<filename, text, rest>>

\* ":q!", and ":q" when the text is not dirty.
Quit ==
  /\ pc = "keys" /\ pc' = "shell"
  /\ UNCHANGED <<fs, E>>

ClientsInit ==
  /\ Init
  /\ pc = "shell"
  /\ filename = NoName /\ text = Empty /\ rest = FALSE
  /\ dirty = FALSE /\ unmarked = FALSE

ClientsNext ==
  \/ \E n \in Names :
       \/ lsh_touch(n) \/ lsh_del(n) \/ editorOpen(n)
       \/ \E v \in Vals, size \in Sizes : SysWriteFile(n, v, size)
  \/ \E t \in {<<v, 0>> : v \in Vals} \cup {Empty}, more \in BOOLEAN :
       Edit(t, more) \/ AddRow(t, more)
  \/ \E cmd \in {"w", "wq"} : SaveCreate(cmd)
  \/ SaveWrite
  \/ Quit

ClientsSpec == ClientsInit /\ [][ClientsNext]_cvars

-----------------------------------------------------------------------------
\* The file the editor has open holds the text, as far as one block goes.
InFile ==
  LET i == fs_find_file(filename)
  IN  IF i = NoSlot THEN text = Empty
      ELSE IF file_size[i] = 0 THEN text = Empty ELSE fs_disk[first_data_block[i]] = text

\* What ':q' on a clean text can lose: the rows that 'o', 'O' and 'p' added
\* without marking the text, and what lies beyond one block.  Apart from these a
\* text that is not dirty is in the file, whatever the directory made of the name
\* and whether or not there was room to create it.
CleanOrUnmarked == pc = "keys" /\ ~dirty /\ ~unmarked => InFile

\* ':wq' leaves without a word when it could not save, but only then: the first
\* block of the text is in the file, or its name was too long for the directory,
\* or there was no entry or no block to create it with.  What a text has beyond
\* one block is never saved.
LostOnlyWithoutRoom ==
  [][pc = "wq" => (\/ InFile
                   \/ Stored[filename] # filename
                   \/ FreeSlots = {} \/ FreeBits = {})']_cvars
=============================================================================
