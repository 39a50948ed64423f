------------------------------- MODULE EasyFS -------------------------------
(***************************************************************************)
(* fs/easyfs.c: a file system in memory with one root directory, a bitmap  *)
(* of data blocks and one block allocated per file.  All operations run to *)
(* completion (they are called by the kernel shell, the editor or a system *)
(* call, never by an interrupt handler), so each is one action.            *)
(*                                                                         *)
(* A name is a value; Stored[n] is what fs_create_file leaves of it in the *)
(* directory after cutting it to MAX_FILENAME_LEN - 1 characters.  Block k *)
(* of a buffer filled with v is <<v, k>>.                                  *)
(***************************************************************************)
EXTENDS Integers, FiniteSets

CONSTANTS TOTAL_BLOCKS, BLOCK_SIZE, MAX_DIR_ENTRIES, FIRST_DATA_BLOCK,
          Names,      \* names callers use
          Stored,     \* the name as the directory keeps it
          Vals,       \* what callers fill their buffers with
          Sizes       \* sizes callers write

NUM_DATA_BLOCKS == TOTAL_BLOCKS - FIRST_DATA_BLOCK

ASSUME FSAssumption ==
  /\ TOTAL_BLOCKS \in Nat /\ FIRST_DATA_BLOCK \in Nat /\ FIRST_DATA_BLOCK <= TOTAL_BLOCKS
  /\ BLOCK_SIZE \in Nat \ {0}
  /\ MAX_DIR_ENTRIES \in Nat
  /\ Sizes \subseteq Nat
  /\ Stored \in [Names -> Names]
  /\ \A n \in Names : Stored[Stored[n]] = Stored[n]

Bits == 0 .. NUM_DATA_BLOCKS - 1                      \* positions of the bitmap
DataBlocks == FIRST_DATA_BLOCK .. TOTAL_BLOCKS - 1
Slots == 0 .. MAX_DIR_ENTRIES - 1

NoSlot == -1
NoName == ""                                          \* a directory entry never used
Zeroed == <<"zero", 0>>                               \* a block nobody has written

VARIABLES fs_bitmap,          \* bit -> the block is in use
          free_block_count,   \* fs_sb->free_block_count
          name, file_size, first_data_block, is_used,   \* the directory entries
          fs_disk             \* contents of the data blocks

dir == <<name, file_size, first_data_block, is_used>>
vars == <<fs_bitmap, free_block_count, dir, fs_disk>>

First(S) == CHOOSE i \in S : \A j \in S : i <= j

-----------------------------------------------------------------------------
\* Entries that strcmp calls equal to n.
Matches(n) == {i \in Slots : is_used[i] /\ name[i] = n}

fs_find_file(n) == IF Matches(n) = {} THEN NoSlot ELSE First(Matches(n))

FreeBits == {b \in Bits : ~fs_bitmap[b]}
FreeSlots == {i \in Slots : ~is_used[i]}

\* Faulty variant: the count goes down and the bit stays clear.
CountOnly(b) ==
  /\ free_block_count' = free_block_count - 1
  /\ UNCHANGED fs_bitmap

fs_mark_block_used(b) ==
  /\ fs_bitmap' = [fs_bitmap EXCEPT ![b] = TRUE]
  /\ free_block_count' = free_block_count - 1

fs_mark_block_free(b) ==
  IF b \in Bits
  THEN /\ fs_bitmap' = [fs_bitmap EXCEPT ![b] = FALSE]
       /\ free_block_count' = free_block_count + 1
  ELSE UNCHANGED <<fs_bitmap, free_block_count>>

\* fs_init, on a disk of zeros.
Init ==
  /\ fs_bitmap = [b \in Bits |-> FALSE]
  /\ free_block_count = NUM_DATA_BLOCKS
  /\ name = [i \in Slots |-> NoName]
  /\ file_size = [i \in Slots |-> 0]
  /\ first_data_block = [i \in Slots |-> 0]
  /\ is_used = [i \in Slots |-> FALSE]
  /\ fs_disk = [k \in DataBlocks |-> Zeroed]

\* Faulty variant: the slot is taken before the directory is searched.
CreateUnchecked(n) ==
  LET i == First(FreeSlots)
      b == First(FreeBits)
  IN  /\ FreeSlots # {} /\ FreeBits # {}
      /\ fs_mark_block_used(b)
      /\ name' = [name EXCEPT ![i] = Stored[n]]
      /\ file_size' = [file_size EXCEPT ![i] = 0]
      /\ first_data_block' = [first_data_block EXCEPT ![i] = FIRST_DATA_BLOCK + b]
      /\ is_used' = [is_used EXCEPT ![i] = TRUE]
      /\ UNCHANGED fs_disk

\* A name that is found, a full directory and a full disk change nothing.
fs_create_file(n) ==
  LET i == First(FreeSlots)
      b == First(FreeBits)            \* fs_alloc_block
  IN  /\ fs_find_file(n) = NoSlot
      /\ FreeSlots # {} /\ FreeBits # {}
      /\ fs_mark_block_used(b)
      /\ name' = [name EXCEPT ![i] = Stored[n]]
      /\ file_size' = [file_size EXCEPT ![i] = 0]
      /\ first_data_block' = [first_data_block EXCEPT ![i] = FIRST_DATA_BLOCK + b]
      /\ is_used' = [is_used EXCEPT ![i] = TRUE]
      /\ UNCHANGED fs_disk

\* Faulty variant: the block is not given back.
DeleteLeaking(n) ==
  LET i == fs_find_file(n)
  IN  /\ i # NoSlot
      /\ is_used' = [is_used EXCEPT ![i] = FALSE]
      /\ UNCHANGED <<fs_bitmap, free_block_count, name, file_size, first_data_block, fs_disk>>

\* Faulty variant: the entry stays in the directory.
DeleteKeepingEntry(n) ==
  LET i == fs_find_file(n)
  IN  /\ i # NoSlot
      /\ fs_mark_block_free(first_data_block[i] - FIRST_DATA_BLOCK)
      /\ UNCHANGED <<dir, fs_disk>>

fs_delete_file(n) ==
  LET i == fs_find_file(n)
  IN  /\ i # NoSlot
      /\ fs_mark_block_free(first_data_block[i] - FIRST_DATA_BLOCK)
      /\ is_used' = [is_used EXCEPT ![i] = FALSE]
      /\ UNCHANGED <<name, file_size, first_data_block, fs_disk>>

\* fs_write_file always goes on for size / BLOCK_SIZE + 1 blocks.
BlocksNeeded(size) == size \div BLOCK_SIZE + 1

\* The disk after "count" blocks of a buffer of v's went to "first" and on.
\* fs_write_block refuses the blocks past the end of the disk.
Written(disk, first, count, v) ==
  [k \in DataBlocks |-> IF k \in first .. first + count - 1
                        THEN <<v, k - first>> ELSE disk[k]]

\* Faulty variant: the write starts one block late.
WriteShifted(n, v, size) ==
  LET i == fs_find_file(n)
  IN  /\ i # NoSlot
      /\ fs_disk' = Written(fs_disk, first_data_block[i] + 1, BlocksNeeded(size), v)
      /\ file_size' = [file_size EXCEPT ![i] = size]
      /\ UNCHANGED <<fs_bitmap, free_block_count, name, first_data_block, is_used>>

\* The blocks after the first one are written although the file owns none of
\* them; the new size is recorded whether or not every block was accepted.
fs_write_file(n, v, size) ==
  LET i == fs_find_file(n)
  IN  /\ i # NoSlot
      /\ fs_disk' = Written(fs_disk, first_data_block[i], BlocksNeeded(size), v)
      /\ file_size' = [file_size EXCEPT ![i] = size]
      /\ UNCHANGED <<fs_bitmap, free_block_count, name, first_data_block, is_used>>

\* What fs_read_file copies out for a reader that asks for "size" bytes.
fs_read_file(n, size) ==
  LET i == fs_find_file(n)
      wanted == BlocksNeeded(size)
      file_blocks == BlocksNeeded(file_size[i])
      blocks_to_read == IF wanted > file_blocks THEN file_blocks ELSE wanted
  IN  [k \in 0 .. blocks_to_read - 1 |-> fs_disk[first_data_block[i] + k]]

Next ==
  \E n \in Names :
    \/ fs_create_file(n)
    \/ fs_delete_file(n)
    \/ \E v \in Vals, size \in Sizes : fs_write_file(n, v, size)

Spec == Init /\ [][Next]_vars

-----------------------------------------------------------------------------
TypeOK ==
  /\ fs_bitmap \in [Bits -> BOOLEAN]
  /\ free_block_count \in 0 .. NUM_DATA_BLOCKS
  /\ name \in [Slots -> Names \cup {NoName}]
  /\ file_size \in [Slots -> Nat]
  /\ first_data_block \in [Slots -> DataBlocks \cup {0}]
  /\ is_used \in [Slots -> BOOLEAN]
  /\ \A k \in DataBlocks : fs_disk[k][2] \in Nat

UsedSlots == {i \in Slots : is_used[i]}

\* Every file owns its first block alone.
NoSharedBlock ==
  \A i, j \in UsedSlots :
    first_data_block[i] = first_data_block[j] => i = j

\* The bits set are exactly the blocks of the files, and the count in the
\* superblock agrees with them: deleting and creating in any order neither leaks
\* a block nor frees one that is still in use.
BitmapMatchesDirectory ==
  /\ free_block_count = Cardinality(FreeBits)
  /\ {b \in Bits : fs_bitmap[b]} = {first_data_block[i] - FIRST_DATA_BLOCK : i \in UsedSlots}

\* fs_create_file refuses a name that exists, so two files with the same name
\* can only come from a name the directory had to cut short.
DuplicatesOnlyFromCutNames ==
  \A i, j \in UsedSlots :
    (i # j /\ name[i] = name[j]) => \E n \in Names : n # name[i] /\ Stored[n] = name[i]

\* "file '%s' already exists": no two files have the same name.
NamesUnique == \A i, j \in UsedSlots : name[i] = name[j] => i = j

Files == {name[i] : i \in UsedSlots}
Nothing == <<"nothing", 0>>

\* What a reader who asks for the size of the file gets.
Contents(n) == IF file_size[fs_find_file(n)] = 0 THEN Nothing
               ELSE fs_read_file(n, file_size[fs_find_file(n)])[0]

Store == INSTANCE FileStore
           WITH Data <- {<<v, 0>> : v \in Vals},
                store <- [n \in Files |-> [size |-> file_size[fs_find_file(n)],
                                           data |-> Contents(n)]]

\* As long as no write reaches BLOCK_SIZE and every name fits the directory, the
\* files are a flat store: a file reads back what was last written to it,
\* whatever was done to the others and whichever freed block it was given.
ImplementsFileStore == Store!Spec
=============================================================================
