------------------------- MODULE FileClientsProofs -------------------------
(***************************************************************************)
(* Theorems about the file system and its clients, for every disk,         *)
(* directory, set of names and way of cutting them.                        *)
(***************************************************************************)
EXTENDS FileClients, FiniteSetTheorems, NaturalsInduction, TLAPS

\* What a data block can hold.
Blocks == (Vals \cup {"zero", "empty"}) \X Nat

\* The types of the file system's state.
Typed ==
  /\ fs_bitmap \in [Bits -> BOOLEAN]
  /\ name \in [Slots -> Names \cup {NoName}]
  /\ file_size \in [Slots -> Nat]
  /\ first_data_block \in [Slots -> DataBlocks \cup {0}]
  /\ is_used \in [Slots -> BOOLEAN]
  /\ fs_disk \in [DataBlocks -> Blocks]

\* A file has a name and a data block.
Owns == \A i \in UsedSlots : name[i] \in Names /\ first_data_block[i] \in DataBlocks

\* The bits set are the blocks of files, without the count.
BitsAreFiles ==
  {b \in Bits : fs_bitmap[b]} = {first_data_block[i] - FIRST_DATA_BLOCK : i \in UsedSlots}

CountIsExact == free_block_count = Cardinality(FreeBits)

FSInv ==
  /\ Typed /\ Owns /\ NoSharedBlock /\ BitsAreFiles /\ CountIsExact
  /\ DuplicatesOnlyFromCutNames

\* What the steps of a save rely on: the editor knows the name it works on, a
\* clean text with no unmarked row is in the file in the middle of a save too, and the name is only
\* missing after the first step if it could not be created.
ClientInv ==
  /\ pc \in {"shell", "keys", "w", "wq"}
  /\ pc # "shell" => filename \in Names
  /\ text \in Blocks
  /\ dirty \in BOOLEAN /\ unmarked \in BOOLEAN
  /\ pc # "shell" /\ ~dirty /\ ~unmarked => InFile
  /\ pc \in {"w", "wq"} /\ fs_find_file(filename) = NoSlot =>
       Stored[filename] # filename \/ FreeSlots = {} \/ FreeBits = {}

IInv == FSInv /\ ClientInv

-----------------------------------------------------------------------------
\* A nonempty set of numbers has a least one, which the search loops find.
LEMMA FirstFacts ==
  ASSUME NEW S, S \subseteq Nat, S # {}
  PROVE  First(S) \in S
  <1>1. PICK m \in S : \A k \in S : ~(<<k, m>> \in OpToRel(<, Nat))
    BY WFMin, NatLessThanWellFounded, Zenon
  <1>2. \A k \in S : ~(k < m)
    BY <1>1, Zenon DEF OpToRel
  <1>3. \E i \in S : \A j \in S : i <= j
    BY <1>2
  <1>4. QED
    BY <1>3 DEF First

\* fs_find_file returns an entry of that name if there is one.
LEMMA FindFacts ==
  ASSUME NEW n
  PROVE  /\ fs_find_file(n) = NoSlot <=> Matches(n) = {}
         /\ fs_find_file(n) # NoSlot => fs_find_file(n) \in Matches(n)
  <1>1. Matches(n) \subseteq Nat /\ NoSlot \notin Matches(n)
    BY FSAssumption DEF Matches, Slots, NoSlot
  <1>2. Matches(n) # {} => First(Matches(n)) \in Matches(n)
    BY <1>1, FirstFacts
  <1>3. QED
    BY <1>1, <1>2 DEF fs_find_file

\* The slot and the block fs_create_file takes are free ones.
LEMMA FreeFacts ==
  /\ FreeSlots # {} => First(FreeSlots) \in Slots /\ ~is_used[First(FreeSlots)]
  /\ FreeBits # {} => First(FreeBits) \in Bits /\ ~fs_bitmap[First(FreeBits)]
  <1>1. FreeSlots \subseteq Nat /\ FreeBits \subseteq Nat
    BY FSAssumption DEF FreeSlots, Slots, FreeBits, Bits
  <1>2. /\ FreeSlots # {} => First(FreeSlots) \in FreeSlots
        /\ FreeBits # {} => First(FreeBits) \in FreeBits
    BY <1>1, FirstFacts
  <1>3. QED
    BY <1>2 DEF FreeSlots, FreeBits

\* Free blocks can be counted, and there are no more than data blocks.
LEMMA FreeBitsFinite ==
  /\ IsFiniteSet(FreeBits)
  /\ Cardinality(FreeBits) \in 0 .. NUM_DATA_BLOCKS
  <1>1. NUM_DATA_BLOCKS \in Nat
    BY FSAssumption DEF NUM_DATA_BLOCKS
  <1>2. IsFiniteSet(Bits) /\ Cardinality(Bits) = NUM_DATA_BLOCKS
    <2>1. IsFiniteSet(0 .. NUM_DATA_BLOCKS - 1)
      BY <1>1, FS_Interval
    <2>2. Cardinality(0 .. NUM_DATA_BLOCKS - 1) = NUM_DATA_BLOCKS
      BY <1>1, FS_Interval
    <2>3. QED
      BY <2>1, <2>2 DEF Bits
  <1>3. FreeBits \in SUBSET Bits
    BY DEF FreeBits
  <1>4. IsFiniteSet(FreeBits) /\ Cardinality(FreeBits) <= Cardinality(Bits)
    BY <1>2, <1>3, FS_Subset
  <1>5. Cardinality(FreeBits) \in Nat
    BY <1>4, FS_CardinalityType
  <1>6. QED
    BY <1>1, <1>2, <1>4, <1>5

\* FIRST_DATA_BLOCK + b and back.
LEMMA BlockOfBit ==
  /\ \A b \in Bits : b \in Int /\ FIRST_DATA_BLOCK + b \in DataBlocks
  /\ \A k \in DataBlocks : k \in Int /\ k - FIRST_DATA_BLOCK \in Bits
  /\ FIRST_DATA_BLOCK \in Nat
  BY FSAssumption DEF Bits, DataBlocks, NUM_DATA_BLOCKS

\* fs_init leaves the file system in order.
LEMMA InitFSInv == Init => FSInv
  <1> SUFFICES ASSUME Init PROVE FSInv
    OBVIOUS
  <1>1. Typed
    BY DEF Init, Typed, Blocks, Zeroed
  <1>2. UsedSlots = {}
    BY DEF Init, UsedSlots
  <1>3. Owns /\ NoSharedBlock /\ DuplicatesOnlyFromCutNames
    BY <1>2 DEF Owns, NoSharedBlock, DuplicatesOnlyFromCutNames
  <1>4. BitsAreFiles
    BY <1>2 DEF Init, BitsAreFiles
  <1>5. CountIsExact
    <2>1. FreeBits = 0 .. NUM_DATA_BLOCKS - 1
      BY DEF Init, FreeBits, Bits
    <2>2. NUM_DATA_BLOCKS \in Nat
      BY FSAssumption DEF NUM_DATA_BLOCKS
    <2>3. Cardinality(0 .. NUM_DATA_BLOCKS - 1) = NUM_DATA_BLOCKS
      BY <2>2, FS_Interval
    <2>4. QED
      BY <2>1, <2>3 DEF Init, CountIsExact
  <1>6. QED
    BY <1>1, <1>3, <1>4, <1>5 DEF FSInv

\* fs_create_file: the new entry gets a block of its own, the bitmap and the count
\* follow, and a name that is already there was cut to get there.
LEMMA CreateFSInv ==
  ASSUME FSInv, NEW n \in Names, fs_create_file(n)
  PROVE  FSInv'
  <1> DEFINE i == First(FreeSlots)
             b == First(FreeBits)
  <1>0. /\ fs_bitmap' = [fs_bitmap EXCEPT ![b] = TRUE]
        /\ free_block_count' = free_block_count - 1
        /\ name' = [name EXCEPT ![i] = Stored[n]]
        /\ file_size' = [file_size EXCEPT ![i] = 0]
        /\ first_data_block' = [first_data_block EXCEPT ![i] = FIRST_DATA_BLOCK + b]
        /\ is_used' = [is_used EXCEPT ![i] = TRUE]
        /\ fs_disk' = fs_disk
        /\ Matches(n) = {}
    BY FindFacts DEF fs_create_file, fs_mark_block_used
  <1>1. i \in Slots /\ ~is_used[i] /\ b \in Bits /\ ~fs_bitmap[b]
    BY FreeFacts DEF fs_create_file
  <1> HIDE DEF i, b
  <1>2. Typed
    BY DEF FSInv
  <1>3. Stored[n] \in Names
    BY FSAssumption
  <1>4. Typed'
    BY <1>0, <1>1, <1>2, <1>3, BlockOfBit DEF Typed
  <1>5. UsedSlots' = UsedSlots \cup {i} /\ i \notin UsedSlots
    BY <1>0, <1>1, <1>2 DEF Typed, UsedSlots
  <1>6. /\ first_data_block'[i] = FIRST_DATA_BLOCK + b /\ name'[i] = Stored[n]
        /\ \A j \in UsedSlots : /\ first_data_block'[j] = first_data_block[j]
                                /\ name'[j] = name[j]
    BY <1>0, <1>1, <1>2, <1>5 DEF Typed, UsedSlots
  <1>7. Owns'
    BY <1>3, <1>5, <1>6, <1>1, BlockOfBit DEF FSInv, Owns
  <1>8. \A j \in UsedSlots : first_data_block[j] # FIRST_DATA_BLOCK + b
    <2> SUFFICES ASSUME NEW j \in UsedSlots, first_data_block[j] = FIRST_DATA_BLOCK + b
                 PROVE  FALSE
      OBVIOUS
    <2>1. first_data_block[j] - FIRST_DATA_BLOCK = b
      BY <1>1, BlockOfBit
    <2>2. b \in {bit \in Bits : fs_bitmap[bit]}
      BY <2>1 DEF FSInv, BitsAreFiles
    <2>3. QED
      BY <1>1, <2>2
  <1>9. NoSharedBlock'
    BY <1>5, <1>6, <1>8 DEF FSInv, NoSharedBlock
  <1>10. BitsAreFiles'
    <2>1. {bit \in Bits : fs_bitmap'[bit]} = {bit \in Bits : fs_bitmap[bit]} \cup {b}
      BY <1>0, <1>1, <1>2 DEF Typed
    <2>2. (FIRST_DATA_BLOCK + b) - FIRST_DATA_BLOCK = b
      BY <1>1, BlockOfBit
    <2>3. {first_data_block'[j] - FIRST_DATA_BLOCK : j \in UsedSlots'}
            = {first_data_block[j] - FIRST_DATA_BLOCK : j \in UsedSlots} \cup {b}
      BY <1>5, <1>6, <2>2
    <2>4. QED
      BY <2>1, <2>3 DEF FSInv, BitsAreFiles
  <1>11. CountIsExact'
    <2>1. FreeBits' = FreeBits \ {b} /\ b \in FreeBits
      BY <1>0, <1>1, <1>2 DEF Typed, FreeBits
    <2>2. Cardinality(FreeBits \ {b}) = Cardinality(FreeBits) - 1
      BY <2>1, FreeBitsFinite, FS_RemoveElement
    <2>3. QED
      BY <1>0, <2>1, <2>2 DEF FSInv, CountIsExact
  <1>12. DuplicatesOnlyFromCutNames'
    <2>1. \A j \in UsedSlots : name[j] = Stored[n] => n # Stored[n]
      BY <1>0 DEF Matches, UsedSlots
    <2>2. \A j \in UsedSlots : name[j] = Stored[n] =>
            \E m \in Names : m # Stored[n] /\ Stored[m] = Stored[n]
      BY <2>1
    <2>3. QED
      BY <1>5, <1>6, <2>2 DEF FSInv, DuplicatesOnlyFromCutNames
  <1>13. QED
    BY <1>4, <1>7, <1>9, <1>10, <1>11, <1>12 DEF FSInv

\* fs_delete_file: the entry's block, and no other, is free again.
LEMMA DeleteFSInv ==
  ASSUME FSInv, NEW n \in Names, fs_delete_file(n)
  PROVE  FSInv'
  <1> DEFINE i == fs_find_file(n)
             b == first_data_block[i] - FIRST_DATA_BLOCK
  <1>1. i \in Slots /\ i \in UsedSlots
    BY FindFacts DEF fs_delete_file, Matches, UsedSlots
  <1>2. b \in Bits /\ b \in {bit \in Bits : fs_bitmap[bit]}
    BY <1>1, BlockOfBit DEF FSInv, Owns, BitsAreFiles
  <1>0. /\ fs_bitmap' = [fs_bitmap EXCEPT ![b] = FALSE]
        /\ free_block_count' = free_block_count + 1
        /\ is_used' = [is_used EXCEPT ![i] = FALSE]
        /\ UNCHANGED <<name, file_size, first_data_block, fs_disk>>
    BY <1>2 DEF fs_delete_file, fs_mark_block_free
  <1> HIDE DEF i
  <1>3. Typed
    BY DEF FSInv
  <1>4. Typed'
    BY <1>0, <1>1, <1>2, <1>3 DEF Typed
  <1>5. UsedSlots' = UsedSlots \ {i}
    BY <1>0, <1>1, <1>3 DEF Typed, UsedSlots
  <1>6. Owns' /\ NoSharedBlock' /\ DuplicatesOnlyFromCutNames'
    BY <1>0, <1>5 DEF FSInv, Owns, NoSharedBlock, DuplicatesOnlyFromCutNames
  <1>7. \A j \in UsedSlots : j # i => first_data_block[j] - FIRST_DATA_BLOCK # b
    <2> SUFFICES ASSUME NEW j \in UsedSlots, j # i,
                        first_data_block[j] - FIRST_DATA_BLOCK = b
                 PROVE  FALSE
      OBVIOUS
    <2>1. first_data_block[i] \in DataBlocks /\ first_data_block[j] \in DataBlocks
      BY <1>1 DEF FSInv, Owns
    <2>2. first_data_block[j] = first_data_block[i]
      BY <2>1, BlockOfBit
    <2>3. QED
      BY <1>1, <2>2 DEF FSInv, NoSharedBlock
  <1>8. BitsAreFiles'
    <2>1. {bit \in Bits : fs_bitmap'[bit]} = {bit \in Bits : fs_bitmap[bit]} \ {b}
      BY <1>0, <1>2, <1>3 DEF Typed
    <2>2. {first_data_block[j] - FIRST_DATA_BLOCK : j \in UsedSlots \ {i}}
            = {first_data_block[j] - FIRST_DATA_BLOCK : j \in UsedSlots} \ {b}
      BY <1>1, <1>7
    <2>3. QED
      BY <1>0, <1>5, <2>1, <2>2 DEF FSInv, BitsAreFiles
  <1>9. CountIsExact'
    <2>1. FreeBits' = FreeBits \cup {b} /\ b \notin FreeBits
      BY <1>0, <1>2, <1>3 DEF Typed, FreeBits
    <2>2. Cardinality(FreeBits \cup {b}) = Cardinality(FreeBits) + 1
      BY <2>1, FreeBitsFinite, FS_AddElement
    <2>3. QED
      BY <1>0, <2>1, <2>2 DEF FSInv, CountIsExact
  <1>10. QED
    BY <1>4, <1>6, <1>8, <1>9 DEF FSInv

\* Whatever is written to blocks and sizes, the directory and the bitmap stay in
\* order: a write of any size, beyond the file's own block too, and a save.
LEMMA ContentsFSInv ==
  ASSUME FSInv,
         fs_disk' \in [DataBlocks -> Blocks], file_size' \in [Slots -> Nat],
         UNCHANGED <<fs_bitmap, free_block_count, name, first_data_block, is_used>>
  PROVE  FSInv'
  BY DEF FSInv, Typed, Owns, UsedSlots, NoSharedBlock, BitsAreFiles, CountIsExact, FreeBits,
         DuplicatesOnlyFromCutNames

\* fs_write_file, whatever the size.
LEMMA WriteFSInv ==
  ASSUME FSInv, NEW n \in Names, NEW v \in Vals, NEW size \in Sizes, fs_write_file(n, v, size)
  PROVE  FSInv'
  <1> DEFINE i == fs_find_file(n)
  <1>1. i \in Slots
    BY FindFacts DEF fs_write_file, Matches
  <1>2. size \in Nat
    BY FSAssumption
  <1>3. file_size' \in [Slots -> Nat]
    BY <1>1, <1>2 DEF fs_write_file, FSInv, Typed
  <1>4. fs_disk' \in [DataBlocks -> Blocks]
    <2> DEFINE first == first_data_block[i]
               count == BlocksNeeded(size)
    <2>1. first \in Nat
      BY <1>1, FSAssumption DEF FSInv, Typed, DataBlocks
    <2> HIDE DEF first
    <2>2. \A k \in DataBlocks, last \in Int : k \in first .. last => k - first \in Nat
      BY <2>1
    <2>3. BlocksNeeded(size) \in Int
      BY <1>2, FSAssumption DEF BlocksNeeded
    <2>4. \A k \in DataBlocks :
            (IF k \in first .. first + count - 1 THEN <<v, k - first>> ELSE fs_disk[k]) \in Blocks
      <3> HIDE DEF count
      <3> TAKE k \in DataBlocks
      <3>1. CASE k \in first .. first + count - 1
        BY <3>1, <2>1 DEF Blocks, count
      <3>2. CASE k \notin first .. first + count - 1
        BY <3>2 DEF FSInv, Typed
      <3>3. QED
        BY <3>1, <3>2
    <2>5. fs_disk' = Written(fs_disk, first, count, v)
      BY DEF fs_write_file, first
    <2>6. QED
      BY <2>4, <2>5 DEF Written
  <1>5. QED
    BY <1>3, <1>4, ContentsFSInv DEF fs_write_file

-----------------------------------------------------------------------------
\* Lookups go by the directory alone.
LEMMA FindUnchanged ==
  ASSUME UNCHANGED <<name, is_used>>
  PROVE  \A n : fs_find_file(n)' = fs_find_file(n)
  BY DEF fs_find_file, Matches

\* After a create the name is found, with nothing in it, exactly when the
\* directory did not have to cut it.
LEMMA CreateFinds ==
  ASSUME FSInv, NEW n \in Names, fs_create_file(n)
  PROVE  /\ Stored[n] = n => fs_find_file(n)' # NoSlot /\ file_size'[fs_find_file(n)'] = 0
         /\ Stored[n] # n => fs_find_file(n)' = NoSlot
  <1> DEFINE i == First(FreeSlots)
  <1>1. /\ name' = [name EXCEPT ![i] = Stored[n]]
        /\ file_size' = [file_size EXCEPT ![i] = 0]
        /\ is_used' = [is_used EXCEPT ![i] = TRUE]
        /\ Matches(n) = {}
    BY FindFacts DEF fs_create_file
  <1>2. i \in Slots /\ ~is_used[i]
    BY FreeFacts DEF fs_create_file
  <1> HIDE DEF i
  <1>3. Matches(n)' = IF Stored[n] = n THEN {i} ELSE {}
    BY <1>1, <1>2 DEF Matches, FSInv, Typed
  <1>4. /\ fs_find_file(n)' = NoSlot <=> Matches(n)' = {}
        /\ fs_find_file(n)' # NoSlot => fs_find_file(n)' \in Matches(n)'
    <2>1. Matches(n)' \subseteq Nat /\ NoSlot \notin Matches(n)'
      BY FSAssumption DEF Matches, Slots, NoSlot
    <2>2. Matches(n)' # {} => First(Matches(n)') \in Matches(n)'
      BY <2>1, FirstFacts
    <2>3. QED
      BY <2>1, <2>2 DEF fs_find_file
  <1>5. file_size'[i] = 0
    BY <1>1, <1>2 DEF FSInv, Typed
  <1>6. QED
    BY <1>3, <1>4, <1>5

\* The block of a file that was found is a data block.
LEMMA FoundFacts ==
  ASSUME FSInv, NEW n, fs_find_file(n) # NoSlot
  PROVE  /\ fs_find_file(n) \in Slots
         /\ first_data_block[fs_find_file(n)] \in DataBlocks
         /\ fs_disk[first_data_block[fs_find_file(n)]] \in Blocks
  <1>1. fs_find_file(n) \in UsedSlots
    BY FindFacts DEF Matches, UsedSlots
  <1>2. QED
    BY <1>1 DEF FSInv, Owns, Typed, UsedSlots

\* At first nobody edits.
LEMMA InitIInv == ClientsInit => IInv
  <1> SUFFICES ASSUME ClientsInit PROVE IInv
    OBVIOUS
  <1>1. FSInv
    BY InitFSInv DEF ClientsInit
  <1>2. text \in Blocks
    BY DEF ClientsInit, Blocks, Empty
  <1>3. ClientInv
    BY <1>2 DEF ClientsInit, ClientInv
  <1>4. QED
    BY <1>1, <1>3 DEF IInv

\* touch and del in the shell and the file system calls find nobody editing.
LEMMA ShellIInv ==
  ASSUME IInv, NEW n \in Names,
         \/ lsh_touch(n) \/ lsh_del(n)
         \/ \E v \in Vals, size \in Sizes : SysWriteFile(n, v, size)
  PROVE  IInv'
  <1>1. FSInv'
    BY CreateFSInv, DeleteFSInv, WriteFSInv DEF IInv, lsh_touch, lsh_del, SysWriteFile
  <1>2. pc = "shell" /\ UNCHANGED <<pc, E>>
    BY DEF lsh_touch, lsh_del, SysWriteFile
  <1>3. QED
    BY <1>1, <1>2 DEF IInv, ClientInv, E

\* editorOpen takes the text from the file.
LEMMA OpenIInv ==
  ASSUME IInv, NEW n \in Names, editorOpen(n)
  PROVE  IInv'
  <1> DEFINE i == fs_find_file(n)
  <1>1. /\ UNCHANGED <<fs_bitmap, free_block_count, name, file_size, first_data_block, is_used,
                       fs_disk>>
        /\ pc' = "keys" /\ filename' = n /\ dirty' = FALSE /\ unmarked' = FALSE
        /\ text' = IF i = NoSlot \/ file_size[i] = 0 THEN Empty ELSE fs_disk[first_data_block[i]]
    BY DEF editorOpen, fs, dir
  <1>2. FSInv'
    BY <1>1, ContentsFSInv DEF IInv, FSInv, Typed
  <1>3. fs_find_file(filename)' = i
    BY <1>1, FindUnchanged DEF fs_find_file, Matches
  <1>4. text' \in Blocks
    BY <1>1, FoundFacts DEF IInv, Blocks, Empty
  <1>5. InFile'
    BY <1>1, <1>3 DEF InFile
  <1>6. QED
    BY <1>1, <1>2, <1>4, <1>5 DEF IInv, ClientInv

\* Editing changes the text in memory and marks it, as dirty or as one that ought
\* to be; the disk is as it was.
LEMMA EditIInv ==
  ASSUME IInv, NEW t \in {<<v, 0>> : v \in Vals} \cup {Empty}, NEW more \in BOOLEAN,
         Edit(t, more) \/ AddRow(t, more)
  PROVE  IInv'
  <1>1. UNCHANGED <<fs_bitmap, free_block_count, name, file_size, first_data_block, is_used,
                    fs_disk>>
    BY DEF Edit, AddRow, fs, dir
  <1>2. FSInv'
    BY <1>1, ContentsFSInv DEF IInv, FSInv, Typed
  <1>3. text' \in Blocks
    BY DEF Edit, AddRow, Blocks, Empty
  <1>4. /\ pc = "keys" /\ UNCHANGED <<pc, filename>>
        /\ dirty' \in BOOLEAN /\ unmarked' \in BOOLEAN /\ (dirty' \/ unmarked')
    BY DEF IInv, ClientInv, Edit, AddRow
  <1>5. QED
    BY <1>2, <1>3, <1>4 DEF IInv, ClientInv

\* The first step of a save.  A name that was not there is empty when it is there
\* now, so a clean text, which was empty, is still in the file.
LEMMA SaveCreateIInv ==
  ASSUME IInv, NEW cmd \in {"w", "wq"}, SaveCreate(cmd)
  PROVE  IInv'
  <1> DEFINE n == filename
  <1>0. n \in Names /\ pc = "keys" /\ pc' = cmd /\ UNCHANGED <<filename, text, dirty, unmarked>>
    BY DEF SaveCreate, IInv, ClientInv, E
  <1>1. CASE fs_find_file(n) = NoSlot /\ FreeSlots # {} /\ FreeBits # {}
    <2>1. fs_create_file(n)
      BY <1>1 DEF SaveCreate
    <2>2. FSInv'
      BY <1>0, <2>1, CreateFSInv DEF IInv
    <2>3. /\ Stored[n] = n => fs_find_file(n)' # NoSlot /\ file_size'[fs_find_file(n)'] = 0
          /\ Stored[n] # n => fs_find_file(n)' = NoSlot
      BY <1>0, <2>1, CreateFinds DEF IInv
    <2>4. ~dirty /\ ~unmarked => InFile'
      <3>1. ~dirty /\ ~unmarked => text = Empty
        BY <1>0, <1>1 DEF IInv, ClientInv, InFile
      <3>2. QED
        BY <1>0, <2>3, <3>1 DEF InFile
    <2>5. fs_find_file(filename)' = NoSlot => Stored[filename'] # filename'
      BY <1>0, <2>3
    <2>6. QED
      BY <1>0, <2>2, <2>4, <2>5 DEF IInv, ClientInv
  <1>2. CASE ~(fs_find_file(n) = NoSlot /\ FreeSlots # {} /\ FreeBits # {})
    <2>1. UNCHANGED <<fs_bitmap, free_block_count, name, file_size, first_data_block, is_used,
                      fs_disk>>
      BY <1>2 DEF SaveCreate, fs, dir
    <2>2. FSInv'
      BY <2>1, ContentsFSInv DEF IInv, FSInv, Typed
    <2>3. fs_find_file(filename)' = fs_find_file(n)
      BY <1>0, <2>1 DEF fs_find_file, Matches
    <2>4. (FreeSlots = {} <=> FreeSlots' = {}) /\ (FreeBits = {} <=> FreeBits' = {})
      BY <2>1 DEF FreeSlots, FreeBits
    <2>5. ~dirty /\ ~unmarked => InFile'
      BY <1>0, <2>1, <2>3 DEF IInv, ClientInv, InFile
    <2>6. QED
      BY <1>0, <1>2, <2>2, <2>3, <2>4, <2>5 DEF IInv, ClientInv
  <1>3. QED
    BY <1>1, <1>2

\* The second step of a save: the file that is found holds the text afterwards.
LEMMA SaveWriteFacts ==
  ASSUME IInv, SaveWrite
  PROVE  /\ FSInv'
         /\ fs_find_file(filename)' = fs_find_file(filename)
         /\ fs_find_file(filename) # NoSlot => InFile'
         /\ UNCHANGED <<fs_bitmap, free_block_count, name, first_data_block, is_used>>
         /\ fs_find_file(filename) = NoSlot => UNCHANGED <<file_size, fs_disk, dirty, unmarked>>
  <1> DEFINE i == fs_find_file(filename)
  <1>1. UNCHANGED <<fs_bitmap, free_block_count, name, first_data_block, is_used, filename, text>>
    BY DEF SaveWrite, fs, dir
  <1>2. fs_find_file(filename)' = i
    BY <1>1 DEF fs_find_file, Matches
  <1>3. CASE i = NoSlot
    <2>1. UNCHANGED <<file_size, fs_disk, dirty, unmarked>>
      BY <1>3 DEF SaveWrite, fs, dir
    <2>2. FSInv'
      BY <1>1, <2>1, ContentsFSInv DEF IInv, FSInv, Typed
    <2>3. QED
      BY <1>1, <1>2, <1>3, <2>1, <2>2
  <1>4. CASE i # NoSlot
    <2>1. /\ fs_disk' = [fs_disk EXCEPT ![first_data_block[i]] = text]
          /\ file_size' = [file_size EXCEPT ![i] = IF text = Empty THEN 0 ELSE TextSize]
      BY <1>4 DEF SaveWrite
    <2>2. i \in Slots /\ first_data_block[i] \in DataBlocks
      BY <1>4, FoundFacts DEF IInv
    <2> HIDE DEF i
    <2>3. TextSize \in Nat /\ TextSize # 0
      BY FSAssumption, ClientsAssumption DEF TextSize
    <2>4. fs_disk' \in [DataBlocks -> Blocks] /\ file_size' \in [Slots -> Nat]
      BY <2>1, <2>2, <2>3 DEF IInv, FSInv, Typed, ClientInv
    <2>5. FSInv'
      BY <1>1, <2>4, ContentsFSInv DEF IInv
    <2>6. /\ fs_disk'[first_data_block[i]] = text
          /\ file_size'[i] = IF text = Empty THEN 0 ELSE TextSize
      BY <2>1, <2>2 DEF IInv, FSInv, Typed
    <2>7. InFile'
      BY <1>1, <1>2, <1>4, <2>3, <2>6 DEF InFile
    <2>8. QED
      BY <1>1, <1>2, <1>4, <2>5, <2>7 DEF i
  <1>5. QED
    BY <1>3, <1>4

\* editorSave's write: afterwards the file holds the text, or there is no file.
LEMMA SaveWriteIInv ==
  ASSUME IInv, SaveWrite
  PROVE  IInv'
  <1>1. /\ pc \in {"w", "wq"} /\ pc' \in {"shell", "keys"} /\ UNCHANGED <<filename, text>>
        /\ filename \in Names
    BY DEF SaveWrite, IInv, ClientInv
  <1>2. FSInv' /\ text' \in Blocks
    BY <1>1, SaveWriteFacts DEF IInv, ClientInv
  <1>3. dirty' \in BOOLEAN /\ unmarked' \in BOOLEAN
    BY DEF SaveWrite, IInv, ClientInv, fs, dir
  <1>4. ~dirty' /\ ~unmarked' => InFile'
    <2>1. CASE fs_find_file(filename) # NoSlot
      BY <2>1, SaveWriteFacts
    <2>2. CASE fs_find_file(filename) = NoSlot
      BY <1>1, <2>2, SaveWriteFacts DEF IInv, ClientInv, InFile
    <2>3. QED
      BY <2>1, <2>2
  <1>5. QED
    BY <1>1, <1>2, <1>3, <1>4 DEF IInv, ClientInv

\* No step of a client breaks the invariant.
LEMMA NextIInv == IInv /\ [ClientsNext]_cvars => IInv'
  <1> SUFFICES ASSUME IInv, [ClientsNext]_cvars PROVE IInv'
    OBVIOUS
  <1>1. ASSUME UNCHANGED fs, UNCHANGED <<filename, text, dirty, unmarked>>,
               pc' \in {pc, "shell"}
        PROVE  IInv'
    <2>1. UNCHANGED <<fs_bitmap, free_block_count, name, file_size, first_data_block, is_used,
                      fs_disk>>
      BY <1>1 DEF fs, dir
    <2>2. FSInv'
      BY <2>1, ContentsFSInv DEF IInv, FSInv, Typed
    <2>3. fs_find_file(filename)' = fs_find_file(filename)
      BY <1>1, <2>1 DEF fs_find_file, Matches
    <2>4. FreeSlots' = FreeSlots /\ FreeBits' = FreeBits /\ (InFile' <=> InFile)
      BY <1>1, <2>1, <2>3 DEF FreeSlots, FreeBits, InFile
    <2>5. QED
      BY <1>1, <2>2, <2>3, <2>4 DEF IInv, ClientInv
  <1>2. CASE Quit \/ UNCHANGED cvars
    BY <1>1, <1>2 DEF Quit, cvars, E
  <1>3. CASE ClientsNext /\ ~Quit
    BY <1>3, ShellIInv, OpenIInv, EditIInv, SaveCreateIInv, SaveWriteIInv DEF ClientsNext
  <1>4. QED
    BY <1>2, <1>3

\* The invariant holds whatever the shell, user programs and the editor do.
THEOREM FilesInvariant == ClientsSpec => []IInv
  BY InitIInv, NextIInv, PTL DEF ClientsSpec

\* The file system's state has its types, the free count among them.
THEOREM FilesTypeCorrect == ClientsSpec => []TypeOK
  <1>1. IInv => TypeOK
    BY FreeBitsFinite DEF IInv, FSInv, Typed, CountIsExact, TypeOK, Blocks
  <1>2. QED
    BY <1>1, FilesInvariant, PTL

\* No two files ever own a block.
THEOREM FilesNoSharedBlock == ClientsSpec => []NoSharedBlock
  <1>1. IInv => NoSharedBlock
    BY DEF IInv, FSInv
  <1>2. QED
    BY <1>1, FilesInvariant, PTL

\* Bitmap, directory and free count agree after any sequence of operations, full
\* disks, full directories and oversized writes included.
THEOREM FilesBitmap == ClientsSpec => []BitmapMatchesDirectory
  <1>1. IInv => BitmapMatchesDirectory
    BY DEF IInv, FSInv, BitsAreFiles, CountIsExact, BitmapMatchesDirectory
  <1>2. QED
    BY <1>1, FilesInvariant, PTL

\* Two entries of one name come only from a name the directory cut.
THEOREM FilesDuplicates == ClientsSpec => []DuplicatesOnlyFromCutNames
  <1>1. IInv => DuplicatesOnlyFromCutNames
    BY DEF IInv, FSInv
  <1>2. QED
    BY <1>1, FilesInvariant, PTL

\* A text that is not dirty, and that 'o', 'O' and 'p' left alone since it was read
\* or saved, is what its file holds as far as one block goes.
THEOREM FilesCleanOrUnmarked == ClientsSpec => []CleanOrUnmarked
  <1>1. IInv => CleanOrUnmarked
    BY DEF IInv, ClientInv, CleanOrUnmarked
  <1>2. QED
    BY <1>1, FilesInvariant, PTL

\* ':wq' leaves with the first block of the text unsaved only for want of room or for a cut name.
THEOREM FilesLostOnlyWithoutRoom == ClientsSpec => LostOnlyWithoutRoom
  <1> DEFINE Saved == \/ InFile
                      \/ Stored[filename] # filename
                      \/ FreeSlots = {} \/ FreeBits = {}
  <1>1. IInv /\ [ClientsNext]_cvars => [pc = "wq" => Saved']_cvars
    <2> SUFFICES ASSUME IInv, ClientsNext, pc = "wq" PROVE Saved'
      BY DEF cvars
    <2>1. SaveWrite
      BY DEF ClientsNext, lsh_touch, lsh_del, editorOpen, SysWriteFile, Edit, AddRow, SaveCreate,
             Quit
    <2>2. CASE fs_find_file(filename) # NoSlot
      BY <2>1, <2>2, SaveWriteFacts
    <2>3. CASE fs_find_file(filename) = NoSlot
      <3>1. Stored[filename] # filename \/ FreeSlots = {} \/ FreeBits = {}
        BY <2>3 DEF IInv, ClientInv
      <3>2. filename' = filename /\ FreeSlots' = FreeSlots /\ FreeBits' = FreeBits
        BY <2>1, SaveWriteFacts DEF SaveWrite, FreeSlots, FreeBits
      <3>3. QED
        BY <3>1, <3>2
    <2>4. QED
      BY <2>2, <2>3
  <1>2. QED
    BY <1>1, FilesInvariant, PTL DEF ClientsSpec, LostOnlyWithoutRoom

-----------------------------------------------------------------------------
(* The refinement of FileStore: names that fit, writes below a block.      *)

Fits ==
  /\ \A n \in Names : Stored[n] = n
  /\ \A size \in Sizes : size < BLOCK_SIZE
  /\ Vals # {}

Data == {<<v, 0>> : v \in Vals}

\* What was written is what is in the block of a file that is not empty.
DataInv ==
  /\ \A i \in UsedSlots : file_size[i] # 0 => fs_disk[first_data_block[i]] \in Data
  /\ text \in Data \cup {Empty}

\* The abstract record of the file in slot i.
Entry(i) == [size |-> file_size[i],
             data |-> IF file_size[i] = 0 THEN Nothing ELSE fs_disk[first_data_block[i]]]

\* With names that fit, a name leads to its slot and the store is what the slots
\* hold.
SlotView ==
  /\ \A n : \A i \in UsedSlots : name[i] = n => fs_find_file(n) = i
  /\ \A n \in Files : fs_find_file(n) \in UsedSlots /\ name[fs_find_file(n)] = n
  /\ \A n : n \in Files <=> fs_find_file(n) # NoSlot
  /\ [n \in Files |-> [size |-> file_size[fs_find_file(n)], data |-> Contents(n)]]
       = [n \in Files |-> Entry(fs_find_file(n))]

\* fs_read_file of a file's own size starts with the file's block.
LEMMA ReadsFirstBlock ==
  ASSUME Typed, NEW n, fs_find_file(n) \in Slots,
         first_data_block[fs_find_file(n)] \in DataBlocks
  PROVE  Contents(n) = Entry(fs_find_file(n)).data
  <1> DEFINE i == fs_find_file(n)
             size == file_size[i]
  <1>1. size \in Nat /\ first_data_block[i] \in Int
    BY BlockOfBit DEF Typed
  <1>2. BlocksNeeded(size) \in Nat /\ BlocksNeeded(size) > 0
    BY <1>1, FSAssumption DEF BlocksNeeded
  <1>3. 0 \in 0 .. BlocksNeeded(size) - 1 /\ first_data_block[i] + 0 = first_data_block[i]
    BY <1>1, <1>2
  <1>4. fs_read_file(n, size) = [k \in 0 .. BlocksNeeded(size) - 1 |->
                                   fs_disk[first_data_block[i] + k]]
    BY DEF fs_read_file
  <1>5. fs_read_file(n, size)[0] = fs_disk[first_data_block[i]]
    BY <1>3, <1>4
  <1>6. QED
    BY <1>5 DEF Contents, Entry

\* Names that fit are unique, and the store can be read off the slots.
LEMMA SlotViewHolds ==
  ASSUME Fits
  PROVE  FSInv => SlotView
  <1> SUFFICES ASSUME FSInv PROVE SlotView
    OBVIOUS
  <1>1. \A i, j \in UsedSlots : name[i] = name[j] => i = j
    BY DEF Fits, FSInv, DuplicatesOnlyFromCutNames
  <1>2. \A n : \A i \in UsedSlots : name[i] = n => fs_find_file(n) = i
    <2> TAKE n
    <2> SUFFICES ASSUME NEW i \in UsedSlots, name[i] = n PROVE fs_find_file(n) = i
      OBVIOUS
    <2>1. i \in Matches(n)
      BY DEF UsedSlots, Matches
    <2>2. fs_find_file(n) \in Matches(n)
      BY <2>1, FindFacts
    <2>3. QED
      BY <1>1, <2>2 DEF Matches, UsedSlots
  <1>3. \A n \in Files : fs_find_file(n) \in UsedSlots /\ name[fs_find_file(n)] = n
    BY <1>2 DEF Files
  <1>4. \A n : n \in Files <=> fs_find_file(n) # NoSlot
    <2> TAKE n
    <2>1. n \in Files => fs_find_file(n) # NoSlot
      BY <1>3, FSAssumption DEF UsedSlots, Slots, NoSlot
    <2>2. fs_find_file(n) # NoSlot => n \in Files
      BY FindFacts DEF Matches, Files, UsedSlots
    <2>3. QED
      BY <2>1, <2>2
  <1>5. \A n \in Files : [size |-> file_size[fs_find_file(n)], data |-> Contents(n)]
                            = Entry(fs_find_file(n))
    <2> TAKE n \in Files
    <2>1. fs_find_file(n) \in Slots /\ first_data_block[fs_find_file(n)] \in DataBlocks
      BY <1>3 DEF FSInv, Owns, UsedSlots
    <2>2. Contents(n) = Entry(fs_find_file(n)).data
      BY <2>1, ReadsFirstBlock DEF FSInv
    <2>3. QED
      BY <2>2 DEF Entry
  <1>6. QED
    BY <1>2, <1>3, <1>4, <1>5 DEF SlotView

\* The same after a step.
LEMMA SlotViewNext ==
  ASSUME Fits
  PROVE  FSInv' => SlotView'
  BY SlotViewHolds, PTL

StoreNow == [n \in Files |-> [size |-> file_size[fs_find_file(n)], data |-> Contents(n)]]

\* The store is the same before and after a step that changes no file's slot.
LEMMA SameStore ==
  ASSUME Fits, FSInv, FSInv', UNCHANGED <<name, is_used>>,
         \A i \in UsedSlots : Entry(i)' = Entry(i)
  PROVE  StoreNow' = StoreNow
  <1>1. SlotView /\ SlotView'
    BY SlotViewHolds, SlotViewNext
  <1>2. Files' = Files /\ \A n : fs_find_file(n)' = fs_find_file(n)
    BY FindUnchanged DEF Files, UsedSlots
  <1>3. StoreNow' = [n \in Files' |-> Entry(fs_find_file(n))']
    BY <1>1 DEF SlotView, StoreNow
  <1>4. StoreNow = [n \in Files |-> Entry(fs_find_file(n))]
    BY <1>1 DEF SlotView, StoreNow
  <1>5. \A n \in Files : Entry(fs_find_file(n))' = Entry(fs_find_file(n))
    BY <1>1, <1>2 DEF SlotView, Entry
  <1>6. QED
    BY <1>2, <1>3, <1>4, <1>5

\* fs_create_file adds an empty file.
LEMMA CreateRefines ==
  ASSUME Fits, FSInv, NEW n \in Names, fs_create_file(n)
  PROVE  Store!Create(n)
  <1> DEFINE i == First(FreeSlots)
  <1>1. /\ name' = [name EXCEPT ![i] = n]
        /\ file_size' = [file_size EXCEPT ![i] = 0]
        /\ is_used' = [is_used EXCEPT ![i] = TRUE]
        /\ \E k : first_data_block' = [first_data_block EXCEPT ![i] = k]
        /\ fs_disk' = fs_disk
        /\ fs_find_file(n) = NoSlot
    BY DEF fs_create_file, Fits
  <1>2. i \in Slots /\ ~is_used[i]
    BY FreeFacts DEF fs_create_file
  <1> HIDE DEF i
  <1>3. Typed /\ SlotView /\ SlotView'
    BY CreateFSInv, SlotViewHolds, SlotViewNext DEF FSInv
  <1>4. UsedSlots' = UsedSlots \cup {i} /\ i \notin UsedSlots
    BY <1>1, <1>2, <1>3 DEF UsedSlots, Typed
  <1>5. /\ name'[i] = n /\ file_size'[i] = 0
        /\ \A j \in UsedSlots : /\ name'[j] = name[j] /\ file_size'[j] = file_size[j]
                                /\ first_data_block'[j] = first_data_block[j]
    BY <1>1, <1>2, <1>3, <1>4 DEF UsedSlots, Typed
  <1>6. Files' = Files \cup {n} /\ n \notin Files
    <2>1. Files' = Files \cup {n}
      BY <1>4, <1>5 DEF Files
    <2>2. n \notin Files
      BY <1>1, <1>3 DEF SlotView
    <2>3. QED
      BY <2>1, <2>2
  <1>7. fs_find_file(n)' = i /\ \A m \in Files : fs_find_file(m)' = fs_find_file(m)
    <2>1. \A m : \A j \in UsedSlots' : name'[j] = m => fs_find_file(m)' = j
      BY <1>3 DEF SlotView
    <2>2. \A m \in Files : fs_find_file(m) \in UsedSlots /\ name[fs_find_file(m)] = m
      BY <1>3 DEF SlotView
    <2>3. QED
      BY <1>4, <1>5, <2>1, <2>2
  <1>8. \A m \in Files : Entry(fs_find_file(m))' = Entry(fs_find_file(m))
    <2> TAKE m \in Files
    <2>1. fs_find_file(m) \in UsedSlots
      BY <1>3 DEF SlotView
    <2>2. QED
      BY <1>1, <1>5, <1>7, <2>1 DEF Entry
  <1>9. Entry(fs_find_file(n))' = [size |-> 0, data |-> Nothing]
    BY <1>5, <1>7 DEF Entry
  <1>10. StoreNow = [m \in Files |-> Entry(fs_find_file(m))]
    BY <1>3 DEF SlotView, StoreNow
  <1>11. StoreNow' = [m \in Files' |-> Entry(fs_find_file(m))']
    BY <1>3 DEF SlotView, StoreNow
  <1>12. /\ n \notin DOMAIN StoreNow
         /\ StoreNow' = [m \in DOMAIN StoreNow \cup {n} |->
                           IF m = n THEN [size |-> 0, data |-> Nothing] ELSE StoreNow[m]]
    BY <1>6, <1>8, <1>9, <1>10, <1>11
  <1>13. QED
    BY <1>12 DEF Store!Create, StoreNow

\* fs_delete_file takes the file away.
LEMMA DeleteRefines ==
  ASSUME Fits, FSInv, NEW n \in Names, fs_delete_file(n)
  PROVE  Store!Delete(n)
  <1> DEFINE i == fs_find_file(n)
  <1>1. /\ is_used' = [is_used EXCEPT ![i] = FALSE]
        /\ UNCHANGED <<name, file_size, first_data_block, fs_disk>>
        /\ i # NoSlot
    BY DEF fs_delete_file
  <1>2. Typed /\ SlotView /\ SlotView'
    BY DeleteFSInv, SlotViewHolds, SlotViewNext DEF FSInv
  <1>3. n \in Files /\ i \in UsedSlots /\ name[i] = n
    BY <1>1, <1>2 DEF SlotView
  <1>4. UsedSlots' = UsedSlots \ {i}
    BY <1>1, <1>2, <1>3 DEF UsedSlots, Typed
  <1>5. Files' = Files \ {n}
    <2>1. \A j \in UsedSlots : name[j] = n => j = i
      BY <1>2 DEF SlotView
    <2>2. QED
      BY <1>1, <1>3, <1>4, <2>1 DEF Files
  <1>6. \A m \in Files' : fs_find_file(m)' = fs_find_file(m)
    <2>1. \A m : \A j \in UsedSlots' : name'[j] = m => fs_find_file(m)' = j
      BY <1>2 DEF SlotView
    <2>2. \A m \in Files : fs_find_file(m) \in UsedSlots /\ name[fs_find_file(m)] = m
      BY <1>2 DEF SlotView
    <2>3. QED
      BY <1>1, <1>3, <1>4, <1>5, <2>1, <2>2
  <1>7. \A m \in Files' : Entry(fs_find_file(m))' = Entry(fs_find_file(m))
    BY <1>1, <1>6 DEF Entry
  <1>8. StoreNow = [m \in Files |-> Entry(fs_find_file(m))]
    BY <1>2 DEF SlotView, StoreNow
  <1>9. StoreNow' = [m \in Files' |-> Entry(fs_find_file(m))']
    BY <1>2 DEF SlotView, StoreNow
  <1>10. /\ n \in DOMAIN StoreNow
         /\ StoreNow' = [m \in {k \in DOMAIN StoreNow : k # n} |-> StoreNow[m]]
    BY <1>3, <1>5, <1>7, <1>8, <1>9
  <1>11. QED
    BY <1>10 DEF Store!Delete, Store!Others, StoreNow

\* A file's block and size are set: the file changes, the others, which own other
\* blocks, do not.
LEMMA PutRefines ==
  ASSUME Fits, FSInv, FSInv', NEW n, NEW d, NEW size, fs_find_file(n) # NoSlot,
         fs_disk' = [fs_disk EXCEPT ![first_data_block[fs_find_file(n)]] = d],
         file_size' = [file_size EXCEPT ![fs_find_file(n)] = size],
         UNCHANGED <<name, first_data_block, is_used>>
  PROVE  Store!Write(n, d, size)
  <1> DEFINE i == fs_find_file(n)
             new == [size |-> size, data |-> IF size = 0 THEN Nothing ELSE d]
  <1>1. Typed /\ SlotView /\ SlotView' /\ UsedSlots \subseteq Slots
    BY SlotViewHolds, SlotViewNext DEF FSInv, UsedSlots
  <1>2. n \in Files /\ i \in UsedSlots /\ first_data_block[i] \in DataBlocks
    BY <1>1 DEF SlotView, FSInv, Owns
  <1>3. Files' = Files /\ \A m : fs_find_file(m)' = fs_find_file(m)
    BY FindUnchanged DEF Files, UsedSlots
  <1>4. Entry(fs_find_file(n))' = new
    BY <1>1, <1>2, <1>3 DEF Entry, Typed
  <1>5. \A m \in Files : m # n => Entry(fs_find_file(m))' = Entry(fs_find_file(m))
    <2> SUFFICES ASSUME NEW m \in Files, m # n
                 PROVE  Entry(fs_find_file(m))' = Entry(fs_find_file(m))
      OBVIOUS
    <2>1. fs_find_file(m) \in UsedSlots /\ fs_find_file(m) # i
      BY <1>1, <1>2 DEF SlotView
    <2>2. first_data_block[fs_find_file(m)] # first_data_block[i]
      BY <1>2, <2>1 DEF FSInv, NoSharedBlock
    <2>3. first_data_block[fs_find_file(m)] \in DataBlocks
      BY <2>1 DEF FSInv, Owns
    <2>4. QED
      BY <1>1, <1>2, <1>3, <2>1, <2>2, <2>3 DEF Entry, Typed
  <1>6. StoreNow = [m \in Files |-> Entry(fs_find_file(m))]
    BY <1>1 DEF SlotView, StoreNow
  <1>7. StoreNow' = [m \in Files' |-> Entry(fs_find_file(m))']
    BY <1>1 DEF SlotView, StoreNow
  <1>8. n \in DOMAIN StoreNow /\ StoreNow' = [StoreNow EXCEPT ![n] = new]
    BY <1>2, <1>3, <1>4, <1>5, <1>6, <1>7
  <1>9. QED
    BY <1>8 DEF Store!Write, StoreNow

\* A write below BLOCK_SIZE stays in the file's own block.
LEMMA ShortWrite ==
  ASSUME Fits, FSInv, NEW n \in Names, NEW v \in Vals, NEW size \in Sizes,
         fs_write_file(n, v, size)
  PROVE  fs_disk' = [fs_disk EXCEPT ![first_data_block[fs_find_file(n)]] = <<v, 0>>]
  <1> DEFINE first == first_data_block[fs_find_file(n)]
  <1>1. first \in DataBlocks /\ first \in Int
    BY FoundFacts, BlockOfBit DEF fs_write_file
  <1>2. size \in Nat /\ size < BLOCK_SIZE /\ BLOCK_SIZE \in Nat
    BY FSAssumption DEF Fits
  <1>3. size \div BLOCK_SIZE = 0
    BY <1>2
  <1>4. BlocksNeeded(size) = 1
    BY <1>3 DEF BlocksNeeded
  <1>5. fs_disk' = Written(fs_disk, first, 1, v)
    BY <1>4 DEF fs_write_file
  <1> HIDE DEF first
  <1>6. \A k \in DataBlocks : k \in Int /\ (k \in first .. first + 1 - 1 <=> k = first)
    BY <1>1, BlockOfBit
  <1>7. first - first = 0
    BY <1>1
  <1>8. fs_disk \in [DataBlocks -> Blocks]
    BY DEF FSInv, Typed
  <1>9. fs_disk' = [k \in DataBlocks |-> IF k = first THEN <<v, 0>> ELSE fs_disk[k]]
    BY <1>5, <1>6, <1>7 DEF Written
  <1>10. QED
    BY <1>8, <1>9 DEF first

FilesHoldData == \A i \in UsedSlots : file_size[i] # 0 => fs_disk[first_data_block[i]] \in Data

\* A file's block and size are set: no other file's contents change.
LEMMA PutData ==
  ASSUME FSInv, FilesHoldData, NEW n, NEW d, NEW size, size # 0 => d \in Data,
         fs_find_file(n) # NoSlot,
         fs_disk' = [fs_disk EXCEPT ![first_data_block[fs_find_file(n)]] = d],
         file_size' = [file_size EXCEPT ![fs_find_file(n)] = size],
         UNCHANGED <<name, first_data_block, is_used>>
  PROVE  FilesHoldData'
  <1> DEFINE i == fs_find_file(n)
  <1>1. i \in UsedSlots
    BY FindFacts DEF Matches, UsedSlots
  <1> HIDE DEF i
  <1>2. /\ fs_disk' = [fs_disk EXCEPT ![first_data_block[i]] = d]
        /\ file_size' = [file_size EXCEPT ![i] = size]
    BY DEF i
  <1>3. UsedSlots' = UsedSlots
    BY DEF UsedSlots
  <1>4. SUFFICES ASSUME NEW j \in UsedSlots, file_size'[j] # 0
                 PROVE  fs_disk'[first_data_block[j]] \in Data
    BY <1>3 DEF FilesHoldData
  <1>5. /\ i \in Slots /\ j \in Slots
        /\ first_data_block[i] \in DataBlocks /\ first_data_block[j] \in DataBlocks
    BY <1>1 DEF FSInv, Owns, UsedSlots
  <1>6. CASE j = i
    BY <1>2, <1>4, <1>5, <1>6 DEF FSInv, Typed
  <1>7. CASE j # i
    <2>1. first_data_block[j] # first_data_block[i]
      BY <1>1, <1>7 DEF FSInv, NoSharedBlock
    <2>2. QED
      BY <1>2, <1>4, <1>5, <1>7, <2>1 DEF FSInv, Typed, FilesHoldData
  <1>8. QED
    BY <1>6, <1>7

\* Every step either is a step of the store or leaves it alone, and what the
\* files hold was written by somebody.
LEMMA StepRefines ==
  ASSUME Fits, IInv, DataInv, [ClientsNext]_cvars
  PROVE  DataInv' /\ [Store!Next]_StoreNow
  <1> USE DEF IInv
  <1>0. FilesHoldData /\ text \in Data \cup {Empty}
    BY DEF DataInv, FilesHoldData
  <1>f. IInv'
    BY NextIInv
  <1>t. ASSUME FilesHoldData', text' \in Data \cup {Empty} PROVE DataInv'
    BY <1>t DEF DataInv, FilesHoldData
  <1>s. ASSUME UNCHANGED fs PROVE FilesHoldData' /\ StoreNow' = StoreNow
    <2>1. UNCHANGED <<name, file_size, first_data_block, is_used, fs_disk>>
      BY <1>s DEF fs, dir
    <2>2. \A i \in UsedSlots : Entry(i)' = Entry(i)
      BY <2>1 DEF Entry
    <2>3. FilesHoldData'
      BY <1>0, <2>1 DEF FilesHoldData, UsedSlots
    <2>4. QED
      BY <1>f, <2>1, <2>2, <2>3, SameStore
  <1>c. ASSUME NEW n \in Names, fs_create_file(n) PROVE FilesHoldData' /\ Store!Next
    <2> DEFINE i == First(FreeSlots)
    <2>1. /\ file_size' = [file_size EXCEPT ![i] = 0]
          /\ is_used' = [is_used EXCEPT ![i] = TRUE]
          /\ \E k : first_data_block' = [first_data_block EXCEPT ![i] = k]
          /\ fs_disk' = fs_disk
      BY <1>c DEF fs_create_file
    <2>2. i \in Slots
      BY <1>c, FreeFacts DEF fs_create_file
    <2> HIDE DEF i
    <2>3. FilesHoldData'
      BY <1>0, <2>1, <2>2 DEF FilesHoldData, UsedSlots, FSInv, Typed
    <2>4. QED
      BY <1>c, <2>3, CreateRefines DEF Store!Next
  <1>1. ASSUME NEW n \in Names, lsh_touch(n) PROVE DataInv' /\ Store!Next
    BY <1>0, <1>c, <1>t, <1>1 DEF lsh_touch, E
  <1>2. ASSUME NEW n \in Names, lsh_del(n) PROVE DataInv' /\ Store!Next
    <2>1. fs_delete_file(n) /\ text' = text
      BY <1>2 DEF lsh_del, E
    <2>2. UsedSlots' \subseteq UsedSlots
      BY <2>1 DEF fs_delete_file, UsedSlots, FSInv, Typed
    <2>3. FilesHoldData'
      BY <1>0, <2>1, <2>2 DEF fs_delete_file, FilesHoldData
    <2>4. QED
      BY <1>0, <1>t, <2>1, <2>3, DeleteRefines DEF Store!Next
  <1>3. ASSUME NEW n \in Names, NEW v \in Vals, NEW size \in Sizes, SysWriteFile(n, v, size)
        PROVE  DataInv' /\ Store!Next
    <2>1. fs_write_file(n, v, size) /\ text' = text
      BY <1>3 DEF SysWriteFile, E
    <2>2. /\ fs_find_file(n) # NoSlot
          /\ file_size' = [file_size EXCEPT ![fs_find_file(n)] = size]
          /\ UNCHANGED <<name, first_data_block, is_used>>
      BY <2>1 DEF fs_write_file
    <2>3. fs_disk' = [fs_disk EXCEPT ![first_data_block[fs_find_file(n)]] = <<v, 0>>]
      BY <2>1, ShortWrite
    <2>4. <<v, 0>> \in Data
      BY DEF Data
    <2>5. FilesHoldData'
      BY <1>0, <2>2, <2>3, <2>4, PutData
    <2>6. Store!Write(n, <<v, 0>>, size)
      BY <1>f, <2>2, <2>3, PutRefines
    <2>7. QED
      BY <1>0, <1>t, <2>1, <2>4, <2>5, <2>6 DEF Store!Next, Data
  <1>4. ASSUME NEW n \in Names, editorOpen(n) PROVE DataInv' /\ StoreNow' = StoreNow
    <2>1. text' \in Data \cup {Empty}
      <3> DEFINE i == fs_find_file(n)
      <3>1. i # NoSlot => i \in UsedSlots
        BY FindFacts DEF Matches, UsedSlots
      <3>2. QED
        BY <1>0, <1>4, <3>1 DEF editorOpen, FilesHoldData
    <2>2. QED
      BY <1>4, <1>s, <1>t, <2>1 DEF editorOpen
  <1>5. ASSUME NEW t \in Data \cup {Empty}, NEW more \in BOOLEAN,
               Edit(t, more) \/ AddRow(t, more)
        PROVE  DataInv' /\ StoreNow' = StoreNow
    BY <1>5, <1>s, <1>t DEF Edit, AddRow
  <1>6. ASSUME NEW cmd \in {"w", "wq"}, SaveCreate(cmd)
        PROVE  DataInv' /\ (Store!Next \/ StoreNow' = StoreNow)
    <2>1. text' = text /\ filename \in Names
      BY <1>6 DEF SaveCreate, E, ClientInv
    <2>2. fs_create_file(filename) \/ UNCHANGED fs
      BY <1>6 DEF SaveCreate
    <2>3. QED
      BY <1>0, <1>c, <1>s, <1>t, <2>1, <2>2
  <1>7. ASSUME SaveWrite PROVE DataInv' /\ (Store!Next \/ StoreNow' = StoreNow)
    <2> DEFINE i == fs_find_file(filename)
               size == IF text = Empty THEN 0 ELSE TextSize
    <2>1. text' = text /\ filename \in Names
      BY <1>7 DEF SaveWrite, ClientInv
    <2>2. CASE i = NoSlot
      <3>1. UNCHANGED fs
        BY <1>7, <2>2 DEF SaveWrite
      <3>2. QED
        BY <1>0, <1>s, <1>t, <2>1, <3>1
    <2>3. CASE i # NoSlot
      <3>1. /\ fs_disk' = [fs_disk EXCEPT ![first_data_block[i]] = text]
            /\ file_size' = [file_size EXCEPT ![i] = size]
            /\ UNCHANGED <<name, first_data_block, is_used>>
        BY <1>7, <2>3 DEF SaveWrite
      <3>2. size # 0 => text \in Data
        BY <1>0
      <3>3. FilesHoldData'
        BY <1>0, <2>3, <3>1, <3>2, PutData
      <3>4. Store!Write(filename, text, size)
        BY <1>f, <2>3, <3>1, PutRefines
      <3>5. size \in Sizes
        BY ClientsAssumption
      <3>6. \E d \in Data : Store!Write(filename, d, size)
        <4>1. CASE text \in Data
          BY <3>4, <4>1
        <4>2. CASE text \notin Data
          <5>1. size = 0
            BY <1>0, <4>2
          <5>2. PICK d \in Data : TRUE
            BY DEF Data, Fits
          <5>3. Store!Write(filename, d, size)
            BY <3>4, <5>1 DEF Store!Write
          <5>4. QED
            BY <5>3
        <4>3. QED
          BY <4>1, <4>2
      <3>7. QED
        BY <1>0, <1>t, <2>1, <3>3, <3>5, <3>6 DEF Store!Next, Data
    <2>4. QED
      BY <2>2, <2>3
  <1>8. ASSUME Quit \/ UNCHANGED cvars PROVE DataInv' /\ StoreNow' = StoreNow
    BY <1>0, <1>8, <1>s, <1>t DEF Quit, cvars, E
  <1>9. QED
    BY <1>1, <1>2, <1>3, <1>4, <1>5, <1>6, <1>7, <1>8 DEF ClientsNext, Data

\* With names that fit and writes below a block the file system is a flat store
\* of named files, under the shell, user programs and the editor.
THEOREM FilesRefineStore ==
  ASSUME Fits
  PROVE  ClientsSpec => ImplementsFileStore
  <1>1. ClientsInit => DataInv /\ Store!Init
    <2> SUFFICES ASSUME ClientsInit PROVE DataInv /\ Store!Init
      OBVIOUS
    <2>1. UsedSlots = {} /\ Files = {}
      BY DEF ClientsInit, Init, UsedSlots, Files
    <2>2. DataInv
      BY <2>1 DEF ClientsInit, DataInv
    <2>3. Store!Init
      BY <2>1 DEF Store!Init
    <2>4. QED
      BY <2>2, <2>3
  <1>2. IInv /\ DataInv /\ [ClientsNext]_cvars => DataInv' /\ [Store!Next]_StoreNow
    BY StepRefines
  <1>3. ClientsSpec => Store!Init /\ [][Store!Next]_StoreNow
    BY <1>1, <1>2, FilesInvariant, PTL DEF ClientsSpec
  <1>4. QED
    BY <1>3, PTL DEF ImplementsFileStore, Store!Spec, StoreNow
=============================================================================
