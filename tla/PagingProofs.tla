---------------------------- MODULE PagingProofs ----------------------------
(***************************************************************************)
(* Proofs about frames and user pages, for every size of memory, of a page *)
(* and of a page table and whatever pages boot and sbrk map: frames stay   *)
(* private, the tables and the processor's own memory of them lead to the  *)
(* page's frames, sbrk maps the whole heap, and it takes no page away that *)
(* lies below its end.                                                     *)
(***************************************************************************)
EXTENDS Paging, SequenceTheorems, TLAPS

\* The frames alloc_page_frame has handed out when next is the next; 0 is its
\* failure.
Taken(next) == {0} \cup KERNEL_END .. next - 1

\* Only frames handed out are in use.
AllocInv ==
  /\ \A g \in given : g[2] \in Taken(next_free_page)
  /\ \A p \in DOMAIN owner : <<p, owner[p]>> \in given
  /\ \A d \in Dirs : page_directory[d] \in Taken(next_free_page) \cup {NoTable}

\* A page that was mapped has a table, and the tables are where the kernel
\* could write them.
TablesInv ==
  /\ \A p \in DOMAIN owner : page_directory[p \div ENTRIES] # NoTable
  /\ ~crashed => \A d \in Dirs : page_directory[d] # NoTable => page_directory[d] \in DOMAIN ram

\* The tables lead to the frame a page was mapped to last.
WalkInv ==
  ~crashed => \A p \in DOMAIN owner : page_directory[p \div ENTRIES] = 0 \/ Walk(p) = owner[p]

\* What the processor remembers for a page is a frame the page had.
TlbInv ==
  \A p \in DOMAIN tlb : page_directory[p \div ENTRIES] = 0 \/ <<p, tlb[p]>> \in given

\* The pages on list that will get a frame of their own.
ToBeMapped(list) == {list[i].virt : i \in {j \in DOMAIN list : ~list[j].fb}}

\* The pages of the heap up to the address ptr are in S.
HeapWithin(ptr, S) == \A a \in HEAP_BASE * PAGE_SIZE .. ptr - 1 : a \div PAGE_SIZE \in S

\* Each page of the heap is mapped, those of an sbrk under way are mapped or on
\* the list, and the list holds no page below the end of the heap.
HeapInv ==
  /\ HeapWithin(user_heap_ptr, DOMAIN owner)
  /\ HeapWithin(new_ptr, DOMAIN owner \cup ToBeMapped(todo))
  /\ \A p \in ToBeMapped(todo) :
       p >= user_heap_ptr \div PAGE_SIZE \/ user_heap_ptr \div PAGE_SIZE = HEAP_BASE

\* The frame buffer comes first on the list.
FbFirst(list) == \A i, j \in DOMAIN list : j <= i /\ list[i].fb => list[j].fb

\* The frame buffer is mapped before any page gets a frame of its own.
BootInv == FbFirst(todo) /\ ((\E i \in DOMAIN todo : todo[i].fb) => DOMAIN owner = {})

IInv == /\ TypeOK /\ AllocInv /\ FramesPrivate /\ TablesInv /\ WalkInv /\ TlbInv
        /\ BootInv /\ HeapInv

-----------------------------------------------------------------------------
(* Division and remainder.                                                 *)

\* Quotient and remainder of a number.
LEMMA DivMod ==
  ASSUME NEW x \in Nat, NEW n \in Nat, n > 0
  PROVE  /\ x \div n \in Nat /\ x % n \in 0 .. n - 1
         /\ x = n * (x \div n) + (x % n)
  OBVIOUS

\* Two numbers with the same quotient and remainder are the same.
LEMMA SamePage ==
  ASSUME NEW x \in Nat, NEW y \in Nat, NEW n \in Nat, n > 0,
         x \div n = y \div n, x % n = y % n
  PROVE  x = y
  BY DivMod

\* A number below m * n has its quotient below m.
LEMMA DivBelow ==
  ASSUME NEW x \in Nat, NEW n \in Nat, n > 0, NEW m \in Nat, x < m * n
  PROVE  x \div n < m
  <1>1. x \div n \in Nat /\ x >= n * (x \div n)
    BY DivMod
  <1>2. SUFFICES ASSUME x \div n >= m PROVE FALSE
    BY <1>1
  <1>3. n * (x \div n) >= n * m
    BY <1>1, <1>2
  <1>4. QED
    BY <1>1, <1>3

\* The quotient grows with the number.
LEMMA DivMono ==
  ASSUME NEW x \in Nat, NEW y \in Nat, NEW n \in Nat, n > 0, x <= y
  PROVE  x \div n <= y \div n
  OBVIOUS

\* One divisor more is one more in the quotient.
LEMMA DivStep ==
  ASSUME NEW x \in Nat, NEW n \in Nat, n > 0
  PROVE  (x + n) \div n = x \div n + 1
  OBVIOUS

\* A multiple of the divisor.
LEMMA DivExact ==
  ASSUME NEW m \in Nat, NEW n \in Nat, n > 0
  PROVE  (m * n) \div n = m /\ m * n \in Nat
  OBVIOUS

\* Multiplying by the same positive number keeps the order.
LEMMA ProductBelow ==
  ASSUME NEW x \in Nat, NEW y \in Nat, NEW n \in Nat, n > 0, x < y
  PROVE  x * n \in Nat /\ y * n \in Nat /\ x * n + n <= y * n
  <1>1. PICK k \in Nat : y = x + 1 + k
    <2>1. y - x - 1 \in Nat /\ y = x + 1 + (y - x - 1)
      OBVIOUS
    <2>2. QED
      BY <2>1
  <1>2. k * n >= 0 /\ k * n \in Int
    OBVIOUS
  <1>3. QED
    BY <1>1, <1>2

-----------------------------------------------------------------------------
(* Mapping a page.                                                         *)

\* What the sizes of the machine give.
LEMMA Sizes ==
  /\ PAGE_SIZE \in Nat /\ PAGE_SIZE > 0 /\ ENTRIES \in Nat /\ ENTRIES > 0
  /\ DIRS \in Nat /\ DIRS * ENTRIES \in Nat /\ IDENTITY_END \in Nat /\ IDENTITY_END > 0
  /\ KERNEL_END \in Nat /\ KERNEL_END > 0 /\ PHYS_MEM_END \in Nat /\ KERNEL_END <= PHYS_MEM_END
  /\ 0 \in Frames /\ NoTable \notin Frames
  BY PagingAssumption DEF IDENTITY_END, Frames, NoTable

\* A page has a directory entry and an entry in its table, and shares both with
\* no other page.
LEMMA PageFacts ==
  ASSUME NEW p \in Pages
  PROVE  /\ p \div ENTRIES \in Dirs /\ p % ENTRIES \in Entries
         /\ \A q \in Pages : p \div ENTRIES = q \div ENTRIES /\ p % ENTRIES = q % ENTRIES => p = q
  <1>1. p \in Nat /\ p < DIRS * ENTRIES
    BY Sizes DEF Pages
  <1>2. p \div ENTRIES < DIRS
    BY <1>1, Sizes, DivBelow
  <1>3. p \div ENTRIES \in Nat /\ p % ENTRIES \in 0 .. ENTRIES - 1
    BY <1>1, Sizes, DivMod
  <1>4. ASSUME NEW q \in Pages, p \div ENTRIES = q \div ENTRIES, p % ENTRIES = q % ENTRIES
        PROVE  p = q
    <2>1. q \in Nat
      BY Sizes DEF Pages
    <2>2. QED
      BY <1>1, <1>4, <2>1, Sizes, SamePage
  <1>5. QED
    BY <1>2, <1>3, <1>4, Sizes DEF Dirs, Entries

\* alloc_page_frame hands out the next frame or fails with 0.
LEMMA AllocFacts ==
  ASSUME NEW n \in KERNEL_END .. PHYS_MEM_END
  PROVE  /\ FrameAt(n) \in Frames /\ After(n) \in n .. PHYS_MEM_END
         /\ \/ FrameAt(n) = 0 /\ After(n) = n
            \/ FrameAt(n) = n /\ After(n) = n + 1
  BY Sizes DEF FrameAt, After, Frames

\* Frames handed out stay handed out.
LEMMA TakenGrows ==
  ASSUME NEW n \in Int, NEW m \in Int, n <= m
  PROVE  Taken(n) \subseteq Taken(m)
  BY Sizes DEF Taken

TableContents == [Entries -> Frames \cup Pages \cup {NoFrame}]

\* The table of virt, there already or handed out for it, gets the entry phys,
\* unless the kernel cannot reach the table.
TableStep(virt, phys, next, table) ==
  LET d == virt \div ENTRIES
  IN  /\ page_directory' = [page_directory EXCEPT ![d] = table]
      /\ \/ /\ page_directory[d] = table
            /\ next_free_page' = next /\ ranOut' = (ranOut \/ phys = 0)
         \/ /\ page_directory[d] = NoTable
            /\ table = FrameAt(next) /\ next_free_page' = After(next)
            /\ ranOut' = (ranOut \/ table = 0 \/ phys = 0)
      /\ crashed' = (table >= IDENTITY_END)
      /\ crashed' => ram' = ram
      /\ ~crashed' => \E b \in TableContents :
           /\ page_directory[d] = table => b = ram[table]
           /\ ram' = With(table, [b EXCEPT ![virt % ENTRIES] = phys])

\* map_page is such a step, with a frame of memory as the table.
LEMMA MapFacts ==
  ASSUME TypeOK, TablesInv, ~crashed, NEW virt \in Pages, NEW phys \in Frames \cup Pages,
         NEW next \in KERNEL_END .. PHYS_MEM_END, NEW zeroed \in BOOLEAN,
         map_page(virt, phys, next, zeroed)
  PROVE  \E table \in Frames : TableStep(virt, phys, next, table)
  <1> DEFINE d == virt \div ENTRIES
             isNew == page_directory[d] = NoTable
             table == IF isNew THEN FrameAt(next) ELSE page_directory[d]
             blank == IF isNew THEN Blank(table, zeroed) ELSE {ram[table]}
  <1>1. d \in Dirs
    BY PageFacts
  <1>2. table \in Frames
    BY <1>1, AllocFacts DEF TypeOK
  <1>3. blank \subseteq TableContents
    <2>1. \A f \in DOMAIN ram : ram[f] \in TableContents
      BY DEF TypeOK, TableContents
    <2>2. ~isNew => table \in DOMAIN ram
      BY <1>1 DEF TablesInv
    <2>3. [Entries -> {NoFrame, 0}] \subseteq TableContents
      BY Sizes DEF TableContents
    <2>4. [i \in Entries |-> NoFrame] \in TableContents
      BY DEF TableContents
    <2>5. QED
      BY <2>1, <2>2, <2>3, <2>4 DEF Blank
  <1>4. /\ page_directory' = [page_directory EXCEPT ![d] = table]
        /\ next_free_page' = IF isNew THEN After(next) ELSE next
        /\ ranOut' = (ranOut \/ (isNew /\ table = 0) \/ phys = 0)
        /\ crashed' = (table >= IDENTITY_END)
        /\ IF table >= IDENTITY_END THEN UNCHANGED ram
           ELSE \E b \in blank : ram' = With(table, [b EXCEPT ![virt % ENTRIES] = phys])
    BY DEF map_page
  <1>5. ~crashed' => \E b \in TableContents :
                /\ page_directory[d] = table => b = ram[table]
                /\ ram' = With(table, [b EXCEPT ![virt % ENTRIES] = phys])
    <2> SUFFICES ASSUME ~crashed'
                 PROVE  \E b \in TableContents :
                          /\ page_directory[d] = table => b = ram[table]
                          /\ ram' = With(table, [b EXCEPT ![virt % ENTRIES] = phys])
      OBVIOUS
    <2>1. PICK b \in blank : ram' = With(table, [b EXCEPT ![virt % ENTRIES] = phys])
      BY <1>4
    <2>2. page_directory[d] = table => ~isNew
      BY <1>2, Sizes
    <2>3. QED
      BY <1>3, <2>1, <2>2
  <1>6. CASE isNew
    BY <1>2, <1>4, <1>5, <1>6 DEF TableStep
  <1>7. CASE ~isNew
    BY <1>2, <1>4, <1>5, <1>7 DEF TableStep
  <1>8. QED
    BY <1>6, <1>7

\* What one page of the list does to memory: virt gets the frame phys, by way of
\* table.
NextFrom(fb) == IF fb THEN next_free_page ELSE After(next_free_page)

MapStep(virt, fb, phys, table) ==
  /\ phys = IF fb THEN virt ELSE FrameAt(next_free_page)
  /\ TableStep(virt, phys, NextFrom(fb), table)
  /\ owner' = IF fb THEN owner
              ELSE [p \in DOMAIN owner \cup {virt} |-> IF p = virt THEN phys ELSE owner[p]]
  /\ given' = IF fb THEN given ELSE given \cup {<<virt, phys>>}
  /\ tlb' = tlb

\* MapNext maps the first page of the list in this way.
LEMMA MapNextFacts ==
  ASSUME IInv, MapNext
  PROVE  /\ todo # << >> /\ Head(todo).virt \in Pages /\ Head(todo).fb \in BOOLEAN
         /\ \E phys \in Frames \cup Pages, table \in Frames :
              MapStep(Head(todo).virt, Head(todo).fb, phys, table)
  <1> DEFINE virt == Head(todo).virt
             fb == Head(todo).fb
             phys == IF fb THEN virt ELSE FrameAt(next_free_page)
  <1>0. todo # << >> /\ todo \in Seq([virt : Pages, fb : BOOLEAN])
    BY DEF MapNext, IInv, TypeOK
  <1>1. virt \in Pages /\ fb \in BOOLEAN
    <2> DEFINE Mappings == [virt : Pages, fb : BOOLEAN]
    <2>1. todo \in Seq(Mappings)
      BY <1>0
    <2>2. Head(todo) \in Mappings
      <3> HIDE DEF Mappings
      <3>1. QED
        BY <1>0, <2>1
    <2>3. QED
      BY <2>2
  <1>2. phys \in Frames \cup Pages /\ NextFrom(fb) \in KERNEL_END .. PHYS_MEM_END
    <2>1. /\ next_free_page \in KERNEL_END .. PHYS_MEM_END
          /\ FrameAt(next_free_page) \in Frames
          /\ After(next_free_page) \in next_free_page .. PHYS_MEM_END
      BY AllocFacts DEF IInv, TypeOK
    <2>2. QED
      BY <1>1, <2>1, Sizes DEF NextFrom
  <1>3. map_page(virt, phys, NextFrom(fb), fb) /\ ~crashed
    BY DEF MapNext, NextFrom
  <1>4. owner' = IF fb THEN owner
                 ELSE [p \in DOMAIN owner \cup {virt} |-> IF p = virt THEN phys ELSE owner[p]]
    BY DEF MapNext
  <1>9. given' = (IF fb THEN given ELSE given \cup {<<virt, phys>>}) /\ tlb' = tlb
    BY DEF MapNext
  <1>5. phys = IF fb THEN virt ELSE FrameAt(next_free_page)
    OBVIOUS
  <1> HIDE DEF virt, fb, phys
  <1>6. PICK table \in Frames : TableStep(virt, phys, NextFrom(fb), table)
    BY <1>1, <1>2, <1>3, MapFacts DEF IInv
  <1>7. MapStep(virt, fb, phys, table)
    BY <1>4, <1>5, <1>6, <1>9 DEF MapStep
  <1>8. QED
    BY <1>0, <1>1, <1>2, <1>7 DEF virt, fb

\* Mapping a page keeps the frames private: the page's frame and a new table's
\* are handed out one after the other and were nobody's before.
LEMMA MapNextFrames ==
  ASSUME IInv, MapNext
  PROVE  /\ next_free_page' \in next_free_page .. PHYS_MEM_END
         /\ page_directory' \in [Dirs -> Frames \cup {NoTable}]
         /\ DOMAIN owner' \subseteq Pages /\ \A p \in DOMAIN owner' : owner'[p] \in Frames
         /\ given' \subseteq Pages \X Frames
         /\ AllocInv' /\ FramesPrivate' /\ TlbInv'
         /\ \A p \in DOMAIN owner' : page_directory'[p \div ENTRIES] # NoTable
  <1> DEFINE n == next_free_page
             virt == Head(todo).virt
             fb == Head(todo).fb
             d == virt \div ENTRIES
             next == NextFrom(fb)
  <1>0. virt \in Pages /\ fb \in BOOLEAN
    BY MapNextFacts
  <1>1. PICK phys \in Frames \cup Pages, table \in Frames : MapStep(virt, fb, phys, table)
    BY MapNextFacts
  <1> HIDE DEF virt, fb
  <1>2. d \in Dirs
    BY <1>0, PageFacts
  <1>3. /\ n \in KERNEL_END .. PHYS_MEM_END
        /\ page_directory \in [Dirs -> Frames \cup {NoTable}]
        /\ DOMAIN owner \subseteq Pages /\ \A p \in DOMAIN owner : owner[p] \in Frames
    BY DEF IInv, TypeOK
  <1>4. next \in n .. PHYS_MEM_END /\ next \in KERNEL_END .. PHYS_MEM_END
    <2>1. After(n) \in n .. PHYS_MEM_END
      BY <1>3, AllocFacts
    <2>2. QED
      BY <1>0, <1>3, <2>1, Sizes DEF NextFrom
  <1>5. ~fb => /\ phys \in Frames
               /\ (phys = 0 /\ next = n) \/ (phys = n /\ next = n + 1)
    <2>1. /\ FrameAt(n) \in Frames
          /\ \/ FrameAt(n) = 0 /\ After(n) = n
             \/ FrameAt(n) = n /\ After(n) = n + 1
      BY <1>3, AllocFacts
    <2>2. phys = IF fb THEN virt ELSE FrameAt(n)
      BY <1>1 DEF MapStep
    <2>3. ~fb => phys = FrameAt(n) /\ next = After(n)
      BY <2>2 DEF NextFrom
    <2>4. QED
      BY <2>1, <2>3
  <1>6. /\ page_directory' = [page_directory EXCEPT ![d] = table]
        /\ owner' = IF fb THEN owner
                    ELSE [p \in DOMAIN owner \cup {virt} |-> IF p = virt THEN phys ELSE owner[p]]
    BY <1>1 DEF MapStep, TableStep
  <1>7. /\ ranOut' = FALSE => ranOut = FALSE /\ phys # 0
        /\ ranOut' = FALSE => page_directory[d] = table \/ table # 0
        /\ \/ page_directory[d] = table /\ next_free_page' = next
           \/ /\ page_directory[d] = NoTable
              /\ \/ table = 0 /\ next_free_page' = next /\ ranOut'
                 \/ table = next /\ next_free_page' = next + 1
    <2>1. \/ FrameAt(next) = 0 /\ After(next) = next
          \/ FrameAt(next) = next /\ After(next) = next + 1
      BY <1>4, AllocFacts
    <2>2. QED
      BY <1>1, <2>1 DEF IInv, TypeOK, MapStep, TableStep
  <1>8. ranOut \in BOOLEAN /\ ranOut' \in BOOLEAN
    BY <1>1 DEF IInv, TypeOK, MapStep, TableStep
  <1>9. next_free_page' \in next .. PHYS_MEM_END
    BY <1>4, <1>7, Sizes DEF Frames
  <1> HIDE DEF d, next
  <1>10. DOMAIN owner' \subseteq Pages /\ \A p \in DOMAIN owner' : owner'[p] \in Frames
    <2>1. CASE fb
      BY <1>3, <1>6, <2>1
    <2>2. CASE ~fb
      <3>1. owner' = [p \in DOMAIN owner \cup {virt} |-> IF p = virt THEN phys ELSE owner[p]]
        BY <1>6, <2>2
      <3>2. phys \in Frames
        BY <1>5, <2>2
      <3>3. QED
        BY <1>0, <1>3, <3>1, <3>2
    <2>3. QED
      BY <2>1, <2>2
  <1>11. page_directory' \in [Dirs -> Frames \cup {NoTable}]
    BY <1>3, <1>6
  <1>12. \A e \in Dirs : page_directory'[e] = IF e = d THEN table ELSE page_directory[e]
    BY <1>3, <1>6
  <1>13. \A p \in DOMAIN owner' : \/ p \in DOMAIN owner /\ owner'[p] = owner[p]
                                  \/ ~fb /\ p = virt /\ owner'[p] = phys
    <2>1. CASE fb
      BY <1>6, <2>1
    <2>2. CASE ~fb
      BY <1>6, <2>2
    <2>3. QED
      BY <2>1, <2>2
  <1>g. \A g \in given' : g \in given \/ (~fb /\ g = <<virt, phys>>)
    BY <1>1 DEF MapStep
  <1>h. /\ given \subseteq given' /\ (~fb => <<virt, phys>> \in given')
        /\ given' \subseteq Pages \X Frames /\ tlb' = tlb
    <2>1. given \subseteq Pages \X Frames
      BY DEF IInv, TypeOK
    <2>2. CASE fb
      BY <1>1, <2>1, <2>2 DEF MapStep
    <2>3. CASE ~fb
      BY <1>0, <1>1, <1>5, <2>1, <2>3 DEF MapStep
    <2>4. QED
      BY <2>2, <2>3
  <1>14. AllocInv'
    <2> DEFINE m == next_free_page'
    <2>0. m \in next .. PHYS_MEM_END /\ next \in Int /\ m \in Int /\ n \in Int /\ n <= m /\ n <= next
      BY <1>3, <1>4, <1>9, Sizes
    <2>1. Taken(n) \subseteq Taken(m)
      BY <2>0, TakenGrows
    <2>2. table \in Taken(m)
      <3>1. CASE page_directory[d] = table
        BY <1>2, <2>1, <3>1, Sizes DEF IInv, AllocInv
      <3>2. CASE table = 0
        BY <3>2 DEF Taken
      <3>3. CASE table = next /\ m = next + 1
        BY <1>4, <2>0, <3>3, Sizes DEF Taken
      <3>4. QED
        BY <1>7, <3>1, <3>2, <3>3
    <2>3. ~fb => phys \in Taken(m)
      <3>1. CASE phys = 0
        BY <3>1 DEF Taken
      <3>2. CASE phys = n /\ next = n + 1
        <4>1. Taken(next) \subseteq Taken(m)
          BY <2>0, TakenGrows
        <4>2. n \in Taken(n + 1)
          BY <1>3, <2>0, Sizes DEF Taken
        <4>3. QED
          BY <3>2, <4>1, <4>2
      <3>3. QED
        BY <1>5, <3>1, <3>2
    <2>4. \A g \in given' : g[2] \in Taken(m)
      BY <1>g, <2>1, <2>3 DEF IInv, AllocInv
    <2>5. \A p \in DOMAIN owner' : <<p, owner'[p]>> \in given'
      BY <1>13, <1>h DEF IInv, AllocInv
    <2>6. \A e \in Dirs : page_directory'[e] \in Taken(m) \cup {NoTable}
      BY <1>12, <2>1, <2>2 DEF IInv, AllocInv
    <2>7. QED
      BY <2>4, <2>5, <2>6 DEF AllocInv
  <1>15. FramesPrivate'
    <2>1. /\ \A g \in given : g[2] = 0 \/ g[2] \in KERNEL_END .. n - 1
          /\ \A e \in Dirs : \/ page_directory[e] \in {NoTable, 0}
                             \/ page_directory[e] \in KERNEL_END .. n - 1
      BY DEF IInv, AllocInv, Taken
    <2>2. \A g \in given, e \in Dirs : g[2] = 0 \/ g[2] # page_directory[e]
      BY <2>1, <1>3, Sizes DEF IInv, FramesPrivate, Tables, NoTable
    <2>3. \/ page_directory[d] = table
          \/ page_directory[d] = NoTable /\ (table = 0 \/ table = next)
      BY <1>7
    <2>4. table # NoTable /\ n \in Nat /\ KERNEL_END \in Nat /\ KERNEL_END <= n
      BY <1>3, Sizes
    <2>5. ~fb => phys = 0 \/ (phys = n /\ next = n + 1)
      BY <1>5
    <2>6. \A g, h \in given' : g[2] = h[2] => g[1] = h[1] \/ g[2] = 0
      <3>1. ~fb => \A g \in given : g[2] = phys => g[2] = 0
        BY <2>1, <2>4, <2>5
      <3>2. \A g, h \in given : g[2] = h[2] => g[1] = h[1] \/ g[2] = 0
        BY DEF IInv, FramesPrivate
      <3>3. QED
        BY <1>g, <3>1, <3>2
    <2>7. \A g \in given', e \in Dirs : g[2] = 0 \/ g[2] # page_directory'[e]
      <3>1. \A g \in given : g[2] = 0 \/ g[2] # table
        <4>1. CASE page_directory[d] = table
          BY <1>2, <2>2, <4>1
        <4>2. CASE table = 0
          BY <4>2
        <4>3. CASE table = next
          BY <1>4, <2>1, <2>4, <4>3
        <4>4. QED
          BY <2>3, <4>1, <4>2, <4>3
      <3>2. ~fb => phys = 0 \/ phys # table
        <4>1. CASE page_directory[d] = table
          BY <1>2, <2>1, <2>4, <2>5, <4>1, Sizes DEF NoTable
        <4>2. CASE table = 0
          BY <4>2
        <4>3. CASE table = next
          BY <2>4, <2>5, <4>3
        <4>4. QED
          BY <2>3, <4>1, <4>2, <4>3
      <3>3. ~fb => phys = 0 \/ \A e \in Dirs : phys # page_directory[e]
        BY <2>1, <2>4, <2>5, Sizes DEF NoTable
      <3>4. \A g \in given, e \in Dirs : g[2] = 0 \/ g[2] # page_directory'[e]
        BY <1>12, <2>2, <3>1
      <3>5. ~fb => phys = 0 \/ \A e \in Dirs : phys # page_directory'[e]
        BY <1>12, <3>2, <3>3
      <3>6. QED
        BY <1>g, <3>4, <3>5
    <2>8. \A g \in given' : g[2] = 0 \/ g[2] >= KERNEL_END
      BY <1>g, <2>1, <2>4, <2>5
    <2>9. \A e, f \in Dirs : page_directory'[e] = page_directory'[f] /\ e # f
                               => page_directory'[e] \in {NoTable, 0}
      <3>1. \A e, f \in Dirs : page_directory[e] = page_directory[f] /\ e # f
                               => page_directory[e] \in {NoTable, 0}
        BY DEF IInv, FramesPrivate
      <3>2. \A e \in Dirs : e # d /\ page_directory[e] = table => table = 0
        <4>1. CASE page_directory[d] = table
          BY <1>2, <2>4, <3>1, <4>1
        <4>2. CASE table = 0
          BY <4>2
        <4>3. CASE table = next
          BY <1>4, <2>1, <2>4, <4>3, Sizes DEF NoTable
        <4>4. QED
          BY <2>3, <4>1, <4>2, <4>3
      <3>3. QED
        BY <1>12, <3>1, <3>2
    <2>10. ~ranOut' => /\ \A e \in Dirs : page_directory'[e] # 0
                       /\ \A g \in given' : g[2] # 0
      <3> SUFFICES ASSUME ~ranOut' PROVE /\ \A e \in Dirs : page_directory'[e] # 0
                                        /\ \A g \in given' : g[2] # 0
        OBVIOUS
      <3>1. ~ranOut /\ phys # 0 /\ (page_directory[d] = table \/ table # 0)
        BY <1>7, <1>8
      <3>2. (\A e \in Dirs : page_directory[e] # 0) /\ \A g \in given : g[2] # 0
        BY <3>1, Sizes DEF IInv, FramesPrivate, Tables, NoTable
      <3>3. QED
        BY <1>2, <1>12, <1>g, <3>1, <3>2
    <2>11. QED
      BY <2>6, <2>7, <2>8, <2>9, <2>10 DEF FramesPrivate, Tables
  <1>16. \A p \in DOMAIN owner' : page_directory'[p \div ENTRIES] # NoTable
    <2>1. ASSUME NEW p \in DOMAIN owner' PROVE page_directory'[p \div ENTRIES] # NoTable
      <3>1. p \div ENTRIES \in Dirs
        BY <1>10, PageFacts
      <3>2. table # NoTable
        BY Sizes
      <3>3. CASE p = virt
        BY <1>12, <3>1, <3>2, <3>3 DEF d
      <3>4. CASE p # virt
        BY <1>12, <1>13, <3>1, <3>2, <3>4 DEF IInv, TablesInv
      <3>5. QED
        BY <3>3, <3>4
    <2>2. QED
      BY <2>1
  <1>17. TlbInv'
    <2> SUFFICES ASSUME NEW p \in DOMAIN tlb
                 PROVE  page_directory'[p \div ENTRIES] = 0 \/ <<p, tlb[p]>> \in given'
      BY <1>h DEF TlbInv
    <2>1. p \in DOMAIN owner /\ p \div ENTRIES \in Dirs
      BY <1>3, PageFacts DEF IInv, TypeOK
    <2>2. page_directory[p \div ENTRIES] # NoTable
      BY <2>1 DEF IInv, TablesInv
    <2>3. page_directory'[p \div ENTRIES] = page_directory[p \div ENTRIES]
      BY <1>7, <1>12, <2>1, <2>2
    <2>4. QED
      BY <1>h, <2>3 DEF IInv, TlbInv
  <1>18. QED
    BY <1>3, <1>4, <1>9, <1>10, <1>11, <1>h, <1>14, <1>15, <1>16, <1>17

\* Mapping a page writes one entry of one table: types are kept and every other
\* page is the frame it was.
LEMMA MapNextTables ==
  ASSUME IInv, MapNext
  PROVE  TypeOK' /\ TablesInv' /\ WalkInv'
  <1> DEFINE virt == Head(todo).virt
             fb == Head(todo).fb
             d == virt \div ENTRIES
             Mappings == [virt : Pages, fb : BOOLEAN]
  <1>0. virt \in Pages /\ fb \in BOOLEAN /\ todo # << >>
    BY MapNextFacts
  <1>1. PICK phys \in Frames \cup Pages, table \in Frames : MapStep(virt, fb, phys, table)
    BY MapNextFacts
  <1>2. /\ todo \in Seq(Mappings) /\ todo' = Tail(todo) /\ ~crashed
        /\ new_ptr' = new_ptr /\ user_heap_ptr' \in {user_heap_ptr, new_ptr}
    BY DEF MapNext, IInv, TypeOK
  <1>3. todo' \in Seq(Mappings)
    <2> HIDE DEF Mappings
    <2>1. QED
      BY <1>0, <1>2
  <1> HIDE DEF virt, fb
  <1>4. d \in Dirs /\ virt % ENTRIES \in Entries /\ table # NoTable
    BY <1>0, PageFacts, Sizes
  <1>5. /\ page_directory \in [Dirs -> Frames \cup {NoTable}]
        /\ DOMAIN ram \subseteq Frames /\ \A f \in DOMAIN ram : ram[f] \in TableContents
        /\ DOMAIN owner \subseteq Pages
        /\ \A e \in Dirs : page_directory[e] # NoTable => page_directory[e] \in DOMAIN ram
    BY <1>2 DEF IInv, TypeOK, TableContents, TablesInv
  <1>6. /\ next_free_page' \in next_free_page .. PHYS_MEM_END
        /\ page_directory' \in [Dirs -> Frames \cup {NoTable}]
        /\ DOMAIN owner' \subseteq Pages /\ \A p \in DOMAIN owner' : owner'[p] \in Frames
        /\ \A p \in DOMAIN owner' : page_directory'[p \div ENTRIES] # NoTable
        /\ FramesPrivate' /\ given' \subseteq Pages \X Frames
    BY MapNextFrames
  <1>7. /\ page_directory' = [page_directory EXCEPT ![d] = table]
        /\ page_directory[d] \in {table, NoTable}
        /\ crashed' = (table >= IDENTITY_END) /\ ranOut' \in BOOLEAN
        /\ crashed' => ram' = ram
    BY <1>1 DEF MapStep, TableStep, IInv, TypeOK
  <1>8. ASSUME ~crashed'
        PROVE  \E b \in TableContents :
                 /\ page_directory[d] = table => b = ram[table]
                 /\ ram' = With(table, [b EXCEPT ![virt % ENTRIES] = phys])
    BY <1>1, <1>8 DEF MapStep, TableStep
  <1>9. /\ DOMAIN ram' \subseteq Frames /\ \A f \in DOMAIN ram' : ram'[f] \in TableContents
        /\ ~crashed' => DOMAIN ram' = DOMAIN ram \cup {table}
    <2>1. CASE crashed'
      BY <1>5, <1>7, <2>1
    <2>2. CASE ~crashed'
      <3>1. PICK b \in TableContents : ram' = With(table, [b EXCEPT ![virt % ENTRIES] = phys])
        BY <1>8, <2>2
      <3>2. [b EXCEPT ![virt % ENTRIES] = phys] \in TableContents
        BY DEF TableContents
      <3>3. QED
        BY <1>5, <3>1, <3>2 DEF With
    <2>3. QED
      BY <2>1, <2>2
  <1>10. TypeOK'
    <2>1. next_free_page' \in KERNEL_END .. PHYS_MEM_END
      BY <1>6, Sizes DEF IInv, TypeOK
    <2>2. user_heap_ptr' \in 0 .. ADDRESSES - 1 /\ new_ptr' \in 0 .. ADDRESSES - 1
      BY <1>2 DEF IInv, TypeOK
    <2>3. crashed' \in BOOLEAN
      BY <1>7
    <2>4. DOMAIN tlb' \subseteq DOMAIN owner' /\ \A p \in DOMAIN tlb' : tlb'[p] \in Frames \cup Pages
      <3>1. tlb' = tlb /\ DOMAIN owner \subseteq DOMAIN owner'
        BY <1>1 DEF MapStep
      <3>2. QED
        BY <3>1 DEF IInv, TypeOK
    <2>5. QED
      BY <1>3, <1>6, <1>7, <1>9, <2>1, <2>2, <2>3, <2>4 DEF TypeOK, TableContents
  <1>11. TablesInv'
    <2>1. ASSUME ~crashed', NEW e \in Dirs, page_directory'[e] # NoTable
          PROVE  page_directory'[e] \in DOMAIN ram'
      BY <1>5, <1>7, <1>9, <2>1
    <2>2. QED
      BY <1>6, <2>1 DEF TablesInv
  <1>12. WalkInv'
    <2> SUFFICES ASSUME ~crashed', NEW p \in DOMAIN owner', page_directory'[p \div ENTRIES] # 0
                 PROVE  Walk(p)' = owner'[p]
      BY DEF WalkInv
    <2>1. PICK b \in TableContents :
            /\ page_directory[d] = table => b = ram[table]
            /\ ram' = With(table, [b EXCEPT ![virt % ENTRIES] = phys])
      BY <1>8
    <2>2. ram'[table] = [b EXCEPT ![virt % ENTRIES] = phys]
      BY <2>1 DEF With
    <2>3. \A f \in DOMAIN ram : f # table => ram'[f] = ram[f]
      BY <2>1 DEF With
    <2>4. p \in Pages /\ p \div ENTRIES \in Dirs /\ p % ENTRIES \in Entries
      BY <1>6, PageFacts
    <2>5. Walk(p)' = ram'[page_directory'[p \div ENTRIES]][p % ENTRIES]
      BY <1>6 DEF Walk
    <2>6. owner' = IF fb THEN owner
                   ELSE [q \in DOMAIN owner \cup {virt} |-> IF q = virt THEN phys ELSE owner[q]]
      BY <1>1 DEF MapStep
    <2>7. ASSUME p \in DOMAIN owner, owner'[p] = owner[p], p # virt
          PROVE  Walk(p)' = owner'[p]
      <3>2. page_directory[p \div ENTRIES] # NoTable
        BY <2>7 DEF IInv, TablesInv
      <3>0. page_directory'[p \div ENTRIES] = page_directory[p \div ENTRIES]
        BY <1>4, <1>5, <1>7, <2>4, <3>2
      <3>1. Walk(p) = owner[p]
        BY <1>2, <2>7, <3>0 DEF IInv, WalkInv
      <3>3. Walk(p) = ram[page_directory[p \div ENTRIES]][p % ENTRIES]
        BY <3>2 DEF Walk
      <3>4. CASE p \div ENTRIES = d
        <4>1. page_directory[d] = table /\ page_directory'[p \div ENTRIES] = table
          BY <1>4, <1>5, <1>7, <3>2, <3>4
        <4>2. p % ENTRIES # virt % ENTRIES
          BY <1>0, <2>4, <2>7, <3>4, PageFacts
        <4>3. ram'[table][p % ENTRIES] = ram[table][p % ENTRIES]
          BY <2>1, <2>2, <2>4, <4>1, <4>2 DEF TableContents
        <4>4. QED
          BY <2>5, <2>7, <3>1, <3>3, <3>4, <4>1, <4>3
      <3>5. CASE p \div ENTRIES # d
        <4>1. page_directory'[p \div ENTRIES] = page_directory[p \div ENTRIES]
          BY <1>5, <1>7, <2>4, <3>5
        <4>2. page_directory'[d] = table
          BY <1>4, <1>5, <1>7
        <4>3. page_directory'[p \div ENTRIES] # table
          BY <1>4, <1>6, <2>4, <3>2, <3>5, <4>1, <4>2 DEF FramesPrivate
        <4>4. page_directory[p \div ENTRIES] \in DOMAIN ram
          BY <1>5, <2>4, <3>2
        <4>5. QED
          BY <2>3, <2>5, <2>7, <3>1, <3>3, <4>1, <4>3, <4>4
      <3>6. QED
        BY <3>4, <3>5
    <2>8. CASE ~fb /\ p = virt
      <3>1. owner'[p] = phys
        BY <2>6, <2>8
      <3>2. page_directory'[p \div ENTRIES] = table
        BY <1>4, <1>5, <1>7, <2>8
      <3>3. ram'[table][p % ENTRIES] = phys
        BY <2>2, <2>4, <2>8 DEF TableContents
      <3>4. QED
        BY <2>5, <3>1, <3>2, <3>3
    <2>9. CASE ~fb /\ p # virt
      BY <2>6, <2>7, <2>9
    <2>10. CASE fb
      <3>1. 1 \in DOMAIN todo /\ todo[1].fb
        <4>1. 1 \in DOMAIN todo /\ Head(todo) = todo[1]
          <5> HIDE DEF Mappings
          <5>1. QED
            BY <1>0, <1>2
        <4>2. QED
          BY <2>10, <4>1 DEF fb
      <3>2. DOMAIN owner = {}
        BY <3>1 DEF IInv, BootInv
      <3>3. QED
        BY <2>6, <2>10, <3>2
    <2>11. QED
      BY <1>0, <2>8, <2>9, <2>10
  <1>13. QED
    BY <1>10, <1>11, <1>12

-----------------------------------------------------------------------------
(* The list, the heap, sbrk.                                               *)

\* The list without its first page.
LEMMA TailFacts ==
  ASSUME NEW S, NEW list \in Seq(S), list # << >>
  PROVE  /\ ToBeMapped(Tail(list)) \subseteq ToBeMapped(list)
         /\ ToBeMapped(list) \subseteq ToBeMapped(Tail(list)) \cup {Head(list).virt}
         /\ Head(list).fb = TRUE => ToBeMapped(list) \subseteq ToBeMapped(Tail(list))
         /\ FbFirst(list) => FbFirst(Tail(list))
         /\ \A i \in DOMAIN Tail(list) : i + 1 \in DOMAIN list /\ Tail(list)[i] = list[i + 1]
         /\ 1 \in DOMAIN list /\ Head(list) = list[1]
  <1>1. /\ DOMAIN list = 1 .. Len(list) /\ Len(list) \in Nat /\ Len(list) > 0
        /\ DOMAIN Tail(list) = 1 .. Len(list) - 1
        /\ \A i \in 1 .. Len(list) - 1 : Tail(list)[i] = list[i + 1]
        /\ Head(list) = list[1]
    OBVIOUS
  <1>2. \A i \in 1 .. Len(list) - 1 : i + 1 \in 1 .. Len(list)
    BY <1>1
  <1>3. ToBeMapped(Tail(list)) \subseteq ToBeMapped(list)
    BY <1>1, <1>2 DEF ToBeMapped
  <1>4. ASSUME NEW i \in DOMAIN list, ~list[i].fb, list[i].virt \notin ToBeMapped(Tail(list))
        PROVE  i = 1
    <2>1. SUFFICES ASSUME i # 1 PROVE FALSE
      OBVIOUS
    <2>2. i - 1 \in 1 .. Len(list) - 1 /\ (i - 1) + 1 = i
      BY <1>1, <2>1
    <2>3. Tail(list)[i - 1] = list[i]
      BY <1>1, <2>2
    <2>4. QED
      BY <1>1, <1>4, <2>2, <2>3 DEF ToBeMapped
  <1>5. ToBeMapped(list) \subseteq ToBeMapped(Tail(list)) \cup {Head(list).virt}
    BY <1>1, <1>4 DEF ToBeMapped
  <1>6. Head(list).fb = TRUE => ToBeMapped(list) \subseteq ToBeMapped(Tail(list))
    BY <1>1, <1>4 DEF ToBeMapped
  <1>7. FbFirst(list) => FbFirst(Tail(list))
    BY <1>1, <1>2 DEF FbFirst
  <1>8. QED
    BY <1>1, <1>2, <1>3, <1>5, <1>6, <1>7

\* Mapping a page takes it from the list to the mapped ones.
LEMMA MapNextHeap ==
  ASSUME IInv, MapNext
  PROVE  BootInv' /\ HeapInv'
  <1> DEFINE virt == Head(todo).virt
             fb == Head(todo).fb
             Mappings == [virt : Pages, fb : BOOLEAN]
  <1>0. virt \in Pages /\ fb \in BOOLEAN /\ todo # << >>
    BY MapNextFacts
  <1>1. PICK phys \in Frames \cup Pages, table \in Frames : MapStep(virt, fb, phys, table)
    BY MapNextFacts
  <1>2. /\ todo \in Seq(Mappings) /\ todo' = Tail(todo)
        /\ new_ptr' = new_ptr
        /\ user_heap_ptr' = IF todo' = << >> THEN new_ptr ELSE user_heap_ptr
    BY DEF MapNext, IInv, TypeOK
  <1> HIDE DEF Mappings
  <1>3. /\ ToBeMapped(todo') \subseteq ToBeMapped(todo)
        /\ ToBeMapped(todo) \subseteq ToBeMapped(todo') \cup {virt}
        /\ fb = TRUE => ToBeMapped(todo) \subseteq ToBeMapped(todo')
        /\ FbFirst(todo) => FbFirst(todo')
        /\ \A i \in DOMAIN todo' : i + 1 \in DOMAIN todo /\ todo'[i] = todo[i + 1]
        /\ 1 \in DOMAIN todo /\ fb = todo[1].fb
    BY <1>0, <1>2, TailFacts
  <1>4. owner' = IF fb THEN owner
                 ELSE [q \in DOMAIN owner \cup {virt} |-> IF q = virt THEN phys ELSE owner[q]]
    BY <1>1 DEF MapStep
  <1> HIDE DEF virt, fb
  <1>5. DOMAIN owner \subseteq DOMAIN owner' /\ (~fb => virt \in DOMAIN owner')
    <2>1. CASE fb
      BY <1>4, <2>1
    <2>2. CASE ~fb
      <3>1. owner' = [q \in DOMAIN owner \cup {virt} |-> IF q = virt THEN phys ELSE owner[q]]
        BY <1>4, <2>2
      <3>2. QED
        BY <3>1
    <2>3. QED
      BY <2>1, <2>2
  <1>6. DOMAIN owner \cup ToBeMapped(todo) \subseteq DOMAIN owner' \cup ToBeMapped(todo')
    BY <1>0, <1>3, <1>5
  <1>7. HeapWithin(new_ptr, DOMAIN owner' \cup ToBeMapped(todo'))
    BY <1>6 DEF IInv, HeapInv, HeapWithin
  <1>8. BootInv'
    <2>1. ASSUME NEW i \in DOMAIN todo', todo'[i].fb PROVE DOMAIN owner' = {}
      <3>1. i + 1 \in DOMAIN todo /\ todo[i + 1].fb /\ 1 \in DOMAIN todo /\ 1 <= i + 1
        <4>1. DOMAIN todo' \subseteq Nat
          BY <1>0, <1>2
        <4>2. QED
          BY <1>3, <2>1, <4>1
      <3>2. DOMAIN owner = {} /\ FbFirst(todo)
        BY <3>1 DEF IInv, BootInv
      <3>3. fb
        BY <1>3, <3>1, <3>2 DEF FbFirst
      <3>4. QED
        BY <1>4, <3>2, <3>3
    <2>2. FbFirst(todo')
      BY <1>3 DEF IInv, BootInv
    <2>3. QED
      BY <2>1, <2>2 DEF BootInv
  <1>9. CASE todo' = << >>
    <2>1. ToBeMapped(todo') = {} /\ user_heap_ptr' = new_ptr
      BY <1>2, <1>9 DEF ToBeMapped
    <2>2. HeapWithin(new_ptr, DOMAIN owner')
      BY <1>7, <2>1 DEF HeapWithin
    <2>3. HeapInv'
      BY <1>2, <1>7, <2>1, <2>2 DEF HeapInv
    <2>4. QED
      BY <1>8, <2>3
  <1>10. CASE todo' # << >>
    <2>1. user_heap_ptr' = user_heap_ptr
      BY <1>2, <1>10
    <2>2. HeapWithin(user_heap_ptr, DOMAIN owner')
      BY <1>5 DEF IInv, HeapInv, HeapWithin
    <2>3. HeapInv'
      BY <1>2, <1>3, <1>7, <2>1, <2>2 DEF IInv, HeapInv
    <2>4. QED
      BY <1>8, <2>3
  <1>11. QED
    BY <1>9, <1>10

\* The address space in pages.
LEMMA AddressFacts ==
  /\ ADDRESSES = DIRS * ENTRIES * PAGE_SIZE /\ ADDRESSES \in Nat /\ ADDRESSES > 0
  /\ HEAP_BASE \in Nat /\ HEAP_BASE < DIRS * ENTRIES
  /\ HEAP_BASE * PAGE_SIZE \in 0 .. ADDRESSES - 1
  /\ \A a \in 0 .. ADDRESSES - 1 : (a + PAGE_SIZE - 1) \div PAGE_SIZE \in 0 .. DIRS * ENTRIES
  <1> DEFINE P == DIRS * ENTRIES
  <1>1. P \in Nat /\ PAGE_SIZE \in Nat /\ PAGE_SIZE > 0
    BY Sizes
  <1>2. HEAP_BASE \in Nat /\ HEAP_BASE < P
    BY <1>1, PagingAssumption, Sizes
  <1>3. ADDRESSES = P * PAGE_SIZE
    BY DEF ADDRESSES
  <1> HIDE DEF P
  <1>4. /\ HEAP_BASE * PAGE_SIZE \in Nat /\ P * PAGE_SIZE \in Nat
        /\ HEAP_BASE * PAGE_SIZE + PAGE_SIZE <= P * PAGE_SIZE
    BY <1>1, <1>2, ProductBelow
  <1>5. ASSUME NEW a \in 0 .. ADDRESSES - 1
        PROVE  (a + PAGE_SIZE - 1) \div PAGE_SIZE \in 0 .. P
    <2>1. a + PAGE_SIZE - 1 \in Nat /\ a + PAGE_SIZE - 1 < P * PAGE_SIZE + PAGE_SIZE
      BY <1>1, <1>3, <1>4
    <2>2. P * PAGE_SIZE + PAGE_SIZE = (P + 1) * PAGE_SIZE
      BY <1>1
    <2>3. (a + PAGE_SIZE - 1) \div PAGE_SIZE < P + 1
      BY <1>1, <2>1, <2>2, DivBelow
    <2>4. (a + PAGE_SIZE - 1) \div PAGE_SIZE \in Nat
      BY <1>1, <2>1, DivMod
    <2>5. QED
      BY <1>1, <2>3, <2>4
  <1>6. ADDRESSES \in Nat /\ ADDRESSES > 0 /\ HEAP_BASE * PAGE_SIZE \in 0 .. ADDRESSES - 1
    BY <1>1, <1>3, <1>4
  <1>7. QED
    BY <1>2, <1>3, <1>5, <1>6 DEF P

\* sbrk puts the pages from the one the heap ends in up to the new end on the
\* list, none of them below.
LEMMA SbrkIInv ==
  ASSUME IInv, NEW arg \in Increments, sbrk(arg)
  PROVE  IInv'
  <1> DEFINE new == (user_heap_ptr + arg) % ADDRESSES
             from == user_heap_ptr \div PAGE_SIZE
             upto == (new + PAGE_SIZE - 1) \div PAGE_SIZE
             P == DIRS * ENTRIES
             Mappings == [virt : Pages, fb : BOOLEAN]
  <1>0. /\ PAGE_SIZE \in Nat /\ PAGE_SIZE > 0 /\ P \in Nat
        /\ user_heap_ptr \in Nat /\ user_heap_ptr < ADDRESSES /\ HEAP_BASE * PAGE_SIZE \in Nat
    BY Sizes, AddressFacts DEF IInv, TypeOK
  <1>1. new \in 0 .. ADDRESSES - 1
    <2>1. arg \in Nat
      BY PagingAssumption, AddressFacts
    <2>2. QED
      BY <1>0, <2>1, AddressFacts, DivMod
  <1>2. from \in Nat /\ upto \in 0 .. P
    BY <1>0, <1>1, AddressFacts, DivMod
  <1>3. /\ todo = << >> /\ new_ptr' = new
        /\ todo' = [i \in 1 .. upto - from |-> [virt |-> from + i - 1, fb |-> FALSE]]
        /\ user_heap_ptr' = IF todo' = << >> THEN new ELSE user_heap_ptr
        /\ UNCHANGED <<next_free_page, page_directory, ram, crashed, ranOut, tlb, owner, given>>
    BY DEF sbrk
  <1>4. Pages = 0 .. P - 1
    BY DEF Pages
  <1>5. ASSUME NEW a \in Nat, a < new PROVE a \div PAGE_SIZE \in Nat /\ a \div PAGE_SIZE < upto
    <2>1. a + PAGE_SIZE \in Nat /\ new + PAGE_SIZE - 1 \in Nat /\ a + PAGE_SIZE <= new + PAGE_SIZE - 1
      BY <1>0, <1>1, <1>5, AddressFacts
    <2>2. (a + PAGE_SIZE) \div PAGE_SIZE <= upto
      BY <1>0, <2>1, DivMono
    <2>3. (a + PAGE_SIZE) \div PAGE_SIZE = a \div PAGE_SIZE + 1
      BY <1>0, DivStep
    <2>4. QED
      BY <1>0, <1>2, <2>2, <2>3, DivMod
  <1>6. ASSUME NEW a \in Nat, user_heap_ptr <= a PROVE from <= a \div PAGE_SIZE
    BY <1>0, <1>6, DivMono
  <1> HIDE DEF new, from, upto, P
  <1>7. /\ \A i \in 1 .. upto - from : from + i - 1 \in Pages
        /\ todo' \in Seq(Mappings)
        /\ \A i \in DOMAIN todo' : ~todo'[i].fb /\ todo'[i].virt >= from
    <2>1. ASSUME NEW i \in 1 .. upto - from
          PROVE  from + i - 1 \in Pages /\ [virt |-> from + i - 1, fb |-> FALSE] \in Mappings
      BY <1>0, <1>2, <1>4
    <2>2. \A i \in DOMAIN todo' : ~todo'[i].fb /\ todo'[i].virt >= from
      BY <1>2, <1>3
    <2>3. CASE upto - from >= 0
      <3>1. \A i \in 1 .. upto - from : [virt |-> from + i - 1, fb |-> FALSE] \in Mappings
        BY <2>1
      <3> HIDE DEF Mappings
      <3>2. upto - from \in Nat
        BY <1>0, <1>2, <2>3
      <3>3. todo' \in Seq(Mappings)
        BY <1>3, <3>1, <3>2
      <3>4. QED
        BY <2>1, <2>2, <3>3
    <2>4. CASE upto - from < 0
      <3>1. 1 .. upto - from = {}
        BY <1>0, <1>2, <2>4
      <3>2. todo' = << >>
        BY <1>3, <3>1
      <3>3. QED
        BY <2>1, <2>2, <3>2
    <2>5. QED
      BY <1>0, <1>2, <2>3, <2>4
  <1>8. HeapWithin(new, DOMAIN owner \cup ToBeMapped(todo'))
    <2> SUFFICES ASSUME NEW a \in HEAP_BASE * PAGE_SIZE .. new - 1
                 PROVE  a \div PAGE_SIZE \in DOMAIN owner \cup ToBeMapped(todo')
      BY DEF HeapWithin
    <2>1. a \in Nat /\ a < new /\ a >= HEAP_BASE * PAGE_SIZE
      BY <1>0, <1>1, AddressFacts
    <2>2. CASE a < user_heap_ptr
      <3>1. a \in HEAP_BASE * PAGE_SIZE .. user_heap_ptr - 1
        BY <1>0, <2>1, <2>2
      <3>2. QED
        BY <3>1 DEF IInv, HeapInv, HeapWithin
    <2>3. CASE user_heap_ptr <= a
      <3> DEFINE page == a \div PAGE_SIZE
      <3>1. page \in Nat /\ page < upto /\ from <= page
        BY <1>5, <1>6, <2>1, <2>3
      <3> HIDE DEF page
      <3>2. page - from + 1 \in 1 .. upto - from /\ from + (page - from + 1) - 1 = page
        BY <1>0, <1>2, <3>1
      <3>3. page - from + 1 \in DOMAIN todo' /\ todo'[page - from + 1].virt = page
        BY <1>3, <3>2
      <3>4. page \in ToBeMapped(todo')
        BY <1>7, <3>3 DEF ToBeMapped
      <3>5. QED
        BY <3>4 DEF page
    <2>4. QED
      BY <1>0, <2>1, <2>2, <2>3
  <1>9. HeapInv'
    <2>1. CASE todo' = << >>
      <3>1. ToBeMapped(todo') = {} /\ user_heap_ptr' = new
        <4>1. user_heap_ptr' = new
          BY <1>3, <2>1
        <4>2. ToBeMapped(<< >>) = {}
          BY DEF ToBeMapped
        <4>3. QED
          BY <2>1, <4>1, <4>2
      <3>2. HeapWithin(new, DOMAIN owner)
        BY <1>8, <3>1 DEF HeapWithin
      <3>3. QED
        BY <1>3, <1>8, <3>1, <3>2 DEF HeapInv
    <2>2. CASE todo' # << >>
      <3>1. user_heap_ptr' = user_heap_ptr
        BY <1>3, <2>2
      <3>2. \A p \in ToBeMapped(todo') : p >= user_heap_ptr \div PAGE_SIZE
        BY <1>7 DEF ToBeMapped, from
      <3>3. QED
        BY <1>3, <1>8, <3>1, <3>2 DEF IInv, HeapInv
    <2>3. QED
      BY <2>1, <2>2
  <1>10. BootInv'
    BY <1>7 DEF BootInv, FbFirst
  <1>11. TypeOK'
    <2>1. user_heap_ptr' \in 0 .. ADDRESSES - 1
      BY <1>1, <1>3 DEF IInv, TypeOK
    <2>2. QED
      BY <1>1, <1>3, <1>7, <2>1 DEF IInv, TypeOK
  <1>12. AllocInv' /\ FramesPrivate' /\ TablesInv' /\ WalkInv' /\ TlbInv'
    BY <1>3 DEF IInv, AllocInv, FramesPrivate, Tables, TablesInv, WalkInv, Walk, TlbInv
  <1>13. QED
    BY <1>9, <1>10, <1>11, <1>12 DEF IInv

\* Boot: nothing is mapped, the frame buffer and the programs' pages are on the
\* list in this order.
LEMMA InitIInv == Init => IInv
  <1> SUFFICES ASSUME Init PROVE IInv
    OBVIOUS
  <1> DEFINE Mappings == [virt : Pages, fb : BOOLEAN]
             A == [i \in DOMAIN Framebuffer |-> [virt |-> Framebuffer[i], fb |-> TRUE]]
             B == [i \in DOMAIN UserPages |-> [virt |-> UserPages[i], fb |-> FALSE]]
             High == IDENTITY_END .. DIRS * ENTRIES - 1
  <1>1. High \subseteq Pages
    BY Sizes DEF Pages
  <1>2. /\ Framebuffer \in Seq(High) /\ UserPages \in Seq(High)
    BY PagingAssumption
  <1> HIDE DEF High
  <1>3. /\ DOMAIN Framebuffer = 1 .. Len(Framebuffer) /\ Len(Framebuffer) \in Nat
        /\ DOMAIN UserPages = 1 .. Len(UserPages) /\ Len(UserPages) \in Nat
        /\ \A i \in DOMAIN Framebuffer : Framebuffer[i] \in Pages
        /\ \A i \in DOMAIN UserPages : UserPages[i] \in Pages
    BY <1>1, <1>2
  <1>4. /\ \A i \in DOMAIN Framebuffer : A[i] \in Mappings /\ A[i].fb = TRUE
        /\ \A i \in DOMAIN UserPages : B[i] \in Mappings /\ B[i].fb = FALSE
        /\ DOMAIN A = 1 .. Len(Framebuffer) /\ DOMAIN B = 1 .. Len(UserPages)
        /\ A = [i \in 1 .. Len(Framebuffer) |-> A[i]] /\ B = [i \in 1 .. Len(UserPages) |-> B[i]]
    BY <1>3
  <1>5. todo = A \o B
    BY DEF Init
  <1> HIDE DEF A, B, Mappings
  <1>6. /\ A \in Seq(Mappings) /\ B \in Seq(Mappings)
        /\ Len(A) = Len(Framebuffer) /\ Len(B) = Len(UserPages)
    BY <1>3, <1>4
  <1>7. /\ todo \in Seq(Mappings) /\ DOMAIN todo = 1 .. Len(A) + Len(B)
        /\ \A i \in 1 .. Len(A) : todo[i] = A[i]
        /\ \A i \in Len(A) + 1 .. Len(A) + Len(B) : todo[i] = B[i - Len(A)]
    <2>1. /\ todo \in Seq(Mappings) /\ Len(todo) = Len(A) + Len(B)
          /\ \A i \in 1 .. Len(A) + Len(B) : todo[i] = IF i <= Len(A) THEN A[i] ELSE B[i - Len(A)]
      <3>1. A \in Seq(Mappings) /\ B \in Seq(Mappings)
        BY <1>6
      <3>2. /\ A \o B \in Seq(Mappings) /\ Len(A \o B) = Len(A) + Len(B)
            /\ \A i \in 1 .. Len(A) + Len(B) :
                 (A \o B)[i] = IF i <= Len(A) THEN A[i] ELSE B[i - Len(A)]
        BY <3>1, ConcatProperties, Zenon
      <3>3. QED
        BY <1>5, <3>2, Zenon
    <2>2. Len(A) \in Nat /\ Len(B) \in Nat
      BY <1>6
    <2>3. DOMAIN todo = 1 .. Len(A) + Len(B)
      BY <2>1
    <2>4. QED
      BY <2>1, <2>2, <2>3
  <1>8. FbFirst(todo)
    <2> SUFFICES ASSUME NEW i \in DOMAIN todo, NEW j \in DOMAIN todo, j <= i, todo[i].fb
                 PROVE  todo[j].fb
      BY DEF FbFirst
    <2>1. CASE i \in 1 .. Len(A)
      <3>1. j \in 1 .. Len(A)
        BY <1>6, <1>7, <2>1
      <3>2. QED
        BY <1>3, <1>4, <1>6, <1>7, <3>1
    <2>2. CASE i \notin 1 .. Len(A)
      <3>1. i - Len(A) \in DOMAIN UserPages /\ todo[i] = B[i - Len(A)]
        <4>1. Len(A) \in Nat /\ Len(B) \in Nat /\ DOMAIN UserPages = 1 .. Len(B)
          BY <1>3, <1>6
        <4>2. i \in 1 .. Len(A) + Len(B)
          BY <1>7
        <4>3. i \in Len(A) + 1 .. Len(A) + Len(B) /\ i - Len(A) \in 1 .. Len(B)
          BY <2>2, <4>1, <4>2
        <4>4. todo[i] = B[i - Len(A)]
          BY <1>7, <4>3, Zenon
        <4>5. QED
          BY <4>1, <4>3, <4>4
      <3>2. QED
        BY <1>4, <3>1
    <2>3. QED
      BY <2>1, <2>2
  <1>9. DOMAIN owner = {} /\ DOMAIN ram = {} /\ DOMAIN tlb = {} /\ given = {}
    BY DEF Init
  <1>10. TypeOK
    <2>1. user_heap_ptr \in 0 .. ADDRESSES - 1 /\ new_ptr = user_heap_ptr
      BY AddressFacts DEF Init
    <2>2. page_directory \in [Dirs -> Frames \cup {NoTable}]
      BY DEF Init
    <2>3. next_free_page \in KERNEL_END .. PHYS_MEM_END
      BY Sizes DEF Init
    <2>4. crashed \in BOOLEAN /\ ranOut \in BOOLEAN
      BY DEF Init
    <2>5. QED
      BY <1>7, <1>9, <2>1, <2>2, <2>3, <2>4 DEF TypeOK, Mappings
  <1>11. \A d \in Dirs : page_directory[d] = NoTable
    BY DEF Init
  <1>12. AllocInv /\ FramesPrivate /\ TablesInv /\ WalkInv /\ TlbInv
    BY <1>9, <1>11 DEF AllocInv, FramesPrivate, Tables, TablesInv, WalkInv, TlbInv, NoTable
  <1>13. HeapInv
    <2>1. user_heap_ptr = HEAP_BASE * PAGE_SIZE /\ new_ptr = HEAP_BASE * PAGE_SIZE
      BY DEF Init
    <2>2. HEAP_BASE * PAGE_SIZE \in Int
      BY AddressFacts
    <2>3. \A S : HeapWithin(HEAP_BASE * PAGE_SIZE, S)
      <3> DEFINE h == HEAP_BASE * PAGE_SIZE
      <3>1. h \in Int
        BY <2>2
      <3> HIDE DEF h
      <3>2. h .. h - 1 = {}
        BY <3>1
      <3>3. QED
        BY <3>2 DEF HeapWithin, h
    <2>4. (HEAP_BASE * PAGE_SIZE) \div PAGE_SIZE = HEAP_BASE
      BY AddressFacts, Sizes, DivExact
    <2>5. QED
      BY <2>1, <2>3, <2>4 DEF HeapInv
  <1>14. QED
    BY <1>8, <1>9, <1>10, <1>12, <1>13 DEF IInv, BootInv

\* What the processor remembers it found in the tables, or it forgets it.
LEMMA TlbIInv ==
  ASSUME IInv, (\E p \in DOMAIN owner : Touch(p)) \/ (\E p \in DOMAIN tlb : Forget(p))
  PROVE  IInv'
  <1>1. UNCHANGED <<next_free_page, page_directory, ram, todo, user_heap_ptr, new_ptr, crashed,
                    ranOut, owner, given>>
    BY DEF Touch, Forget
  <1>2. ~crashed
    BY DEF Touch, Forget
  <1>3. /\ DOMAIN tlb' \subseteq DOMAIN owner
        /\ \A p \in DOMAIN tlb' : /\ tlb'[p] \in Frames \cup Pages
                                  /\ page_directory[p \div ENTRIES] = 0 \/ <<p, tlb'[p]>> \in given
    <2>1. ASSUME NEW p \in DOMAIN tlb
          PROVE  /\ p \in DOMAIN owner /\ tlb[p] \in Frames \cup Pages
                 /\ page_directory[p \div ENTRIES] = 0 \/ <<p, tlb[p]>> \in given
      BY <2>1 DEF IInv, TypeOK, TlbInv
    <2>2. ASSUME NEW p \in DOMAIN owner, Touch(p)
          PROVE  /\ Walk(p) \in Frames \cup Pages
                 /\ page_directory[p \div ENTRIES] = 0 \/ <<p, Walk(p)>> \in given
      <3>1. p \in Pages /\ p \div ENTRIES \in Dirs /\ p % ENTRIES \in Entries
        BY PageFacts DEF IInv, TypeOK
      <3>2. page_directory[p \div ENTRIES] # NoTable
        BY DEF IInv, TablesInv
      <3>3. page_directory[p \div ENTRIES] \in DOMAIN ram
        BY <1>2, <3>1, <3>2 DEF IInv, TablesInv
      <3>4. ram[page_directory[p \div ENTRIES]] \in TableContents
        BY <3>3 DEF IInv, TypeOK, TableContents
      <3>5. Walk(p) \in Frames \cup Pages
        BY <2>2, <3>1, <3>2, <3>4 DEF Touch, Walk, TableContents
      <3>6. page_directory[p \div ENTRIES] = 0 \/ <<p, Walk(p)>> \in given
        BY <1>2 DEF IInv, WalkInv, AllocInv
      <3>7. QED
        BY <3>5, <3>6
    <2>3. CASE \E p \in DOMAIN owner : Touch(p)
      <3>1. PICK p \in DOMAIN owner : Touch(p)
        BY <2>3
      <3>2. tlb' = [q \in DOMAIN tlb \cup {p} |-> IF q = p THEN Walk(p) ELSE tlb[q]]
        BY <3>1 DEF Touch
      <3>3. DOMAIN tlb' = DOMAIN tlb \cup {p} /\ tlb'[p] = Walk(p)
        BY <3>2
      <3>4. \A q \in DOMAIN tlb : q = p \/ tlb'[q] = tlb[q]
        BY <3>2
      <3>5. QED
        BY <2>1, <2>2, <3>1, <3>3, <3>4
    <2>4. CASE \E p \in DOMAIN tlb : Forget(p)
      <3>1. PICK p \in DOMAIN tlb : Forget(p)
        BY <2>4
      <3>2. tlb' = [q \in DOMAIN tlb \ {p} |-> tlb[q]]
        BY <3>1 DEF Forget
      <3>3. QED
        BY <2>1, <3>2
    <2>5. QED
      BY <2>3, <2>4
  <1>4. TypeOK' /\ TlbInv'
    BY <1>1, <1>3 DEF IInv, TypeOK, TlbInv
  <1>5. AllocInv' /\ FramesPrivate' /\ TablesInv' /\ WalkInv'
    BY <1>1 DEF IInv, AllocInv, FramesPrivate, Tables, TablesInv, WalkInv, Walk
  <1>6. BootInv' /\ HeapInv'
    BY <1>1 DEF IInv, BootInv, HeapInv
  <1>7. QED
    BY <1>4, <1>5, <1>6 DEF IInv

\* No mapping, no sbrk and no memory of the processor leaves the invariant.
LEMMA NextIInv == IInv /\ [Next]_vars => IInv'
  <1> SUFFICES ASSUME IInv, [Next]_vars PROVE IInv'
    OBVIOUS
  <1>1. CASE MapNext
    BY <1>1, MapNextFrames, MapNextTables, MapNextHeap DEF IInv
  <1>2. CASE UNCHANGED vars
    BY <1>2 DEF vars, IInv, TypeOK, AllocInv, FramesPrivate, Tables, TablesInv, WalkInv, Walk,
                TlbInv, BootInv, HeapInv
  <1>3. QED
    BY <1>1, <1>2, SbrkIInv, TlbIInv DEF Next

-----------------------------------------------------------------------------
\* Frames in use are frames handed out, tables are where mapped pages need them,
\* and the list covers what the heap still lacks.
THEOREM PagingInvariant == Spec => []IInv
  BY InitIInv, NextIInv, PTL DEF Spec

\* The allocator's position, the directory, the tables and the heap pointers stay
\* in their ranges (TypeOK).
THEOREM PagingTypeCorrect == Spec => []TypeOK
  <1>1. IInv => TypeOK
    BY DEF IInv
  <1>2. QED
    BY <1>1, PagingInvariant, PTL

\* No page, table or kernel frame is shared, but for frame 0 once
\* alloc_page_frame has failed (FramesPrivate).
THEOREM PagingFramesPrivate == Spec => []FramesPrivate
  <1>1. IInv => FramesPrivate
    BY DEF IInv
  <1>2. QED
    BY <1>1, PagingInvariant, PTL

\* Until a table was out of the kernel's reach, the tables lead to the frame that
\* map_user_page gave a page last, and the processor finds that one or one the
\* page had before (PagesTranslate).
THEOREM PagingPagesTranslate == Spec => []PagesTranslate
  <1>1. IInv => PagesTranslate
    BY DEF IInv, AllocInv, WalkInv, TlbInv, Translate, PagesTranslate
  <1>2. QED
    BY <1>1, PagingInvariant, PTL

\* When sbrk returns, every page of the heap has been mapped (HeapMapped).
THEOREM PagingHeapMapped == Spec => []HeapMapped
  <1>1. IInv => HeapMapped
    BY DEF IInv, HeapInv, HeapWithin, HeapMapped
  <1>2. QED
    BY <1>1, PagingInvariant, PTL

\* No step gives a new frame to a page wholly below the end of the heap
\* (FullPagesStay).
THEOREM PagingFullPagesStay == Spec => FullPagesStay
  <1> DEFINE Stay == \A p \in HEAP_BASE .. user_heap_ptr \div PAGE_SIZE - 1 :
                       p \in DOMAIN owner => owner'[p] = owner[p]
  <1>1. IInv /\ [Next]_vars => [Stay]_vars
    <2> SUFFICES ASSUME IInv, Next, NEW p \in HEAP_BASE .. user_heap_ptr \div PAGE_SIZE - 1,
                        p \in DOMAIN owner
                 PROVE  owner'[p] = owner[p]
      OBVIOUS
    <2>1. CASE \/ \E arg \in Increments : sbrk(arg)
               \/ \E q \in DOMAIN owner : Touch(q)
               \/ \E q \in DOMAIN tlb : Forget(q)
      BY <2>1 DEF sbrk, Touch, Forget
    <2>2. CASE MapNext
      <3> DEFINE virt == Head(todo).virt
                 fb == Head(todo).fb
      <3>1. PICK phys \in Frames \cup Pages, table \in Frames : MapStep(virt, fb, phys, table)
        BY <2>2, MapNextFacts
      <3>2. owner' = IF fb THEN owner
                     ELSE [q \in DOMAIN owner \cup {virt} |-> IF q = virt THEN phys ELSE owner[q]]
        BY <3>1 DEF MapStep
      <3>3. ~fb => virt \in ToBeMapped(todo)
        <4> DEFINE Mappings == [virt : Pages, fb : BOOLEAN]
        <4>1. todo \in Seq(Mappings) /\ todo # << >>
          BY <2>2 DEF MapNext, IInv, TypeOK
        <4> HIDE DEF Mappings
        <4>2. 1 \in DOMAIN todo /\ Head(todo) = todo[1]
          BY <4>1
        <4>3. QED
          BY <4>2 DEF ToBeMapped
      <3>4. user_heap_ptr \div PAGE_SIZE \in Nat /\ HEAP_BASE \in Nat
        <4>1. user_heap_ptr \in Nat
          BY AddressFacts DEF IInv, TypeOK
        <4>2. QED
          BY <4>1, Sizes, AddressFacts, DivMod
      <3>5. ~fb => virt # p
        BY <3>3, <3>4 DEF IInv, HeapInv
      <3> HIDE DEF virt, fb
      <3>6. CASE fb
        BY <3>2, <3>6
      <3>7. CASE ~fb
        BY <3>2, <3>5, <3>7
      <3>8. QED
        BY <3>6, <3>7
    <2>3. QED
      BY <2>1, <2>2 DEF Next
  <1>2. QED
    BY <1>1, PagingInvariant, PTL DEF Spec, FullPagesStay
=============================================================================
