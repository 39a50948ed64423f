------------------------------- MODULE Paging -------------------------------
(***************************************************************************)
(* Frames and user pages: alloc_page_frame (mm.c), init_paging,            *)
(* map_user_page, the mappings kernel_main makes at boot and the sbrk      *)
(* system call (kernel.c).  Nothing else runs meanwhile; a step maps one   *)
(* page of the list that boot or sbrk has still to go through.             *)
(*                                                                         *)
(* Virtual pages and physical frames are numbers, PAGE_SIZE counts the     *)
(* addresses of a page and addresses wrap at ADDRESSES, as u32 does.       *)
(* A page table is the contents of its frame.  The processor keeps the     *)
(* translations it has used until it chooses to forget them: map_user_page *)
(* neither executes invlpg nor reloads CR3 (map_kernel_page and the frame  *)
(* buffer's loop do, before there is a user page).                         *)
(***************************************************************************)
EXTENDS Integers, Sequences

CONSTANTS PAGE_SIZE,       \* 0x1000
          ENTRIES,         \* 1024: entries of a page table
          DIRS,            \* entries of the page directory
          KERNEL_DIRS,     \* directory entries init_paging maps onto themselves
          KERNEL_END,      \* first frame after the kernel
          PHYS_MEM_END,    \* first frame there is not
          Framebuffer,     \* pages of the frame buffer, mapped onto themselves
          UserPages,       \* pages of the user programs, in the order of boot
          HEAP_BASE,       \* first page of the user heap
          HEAP_PAGES,      \* bound: pages a program's heap reaches
          Increments       \* arguments of sbrk

Dirs == 0 .. DIRS - 1
Entries == 0 .. ENTRIES - 1
Pages == 0 .. DIRS * ENTRIES - 1
ADDRESSES == DIRS * ENTRIES * PAGE_SIZE
IDENTITY_END == KERNEL_DIRS * ENTRIES      \* frames the kernel can reach as they are
NoTable == -1
NoFrame == -1

ASSUME PagingAssumption ==
  /\ PAGE_SIZE \in Nat \ {0} /\ ENTRIES \in Nat \ {0} /\ DIRS \in Nat \ {0}
  /\ KERNEL_DIRS \in Nat \ {0}
  /\ KERNEL_END \in Nat \ {0} /\ PHYS_MEM_END \in Nat /\ KERNEL_END <= PHYS_MEM_END
  /\ Framebuffer \in Seq(IDENTITY_END .. DIRS * ENTRIES - 1)
  /\ UserPages \in Seq(IDENTITY_END .. DIRS * ENTRIES - 1)
  /\ HEAP_BASE \in IDENTITY_END .. DIRS * ENTRIES - 1 /\ HEAP_PAGES \in Nat
  /\ Increments \subseteq 0 .. ADDRESSES - 1

VARIABLES next_free_page,
          page_directory,    \* directory entry -> frame of its table
          ram,               \* the frames that are page tables
          todo,              \* mappings under way: [virt, fb]
          user_heap_ptr, new_ptr,
          crashed,           \* a table outside the identity mapping was touched
          ranOut,            \* history: alloc_page_frame has returned 0
          tlb,               \* page -> the frame the processor remembers for it
          owner,             \* history: user page -> the frame it was mapped to last
          given              \* history: every <<user page, frame it was mapped to>>

vars == <<next_free_page, page_directory, ram, todo, user_heap_ptr, new_ptr,
          crashed, ranOut, tlb, owner, given>>

-----------------------------------------------------------------------------
\* The frame alloc_page_frame returns when n frames have been taken before, and
\* where it leaves next_free_page; 0 when there is none left.
FrameAt(next) == IF next >= PHYS_MEM_END THEN 0 ELSE next

\* Faulty variant: the end of memory does not stop it.
AfterUnchecked(next) == next + 1

After(next) == IF next >= PHYS_MEM_END THEN next ELSE next + 1

\* paging_alloc_init and init_paging, and the list kernel_main will go through.
Init ==
  /\ next_free_page = KERNEL_END
  /\ page_directory = [d \in Dirs |-> NoTable]
  /\ ram = [f \in {} |-> <<>>]
  /\ todo = [i \in DOMAIN Framebuffer |-> [virt |-> Framebuffer[i], fb |-> TRUE]]
              \o [i \in DOMAIN UserPages |-> [virt |-> UserPages[i], fb |-> FALSE]]
  /\ user_heap_ptr = HEAP_BASE * PAGE_SIZE /\ new_ptr = user_heap_ptr
  /\ crashed = FALSE /\ ranOut = FALSE
  /\ tlb = [p \in {} |-> 0]
  /\ owner = [p \in {} |-> 0] /\ given = {}

\* What a new table holds: the frame buffer's is zeroed, the one map_user_page
\* takes is whatever was in that memory.
Blank(f, zeroed) ==
  IF zeroed THEN {[i \in Entries |-> NoFrame]}
  ELSE IF f \in DOMAIN ram THEN {ram[f]}
  ELSE [Entries -> {NoFrame, 0}]

With(f, table) == [g \in DOMAIN ram \cup {f} |-> IF g = f THEN table ELSE ram[g]]

\* Faulty variant: the frame of the page is used for its table too.
MapSharingFrame(virt, phys, next, zeroed) ==
  LET d == virt \div ENTRIES
      table == IF page_directory[d] = NoTable THEN phys ELSE page_directory[d]
      blank == IF page_directory[d] = NoTable THEN Blank(table, zeroed) ELSE {ram[table]}
  IN  /\ page_directory' = [page_directory EXCEPT ![d] = table]
      /\ next_free_page' = next
      /\ ranOut' = ranOut
      /\ crashed' = FALSE
      /\ \E b \in blank : ram' = With(table, [b EXCEPT ![virt % ENTRIES] = phys])

\* Faulty variant: the low bits of the page are lost, every entry is the first.
MapWrongEntry(virt, phys, next, zeroed) ==
  LET d == virt \div ENTRIES
      isNew == page_directory[d] = NoTable
      table == IF isNew THEN FrameAt(next) ELSE page_directory[d]
      blank == IF isNew THEN Blank(table, zeroed) ELSE {ram[table]}
  IN  /\ page_directory' = [page_directory EXCEPT ![d] = table]
      /\ next_free_page' = IF isNew THEN After(next) ELSE next
      /\ ranOut' = (ranOut \/ (isNew /\ table = 0))
      /\ crashed' = (table >= IDENTITY_END)
      /\ IF table >= IDENTITY_END THEN UNCHANGED ram
         ELSE \E b \in blank : ram' = With(table, [b EXCEPT ![0] = phys])

\* map_user_page, and the loop body of the frame buffer: the entry of virt is
\* set to phys, in a table that is allocated first if there is none.  The table
\* is written through its physical address.
map_page(virt, phys, next, zeroed) ==
  LET d == virt \div ENTRIES
      isNew == page_directory[d] = NoTable
      table == IF isNew THEN FrameAt(next) ELSE page_directory[d]
      blank == IF isNew THEN Blank(table, zeroed) ELSE {ram[table]}
  IN  /\ page_directory' = [page_directory EXCEPT ![d] = table]
      /\ next_free_page' = IF isNew THEN After(next) ELSE next
      /\ ranOut' = (ranOut \/ (isNew /\ table = 0) \/ phys = 0)
      /\ crashed' = (table >= IDENTITY_END)
      /\ IF table >= IDENTITY_END THEN UNCHANGED ram
         ELSE \E b \in blank : ram' = With(table, [b EXCEPT ![virt % ENTRIES] = phys])

\* The next page on the list.  The argument of map_user_page is allocated before
\* the table is.
MapNext ==
  /\ todo # << >> /\ ~crashed
  /\ todo' = Tail(todo)
  /\ LET virt == Head(todo).virt
         fb == Head(todo).fb
         phys == IF fb THEN virt ELSE FrameAt(next_free_page)
     IN  /\ map_page(virt, phys, IF fb THEN next_free_page ELSE After(next_free_page), fb)
         /\ owner' = IF fb THEN owner
                     ELSE [p \in DOMAIN owner \cup {virt} |->
                             IF p = virt THEN phys ELSE owner[p]]
         /\ given' = IF fb THEN given ELSE given \cup {<<virt, phys>>}
  /\ user_heap_ptr' = IF todo' = << >> THEN new_ptr ELSE user_heap_ptr
  /\ UNCHANGED <<new_ptr, tlb>>

\* No program asks for more than the bound or gives back more than it got.
InHeap(a) == a \in HEAP_BASE * PAGE_SIZE .. (HEAP_BASE + HEAP_PAGES) * PAGE_SIZE

\* Faulty variant: the loop starts a page early.
SbrkFromPageBefore(arg) ==
  LET new == (user_heap_ptr + arg) % ADDRESSES
      from == IF user_heap_ptr < PAGE_SIZE THEN 0 ELSE user_heap_ptr \div PAGE_SIZE - 1
  IN  /\ todo = << >> /\ ~crashed /\ InHeap(new)
      /\ todo' = [i \in 1 .. (new + PAGE_SIZE - 1) \div PAGE_SIZE - from |->
                    [virt |-> from + i - 1, fb |-> FALSE]]
      /\ new_ptr' = new
      /\ user_heap_ptr' = IF todo' = << >> THEN new ELSE user_heap_ptr
      /\ UNCHANGED <<next_free_page, page_directory, ram, crashed, ranOut, tlb, owner,
                     given>>

\* Faulty variant: the loop starts at the page after the one old is on.
SbrkFromNextPage(arg) ==
  LET new == (user_heap_ptr + arg) % ADDRESSES
      from == user_heap_ptr \div PAGE_SIZE + 1
  IN  /\ todo = << >> /\ ~crashed /\ InHeap(new)
      /\ todo' = [i \in 1 .. (new + PAGE_SIZE - 1) \div PAGE_SIZE - from |->
                    [virt |-> from + i - 1, fb |-> FALSE]]
      /\ new_ptr' = new
      /\ user_heap_ptr' = IF todo' = << >> THEN new ELSE user_heap_ptr
      /\ UNCHANGED <<next_free_page, page_directory, ram, crashed, ranOut, tlb, owner,
                     given>>

\* System call 12: every page from the one old is on up to new_ptr is mapped to
\* a new frame, the first one again if the heap ended inside it.  A "negative"
\* argument wraps, and then there is nothing to map.
sbrk(arg) ==
  LET new == (user_heap_ptr + arg) % ADDRESSES
      from == user_heap_ptr \div PAGE_SIZE
  IN  /\ todo = << >> /\ ~crashed /\ InHeap(new)
      /\ todo' = [i \in 1 .. (new + PAGE_SIZE - 1) \div PAGE_SIZE - from |->
                    [virt |-> from + i - 1, fb |-> FALSE]]
      /\ new_ptr' = new
      /\ user_heap_ptr' = IF todo' = << >> THEN new ELSE user_heap_ptr
      /\ UNCHANGED <<next_free_page, page_directory, ram, crashed, ranOut, tlb, owner,
                     given>>

-----------------------------------------------------------------------------
\* The frame behind a page in the tables.
Walk(p) ==
  IF page_directory[p \div ENTRIES] = NoTable THEN NoFrame
  ELSE ram[page_directory[p \div ENTRIES]][p % ENTRIES]

\* The frame behind a page, as the processor finds it.
Translate(p) == IF p \in DOMAIN tlb THEN tlb[p] ELSE Walk(p)

\* A user page is touched, by its program or by the kernel that copies a binary
\* into it: the processor walks the tables and remembers the frame.
Touch(p) ==
  /\ ~crashed
  /\ p \notin DOMAIN tlb /\ Walk(p) # NoFrame
  /\ tlb' = [q \in DOMAIN tlb \cup {p} |-> IF q = p THEN Walk(p) ELSE tlb[q]]
  /\ UNCHANGED <<next_free_page, page_directory, ram, todo, user_heap_ptr, new_ptr, crashed,
                 ranOut, owner, given>>

\* The processor forgets a translation, as it may at any time.
Forget(p) ==
  /\ ~crashed
  /\ tlb' = [q \in DOMAIN tlb \ {p} |-> tlb[q]]
  /\ UNCHANGED <<next_free_page, page_directory, ram, todo, user_heap_ptr, new_ptr, crashed,
                 ranOut, owner, given>>

Next ==
  \/ MapNext
  \/ \E arg \in Increments : sbrk(arg)
  \/ \E p \in DOMAIN owner : Touch(p)
  \/ \E p \in DOMAIN tlb : Forget(p)

Spec == Init /\ [][Next]_vars

-----------------------------------------------------------------------------
Frames == 0 .. PHYS_MEM_END - 1
Tables == {page_directory[d] : d \in Dirs} \ {NoTable}

TypeOK ==
  /\ next_free_page \in KERNEL_END .. PHYS_MEM_END
  /\ page_directory \in [Dirs -> Frames \cup {NoTable}]
  /\ DOMAIN ram \subseteq Frames
  /\ \A f \in DOMAIN ram : ram[f] \in [Entries -> Frames \cup Pages \cup {NoFrame}]
  /\ todo \in Seq([virt : Pages, fb : BOOLEAN])
  /\ user_heap_ptr \in 0 .. ADDRESSES - 1 /\ new_ptr \in 0 .. ADDRESSES - 1
  /\ crashed \in BOOLEAN /\ ranOut \in BOOLEAN
  /\ DOMAIN tlb \subseteq DOMAIN owner
  /\ \A p \in DOMAIN tlb : tlb[p] \in Frames \cup Pages
  /\ DOMAIN owner \subseteq Pages /\ \A p \in DOMAIN owner : owner[p] \in Frames
  /\ given \subseteq Pages \X Frames

\* No frame is ever given to two pages, or to a page and a page table or the
\* kernel, and no two directory entries share a table; a page keeps this claim on
\* the frames it had before sbrk mapped it anew.  The one exception is frame 0,
\* what alloc_page_frame returns when memory has run out: everything that asks
\* from then on shares it.
FramesPrivate ==
  /\ \A g, h \in given : g[2] = h[2] => g[1] = h[1] \/ g[2] = 0
  /\ \A g \in given : g[2] = 0 \/ (g[2] \notin Tables /\ g[2] >= KERNEL_END)
  /\ \A d, e \in Dirs : page_directory[d] = page_directory[e] /\ d # e
                           => page_directory[d] \in {NoTable, 0}
  /\ ~ranOut => 0 \notin Tables /\ \A g \in given : g[2] # 0

\* As long as every table could be reached, the tables lead from a user page to
\* the frame it was mapped to last, whatever was mapped since for whatever
\* program; and the processor finds that frame or, for a page sbrk has mapped
\* anew, one the page had before and nobody else has got.  The pages whose table
\* is frame 0, from a failed allocation, are not covered.
PagesTranslate ==
  ~crashed => \A p \in DOMAIN owner :
                page_directory[p \div ENTRIES] = 0 \/ ( /\ Walk(p) = owner[p]
                                                       /\ <<p, Translate(p)>> \in given )

\* When sbrk returns, every page of the heap has been mapped.
HeapMapped ==
  todo = << >> /\ ~crashed =>
    \A a \in HEAP_BASE * PAGE_SIZE .. user_heap_ptr - 1 : a \div PAGE_SIZE \in DOMAIN owner

\* sbrk gives no page a new frame that lies wholly below the end of the heap.
\* (The page the end lies in does get one, and loses what was in it.)
FullPagesStay ==
  [][\A p \in HEAP_BASE .. user_heap_ptr \div PAGE_SIZE - 1 :
       p \in DOMAIN owner => owner'[p] = owner[p]]_vars
=============================================================================
