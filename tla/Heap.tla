-------------------------------- MODULE Heap --------------------------------
(***************************************************************************)
(* The dynamic heap of kernel/mm.c: a doubly linked list of block headers  *)
(* laid out in one static arena, best-fit search, blocks carved from the   *)
(* tail of a free block, coalescing with both neighbours on free.          *)
(*                                                                         *)
(* An address is an offset in dynamic_mem_area.  The list is the function  *)
(* "node" from the addresses of the linked headers to the headers; "mem"   *)
(* is what the cells of the arena hold, a header being marked Hdr in each  *)
(* of its NodeSize cells.  "held" is the callers' side: the pointers they  *)
(* own and the size they last asked for.                                   *)
(***************************************************************************)
EXTENDS Integers

CONSTANTS TotalSize,   \* DYNAMIC_MEM_TOTAL_SIZE
          NodeSize,    \* DYNAMIC_MEM_NODE_SIZE, sizeof(dynamic_mem_node_t)
          Sizes,       \* sizes that callers ask for
          Vals         \* values that callers store

ASSUME HeapAssumption ==
  /\ TotalSize \in Nat
  /\ NodeSize \in Nat \ {0}
  /\ NodeSize <= TotalSize
  /\ Sizes \subseteq Nat

Null == -1             \* NULL_POINTER, no offset of the arena

Hdr == "header"        \* a cell that holds part of a header
Zero == "zero"         \* a cell of the arena (.bss) nobody has written

Addr == 0 .. TotalSize - 1
Cells == Vals \cup {Hdr, Zero}

dynamic_mem_node_t ==
  [size : 0 .. TotalSize, used : BOOLEAN,
   next : Addr \cup {Null}, prev : Addr \cup {Null}]

VARIABLES node, held, mem

vars == <<node, held, mem>>

-----------------------------------------------------------------------------
(* The list operations, as functions of the list nd.                       *)

End(nd, a) == a + NodeSize + nd[a].size

\* Faulty variant: a block of exactly the size is passed over.
StrictCandidates(nd, size) == {a \in DOMAIN nd : ~nd[a].used /\ nd[a].size > size}

Candidates(nd, size) == {a \in DOMAIN nd : ~nd[a].used /\ nd[a].size >= size}

\* The walk keeps the last block that is no larger than the best so far: the
\* smallest one that fits and, among equals, the one furthest down the list.
find_best_mem_block(nd, size) ==
  IF Candidates(nd, size) = {} THEN Null
  ELSE CHOOSE a \in Candidates(nd, size) :
         \A b \in Candidates(nd, size) :
            nd[a].size < nd[b].size \/ (nd[a].size = nd[b].size /\ b <= a)

\* Faulty variant: the new header's own room is forgotten.
TailWithoutHeader(nd, b, size) == b + NodeSize + nd[b].size - size

\* Where the header of a block carved from the tail of b goes.
TailOf(nd, b, size) == b + nd[b].size - size

Split(nd, b, size) ==
  LET n == TailOf(nd, b, size)
  IN  [a \in DOMAIN nd \cup {n} |->
         IF a = n THEN [size |-> size, used |-> TRUE,
                        next |-> nd[b].next, prev |-> b]
         ELSE IF a = b THEN [nd[b] EXCEPT !.next = n,
                                          !.size = @ - (size + NodeSize)]
         ELSE IF a = nd[b].next THEN [nd[a] EXCEPT !.prev = n]
         ELSE nd[a]]

Splits(nd, b, size) == nd[b].size >= size + NodeSize

\* Faulty variant: a block handed out whole is not marked.
TakeUnmarked(nd, b, size) == IF Splits(nd, b, size) THEN Split(nd, b, size) ELSE nd

\* The list and the new block's header after malloc(size) has chosen b.
Take(nd, b, size) ==
  IF Splits(nd, b, size) THEN Split(nd, b, size) ELSE [nd EXCEPT ![b].used = TRUE]

Taken(nd, b, size) == IF Splits(nd, b, size) THEN TailOf(nd, b, size) ELSE b

\* Faulty variant: the block after the swallowed one keeps its back link.
AbsorbOneWay(nd, a, b) ==
  [x \in DOMAIN nd \ {b} |->
     IF x = a THEN [nd[a] EXCEPT !.size = @ + nd[b].size + NodeSize,
                                 !.next = nd[b].next]
     ELSE nd[x]]

\* Block a swallows its successor b: b's header leaves the list.
Absorb(nd, a, b) ==
  [x \in DOMAIN nd \ {b} |->
     IF x = a THEN [nd[a] EXCEPT !.size = @ + nd[b].size + NodeSize,
                                 !.next = nd[b].next]
     ELSE IF x = nd[b].next THEN [nd[x] EXCEPT !.prev = a]
     ELSE nd[x]]

merge_next_node_into_current(nd, a) ==
  LET n == nd[a].next
  IN  IF n # Null /\ ~nd[n].used THEN Absorb(nd, a, n) ELSE nd

merge_current_node_into_previous(nd, a) ==
  LET p == nd[a].prev
  IN  IF p # Null /\ ~nd[p].used THEN Absorb(nd, p, a) ELSE nd

\* Faulty variant: only the next block is merged.
ReleaseForward(nd, a) == merge_next_node_into_current([nd EXCEPT ![a].used = FALSE], a)

Release(nd, a) ==
  merge_current_node_into_previous(
    merge_next_node_into_current([nd EXCEPT ![a].used = FALSE], a), a)

-----------------------------------------------------------------------------
(* Cells of the arena.                                                     *)

\* malloc writes a header of its own only when it splits; the other header
\* fields it sets belong to headers that are already there.
MarkHeader(m, nd, b, size) ==
  LET n == TailOf(nd, b, size)
  IN  IF Splits(nd, b, size)
      THEN [c \in DOMAIN m |-> IF c \in n .. n + NodeSize - 1 THEN Hdr ELSE m[c]]
      ELSE m

\* Faulty variant: the loop stops one cell early.
CopyShort(m, src, dst, n) ==
  [c \in DOMAIN m |-> IF c \in dst .. dst + n - 2 THEN m[src + (c - dst)] ELSE m[c]]

\* The copy loop of realloc: n cells from src to dst, in that order.
Copy(m, src, dst, n) ==
  [c \in DOMAIN m |-> IF c \in dst .. dst + n - 1 THEN m[src + (c - dst)] ELSE m[c]]

HeaderOf(p) == p - NodeSize
PointerTo(a) == a + NodeSize

Drop(f, p) == [x \in DOMAIN f \ {p} |-> f[x]]
Put(f, p, v) == [x \in DOMAIN f \cup {p} |-> IF x = p THEN v ELSE f[x]]

-----------------------------------------------------------------------------
\* init_dynamic_mem: one free block, and nobody holds anything.
Init ==
  /\ node = [a \in {0} |-> [size |-> TotalSize - NodeSize, used |-> FALSE,
                            next |-> Null, prev |-> Null]]
  /\ held = [p \in {} |-> 0]
  /\ mem = [c \in Addr |-> IF c < NodeSize THEN Hdr ELSE Zero]

\* malloc that finds a block.  A malloc that finds none returns NULL and
\* changes nothing.
malloc(size) ==
  LET b == find_best_mem_block(node, size)
  IN  /\ b # Null
      /\ node' = Take(node, b, size)
      /\ mem' = MarkHeader(mem, node, b, size)
      /\ held' = Put(held, PointerTo(Taken(node, b, size)), size)

\* Callers free what they hold, once; mem_free(NULL) does nothing.
mem_free(p) ==
  /\ node' = Release(node, HeaderOf(p))
  /\ held' = Drop(held, p)
  /\ UNCHANGED mem

\* Faulty variant: the block's header is counted as room.
ReallocInPlaceOver(p, size) ==
  /\ size # 0
  /\ p < TotalSize
  /\ node[HeaderOf(p)].size + NodeSize >= size
  /\ held' = [held EXCEPT ![p] = size]
  /\ UNCHANGED <<node, mem>>

\* realloc when the block already has the room: same pointer.
ReallocInPlace(p, size) ==
  /\ size # 0
  /\ p < TotalSize
  /\ node[HeaderOf(p)].size >= size
  /\ held' = [held EXCEPT ![p] = size]
  /\ UNCHANGED <<node, mem>>

\* realloc that moves: malloc, copy all of the old block, mem_free.  (Its size is
\* read after malloc, which leaves the headers of used blocks as they are.)  When the
\* malloc fails, or p lies outside the arena, NULL is returned and the old
\* block stays as it was.
ReallocMove(p, size) ==
  LET h == HeaderOf(p)
      b == find_best_mem_block(node, size)
      new_p == PointerTo(Taken(node, b, size))
  IN  /\ size # 0
      /\ p < TotalSize
      /\ node[h].size < size
      /\ b # Null
      /\ node' = Release(Take(node, b, size), h)
      /\ mem' = Copy(MarkHeader(mem, node, b, size), p, new_p, node[h].size)
      /\ held' = Put(Drop(held, p), new_p, size)

\* realloc(NULL, size) is malloc(size), realloc(p, 0) is mem_free(p).
realloc(p, size) ==
  \/ p = Null /\ malloc(size)
  \/ p # Null /\ size = 0 /\ mem_free(p)
  \/ p # Null /\ ReallocInPlace(p, size)
  \/ p # Null /\ ReallocMove(p, size)

\* The owner of a block fills what it asked for.
Write(p, v) ==
  /\ mem' = [c \in DOMAIN mem |-> IF c \in p .. p + held[p] - 1 THEN v ELSE mem[c]]
  /\ UNCHANGED <<node, held>>

Next ==
  \/ \E size \in Sizes : malloc(size)
  \/ \E p \in DOMAIN held : mem_free(p)
  \/ \E p \in DOMAIN held \cup {Null}, size \in Sizes : realloc(p, size)
  \/ \E p \in DOMAIN held, v \in Vals : Write(p, v)

Spec == Init /\ [][Next]_vars

-----------------------------------------------------------------------------
IsList(nd) ==
  /\ DOMAIN nd \subseteq Addr
  /\ nd \in [DOMAIN nd -> dynamic_mem_node_t]

TypeOK ==
  /\ IsList(node)
  /\ DOMAIN held \subseteq 0 .. TotalSize
  /\ held \in [DOMAIN held -> Nat]
  /\ mem \in [Addr -> Cells]

\* The links: the list starts at the start of the arena, every block's
\* successor begins where the block ends and points back at it, and the last
\* block ends at the end of the arena.
Linked(nd) ==
  /\ 0 \in DOMAIN nd
  /\ nd[0].prev = Null
  /\ \A a \in DOMAIN nd :
       /\ nd[a].next = Null => End(nd, a) = TotalSize
       /\ nd[a].next # Null => /\ nd[a].next \in DOMAIN nd
                               /\ nd[a].next = End(nd, a)
                               /\ nd[nd[a].next].prev = a
       /\ a # 0 => /\ nd[a].prev \in DOMAIN nd
                   /\ nd[nd[a].prev].next = a

\* No block reaches into another one.
Separate(nd) == \A a, b \in DOMAIN nd : a < b => End(nd, a) <= b

NoFreeNeighbours(nd) ==
  \A a \in DOMAIN nd :
    (~nd[a].used /\ nd[a].next # Null) => nd[nd[a].next].used

\* malloc, mem_free and realloc leave a list whose blocks tile the arena from
\* its first cell to its last, in both directions of the links, after any
\* sequence of carving and merging.
ListTilesArena == Linked(node) /\ Separate(node)

\* mem_free merges with both neighbours and malloc carves from the tail, so no
\* two neighbouring blocks are ever free: the list does not decay.
Coalesced == NoFreeNeighbours(node)

\* The blocks the list calls used are exactly the ones callers hold, each with
\* at least the room its holder asked for: none is lost and none is given twice.
UsedIsHeld ==
  /\ {a \in DOMAIN node : node[a].used} = {HeaderOf(p) : p \in DOMAIN held}
  /\ \A p \in DOMAIN held : held[p] <= node[HeaderOf(p)].size

\* No store of a caller, no copy of realloc ever lands on a linked header.
HeadersIntact ==
  \A a \in DOMAIN node : \A c \in a .. a + NodeSize - 1 : mem[c] = Hdr

\* The cells w .. w+n-1 belong to no block in use, header included.
FreeWindow(w, n) ==
  \A a \in DOMAIN node : node[a].used => (End(node, a) <= w \/ w + n <= a)

\* find_best_mem_block comes back empty-handed only when the arena has no run
\* of free cells that could hold a header and the block: free memory is never
\* out of reach because the list has it in pieces.
OutOfMemoryIsReal ==
  \A size \in Sizes :
    find_best_mem_block(node, size) = Null =>
      ~ \E w \in 0 .. TotalSize - (size + NodeSize) : FreeWindow(w, size + NodeSize)

\* The blocks as their holders see them: pointer -> contents, as far as they asked.
Live(hd, m) == [p \in DOMAIN hd |-> [i \in 0 .. hd[p] - 1 |-> m[p + i]]]

\* Every step of the heap is a step of the abstract allocator: the blocks
\* callers hold are exclusive, keep their contents across every operation on
\* other blocks, and a realloc that moves carries the contents along.
Alloc == INSTANCE Allocator WITH Arena <- TotalSize, live <- Live(held, mem)

ImplementsAllocator == Alloc!Spec
=============================================================================
