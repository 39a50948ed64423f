----------------------------- MODULE HeapProofs -----------------------------
(***************************************************************************)
(* Proofs about the heap of kernel/mm.c, for every arena size, header size *)
(* and set of request sizes.                                               *)
(***************************************************************************)
EXTENDS Heap, NaturalsInduction, WellFoundedInduction, TLAPS

\* A nonempty set of naturals has a least element.
LEMMA LeastNat ==
  ASSUME NEW T, T \subseteq Nat, T # {}
  PROVE  \E m \in T : \A k \in T : m <= k
<1>1. PICK m \in T : \A k \in T : ~(<<k, m>> \in OpToRel(<, Nat))
  BY WFMin, NatLessThanWellFounded, Zenon
<1>2. \A k \in T : ~(k < m)
  BY <1>1, Zenon DEF OpToRel
<1> QED BY <1>2

\* When some free block is large enough, the walk of find_best_mem_block comes
\* back with such a block.
LEMMA BestIsCandidate ==
  ASSUME NEW nd, IsList(nd), NEW size \in Nat, Candidates(nd, size) # {}
  PROVE  find_best_mem_block(nd, size) \in Candidates(nd, size)
<1> DEFINE C == Candidates(nd, size)
           T == {nd[a].size : a \in C}
<1>1. C # {}
  OBVIOUS
<1>2. /\ C \subseteq Addr
      /\ \A a \in C : nd[a].size \in Nat
  BY HeapAssumption DEF IsList, Candidates, Addr, dynamic_mem_node_t
<1>3. PICK m \in T : \A k \in T : m <= k
  <2>1. T \subseteq Nat /\ T # {}
    BY <1>1, <1>2
  <2> QED BY <2>1, LeastNat
<1> DEFINE M == {a \in C : nd[a].size = m}
           D == {TotalSize - a : a \in M}
<1>4. PICK d \in D : \A k \in D : d <= k
  <2>1. D \subseteq Nat
    BY <1>2, HeapAssumption DEF Addr
  <2>2. D # {}
    BY <1>3
  <2> QED BY <2>1, <2>2, LeastNat
<1>5. PICK best \in M : d = TotalSize - best
  BY <1>4
<1>6. \A b \in C : nd[best].size < nd[b].size \/ (nd[best].size = nd[b].size /\ b <= best)
  <2> SUFFICES ASSUME NEW b \in C
               PROVE  nd[best].size < nd[b].size \/ (nd[best].size = nd[b].size /\ b <= best)
    OBVIOUS
  <2>1. m <= nd[b].size /\ nd[best].size = m
    BY <1>3, <1>5
  <2>2. CASE nd[b].size = m
    <3>1. TotalSize - best <= TotalSize - b
      BY <1>4, <1>5, <2>2
    <3> QED BY <3>1, <2>1, <2>2, <1>2, <1>5, HeapAssumption DEF Addr
  <2>3. CASE nd[b].size # m
    BY <2>1, <2>3, <1>2, <1>5
  <2> QED BY <2>2, <2>3
<1>7. best \in C
  BY <1>5
<1> QED
  <2> HIDE DEF C
  <2>1. find_best_mem_block(nd, size) =
           CHOOSE a \in C : \A b \in C :
             nd[a].size < nd[b].size \/ (nd[a].size = nd[b].size /\ b <= a)
    BY <1>1 DEF find_best_mem_block, C
  <2> QED BY <2>1, <1>6, <1>7 DEF C
-----------------------------------------------------------------------------
WellFormed(nd) == IsList(nd) /\ Linked(nd) /\ Separate(nd)

Used(nd) == {a \in DOMAIN nd : nd[a].used}

\* Facts about one header that the steps below use over and over.
LEMMA HeaderFacts ==
  ASSUME NEW nd, WellFormed(nd), NEW a \in DOMAIN nd
  PROVE  /\ a \in Nat /\ a < TotalSize
         /\ nd[a].size \in Nat
         /\ nd[a].used \in BOOLEAN
         /\ nd[a] = [size |-> nd[a].size, used |-> nd[a].used,
                     next |-> nd[a].next, prev |-> nd[a].prev]
         /\ nd[a] \in dynamic_mem_node_t
         /\ nd[a].next # Null => /\ nd[a].next \in DOMAIN nd
                                 /\ nd[a].next = a + NodeSize + nd[a].size
                                 /\ nd[a].next > a
                                 /\ nd[nd[a].next].prev = a
         /\ nd[a].next = Null => a + NodeSize + nd[a].size = TotalSize
         /\ a + NodeSize + nd[a].size <= TotalSize
         /\ a # 0 => nd[a].prev \in DOMAIN nd /\ nd[nd[a].prev].next = a
         /\ a = 0 => nd[a].prev = Null
<1>1. /\ a \in Nat /\ a < TotalSize
      /\ nd[a] \in dynamic_mem_node_t
  BY HeapAssumption DEF WellFormed, IsList, Addr
<1>2. /\ nd[a].size \in Nat
      /\ nd[a].used \in BOOLEAN
      /\ nd[a] = [size |-> nd[a].size, used |-> nd[a].used,
                  next |-> nd[a].next, prev |-> nd[a].prev]
  BY <1>1, HeapAssumption DEF dynamic_mem_node_t
<1>3. /\ nd[a].next # Null => /\ nd[a].next \in DOMAIN nd
                              /\ nd[a].next = a + NodeSize + nd[a].size
                              /\ nd[nd[a].next].prev = a
      /\ nd[a].next = Null => a + NodeSize + nd[a].size = TotalSize
      /\ a # 0 => nd[a].prev \in DOMAIN nd /\ nd[nd[a].prev].next = a
      /\ a = 0 => nd[a].prev = Null
  BY DEF WellFormed, Linked, End
<1>4. nd[a].next # Null => nd[a].next > a /\ nd[a].next < TotalSize
  BY <1>1, <1>2, <1>3, HeapAssumption DEF WellFormed, IsList, Addr
<1> QED BY <1>1, <1>2, <1>3, <1>4, HeapAssumption

\* Carving the tail of a free block leaves a well-formed list.
LEMMA SplitWellFormed ==
  ASSUME NEW nd, WellFormed(nd), NEW size \in Nat,
         NEW b \in DOMAIN nd, Splits(nd, b, size)
  PROVE  WellFormed(Split(nd, b, size))
<1> DEFINE n == TailOf(nd, b, size)
           nn == Split(nd, b, size)
           c == nd[b].next
<1>1. /\ b \in Nat /\ nd[b].size \in Nat
      /\ n \in Nat /\ n >= b + NodeSize /\ n < TotalSize
      /\ n + NodeSize + size = b + NodeSize + nd[b].size
      /\ size <= TotalSize
  BY HeaderFacts, HeapAssumption DEF Splits, TailOf
<1>2. n \notin DOMAIN nd
  <2> SUFFICES ASSUME n \in DOMAIN nd PROVE FALSE
    OBVIOUS
  <2>1. b < n /\ End(nd, b) <= n
    BY <1>1, HeapAssumption DEF WellFormed, Separate
  <2> QED BY <2>1, <1>1, HeapAssumption DEF End
<1>3. DOMAIN nn = DOMAIN nd \cup {n}
  BY DEF Split
<1>4. nn[n] = [size |-> size, used |-> TRUE, next |-> c, prev |-> b]
  BY DEF Split
<1>5. nn[b] = [nd[b] EXCEPT !.next = n, !.size = nd[b].size - (size + NodeSize)]
  BY <1>2 DEF Split
<1>6. c # Null => c \in DOMAIN nd /\ c # b /\ nn[c] = [nd[c] EXCEPT !.prev = n]
  BY <1>2, HeaderFacts DEF Split
<1>7. \A a \in DOMAIN nd : a # b /\ a # c => nn[a] = nd[a]
  BY <1>2 DEF Split
<1>8. /\ nn[n].size = size /\ nn[n].used = TRUE /\ nn[n].next = c /\ nn[n].prev = b
      /\ nn[b].size = nd[b].size - (size + NodeSize) /\ nn[b].used = nd[b].used
      /\ nn[b].next = n /\ nn[b].prev = nd[b].prev
      /\ c # Null => /\ nn[c].size = nd[c].size /\ nn[c].used = nd[c].used
                     /\ nn[c].next = nd[c].next /\ nn[c].prev = n
  <2>1. nd[b] \in dynamic_mem_node_t /\ (c # Null => nd[c] \in dynamic_mem_node_t)
    BY <1>6, HeaderFacts
  <2> QED BY <2>1, <1>4, <1>5, <1>6 DEF dynamic_mem_node_t
<1>9. /\ c # Null => c = n + NodeSize + size /\ c \in Nat
      /\ c = Null => n + NodeSize + size = TotalSize
  BY <1>1, HeaderFacts, HeapAssumption DEF WellFormed, IsList, Addr
<1>10. n # b /\ n # c /\ n # Null /\ b # Null
  BY <1>1, <1>2, <1>6, HeapAssumption DEF Null
<1> HIDE DEF nn, n, c
<1>11. IsList(nn)
  <2>1. DOMAIN nn \subseteq Addr
    BY <1>1, <1>3, HeapAssumption DEF WellFormed, IsList, Addr
  <2>2. nn = [a \in DOMAIN nn |-> nn[a]]
    BY DEF nn, Split
  <2>3. ASSUME NEW a \in DOMAIN nn PROVE nn[a] \in dynamic_mem_node_t
    <3>1. CASE a = n
      <4>1. c \in Addr \cup {Null} /\ b \in Addr /\ size \in 0 .. TotalSize
        BY <1>1, <1>6, HeapAssumption DEF WellFormed, IsList, Addr
      <4> QED BY <3>1, <4>1, <1>4 DEF dynamic_mem_node_t
    <3>2. CASE a = b
      <4>1. nd[b] \in dynamic_mem_node_t /\ n \in Addr
        BY <1>1, HeaderFacts, HeapAssumption DEF Addr
      <4>2. nd[b].size - (size + NodeSize) \in 0 .. TotalSize
        BY <4>1, <1>1, HeapAssumption DEF dynamic_mem_node_t
      <4> QED BY <3>2, <4>1, <4>2, <1>5 DEF dynamic_mem_node_t
    <3>3. CASE c # Null /\ a = c
      <4>1. nd[c] \in dynamic_mem_node_t /\ n \in Addr
        BY <3>3, <1>1, <1>6, HeaderFacts, HeapAssumption DEF Addr
      <4> QED BY <3>3, <4>1, <1>6 DEF dynamic_mem_node_t
    <3>4. CASE a \in DOMAIN nd /\ a # b /\ a # c
      BY <3>4, <1>7, HeaderFacts
    <3> QED BY <3>1, <3>2, <3>3, <3>4, <1>3, HeapAssumption DEF Null, WellFormed, IsList, Addr
  <2> QED BY <2>1, <2>2, <2>3 DEF IsList
<1>12. Linked(nn)
  <2>1. 0 \in DOMAIN nn /\ nn[0].prev = Null
    <3>1. 0 \in DOMAIN nd /\ nd[0].prev = Null
      BY DEF WellFormed, Linked
    <3>2. 0 # c
      BY <1>9, <1>1, HeapAssumption DEF Null
    <3> QED BY <3>1, <3>2, <1>3, <1>7, <1>8
  <2>2. ASSUME NEW a \in DOMAIN nn, nn[a].next = Null
        PROVE  End(nn, a) = TotalSize
    <3>1. CASE a = n
      BY <3>1, <2>2, <1>8, <1>9 DEF End
    <3>2. CASE a = b
      BY <3>2, <2>2, <1>8, <1>10
    <3>3. CASE a # n /\ a # b
      <4>1. a \in DOMAIN nd /\ nn[a].next = nd[a].next /\ nn[a].size = nd[a].size
        BY <3>3, <1>3, <1>6, <1>7, <1>8, HeapAssumption DEF Null, WellFormed, IsList, Addr
      <4>2. a + NodeSize + nd[a].size = TotalSize
        BY <4>1, <2>2, HeaderFacts
      <4> QED BY <4>1, <4>2 DEF End
    <3> QED BY <3>1, <3>2, <3>3
  <2>3. ASSUME NEW a \in DOMAIN nn, nn[a].next # Null
        PROVE  /\ nn[a].next \in DOMAIN nn
               /\ nn[a].next = End(nn, a)
               /\ nn[nn[a].next].prev = a
    <3>1. CASE a = n
      BY <3>1, <2>3, <1>3, <1>6, <1>8, <1>9 DEF End
    <3>2. CASE a = b
      BY <3>2, <1>1, <1>3, <1>8, HeapAssumption DEF End
    <3>3. CASE a # n /\ a # b
      <4>1. a \in DOMAIN nd /\ nn[a].next = nd[a].next /\ nn[a].size = nd[a].size
        BY <3>3, <1>3, <1>6, <1>7, <1>8, HeapAssumption DEF Null, WellFormed, IsList, Addr
      <4>2. /\ nd[a].next \in DOMAIN nd
            /\ nd[a].next = a + NodeSize + nd[a].size
            /\ nd[nd[a].next].prev = a
        BY <4>1, <2>3, HeaderFacts
      <4>3. nd[a].next # c
        BY <4>2, <3>3, HeaderFacts DEF c
      <4>4. nn[nd[a].next].prev = nd[nd[a].next].prev
        BY <4>2, <4>3, <1>7, <1>8
      <4> QED BY <4>1, <4>2, <4>4, <1>3 DEF End
    <3> QED BY <3>1, <3>2, <3>3
  <2>4. ASSUME NEW a \in DOMAIN nn, a # 0
        PROVE  nn[a].prev \in DOMAIN nn /\ nn[nn[a].prev].next = a
    <3>1. CASE a = n
      BY <3>1, <1>3, <1>8
    <3>2. CASE c # Null /\ a = c
      BY <3>2, <1>3, <1>8
    <3>3. CASE a \in DOMAIN nd /\ a # c
      <4>1. nn[a].prev = nd[a].prev
        BY <3>3, <1>7, <1>8
      <4>2. nd[a].prev \in DOMAIN nd /\ nd[nd[a].prev].next = a
        BY <3>3, <2>4, HeaderFacts
      <4>3. nd[a].prev # b
        BY <4>2, <3>3 DEF c
      <4>4. nn[nd[a].prev].next = nd[nd[a].prev].next
        BY <4>2, <4>3, <1>6, <1>7, <1>8, HeapAssumption DEF Null, WellFormed, IsList, Addr
      <4> QED BY <4>1, <4>2, <4>4, <1>3
    <3> QED BY <3>1, <3>2, <3>3, <1>3, HeapAssumption DEF Null, WellFormed, IsList, Addr
  <2> QED BY <2>1, <2>2, <2>3, <2>4 DEF Linked
<1>13. Separate(nn)
  <2> SUFFICES ASSUME NEW x \in DOMAIN nn, NEW y \in DOMAIN nn, x < y
               PROVE  End(nn, x) <= y
    BY DEF Separate
  <2>1. \A z \in DOMAIN nd : z \in Nat /\ nd[z].size \in Nat
    BY HeaderFacts
  <2>2. \A z, w \in DOMAIN nd : z < w => z + NodeSize + nd[z].size <= w
    BY DEF WellFormed, Separate, End
  <2>3. \A z \in DOMAIN nd : z # b => nn[z].size = nd[z].size
    BY <1>6, <1>7, <1>8, HeapAssumption DEF Null, WellFormed, IsList, Addr
  <2>4. CASE x = n
    <3>1. y \in DOMAIN nd /\ y > b
      BY <2>1, <2>4, <1>1, <1>3, HeapAssumption
    <3> QED BY <3>1, <2>1, <2>2, <2>4, <1>1, <1>8, HeapAssumption DEF End
  <2>5. CASE x \in DOMAIN nd /\ y = n
    <3>1. CASE x = b
      BY <3>1, <2>5, <1>1, <1>8, HeapAssumption DEF End
    <3>2. CASE x < b
      BY <3>2, <2>1, <2>2, <2>3, <2>5, <1>1, HeapAssumption DEF End
    <3>3. CASE b < x
      BY <3>3, <2>1, <2>2, <2>5, <1>1, HeapAssumption DEF End
    <3> QED BY <3>1, <3>2, <3>3, <2>1, <2>5
  <2>6. CASE x \in DOMAIN nd /\ y \in DOMAIN nd
    <3>1. x + NodeSize + nd[x].size <= y
      BY <2>2, <2>6
    <3>2. nn[x].size <= nd[x].size /\ nn[x].size \in Int
      BY <2>1, <2>3, <2>6, <1>1, <1>8, HeapAssumption
    <3> QED BY <3>1, <3>2, <2>1, <2>6, HeapAssumption DEF End
  <2> QED BY <2>4, <2>5, <2>6, <1>3
<1> QED BY <1>11, <1>12, <1>13 DEF WellFormed, nn

\* A block that swallows its successor leaves a well-formed list.
LEMMA AbsorbWellFormed ==
  ASSUME NEW nd, WellFormed(nd), NEW a \in DOMAIN nd, NEW b, b = nd[a].next, b # Null
  PROVE  WellFormed(Absorb(nd, a, b))
<1> DEFINE nn == Absorb(nd, a, b)
           c == nd[b].next
<1>1. /\ a \in Nat /\ nd[a].size \in Nat
      /\ b \in DOMAIN nd /\ b = a + NodeSize + nd[a].size /\ b > a
      /\ nd[b].prev = a
  BY HeaderFacts
<1>2. /\ b \in Nat /\ nd[b].size \in Nat
      /\ b + NodeSize + nd[b].size <= TotalSize
      /\ c # Null => /\ c \in DOMAIN nd /\ c \in Nat /\ c = b + NodeSize + nd[b].size
                     /\ c > b /\ nd[c].prev = b
      /\ c = Null => b + NodeSize + nd[b].size = TotalSize
  BY <1>1, HeaderFacts
<1>3. DOMAIN nn = DOMAIN nd \ {b}
  BY DEF Absorb
<1>4. a # b /\ a # c /\ b # c
  BY <1>1, <1>2 DEF Null
<1>5. nn[a] = [nd[a] EXCEPT !.size = nd[a].size + nd[b].size + NodeSize, !.next = c]
  BY <1>4 DEF Absorb
<1>6. c # Null => nn[c] = [nd[c] EXCEPT !.prev = a]
  BY <1>2, <1>4 DEF Absorb
<1>7. \A x \in DOMAIN nd : x # a /\ x # b /\ x # c => nn[x] = nd[x]
  BY DEF Absorb
<1>8. /\ nn[a].size = nd[a].size + nd[b].size + NodeSize /\ nn[a].used = nd[a].used
      /\ nn[a].next = c /\ nn[a].prev = nd[a].prev
      /\ c # Null => /\ nn[c].size = nd[c].size /\ nn[c].used = nd[c].used
                     /\ nn[c].next = nd[c].next /\ nn[c].prev = a
  <2>1. nd[a] \in dynamic_mem_node_t /\ (c # Null => nd[c] \in dynamic_mem_node_t)
    BY <1>2, HeaderFacts
  <2> QED BY <2>1, <1>5, <1>6 DEF dynamic_mem_node_t
<1>9. \A x \in DOMAIN nd : x # Null
  BY HeapAssumption DEF Null, WellFormed, IsList, Addr
<1> HIDE DEF nn, c
<1>10. IsList(nn)
  <2>1. DOMAIN nn \subseteq Addr
    BY <1>3 DEF WellFormed, IsList
  <2>2. nn = [x \in DOMAIN nn |-> nn[x]]
    BY DEF nn, Absorb
  <2>3. ASSUME NEW x \in DOMAIN nn PROVE nn[x] \in dynamic_mem_node_t
    <3>1. CASE x = a
      <4>1. nd[a] \in dynamic_mem_node_t
        BY HeaderFacts
      <4>2. c \in Addr \cup {Null}
        BY <1>2 DEF WellFormed, IsList
      <4>3. nd[a].size + nd[b].size + NodeSize \in 0 .. TotalSize
        BY <1>1, <1>2, HeapAssumption
      <4> QED BY <3>1, <4>1, <4>2, <4>3, <1>5 DEF dynamic_mem_node_t
    <3>2. CASE c # Null /\ x = c
      <4>1. nd[c] \in dynamic_mem_node_t /\ a \in Addr
        BY <3>2, <1>2, HeaderFacts DEF WellFormed, IsList
      <4> QED BY <3>2, <4>1, <1>6 DEF dynamic_mem_node_t
    <3>3. CASE x # a /\ x # c
      <4>1. x \in DOMAIN nd /\ nn[x] = nd[x]
        BY <3>3, <1>3, <1>7
      <4> QED BY <4>1, HeaderFacts
    <3> QED BY <3>1, <3>2, <3>3, <1>3, <1>9
  <2> QED BY <2>1, <2>2, <2>3 DEF IsList
<1>11. \A x \in DOMAIN nn : x # a => nn[x].next = nd[x].next /\ nn[x].size = nd[x].size
  BY <1>3, <1>7, <1>8, <1>9
<1>12. Linked(nn)
  <2>1. 0 \in DOMAIN nn /\ nn[0].prev = Null
    <3>1. 0 \in DOMAIN nd /\ nd[0].prev = Null
      BY DEF WellFormed, Linked
    <3>2. 0 # c /\ 0 # b
      BY <1>1, <1>2, HeapAssumption DEF Null
    <3> QED BY <3>1, <3>2, <1>3, <1>7, <1>8
  <2>2. ASSUME NEW x \in DOMAIN nn, nn[x].next = Null
        PROVE  End(nn, x) = TotalSize
    <3>1. CASE x = a
      BY <3>1, <2>2, <1>1, <1>2, <1>8, HeapAssumption DEF End
    <3>2. CASE x # a
      <4>1. x + NodeSize + nd[x].size = TotalSize
        BY <3>2, <2>2, <1>3, <1>11, HeaderFacts
      <4> QED BY <3>2, <4>1, <1>11 DEF End
    <3> QED BY <3>1, <3>2
  <2>3. ASSUME NEW x \in DOMAIN nn, nn[x].next # Null
        PROVE  /\ nn[x].next \in DOMAIN nn
               /\ nn[x].next = End(nn, x)
               /\ nn[nn[x].next].prev = x
    <3>1. CASE x = a
      <4>1. c # Null /\ c \in DOMAIN nn
        BY <3>1, <2>3, <1>2, <1>3, <1>4, <1>8
      <4>2. c = a + NodeSize + (nd[a].size + nd[b].size + NodeSize)
        BY <4>1, <1>1, <1>2, HeapAssumption
      <4> QED BY <3>1, <4>1, <4>2, <1>8 DEF End
    <3>2. CASE x # a
      <4>1. x \in DOMAIN nd /\ nn[x].next = nd[x].next /\ nn[x].size = nd[x].size
        BY <3>2, <1>3, <1>11
      <4>2. /\ nd[x].next \in DOMAIN nd
            /\ nd[x].next = x + NodeSize + nd[x].size
            /\ nd[nd[x].next].prev = x
        BY <4>1, <2>3, HeaderFacts
      <4>3. nd[x].next # b /\ x # b
        BY <4>2, <3>2, <1>1, <1>3
      <4>4. nd[x].next # c
        BY <4>2, <4>3, <1>2, <2>3, <4>1
      <4>5. nn[nd[x].next].prev = nd[nd[x].next].prev
        BY <4>2, <4>3, <4>4, <1>7, <1>8
      <4> QED BY <4>1, <4>2, <4>3, <4>5, <1>3 DEF End
    <3> QED BY <3>1, <3>2
  <2>4. ASSUME NEW x \in DOMAIN nn, x # 0
        PROVE  nn[x].prev \in DOMAIN nn /\ nn[nn[x].prev].next = x
    <3>1. CASE c # Null /\ x = c
      BY <3>1, <1>3, <1>4, <1>8
    <3>2. CASE x # c
      <4>1. x \in DOMAIN nd /\ x # b /\ nn[x].prev = nd[x].prev
        BY <3>2, <1>3, <1>7, <1>8
      <4>2. nd[x].prev \in DOMAIN nd /\ nd[nd[x].prev].next = x
        BY <4>1, <2>4, HeaderFacts
      <4>3. nd[x].prev # a /\ nd[x].prev # b
        BY <4>1, <4>2, <3>2 DEF c
      <4> QED BY <4>1, <4>2, <4>3, <1>3, <1>11
    <3> QED BY <3>1, <3>2, <1>3, <1>9
  <2> QED BY <2>1, <2>2, <2>3, <2>4 DEF Linked
<1>13. Separate(nn)
  <2> SUFFICES ASSUME NEW x \in DOMAIN nn, NEW y \in DOMAIN nn, x < y
               PROVE  End(nn, x) <= y
    BY DEF Separate
  <2>1. \A z \in DOMAIN nd : z \in Nat /\ nd[z].size \in Nat
    BY HeaderFacts
  <2>2. \A z, w \in DOMAIN nd : z < w => z + NodeSize + nd[z].size <= w
    BY DEF WellFormed, Separate, End
  <2>3. x \in DOMAIN nd /\ y \in DOMAIN nd /\ x # b /\ y # b
    BY <1>3
  <2>4. CASE x = a
    <3>1. a + NodeSize + nd[a].size <= y
      BY <2>2, <2>3, <2>4
    <3>2. b < y
      BY <3>1, <2>1, <2>3, <1>1
    <3>3. b + NodeSize + nd[b].size <= y
      BY <3>2, <2>2, <2>3, <1>1
    <3> QED BY <3>3, <2>1, <2>3, <2>4, <1>1, <1>2, <1>8, HeapAssumption DEF End
  <2>5. CASE x # a
    BY <2>2, <2>3, <2>5, <1>11 DEF End
  <2> QED BY <2>4, <2>5
<1> QED BY <1>10, <1>12, <1>13 DEF WellFormed, nn

\* nn is nd with block b gone into its predecessor a, field by field.
Absorbed(nd, nn, a, b) ==
  /\ DOMAIN nn = DOMAIN nd \ {b}
  /\ a # b /\ b \in DOMAIN nd
  /\ nn[a].next = nd[b].next
  /\ nn[a].prev = nd[a].prev
  /\ \A x \in DOMAIN nd \ {b} : nn[x].used = nd[x].used
  /\ \A x \in DOMAIN nd \ {a, b} : nn[x].next = nd[x].next /\ nn[x].size = nd[x].size

\* What Absorb changes.
LEMMA AbsorbFields ==
  ASSUME NEW nd, WellFormed(nd), NEW a \in DOMAIN nd, NEW b, b = nd[a].next, b # Null
  PROVE  Absorbed(nd, Absorb(nd, a, b), a, b)
<1>1. /\ a \in Nat /\ b \in DOMAIN nd /\ a < b
      /\ nd[b].next # Null => b < nd[b].next /\ b \in Nat
  BY HeaderFacts
<1>2. a # b /\ a # nd[b].next
  BY <1>1 DEF Null
<1>3. \A x \in DOMAIN nd : nd[x] \in dynamic_mem_node_t
  BY HeaderFacts
<1> QED BY <1>1, <1>2, <1>3 DEF Absorb, Absorbed, dynamic_mem_node_t

\* The used flags play no part in the layout of the list.
LEMMA SameLayout ==
  ASSUME NEW nd, NEW nn, WellFormed(nd), IsList(nn), DOMAIN nn = DOMAIN nd,
         \A x \in DOMAIN nd : /\ nn[x].size = nd[x].size
                             /\ nn[x].next = nd[x].next
                             /\ nn[x].prev = nd[x].prev
  PROVE  WellFormed(nn)
<1>1. Linked(nn)
  <2>1. 0 \in DOMAIN nd /\ nd[0].prev = Null
    BY DEF WellFormed, Linked
  <2>2. ASSUME NEW x \in DOMAIN nd
        PROVE  /\ nn[x].next = Null => End(nn, x) = TotalSize
               /\ nn[x].next # Null => /\ nn[x].next \in DOMAIN nn
                                       /\ nn[x].next = End(nn, x)
                                       /\ nn[nn[x].next].prev = x
               /\ x # 0 => /\ nn[x].prev \in DOMAIN nn
                           /\ nn[nn[x].prev].next = x
    BY HeaderFacts DEF End
  <2> QED BY <2>1, <2>2 DEF Linked
<1>2. Separate(nn)
  BY DEF WellFormed, Separate, End
<1> QED BY <1>1, <1>2 DEF WellFormed

SetUsed(nd, b, v) == [nd EXCEPT ![b].used = v]

\* nn is nd but for the used flag of block b.
OnlyUsedDiffers(nd, nn, b) ==
  /\ DOMAIN nn = DOMAIN nd
  /\ \A x \in DOMAIN nd : /\ nn[x].size = nd[x].size
                         /\ nn[x].next = nd[x].next
                         /\ nn[x].prev = nd[x].prev
  /\ \A x \in DOMAIN nd \ {b} : nn[x].used = nd[x].used

\* Setting one block's used flag.
LEMMA SetUsedFields ==
  ASSUME NEW nd, WellFormed(nd), NEW b \in DOMAIN nd, NEW v \in BOOLEAN
  PROVE  /\ WellFormed(SetUsed(nd, b, v))
         /\ OnlyUsedDiffers(nd, SetUsed(nd, b, v), b)
         /\ SetUsed(nd, b, v)[b].used <=> v
<1> DEFINE nn == SetUsed(nd, b, v)
<1>1. \A x \in DOMAIN nd : nd[x] \in dynamic_mem_node_t
  BY HeaderFacts
<1>2. nn = [x \in DOMAIN nd |-> IF x = b THEN [nd[b] EXCEPT !.used = v] ELSE nd[x]]
  BY DEF WellFormed, IsList, SetUsed
<1> HIDE DEF nn
<1>3. DOMAIN nn = DOMAIN nd /\ nn[b] = [nd[b] EXCEPT !.used = v]
      /\ \A x \in DOMAIN nd \ {b} : nn[x] = nd[x]
  BY <1>2
<1>4. /\ nn[b] \in dynamic_mem_node_t
      /\ nn[b].used = v
      /\ nn[b].size = nd[b].size /\ nn[b].next = nd[b].next /\ nn[b].prev = nd[b].prev
  BY <1>1, <1>3 DEF dynamic_mem_node_t
<1>5. \A x \in DOMAIN nd : /\ nn[x].size = nd[x].size
                           /\ nn[x].next = nd[x].next
                           /\ nn[x].prev = nd[x].prev
  BY <1>3, <1>4
<1>6. IsList(nn)
  <2>1. \A x \in DOMAIN nn : nn[x] \in dynamic_mem_node_t
    BY <1>1, <1>3, <1>4
  <2>2. nn = [x \in DOMAIN nn |-> nn[x]]
    BY <1>2
  <2> QED BY <2>1, <2>2, <1>3 DEF WellFormed, IsList
<1>7. WellFormed(nn)
  BY <1>3, <1>5, <1>6, SameLayout
<1> QED BY <1>3, <1>4, <1>5, <1>7 DEF nn, OnlyUsedDiffers

\* malloc keeps the list well formed and coalesced, and adds exactly one block
\* in use, of the size asked for or more.
LEMMA TakeProperties ==
  ASSUME NEW nd, WellFormed(nd), NoFreeNeighbours(nd), NEW size \in Nat,
         NEW b \in Candidates(nd, size)
  PROVE  LET nn == Take(nd, b, size)
             t == Taken(nd, b, size)
         IN  /\ WellFormed(nn)
             /\ NoFreeNeighbours(nn)
             /\ DOMAIN nn = DOMAIN nd \cup {t}
             /\ t \notin Used(nd)
             /\ Used(nn) = Used(nd) \cup {t}
             /\ t \in Nat
             /\ nn[t].size >= size
             /\ t + NodeSize + size <= TotalSize
             /\ \A x \in Used(nd) : nn[x].size = nd[x].size
<1> DEFINE nn == Take(nd, b, size)
           t == Taken(nd, b, size)
           c == nd[b].next
<1>1. b \in DOMAIN nd /\ ~nd[b].used /\ nd[b].size >= size
  BY DEF Candidates
<1>2. /\ b \in Nat /\ nd[b].size \in Nat /\ b + NodeSize + nd[b].size <= TotalSize
      /\ c # Null => c \in DOMAIN nd /\ c > b
      /\ nd[b] \in dynamic_mem_node_t
  BY <1>1, HeaderFacts
<1>3. \A x \in DOMAIN nd : x # Null /\ nd[x] \in dynamic_mem_node_t
  BY HeaderFacts, HeapAssumption DEF Null
<1>4. CASE Splits(nd, b, size)
  <2>1. nn = Split(nd, b, size) /\ t = TailOf(nd, b, size)
    BY <1>4 DEF Take, Taken
  <2>2. WellFormed(nn)
    BY <2>1, <1>1, <1>4, SplitWellFormed
  <2>3. t \in Nat /\ b < t /\ t < End(nd, b) /\ t + NodeSize + size <= TotalSize
    BY <2>1, <1>2, <1>4, HeapAssumption DEF TailOf, Splits, End
  <2>4. t \notin DOMAIN nd
    <3>1. b < t => End(nd, b) <= t \/ t \notin DOMAIN nd
      BY <1>1 DEF WellFormed, Separate
    <3> QED BY <3>1, <2>3, <1>2, HeapAssumption DEF End
  <2>5. /\ DOMAIN nn = DOMAIN nd \cup {t}
        /\ nn[t].used /\ nn[t].size = size /\ nn[t].next = c
        /\ nn[b].used = nd[b].used /\ nn[b].next = t
        /\ \A x \in DOMAIN nd \ {b} : /\ nn[x].used = nd[x].used
                                     /\ nn[x].size = nd[x].size
                                     /\ nn[x].next = nd[x].next
    <3>1. DOMAIN nn = DOMAIN nd \cup {t} /\ t # b /\ t # c
      BY <2>1, <2>3, <2>4, <1>1, <1>2 DEF Split, Null
    <3>2. nn[t] = [size |-> size, used |-> TRUE, next |-> c, prev |-> b]
      BY <2>1 DEF Split
    <3>3. nn[b] = [nd[b] EXCEPT !.next = t, !.size = nd[b].size - (size + NodeSize)]
      BY <2>1, <3>1, <1>1 DEF Split
    <3>4. \A x \in DOMAIN nd \ {b} : nn[x] = nd[x] \/ nn[x] = [nd[x] EXCEPT !.prev = t]
      BY <2>1, <2>4 DEF Split
    <3> QED BY <3>1, <3>2, <3>3, <3>4, <1>2, <1>3 DEF dynamic_mem_node_t
  <2> HIDE DEF nn, t, c
  <2>6. t \notin Used(nd) /\ Used(nn) = Used(nd) \cup {t}
    BY <2>4, <2>5, <1>1 DEF Used
  <2>7. NoFreeNeighbours(nn)
    <3> SUFFICES ASSUME NEW x \in DOMAIN nn, ~nn[x].used, nn[x].next # Null
                 PROVE  nn[nn[x].next].used
      BY DEF NoFreeNeighbours
    <3>1. CASE x = b
      BY <3>1, <2>5
    <3>2. CASE x # b
      <4>1. x \in DOMAIN nd /\ ~nd[x].used /\ nn[x].next = nd[x].next
        BY <3>2, <2>5
      <4>2. nd[nd[x].next].used /\ nd[x].next \in DOMAIN nd
        BY <4>1, HeaderFacts DEF NoFreeNeighbours
      <4> QED BY <4>1, <4>2, <2>5, <1>1
    <3> QED BY <3>1, <3>2
  <2>8. \A x \in Used(nd) : nn[x].size = nd[x].size
    BY <2>5, <1>1 DEF Used
  <2> QED BY <2>2, <2>3, <2>5, <2>6, <2>7, <2>8 DEF nn, t
<1>5. CASE ~Splits(nd, b, size)
  <2>1. nn = SetUsed(nd, b, TRUE) /\ t = b
    BY <1>5, Zenon DEF Take, Taken, SetUsed
  <2>2. /\ WellFormed(nn)
        /\ DOMAIN nn = DOMAIN nd
        /\ nn[b].used
        /\ \A x \in DOMAIN nd : nn[x].size = nd[x].size /\ nn[x].next = nd[x].next
        /\ \A x \in DOMAIN nd \ {b} : nn[x].used = nd[x].used
    <3>1. WellFormed(nn) /\ OnlyUsedDiffers(nd, nn, b) /\ (nn[b].used <=> TRUE)
      BY <2>1, <1>1, SetUsedFields, Zenon
    <3> HIDE DEF nn
    <3> QED BY <3>1 DEF OnlyUsedDiffers
  <2>3. t = b
    BY <2>1
  <2> HIDE DEF nn, t, c
  <2>5. b \notin Used(nd) /\ Used(nn) = Used(nd) \cup {b}
    BY <2>2, <1>1 DEF Used
  <2>6. NoFreeNeighbours(nn)
    <3> SUFFICES ASSUME NEW x \in DOMAIN nn, ~nn[x].used, nn[x].next # Null
                 PROVE  nn[nn[x].next].used
      BY DEF NoFreeNeighbours
    <3>1. x \in DOMAIN nd /\ x # b /\ ~nd[x].used /\ nn[x].next = nd[x].next
      BY <2>2
    <3>2. nd[nd[x].next].used /\ nd[x].next \in DOMAIN nd
      BY <3>1, HeaderFacts DEF NoFreeNeighbours
    <3> QED BY <3>1, <3>2, <2>2
  <2>7. t \in Nat /\ t + NodeSize + size <= TotalSize /\ DOMAIN nn = DOMAIN nd \cup {t}
    <3>1. t \in Nat /\ t + NodeSize + size <= TotalSize
      BY <2>3, <1>1, <1>2, HeapAssumption
    <3>2. DOMAIN nn = DOMAIN nd \cup {t}
      BY <2>2, <2>3, <1>1
    <3> QED BY <3>1, <3>2
  <2>8. nn[t].size >= size /\ \A x \in Used(nd) : nn[x].size = nd[x].size
    BY <2>2, <2>3, <1>1 DEF Used
  <2> QED BY <2>2, <2>3, <2>5, <2>6, <2>7, <2>8 DEF nn, t
<1> QED BY <1>4, <1>5

\* A list with no two free neighbours but perhaps p and a, where p precedes a.
FreeNeighboursOnlyBefore(nd, a) ==
  \A x \in DOMAIN nd :
    (~nd[x].used /\ nd[x].next # Null /\ nd[x].next # a) => nd[nd[x].next].used

\* mem_free keeps the list well formed and coalesced, removes exactly one block
\* from use, leaves the others' sizes alone and links no new header.
LEMMA ReleaseProperties ==
  ASSUME NEW nd, WellFormed(nd), NoFreeNeighbours(nd), NEW a \in Used(nd)
  PROVE  LET nn == Release(nd, a)
         IN  /\ WellFormed(nn)
             /\ NoFreeNeighbours(nn)
             /\ Used(nn) = Used(nd) \ {a}
             /\ \A x \in Used(nn) : nn[x].size = nd[x].size
             /\ DOMAIN nn \subseteq DOMAIN nd
<1> DEFINE n1 == SetUsed(nd, a, FALSE)
           n2 == merge_next_node_into_current(n1, a)
           n3 == merge_current_node_into_previous(n2, a)
<1>1. a \in DOMAIN nd
  BY DEF Used
<1>2. /\ WellFormed(n1)
      /\ DOMAIN n1 = DOMAIN nd
      /\ ~n1[a].used
      /\ \A x \in DOMAIN nd : n1[x].size = nd[x].size /\ n1[x].next = nd[x].next
      /\ \A x \in DOMAIN nd \ {a} : n1[x].used = nd[x].used
  <2>1. WellFormed(n1) /\ OnlyUsedDiffers(nd, n1, a) /\ (n1[a].used <=> FALSE)
    BY <1>1, SetUsedFields, Zenon
  <2> HIDE DEF n1
  <2> QED BY <2>1 DEF OnlyUsedDiffers
<1> HIDE DEF n1
<1>3. /\ WellFormed(n2)
      /\ a \in DOMAIN n2 /\ ~n2[a].used
      /\ FreeNeighboursOnlyBefore(n2, a)
      /\ DOMAIN n2 \subseteq DOMAIN nd
      /\ Used(n2) = Used(nd) \ {a}
      /\ \A x \in Used(n2) : n2[x].size = nd[x].size
  <2>1. CASE n1[a].next # Null /\ ~n1[n1[a].next].used
    <3> DEFINE b == n1[a].next
    <3>1. n2 = Absorb(n1, a, b)
      BY <2>1 DEF merge_next_node_into_current
    <3> HIDE DEF n2
    <3>2. WellFormed(n2)
      BY <3>1, <2>1, <1>1, <1>2, AbsorbWellFormed
    <3>3. /\ DOMAIN n2 = DOMAIN n1 \ {b}
          /\ a # b /\ b \in DOMAIN n1
          /\ n2[a].next = n1[b].next
          /\ \A x \in DOMAIN n1 \ {b} : n2[x].used = n1[x].used
          /\ \A x \in DOMAIN n1 \ {a, b} : /\ n2[x].next = n1[x].next
                                          /\ n2[x].size = n1[x].size
      <4>1. Absorbed(n1, n2, a, b)
        BY <3>1, <2>1, <1>1, <1>2, AbsorbFields, Zenon
      <4> QED BY <4>1 DEF Absorbed
    <3>4. FreeNeighboursOnlyBefore(n2, a)
      <4> SUFFICES ASSUME NEW x \in DOMAIN n2, ~n2[x].used,
                          n2[x].next # Null, n2[x].next # a
                   PROVE  n2[n2[x].next].used
        BY DEF FreeNeighboursOnlyBefore
      <4>1. n2[x].next \in DOMAIN n2
        BY <3>2, HeaderFacts
      <4>2. CASE x = a
        <5>1. ~nd[b].used /\ nd[b].next = n2[a].next /\ b \in DOMAIN nd
          BY <3>3, <2>1, <1>2
        <5>2. nd[nd[b].next].used
          BY <5>1, <4>2 DEF NoFreeNeighbours
        <5> QED BY <5>1, <5>2, <4>1, <4>2, <3>3, <1>2
      <4>3. CASE x # a
        <5>1. ~nd[x].used /\ nd[x].next = n2[x].next /\ x \in DOMAIN nd
          BY <4>3, <3>3, <1>2
        <5>2. nd[nd[x].next].used
          BY <5>1 DEF NoFreeNeighbours
        <5> QED BY <5>1, <5>2, <4>1, <3>3, <1>2
      <4> QED BY <4>2, <4>3
    <3>5. Used(n2) = Used(nd) \ {a}
      BY <3>3, <2>1, <1>2 DEF Used
    <3>6. \A x \in Used(n2) : n2[x].size = nd[x].size
      BY <3>3, <3>5, <1>2 DEF Used
    <3> QED BY <3>2, <3>3, <3>4, <3>5, <3>6, <1>1, <1>2
  <2>2. CASE ~(n1[a].next # Null /\ ~n1[n1[a].next].used)
    <3>1. n2 = n1
      BY <2>2, Zenon DEF merge_next_node_into_current
    <3> HIDE DEF n2
    <3>2. FreeNeighboursOnlyBefore(n1, a)
      <4> SUFFICES ASSUME NEW x \in DOMAIN n1, ~n1[x].used,
                          n1[x].next # Null, n1[x].next # a
                   PROVE  n1[n1[x].next].used
        BY DEF FreeNeighboursOnlyBefore
      <4>1. CASE x = a
        BY <4>1, <2>2
      <4>2. CASE x # a
        <5>1. ~nd[x].used /\ nd[x].next = n1[x].next /\ x \in DOMAIN nd
          BY <4>2, <1>2
        <5>2. nd[nd[x].next].used /\ nd[x].next \in DOMAIN nd
          BY <5>1, HeaderFacts DEF NoFreeNeighbours
        <5> QED BY <5>1, <5>2, <1>2
      <4> QED BY <4>1, <4>2
    <3>3. Used(n1) = Used(nd) \ {a}
      BY <1>2 DEF Used
    <3>4. \A x \in Used(n1) : n1[x].size = nd[x].size
      BY <1>2 DEF Used
    <3> QED BY <3>1, <3>2, <3>3, <3>4, <1>1, <1>2
  <2> QED BY <2>1, <2>2
<1> HIDE DEF n2
<1>4. /\ WellFormed(n3)
      /\ NoFreeNeighbours(n3)
      /\ DOMAIN n3 \subseteq DOMAIN nd
      /\ Used(n3) = Used(nd) \ {a}
      /\ \A x \in Used(n3) : n3[x].size = nd[x].size
  <2> DEFINE p == n2[a].prev
  <2>1. p # Null => p \in DOMAIN n2 /\ n2[p].next = a
    BY <1>3, HeaderFacts
  <2>2. \A x \in DOMAIN n2 : n2[x].next = a => x = p
    BY <1>3, HeaderFacts, HeapAssumption DEF Null
  <2>3. a # Null
    BY <1>3, HeaderFacts, HeapAssumption DEF Null
  <2>4. CASE p # Null /\ ~n2[p].used
    <3>1. n3 = Absorb(n2, p, a)
      BY <2>4 DEF merge_current_node_into_previous
    <3> HIDE DEF n3, p
    <3>2. WellFormed(n3)
      BY <3>1, <2>1, <2>3, <2>4, <1>3, AbsorbWellFormed
    <3>3. /\ DOMAIN n3 = DOMAIN n2 \ {a}
          /\ p # a
          /\ n3[p].next = n2[a].next
          /\ \A x \in DOMAIN n2 \ {a} : n3[x].used = n2[x].used
          /\ \A x \in DOMAIN n2 \ {p, a} : /\ n3[x].next = n2[x].next
                                          /\ n3[x].size = n2[x].size
      <4>1. Absorbed(n2, n3, p, a)
        BY <3>1, <2>1, <2>3, <2>4, <1>3, AbsorbFields, Zenon
      <4> QED BY <4>1 DEF Absorbed
    <3>4. NoFreeNeighbours(n3)
      <4> SUFFICES ASSUME NEW x \in DOMAIN n3, ~n3[x].used, n3[x].next # Null
                   PROVE  n3[n3[x].next].used
        BY DEF NoFreeNeighbours
      <4>1. n3[x].next \in DOMAIN n3
        BY <3>2, HeaderFacts
      <4>2. CASE x = p
        <5>1. n2[n2[a].next].used
          BY <4>1, <4>2, <3>3, <1>3 DEF FreeNeighboursOnlyBefore
        <5> QED BY <5>1, <4>1, <4>2, <3>3
      <4>3. CASE x # p
        <5>1. n2[n2[x].next].used
          BY <4>1, <4>3, <3>3, <1>3 DEF FreeNeighboursOnlyBefore
        <5> QED BY <5>1, <4>1, <4>3, <3>3
      <4> QED BY <4>2, <4>3
    <3>5. Used(n3) = Used(nd) \ {a}
      BY <3>3, <1>3 DEF Used
    <3>6. \A x \in Used(n3) : n3[x].size = nd[x].size
      BY <3>3, <2>4, <1>3 DEF Used
    <3> QED BY <3>2, <3>3, <3>4, <3>5, <3>6, <1>3
  <2>5. CASE ~(p # Null /\ ~n2[p].used)
    <3>1. n3 = n2
      BY <2>5, Zenon DEF merge_current_node_into_previous
    <3> HIDE DEF n3, p
    <3>2. NoFreeNeighbours(n2)
      <4> SUFFICES ASSUME NEW x \in DOMAIN n2, ~n2[x].used, n2[x].next # Null
                   PROVE  n2[n2[x].next].used
        BY DEF NoFreeNeighbours
      <4>1. n2[x].next # a
        BY <2>2, <2>5, <1>3, HeaderFacts, HeapAssumption DEF Null
      <4> QED BY <4>1, <1>3 DEF FreeNeighboursOnlyBefore
    <3> QED BY <3>1, <3>2, <1>3
  <2> QED BY <2>4, <2>5
<1>5. Release(nd, a) = n3
  BY Zenon DEF Release, n1, n2, n3, SetUsed
<1> HIDE DEF n3
<1> QED BY <1>4, <1>5

-----------------------------------------------------------------------------
(***************************************************************************)
(* The inductive invariant, as a predicate of a list, the callers' blocks  *)
(* and the cells, so that realloc can be followed through its malloc, its  *)
(* copy and its mem_free.                                                  *)
(***************************************************************************)
Good(nd, hd, m) ==
  /\ WellFormed(nd)
  /\ NoFreeNeighbours(nd)
  /\ DOMAIN hd \subseteq 0 .. TotalSize
  /\ hd \in [DOMAIN hd -> Nat]
  /\ m \in [Addr -> Cells]
  /\ Used(nd) = {HeaderOf(p) : p \in DOMAIN hd}
  /\ \A p \in DOMAIN hd : hd[p] <= nd[HeaderOf(p)].size
  /\ \A a \in DOMAIN nd : \A c \in a .. a + NodeSize - 1 : m[c] = Hdr

IInv == Good(node, held, mem)

\* A block held lies in the arena behind a linked header that is in use.
LEMMA HeldFacts ==
  ASSUME NEW nd, NEW hd, NEW m, Good(nd, hd, m), NEW p \in DOMAIN hd
  PROVE  /\ p \in Nat /\ hd[p] \in Nat
         /\ HeaderOf(p) \in Used(nd) /\ HeaderOf(p) \in DOMAIN nd
         /\ nd[HeaderOf(p)].size \in Nat
         /\ hd[p] <= nd[HeaderOf(p)].size
         /\ p + nd[HeaderOf(p)].size <= TotalSize
         /\ p = HeaderOf(p) + NodeSize
<1>1. p \in Nat /\ hd[p] \in Nat /\ HeaderOf(p) \in Used(nd)
      /\ hd[p] <= nd[HeaderOf(p)].size
  BY HeapAssumption DEF Good
<1>2. HeaderOf(p) \in DOMAIN nd
  BY <1>1 DEF Used
<1>3. /\ nd[HeaderOf(p)].size \in Nat /\ HeaderOf(p) \in Nat
      /\ HeaderOf(p) + NodeSize + nd[HeaderOf(p)].size <= TotalSize
  BY <1>2, HeaderFacts DEF Good
<1>4. p = HeaderOf(p) + NodeSize
  BY <1>1, HeapAssumption DEF HeaderOf
<1> QED BY <1>1, <1>2, <1>3, <1>4, HeapAssumption

\* Stores inside a held block reach no header: the layout survives them.
LEMMA StoreGood ==
  ASSUME NEW nd, NEW hd, NEW m, Good(nd, hd, m), NEW p \in DOMAIN hd,
         NEW n \in Nat, n <= hd[p], NEW m2 \in [Addr -> Cells],
         \A c \in Addr : c \notin p .. p + n - 1 => m2[c] = m[c]
  PROVE  Good(nd, hd, m2)
<1>1. ASSUME NEW a \in DOMAIN nd, NEW c \in a .. a + NodeSize - 1
      PROVE  m2[c] = Hdr
  <2> DEFINE h == HeaderOf(p)
  <2>1. /\ p \in Nat /\ hd[p] \in Nat /\ h \in DOMAIN nd /\ p = h + NodeSize
        /\ nd[h].size \in Nat /\ hd[p] <= nd[h].size
    BY HeldFacts
  <2>2. a \in Nat /\ h \in Nat /\ nd[a].size \in Nat /\ a + NodeSize + nd[a].size <= TotalSize
    BY <2>1, HeaderFacts DEF Good
  <2>3. /\ a < h => a + NodeSize + nd[a].size <= h
        /\ h < a => h + NodeSize + nd[h].size <= a
    BY <2>1 DEF Good, WellFormed, Separate, End
  <2> HIDE DEF h
  <2>4. c \notin p .. p + n - 1
    BY <2>1, <2>2, <2>3, HeapAssumption
  <2>5. c \in Addr
    BY <2>2, HeapAssumption DEF Addr
  <2> QED BY <2>4, <2>5 DEF Good
<1> QED BY <1>1 DEF Good

\* malloc, as a function of the list, the blocks held and the cells.
LEMMA MallocGood ==
  ASSUME NEW nd, NEW hd, NEW m, Good(nd, hd, m), NEW size \in Nat,
         NEW b, b = find_best_mem_block(nd, size), b # Null
  PROVE  LET p == PointerTo(Taken(nd, b, size))
         IN  /\ p \notin DOMAIN hd
             /\ p \in Nat
             /\ Good(Take(nd, b, size), Put(hd, p, size), MarkHeader(m, nd, b, size))
             /\ \A x \in Used(nd) : Take(nd, b, size)[x].size = nd[x].size
<1> DEFINE nn == Take(nd, b, size)
           t == Taken(nd, b, size)
           p == PointerTo(t)
           hh == Put(hd, p, size)
           mm == MarkHeader(m, nd, b, size)
<1>1. b \in Candidates(nd, size)
  <2>1. Candidates(nd, size) # {}
    BY DEF find_best_mem_block
  <2> QED BY <2>1, BestIsCandidate DEF Good, WellFormed
<1>2. /\ WellFormed(nn)
      /\ NoFreeNeighbours(nn)
      /\ DOMAIN nn = DOMAIN nd \cup {t}
      /\ t \notin Used(nd)
      /\ Used(nn) = Used(nd) \cup {t}
      /\ t \in Nat
      /\ nn[t].size >= size
      /\ t + NodeSize + size <= TotalSize
      /\ \A x \in Used(nd) : nn[x].size = nd[x].size
  BY <1>1, TakeProperties DEF Good
<1>3. p = t + NodeSize /\ p \in Nat /\ HeaderOf(p) = t /\ p <= TotalSize
  BY <1>2, HeapAssumption DEF PointerTo, HeaderOf
<1>4. p \notin DOMAIN hd
  BY <1>2, <1>3 DEF Good
<1>5. mm \in [Addr -> Cells]
  BY DEF MarkHeader, Good, Cells
<1>6. \A c \in Addr : mm[c] = Hdr \/ mm[c] = m[c]
  BY DEF MarkHeader, Good
<1>7. t \notin DOMAIN nd => \A c \in t .. t + NodeSize - 1 : mm[c] = Hdr
  <2> SUFFICES ASSUME t \notin DOMAIN nd, NEW c \in t .. t + NodeSize - 1
               PROVE  mm[c] = Hdr
    OBVIOUS
  <2>1. Splits(nd, b, size) /\ t = TailOf(nd, b, size)
    BY <1>1 DEF Taken, Candidates
  <2>2. c \in Addr
    BY <1>2, HeapAssumption DEF Addr
  <2> QED BY <2>1, <2>2 DEF MarkHeader, Good
<1> HIDE DEF nn, t, p, mm
<1>8. /\ DOMAIN hh = DOMAIN hd \cup {p}
      /\ hh[p] = size
      /\ \A q \in DOMAIN hd : hh[q] = hd[q]
      /\ hh = [q \in DOMAIN hh |-> hh[q]]
  BY <1>4 DEF Put
<1> HIDE DEF hh
<1>9. /\ DOMAIN hh \subseteq 0 .. TotalSize
      /\ hh \in [DOMAIN hh -> Nat]
  BY <1>3, <1>8, HeapAssumption DEF Good
<1>10. Used(nn) = {HeaderOf(q) : q \in DOMAIN hh}
  BY <1>2, <1>3, <1>8 DEF Good
<1>11. \A q \in DOMAIN hh : hh[q] <= nn[HeaderOf(q)].size
  <2> SUFFICES ASSUME NEW q \in DOMAIN hh PROVE hh[q] <= nn[HeaderOf(q)].size
    OBVIOUS
  <2>1. CASE q = p
    BY <2>1, <1>2, <1>3, <1>8, HeaderFacts
  <2>2. CASE q \in DOMAIN hd
    BY <2>2, <1>2, <1>8, HeldFacts
  <2> QED BY <2>1, <2>2, <1>8
<1>12. \A a \in DOMAIN nn : \A c \in a .. a + NodeSize - 1 : mm[c] = Hdr
  <2> SUFFICES ASSUME NEW a \in DOMAIN nn, NEW c \in a .. a + NodeSize - 1
               PROVE  mm[c] = Hdr
    OBVIOUS
  <2>1. CASE a \in DOMAIN nd
    <3>1. a \in Nat /\ nd[a].size \in Nat /\ a + NodeSize + nd[a].size <= TotalSize
      BY <2>1, HeaderFacts DEF Good
    <3>2. c \in Addr
      BY <3>1, HeapAssumption DEF Addr
    <3> QED BY <2>1, <3>2, <1>6 DEF Good
  <2>2. CASE a \notin DOMAIN nd
    BY <2>2, <1>2, <1>7
  <2> QED BY <2>1, <2>2
<1>13. Good(nn, hh, mm)
  BY <1>2, <1>5, <1>9, <1>10, <1>11, <1>12 DEF Good
<1> QED BY <1>2, <1>3, <1>4, <1>13 DEF nn, t, p, hh, mm

\* mem_free, as a function of the list, the blocks held and the cells.
LEMMA FreeGood ==
  ASSUME NEW nd, NEW hd, NEW m, Good(nd, hd, m), NEW p \in DOMAIN hd
  PROVE  Good(Release(nd, HeaderOf(p)), Drop(hd, p), m)
<1> DEFINE h == HeaderOf(p)
           nn == Release(nd, h)
           hh == Drop(hd, p)
<1>1. h \in Used(nd)
  BY HeldFacts
<1>2. /\ WellFormed(nn)
      /\ NoFreeNeighbours(nn)
      /\ Used(nn) = Used(nd) \ {h}
      /\ \A x \in Used(nn) : nn[x].size = nd[x].size
      /\ DOMAIN nn \subseteq DOMAIN nd
  BY <1>1, ReleaseProperties DEF Good
<1> HIDE DEF nn
<1>3. /\ DOMAIN hh = DOMAIN hd \ {p}
      /\ \A q \in DOMAIN hh : hh[q] = hd[q]
      /\ hh = [q \in DOMAIN hh |-> hh[q]]
  BY DEF Drop
<1> HIDE DEF hh
<1>4. \A q \in DOMAIN hd : q \in Nat /\ (q # p => HeaderOf(q) # h)
  BY HeapAssumption DEF Good, HeaderOf
<1>5. Used(nn) = {HeaderOf(q) : q \in DOMAIN hh}
  BY <1>2, <1>3, <1>4 DEF Good
<1>6. \A q \in DOMAIN hh : hh[q] <= nn[HeaderOf(q)].size
  BY <1>2, <1>3, <1>5, HeldFacts
<1>7. DOMAIN hh \subseteq 0 .. TotalSize /\ hh \in [DOMAIN hh -> Nat]
  BY <1>3 DEF Good
<1> QED BY <1>2, <1>5, <1>6, <1>7 DEF Good, nn, hh

-----------------------------------------------------------------------------
\* The invariant gives every property of Heap that speaks of one state.
LEMMA IInvImplies ==
  IInv => TypeOK /\ ListTilesArena /\ Coalesced /\ UsedIsHeld /\ HeadersIntact
BY DEF IInv, Good, WellFormed, Used, TypeOK, ListTilesArena, Coalesced,
       UsedIsHeld, HeadersIntact

\* A run of free cells lies in one free block, because the blocks tile the arena
\* and no two free ones are neighbours: the walk of the list finds that block.
LEMMA IInvOutOfMemory == IInv => OutOfMemoryIsReal
<1> SUFFICES ASSUME IInv, NEW size \in Sizes,
                    NEW w \in 0 .. TotalSize - (size + NodeSize),
                    FreeWindow(w, size + NodeSize)
             PROVE  find_best_mem_block(node, size) # Null
  BY DEF OutOfMemoryIsReal
<1>1. size \in Nat /\ w \in Nat /\ w + size + NodeSize <= TotalSize
  <2>1. size \in Nat
    BY HeapAssumption
  <2> QED BY <2>1, HeapAssumption
<1>2. WellFormed(node) /\ NoFreeNeighbours(node) /\ 0 \in DOMAIN node
  BY DEF IInv, Good, WellFormed, Linked
<1>3. \A x \in DOMAIN node : x \in Nat /\ node[x].size \in Nat
  BY <1>2, HeaderFacts
<1> DEFINE T == {w - x : x \in {y \in DOMAIN node : y <= w}}
<1>4. PICK d \in T : \A k \in T : d <= k
  <2>1. T \subseteq Nat /\ T # {}
    BY <1>1, <1>2, <1>3
  <2> QED BY <2>1, LeastNat
<1>5. PICK a \in DOMAIN node : a <= w /\ d = w - a
  BY <1>4
<1>6. \A x \in DOMAIN node : x <= w => x <= a
  <2> SUFFICES ASSUME NEW x \in DOMAIN node, x <= w PROVE x <= a
    OBVIOUS
  <2>1. d <= w - x
    BY <1>4
  <2> QED BY <2>1, <1>1, <1>3, <1>5
<1>7. /\ node[a].next # Null => /\ node[a].next \in DOMAIN node
                                /\ node[a].next = a + NodeSize + node[a].size
                                /\ node[a].next > a
      /\ node[a].next = Null => a + NodeSize + node[a].size = TotalSize
  BY <1>2, HeaderFacts
<1>8. a + NodeSize + node[a].size > w
  BY <1>1, <1>3, <1>6, <1>7, HeapAssumption
<1>9. ~node[a].used
  BY <1>1, <1>3, <1>5, <1>8, HeapAssumption DEF FreeWindow, End
<1>10. a + NodeSize + node[a].size >= w + size + NodeSize
  <2>1. CASE node[a].next = Null
    BY <2>1, <1>1, <1>7
  <2>2. CASE node[a].next # Null
    <3> DEFINE c == node[a].next
    <3>1. c \in DOMAIN node /\ node[c].used /\ c > w
      BY <2>2, <1>2, <1>7, <1>8, <1>9 DEF NoFreeNeighbours
    <3>2. c + NodeSize + node[c].size <= w \/ w + (size + NodeSize) <= c
      BY <3>1 DEF FreeWindow, End
    <3>3. w + (size + NodeSize) <= c
      BY <3>1, <3>2, <1>1, <1>3, HeapAssumption
    <3> QED BY <3>3, <2>2, <1>1, <1>7, HeapAssumption
  <2> QED BY <2>1, <2>2
<1>11. a \in Candidates(node, size)
  BY <1>1, <1>3, <1>5, <1>9, <1>10, HeapAssumption DEF Candidates
<1>12. find_best_mem_block(node, size) \in Candidates(node, size)
  BY <1>1, <1>2, <1>11, BestIsCandidate DEF WellFormed
<1> QED BY <1>3, <1>12 DEF Candidates, Null

\* init_dynamic_mem establishes the invariant.
LEMMA InitIInv == Init => IInv
<1> SUFFICES ASSUME Init PROVE IInv
  OBVIOUS
<1>1. /\ DOMAIN node = {0}
      /\ node[0] = [size |-> TotalSize - NodeSize, used |-> FALSE,
                     next |-> Null, prev |-> Null]
      /\ node = [a \in DOMAIN node |-> node[a]]
  BY DEF Init
<1>2. node[0] \in dynamic_mem_node_t /\ 0 \in Addr
  BY <1>1, HeapAssumption DEF dynamic_mem_node_t, Addr
<1>3. IsList(node)
  BY <1>1, <1>2 DEF IsList
<1>4. Linked(node) /\ Separate(node) /\ NoFreeNeighbours(node)
  BY <1>1, HeapAssumption DEF Linked, Separate, NoFreeNeighbours, End
<1>5. /\ DOMAIN held \subseteq 0 .. TotalSize
      /\ held \in [DOMAIN held -> Nat]
      /\ DOMAIN held = {}
  BY DEF Init
<1>6. Used(node) = {}
  BY <1>1 DEF Used
<1>7. mem \in [Addr -> Cells]
  BY DEF Init, Cells
<1>8. \A a \in DOMAIN node : \A c \in a .. a + NodeSize - 1 : mem[c] = Hdr
  BY <1>1, HeapAssumption DEF Init, Addr
<1> QED BY <1>3, <1>4, <1>5, <1>6, <1>7, <1>8 DEF IInv, Good, WellFormed

\* malloc(size) preserves the invariant, whether or not it splits the block.
LEMMA MallocStep ==
  ASSUME IInv, NEW size \in Sizes, malloc(size)
  PROVE  IInv'
<1> DEFINE b == find_best_mem_block(node, size)
<1>1. size \in Nat
  BY HeapAssumption
<1>2. /\ b # Null
      /\ node' = Take(node, b, size)
      /\ held' = Put(held, PointerTo(Taken(node, b, size)), size)
      /\ mem' = MarkHeader(mem, node, b, size)
  BY DEF malloc
<1>3. Good(Take(node, b, size), Put(held, PointerTo(Taken(node, b, size)), size),
           MarkHeader(mem, node, b, size))
  BY <1>1, <1>2, MallocGood DEF IInv
<1> QED BY <1>2, <1>3 DEF IInv

\* mem_free of a block that is held preserves the invariant.
LEMMA FreeStep ==
  ASSUME IInv, NEW p \in DOMAIN held, mem_free(p)
  PROVE  IInv'
<1>1. /\ node' = Release(node, HeaderOf(p))
      /\ held' = Drop(held, p)
      /\ mem' = mem
  BY DEF mem_free
<1>2. Good(Release(node, HeaderOf(p)), Drop(held, p), mem)
  BY FreeGood DEF IInv
<1> QED BY <1>1, <1>2 DEF IInv

\* realloc within the block's own room preserves the invariant.
LEMMA ReallocInPlaceStep ==
  ASSUME IInv, NEW p \in DOMAIN held, NEW size \in Sizes, ReallocInPlace(p, size)
  PROVE  IInv'
<1>1. /\ size \in Nat
      /\ node' = node /\ mem' = mem
      /\ held' = [held EXCEPT ![p] = size]
      /\ size <= node[HeaderOf(p)].size
  BY HeapAssumption, HeldFacts DEF ReallocInPlace, IInv
<1>2. /\ DOMAIN held' = DOMAIN held
      /\ held' \in [DOMAIN held' -> Nat]
      /\ \A q \in DOMAIN held : held'[q] = IF q = p THEN size ELSE held[q]
  BY <1>1 DEF IInv, Good
<1>3. \A q \in DOMAIN held' : held'[q] <= node'[HeaderOf(q)].size
  BY <1>1, <1>2 DEF IInv, Good
<1> QED BY <1>1, <1>2, <1>3 DEF IInv, Good

\* malloc, copy, mem_free: the copy stores inside the block just obtained.
LEMMA ReallocMoveStep ==
  ASSUME IInv, NEW p \in DOMAIN held, NEW size \in Sizes, ReallocMove(p, size)
  PROVE  IInv'
<1> DEFINE h == HeaderOf(p)
           b == find_best_mem_block(node, size)
           q == PointerTo(Taken(node, b, size))
           nn == Take(node, b, size)
           hh == Put(held, q, size)
           mm == MarkHeader(mem, node, b, size)
           n == node[h].size
           mc == Copy(mm, p, q, n)
<1>1. size \in Nat
  BY HeapAssumption
<1>2. /\ b # Null
      /\ n < size
      /\ node' = Release(nn, h)
      /\ mem' = mc
      /\ held' = Put(Drop(held, p), q, size)
  BY DEF ReallocMove
<1>3. q \notin DOMAIN held /\ q \in Nat /\ Good(nn, hh, mm)
  BY <1>1, <1>2, MallocGood DEF IInv
<1>4. /\ p \in Nat /\ n \in Nat /\ p + n <= TotalSize
  BY HeldFacts DEF IInv
<1> HIDE DEF nn, mm, q, n, b
<1>5. DOMAIN hh = DOMAIN held \cup {q} /\ hh[q] = size /\ q # p /\ p \in DOMAIN hh
  BY <1>3 DEF Put
<1>6. /\ mc \in [Addr -> Cells]
      /\ \A c \in Addr : c \notin q .. q + n - 1 => mc[c] = mm[c]
  <2>1. mm \in [Addr -> Cells]
    BY <1>3 DEF Good
  <2>2. ASSUME NEW c \in Addr, c \in q .. q + n - 1
        PROVE  p + (c - q) \in Addr
    BY <2>2, <1>3, <1>4, HeapAssumption DEF Addr
  <2> QED BY <2>1, <2>2 DEF Copy
<1> HIDE DEF mc
<1>7. Good(nn, hh, mc)
  <2>1. n <= hh[q] /\ q \in DOMAIN hh
    BY <1>1, <1>2, <1>4, <1>5
  <2> HIDE DEF hh
  <2> QED BY <2>1, <1>3, <1>4, <1>6, StoreGood
<1>8. Good(Release(nn, h), Drop(hh, p), mc)
  BY <1>5, <1>7, FreeGood
<1>9. Drop(hh, p) = Put(Drop(held, p), q, size)
  BY <1>5 DEF Drop, Put
<1> HIDE DEF hh
<1> QED BY <1>2, <1>8, <1>9 DEF IInv

\* A caller's store into its own block preserves the invariant.
LEMMA WriteStep ==
  ASSUME IInv, NEW p \in DOMAIN held, NEW v \in Vals, Write(p, v)
  PROVE  IInv'
<1>1. /\ node' = node /\ held' = held
      /\ mem' = [c \in DOMAIN mem |-> IF c \in p .. p + held[p] - 1 THEN v ELSE mem[c]]
  BY DEF Write
<1>2. /\ mem' \in [Addr -> Cells]
      /\ \A c \in Addr : c \notin p .. p + held[p] - 1 => mem'[c] = mem[c]
  BY <1>1 DEF IInv, Good, Cells
<1>3. held[p] \in Nat /\ held[p] <= held[p]
  BY HeldFacts DEF IInv
<1>4. Good(node, held, mem')
  BY <1>2, <1>3, StoreGood DEF IInv
<1> QED BY <1>1, <1>4 DEF IInv

\* Every operation of the heap, and every store of a caller into its own
\* block, preserves the invariant.
LEMMA NextIInv == IInv /\ [Next]_vars => IInv'
<1> SUFFICES ASSUME IInv, [Next]_vars PROVE IInv'
  OBVIOUS
<1>1. CASE UNCHANGED vars
  BY <1>1 DEF vars, IInv
<1>2. ASSUME NEW size \in Sizes, malloc(size) PROVE IInv'
  BY <1>2, MallocStep
<1>3. ASSUME NEW p \in DOMAIN held, mem_free(p) PROVE IInv'
  BY <1>3, FreeStep
<1>4. ASSUME NEW p \in DOMAIN held \cup {Null}, NEW size \in Sizes, realloc(p, size)
      PROVE  IInv'
  <2>1. CASE p = Null /\ malloc(size)
    BY <2>1, MallocStep
  <2>2. CASE p # Null /\ size = 0 /\ mem_free(p)
    BY <2>2, FreeStep
  <2>3. CASE p # Null /\ ReallocInPlace(p, size)
    BY <2>3, ReallocInPlaceStep
  <2>4. CASE p # Null /\ ReallocMove(p, size)
    BY <2>4, ReallocMoveStep
  <2> QED BY <1>4, <2>1, <2>2, <2>3, <2>4 DEF realloc
<1>5. ASSUME NEW p \in DOMAIN held, NEW v \in Vals, Write(p, v) PROVE IInv'
  BY <1>5, WriteStep
<1> QED BY <1>1, <1>2, <1>3, <1>4, <1>5 DEF Next

-----------------------------------------------------------------------------
(***************************************************************************)
(* The abstract allocator.  Live(hd, m) is what the callers see of a heap; *)
(* the lemmas follow it through the three parts of a realloc as Good does. *)
(***************************************************************************)

\* What a caller sees of its block.
LEMMA LiveFacts ==
  ASSUME NEW hd, NEW m
  PROVE  /\ DOMAIN Live(hd, m) = DOMAIN hd
         /\ \A p \in DOMAIN hd : /\ DOMAIN Live(hd, m)[p] = 0 .. hd[p] - 1
                                 /\ \A i \in 0 .. hd[p] - 1 : Live(hd, m)[p][i] = m[p + i]
BY DEF Live

\* A caller sees the same block where the cells it asked for are the same.
LEMMA LiveKept ==
  ASSUME NEW hd, NEW m, NEW hd2, NEW m2, NEW p \in DOMAIN hd, p \in DOMAIN hd2, hd2[p] = hd[p],
         \A i \in 0 .. hd[p] - 1 : m2[p + i] = m[p + i]
  PROVE  Live(hd2, m2)[p] = Live(hd, m)[p]
BY DEF Live

\* The cells of a held block lie in the arena, and in no other block, header
\* included.
LEMMA BlockApart ==
  ASSUME NEW nd, NEW hd, NEW m, Good(nd, hd, m), NEW p \in DOMAIN hd, NEW i \in 0 .. hd[p] - 1
  PROVE  /\ p + i \in Addr
         /\ \A a \in DOMAIN nd : a # HeaderOf(p) => p + i \notin a .. a + NodeSize + nd[a].size - 1
<1> DEFINE h == HeaderOf(p)
<1>1. /\ p \in Nat /\ hd[p] \in Nat /\ h \in DOMAIN nd /\ p = h + NodeSize
      /\ nd[h].size \in Nat /\ hd[p] <= nd[h].size /\ p + nd[h].size <= TotalSize
  BY HeldFacts
<1>2. h \in Nat
  BY <1>1, HeaderFacts DEF Good
<1>3. p + i \in Addr /\ i \in Nat /\ i < nd[h].size
  BY <1>1, HeapAssumption DEF Addr
<1>4. ASSUME NEW a \in DOMAIN nd, a # h
      PROVE  p + i \notin a .. a + NodeSize + nd[a].size - 1
  <2>1. a \in Nat /\ nd[a].size \in Nat
    BY HeaderFacts DEF Good
  <2>2. /\ a < h => a + NodeSize + nd[a].size <= h
        /\ h < a => h + NodeSize + nd[h].size <= a
    BY <1>1 DEF Good, WellFormed, Separate, End
  <2> HIDE DEF h
  <2> QED BY <1>1, <1>2, <1>3, <1>4, <2>1, <2>2, HeapAssumption
<1> QED BY <1>3, <1>4

\* No cell has two owners.
LEMMA LiveExclusive ==
  ASSUME NEW nd, NEW hd, NEW m, Good(nd, hd, m)
  PROVE  Alloc!Exclusive(Live(hd, m))
<1>1. ASSUME NEW p \in DOMAIN hd, NEW i \in DOMAIN Live(hd, m)[p]
      PROVE  p + i \in 0 .. TotalSize - 1
  <2>1. i \in 0 .. hd[p] - 1
    BY <1>1 DEF Live
  <2> QED BY <2>1, BlockApart DEF Addr
<1>2. ASSUME NEW p \in DOMAIN hd, NEW q \in DOMAIN hd, p # q,
             NEW i \in DOMAIN Live(hd, m)[p], NEW j \in DOMAIN Live(hd, m)[q]
      PROVE  p + i # q + j
  <2> DEFINE g == HeaderOf(q)
  <2>1. i \in 0 .. hd[p] - 1 /\ j \in 0 .. hd[q] - 1
    BY <1>2 DEF Live
  <2>2. /\ q \in Nat /\ hd[q] \in Nat /\ g \in DOMAIN nd /\ q = g + NodeSize
        /\ nd[g].size \in Nat /\ hd[q] <= nd[g].size /\ p \in Nat
    BY HeldFacts
  <2>3. g \in Nat
    BY <2>2, HeaderFacts DEF Good
  <2>4. g # HeaderOf(p)
    BY <1>2, <2>2, HeapAssumption DEF HeaderOf
  <2>5. p + i \notin g .. g + NodeSize + nd[g].size - 1
    BY <2>1, <2>2, <2>4, BlockApart
  <2> HIDE DEF g
  <2>6. q + j \in g .. g + NodeSize + nd[g].size - 1
    BY <2>1, <2>2, <2>3, HeapAssumption
  <2> QED BY <2>5, <2>6
<1> QED BY <1>1, <1>2, LiveFacts DEF Alloc!Exclusive, Alloc!Apart

\* malloc touches no cell that a caller sees.
LEMMA MallocLive ==
  ASSUME NEW nd, NEW hd, NEW m, Good(nd, hd, m), NEW size \in Nat,
         NEW b, b = find_best_mem_block(nd, size), b # Null,
         NEW q \in DOMAIN hd, NEW i \in 0 .. hd[q] - 1
  PROVE  MarkHeader(m, nd, b, size)[q + i] = m[q + i]
<1> DEFINE nn == Take(nd, b, size)
           t == Taken(nd, b, size)
           p == PointerTo(t)
           hh == Put(hd, p, size)
           mm == MarkHeader(m, nd, b, size)
<1>1. p \notin DOMAIN hd /\ p \in Nat /\ Good(nn, hh, mm)
  BY MallocGood
<1>2. p \in DOMAIN hh /\ q \in DOMAIN hh /\ hh[q] = hd[q] /\ p # q
  BY <1>1 DEF Put
<1>3. q \in Nat
  BY HeldFacts
<1>4. b \in Candidates(nd, size)
  <2>1. Candidates(nd, size) # {}
    BY DEF find_best_mem_block
  <2> QED BY <2>1, BestIsCandidate DEF Good, WellFormed
<1>5. t \in Nat /\ DOMAIN nn = DOMAIN nd \cup {t}
  BY <1>4, TakeProperties DEF Good
<1>6. \A c \in Addr : c \notin t .. t + NodeSize - 1 => mm[c] = m[c]
  BY DEF MarkHeader, Good, Taken
<1>7. p = t + NodeSize
  BY DEF PointerTo
<1> HIDE DEF nn, hh, mm, t, p
<1>8. HeaderOf(q) # t
  BY <1>2, <1>3, <1>5, <1>7, HeapAssumption DEF HeaderOf
<1>9. t \in DOMAIN nn /\ nn[t].size \in Nat
  BY <1>1, <1>5, HeaderFacts DEF Good
<1>10. q + i \in Addr /\ q + i \notin t .. t + NodeSize + nn[t].size - 1
  BY <1>1, <1>2, <1>8, <1>9, BlockApart
<1>11. q + i \notin t .. t + NodeSize - 1
  BY <1>3, <1>5, <1>9, <1>10, HeapAssumption
<1> QED BY <1>6, <1>10, <1>11 DEF mm

\* A malloc is a Malloc of the abstract allocator.
LEMMA MallocRefines ==
  ASSUME IInv, NEW size \in Sizes, malloc(size)
  PROVE  Alloc!Next
<1> DEFINE b == find_best_mem_block(node, size)
           p == PointerTo(Taken(node, b, size))
           hh == Put(held, p, size)
           mm == MarkHeader(mem, node, b, size)
<1>1. size \in Nat /\ b # Null /\ held' = hh /\ mem' = mm
  BY HeapAssumption DEF malloc
<1>2. p \notin DOMAIN held /\ Good(Take(node, b, size), hh, mm)
  BY <1>1, MallocGood DEF IInv
<1>3. \A q \in DOMAIN held : \A i \in 0 .. held[q] - 1 : mm[q + i] = mem[q + i]
  BY <1>1, MallocLive DEF IInv
<1> HIDE DEF p, mm
<1>4. DOMAIN hh = DOMAIN held \cup {p} /\ \A q \in DOMAIN held : hh[q] = held[q]
  BY <1>2 DEF Put
<1> HIDE DEF hh
<1>5. \A q \in DOMAIN held : q \in DOMAIN hh /\ Live(hh, mm)[q] = Live(held, mem)[q]
  BY <1>3, <1>4, LiveKept
<1>6. Live(held, mem)' = Live(hh, mm)
  BY <1>1
<1>7. Alloc!Exclusive(Live(hh, mm))
  BY <1>2, LiveExclusive
<1>8. DOMAIN Live(held, mem) = DOMAIN held /\ DOMAIN Live(hh, mm) = DOMAIN hh
  BY LiveFacts
<1>9. Alloc!Malloc
  BY <1>2, <1>4, <1>5, <1>6, <1>7, <1>8 DEF Alloc!Malloc, Alloc!Keeps
<1> QED BY <1>9 DEF Alloc!Next

\* A mem_free is a Free of the abstract allocator.
LEMMA FreeRefines ==
  ASSUME IInv, NEW p \in DOMAIN held, mem_free(p)
  PROVE  Alloc!Next
<1> DEFINE hh == Drop(held, p)
<1>1. held' = hh /\ mem' = mem
  BY DEF mem_free
<1>2. DOMAIN hh = DOMAIN held \ {p} /\ \A q \in DOMAIN hh : hh[q] = held[q]
  BY DEF Drop
<1> HIDE DEF hh
<1>3. \A q \in DOMAIN hh : Live(hh, mem)[q] = Live(held, mem)[q]
  BY <1>2, LiveKept
<1>4. Live(held, mem)' = Live(hh, mem)
  BY <1>1
<1>5. DOMAIN Live(held, mem) = DOMAIN held /\ DOMAIN Live(hh, mem) = DOMAIN hh
  BY LiveFacts
<1>6. Alloc!Free
  BY <1>2, <1>3, <1>4, <1>5 DEF Alloc!Free, Alloc!Keeps
<1> QED BY <1>6 DEF Alloc!Next

\* A realloc in place is a Realloc that keeps the pointer.
LEMMA ReallocInPlaceRefines ==
  ASSUME IInv, NEW p \in DOMAIN held, NEW size \in Sizes, ReallocInPlace(p, size)
  PROVE  Alloc!Next
<1> DEFINE hh == [held EXCEPT ![p] = size]
<1>1. held' = hh /\ mem' = mem
  BY DEF ReallocInPlace
<1>2. DOMAIN hh = DOMAIN held /\ hh[p] = size /\ \A q \in DOMAIN held : q # p => hh[q] = held[q]
  BY DEF IInv, Good
<1>3. Good(node', held', mem')
  BY ReallocInPlaceStep DEF IInv
<1> HIDE DEF hh
<1>4. \A q \in DOMAIN held \ {p} : Live(hh, mem)[q] = Live(held, mem)[q]
  BY <1>2, LiveKept
<1>5. \A i \in DOMAIN Live(held, mem)[p] \cap DOMAIN Live(hh, mem)[p] :
        Live(hh, mem)[p][i] = Live(held, mem)[p][i]
  BY <1>2 DEF Live
<1>6. Live(held, mem)' = Live(hh, mem)
  BY <1>1
<1>7. Alloc!Exclusive(Live(hh, mem))
  BY <1>1, <1>3, LiveExclusive
<1>8. DOMAIN Live(held, mem) = DOMAIN held /\ DOMAIN Live(hh, mem) = DOMAIN hh
  BY LiveFacts
<1>9. Alloc!Realloc
  BY <1>2, <1>4, <1>5, <1>6, <1>7, <1>8 DEF Alloc!Realloc, Alloc!Keeps
<1> QED BY <1>9 DEF Alloc!Next

\* A realloc that moves carries the contents along and touches nobody else's.
LEMMA ReallocMoveRefines ==
  ASSUME IInv, NEW p \in DOMAIN held, NEW size \in Sizes, ReallocMove(p, size)
  PROVE  Alloc!Next
<1> DEFINE h == HeaderOf(p)
           b == find_best_mem_block(node, size)
           q == PointerTo(Taken(node, b, size))
           nn == Take(node, b, size)
           ha == Put(held, q, size)
           mm == MarkHeader(mem, node, b, size)
           n == node[h].size
           mc == Copy(mm, p, q, n)
           hh == Put(Drop(held, p), q, size)
<1>1. size \in Nat /\ b # Null /\ n < size /\ held' = hh /\ mem' = mc
  BY HeapAssumption DEF ReallocMove
<1>2. q \notin DOMAIN held /\ q \in Nat /\ Good(nn, ha, mm)
  BY <1>1, MallocGood DEF IInv
<1>3. \A r \in DOMAIN held : \A i \in 0 .. held[r] - 1 : mm[r + i] = mem[r + i]
  BY <1>1, MallocLive DEF IInv
<1>4. p \in Nat /\ n \in Nat /\ held[p] \in Nat /\ held[p] <= n
  BY HeldFacts DEF IInv
<1>5. Good(node', held', mem')
  BY ReallocMoveStep DEF IInv
<1> HIDE DEF nn, mm, q, n, b
<1>6. /\ DOMAIN ha = DOMAIN held \cup {q} /\ ha[q] = size /\ \A r \in DOMAIN held : ha[r] = held[r]
      /\ DOMAIN hh = (DOMAIN held \ {p}) \cup {q} /\ hh[q] = size
      /\ \A r \in DOMAIN held : r # p => hh[r] = held[r]
      /\ q # p
  BY <1>2 DEF Put, Drop
<1>7. DOMAIN mm = Addr
  BY <1>2 DEF Good
<1>8. \A c \in Addr : mc[c] = IF c \in q .. q + n - 1 THEN mm[p + (c - q)] ELSE mm[c]
  BY <1>7 DEF Copy
<1> HIDE DEF ha, hh, mc
<1>9. ASSUME NEW r \in DOMAIN held, r # p, NEW i \in 0 .. held[r] - 1
      PROVE  mc[r + i] = mem[r + i]
  <2> DEFINE g == HeaderOf(q)
  <2>1. r \in DOMAIN ha /\ i \in 0 .. ha[r] - 1 /\ r # q /\ q \in DOMAIN ha
    BY <1>2, <1>6
  <2>2. r \in Nat
    BY HeldFacts DEF IInv
  <2>3. /\ g \in DOMAIN nn /\ q = g + NodeSize /\ nn[g].size \in Nat
        /\ ha[q] <= nn[g].size
    BY <1>2, <2>1, HeldFacts
  <2>4. g \in Nat
    BY <1>2, <2>3, HeaderFacts DEF Good
  <2>5. g # HeaderOf(r)
    BY <1>2, <2>1, <2>2, <2>3, HeapAssumption DEF HeaderOf
  <2>6. r + i \in Addr /\ r + i \notin g .. g + NodeSize + nn[g].size - 1
    BY <1>2, <2>1, <2>3, <2>5, BlockApart
  <2> HIDE DEF g
  <2>7. r + i \notin q .. q + n - 1
    BY <1>1, <1>4, <1>6, <2>2, <2>3, <2>4, <2>6, HeapAssumption
  <2> QED BY <1>3, <1>8, <1>9, <2>6, <2>7
<1>10. \A r \in DOMAIN held \ {p} : Live(hh, mc)[r] = Live(held, mem)[r]
  BY <1>6, <1>9, LiveKept
<1>11. ASSUME NEW i \in 0 .. held[p] - 1, i \in 0 .. size - 1
       PROVE  mc[q + i] = mem[p + i]
  <2>1. q + i \in Addr
    BY <1>2, <1>6, <1>11, BlockApart
  <2>2. q + i \in q .. q + n - 1 /\ p + ((q + i) - q) = p + i
    BY <1>2, <1>4
  <2> QED BY <1>3, <1>8, <2>1, <2>2
<1>12. \A i \in DOMAIN Live(held, mem)[p] \cap DOMAIN Live(hh, mc)[q] :
         Live(hh, mc)[q][i] = Live(held, mem)[p][i]
  BY <1>6, <1>11 DEF Live
<1>13. Live(held, mem)' = Live(hh, mc)
  BY <1>1
<1>14. Alloc!Exclusive(Live(hh, mc))
  BY <1>1, <1>5, LiveExclusive
<1>15. DOMAIN Live(held, mem) = DOMAIN held /\ DOMAIN Live(hh, mc) = DOMAIN hh
  BY LiveFacts
<1>16. Alloc!Realloc
  BY <1>2, <1>6, <1>10, <1>12, <1>13, <1>14, <1>15 DEF Alloc!Realloc, Alloc!Keeps
<1> QED BY <1>16 DEF Alloc!Next

\* A caller's store is a Write of the abstract allocator: it changes what its own
\* block shows and no other.
LEMMA WriteRefines ==
  ASSUME IInv, NEW p \in DOMAIN held, NEW v \in Vals, Write(p, v)
  PROVE  Alloc!Next
<1> DEFINE mm == [c \in DOMAIN mem |-> IF c \in p .. p + held[p] - 1 THEN v ELSE mem[c]]
<1>1. held' = held /\ mem' = mm
  BY DEF Write
<1>2. \A c \in Addr : c \notin p .. p + held[p] - 1 => mm[c] = mem[c]
  BY DEF IInv, Good
<1> HIDE DEF mm
<1>3. ASSUME NEW q \in DOMAIN held, q # p, NEW i \in 0 .. held[q] - 1
      PROVE  mm[q + i] = mem[q + i]
  <2> DEFINE g == HeaderOf(p)
  <2>1. /\ p \in Nat /\ q \in Nat /\ g \in DOMAIN node /\ p = g + NodeSize
        /\ node[g].size \in Nat /\ held[p] <= node[g].size /\ held[p] \in Nat
    BY HeldFacts DEF IInv
  <2>2. g \in Nat
    BY <2>1, HeaderFacts DEF IInv, Good
  <2>3. g # HeaderOf(q)
    BY <1>3, <2>1, HeapAssumption DEF HeaderOf
  <2>4. q + i \in Addr /\ q + i \notin g .. g + NodeSize + node[g].size - 1
    BY <2>1, <2>3, BlockApart DEF IInv
  <2> HIDE DEF g
  <2>5. q + i \notin p .. p + held[p] - 1
    BY <2>1, <2>2, <2>4, HeapAssumption
  <2> QED BY <1>2, <2>4, <2>5
<1>4. \A q \in DOMAIN held \ {p} : Live(held, mm)[q] = Live(held, mem)[q]
  BY <1>3, LiveKept
<1>5. Live(held, mem)' = Live(held, mm)
  BY <1>1
<1>6. /\ DOMAIN Live(held, mem) = DOMAIN held /\ DOMAIN Live(held, mm) = DOMAIN held
      /\ DOMAIN Live(held, mm)[p] = DOMAIN Live(held, mem)[p]
  BY LiveFacts
<1>7. Alloc!Write
  BY <1>4, <1>5, <1>6 DEF Alloc!Write, Alloc!Keeps
<1> QED BY <1>7 DEF Alloc!Next

\* Every step of the heap is a step of the abstract allocator.
LEMMA NextRefines == IInv /\ [Next]_vars => [Alloc!Next]_(Live(held, mem))
<1> SUFFICES ASSUME IInv, [Next]_vars PROVE [Alloc!Next]_(Live(held, mem))
  OBVIOUS
<1>1. CASE UNCHANGED vars
  BY <1>1 DEF vars
<1>2. ASSUME NEW size \in Sizes, malloc(size) PROVE Alloc!Next
  BY <1>2, MallocRefines
<1>3. ASSUME NEW p \in DOMAIN held, mem_free(p) PROVE Alloc!Next
  BY <1>3, FreeRefines
<1>4. ASSUME NEW p \in DOMAIN held \cup {Null}, NEW size \in Sizes, realloc(p, size)
      PROVE  Alloc!Next
  <2>1. CASE p = Null
    BY <1>2, <1>4, <2>1 DEF realloc
  <2>2. CASE p # Null
    BY <1>3, <1>4, <2>2, ReallocInPlaceRefines, ReallocMoveRefines DEF realloc
  <2> QED BY <2>1, <2>2
<1>5. ASSUME NEW p \in DOMAIN held, NEW v \in Vals, Write(p, v) PROVE Alloc!Next
  BY <1>5, WriteRefines
<1> QED BY <1>1, <1>2, <1>3, <1>4, <1>5 DEF Next

-----------------------------------------------------------------------------
\* The inductive invariant holds in every reachable state of the heap.
THEOREM HeapInvariant == Spec => []IInv
BY InitIInv, NextIInv, PTL DEF Spec

\* Headers, pointers and cells always have their types.
THEOREM HeapTypeCorrect == Spec => []TypeOK
BY HeapInvariant, IInvImplies, PTL

\* After any sequence of malloc, mem_free and realloc the blocks tile the arena
\* and the links agree with the layout in both directions.
THEOREM HeapTilesArena == Spec => []ListTilesArena
BY HeapInvariant, IInvImplies, PTL

\* No two neighbouring blocks are ever free.
THEOREM HeapCoalesced == Spec => []Coalesced
BY HeapInvariant, IInvImplies, PTL

\* The blocks in use are exactly the ones callers hold, each large enough.
THEOREM HeapUsedIsHeld == Spec => []UsedIsHeld
BY HeapInvariant, IInvImplies, PTL

\* No store of a caller and no copy of realloc lands on a linked header.
THEOREM HeapHeadersIntact == Spec => []HeadersIntact
BY HeapInvariant, IInvImplies, PTL

\* malloc reports exhaustion only when no run of free cells could hold the block
\* and its header.
THEOREM HeapOutOfMemoryIsReal == Spec => []OutOfMemoryIsReal
BY HeapInvariant, IInvOutOfMemory, PTL

\* The heap of mm.c implements the abstract allocator: whatever callers do, no cell
\* has two owners, a block keeps its contents across every operation on others, and
\* a realloc carries them along.
THEOREM HeapRefinesAllocator == Spec => ImplementsAllocator
<1>1. Init => Alloc!Init
  BY DEF Init, Alloc!Init, Live
<1>2. Spec => Alloc!Init /\ [][Alloc!Next]_(Live(held, mem))
  BY <1>1, HeapInvariant, NextRefines, PTL DEF Spec
<1> QED BY <1>2, PTL DEF ImplementsAllocator, Alloc!Spec
=============================================================================
