---------------------------- MODULE EditorProofs ----------------------------
(***************************************************************************)
(* Proofs about the editor, for every text, file, block size and screen:   *)
(* rows and cursor keep their types, the cursor stays in its row, the      *)
(* paste key is the only way past the end of the text, a text that is not  *)
(* marked dirty has lost no row, a file that was written reads back, and   *)
(* a refresh shows the text whatever was on the screen before.             *)
(***************************************************************************)
EXTENDS EditorScreen, SequenceTheorems, FiniteSetTheorems, NaturalsInduction, WellFoundedInduction, TLAPS

RowSet == Seq(Chars)
Texts == Seq(RowSet)
Files == Seq(Chars \cup {NL})
Modes == {"normal", "insert", "command", "astray"}
Editors == [cx : Nat, cy : Nat, rowoff : Nat, coloff : Nat, rows : Texts,
            dirty : BOOLEAN, mode : {"normal", "insert", "command", "astray"}]

\* Every row of s is in t, in order.
Embedded(s, t) ==
  \E at \in [DOMAIN s -> DOMAIN t] :
    /\ \A i \in DOMAIN s : s[i] = t[at[i]]
    /\ \A i, j \in DOMAIN s : i < j => at[i] < at[j]

IInv == TypeOK /\ CursorInText /\ CleanKeepsRows

-----------------------------------------------------------------------------
(* Sequences.                                                              *)

\* A set of numbers has a least one.
LEMMA LeastNat ==
  ASSUME NEW T, T \subseteq Nat, T # {}
  PROVE  \E m \in T : \A k \in T : m <= k
  <1>1. PICK m \in T : \A k \in T : ~(<<k, m>> \in OpToRel(<, Nat))
    BY WFMin, NatLessThanWellFounded, Zenon
  <1>2. \A k \in T : ~(k < m)
    BY <1>1, Zenon DEF OpToRel
  <1>3. QED
    BY <1>2

\* A part of a sequence.
LEMMA PartFacts ==
  ASSUME NEW S, NEW s \in Seq(S), NEW m \in Nat, NEW n \in Nat, m >= 1, n <= Len(s)
  PROVE  /\ SubSeq(s, m, n) \in Seq(S)
         /\ Len(SubSeq(s, m, n)) = IF m <= n THEN n - m + 1 ELSE 0
         /\ \A i \in 1 .. n - m + 1 : SubSeq(s, m, n)[i] = s[m + i - 1]
  <1>1. m \in Int /\ n \in Int /\ \A i \in m .. n : s[i] \in S
    <2>1. \A i \in m .. n : i \in 1 .. Len(s)
      OBVIOUS
    <2>2. QED
      BY <2>1
  <1>2. QED
    BY <1>1, SubSeqProperties

\* A value put into a sequence.
LEMMA InsertFacts ==
  ASSUME NEW S, NEW s \in Seq(S), NEW k \in 1 .. Len(s) + 1, NEW v \in S
  PROVE  /\ InsertAt(s, k, v) \in Seq(S) /\ Len(InsertAt(s, k, v)) = Len(s) + 1
         /\ \A i \in 1 .. k - 1 : InsertAt(s, k, v)[i] = s[i]
         /\ InsertAt(s, k, v)[k] = v
         /\ \A i \in k .. Len(s) : InsertAt(s, k, v)[i + 1] = s[i]
  <1> DEFINE a == SubSeq(s, 1, k - 1)
             z == SubSeq(s, k, Len(s))
             b == <<v>>
             t == (a \o b) \o z
  <1>1. Len(s) \in Nat /\ k \in Nat /\ k - 1 \in Nat /\ k - 1 <= Len(s) /\ k >= 1 /\ 1 \in Nat
    OBVIOUS
  <1>2. /\ a \in Seq(S) /\ Len(a) = (IF 1 <= k - 1 THEN k - 1 - 1 + 1 ELSE 0)
        /\ \A i \in 1 .. (k - 1) - 1 + 1 : a[i] = s[1 + i - 1]
    BY <1>1, PartFacts
  <1>3. Len(a) = k - 1 /\ \A i \in 1 .. k - 1 : a[i] = s[i]
    BY <1>1, <1>2
  <1>4. /\ z \in Seq(S) /\ Len(z) = (IF k <= Len(s) THEN Len(s) - k + 1 ELSE 0)
        /\ \A i \in 1 .. Len(s) - k + 1 : z[i] = s[k + i - 1]
    BY <1>1, PartFacts
  <1>5. Len(z) = Len(s) - k + 1
    BY <1>1, <1>4
  <1>6. b \in Seq(S) /\ Len(b) = 1 /\ b[1] = v
    OBVIOUS
  <1> HIDE DEF a, z, b
  <1>7. /\ a \o b \in Seq(S) /\ Len(a \o b) = Len(a) + Len(b)
        /\ \A i \in 1 .. Len(a) + Len(b) : (a \o b)[i] = IF i <= Len(a) THEN a[i] ELSE b[i - Len(a)]
    BY <1>2, <1>6, ConcatProperties, Zenon
  <1> DEFINE ab == a \o b
  <1>8. ab \in Seq(S) /\ Len(ab) = k /\ ab[k] = v /\ \A i \in 1 .. k - 1 : ab[i] = s[i]
    BY <1>1, <1>3, <1>6, <1>7
  <1> HIDE DEF ab
  <1>9. /\ ab \o z \in Seq(S) /\ Len(ab \o z) = Len(ab) + Len(z)
        /\ \A i \in 1 .. Len(ab) + Len(z) : (ab \o z)[i] = IF i <= Len(ab) THEN ab[i] ELSE z[i - Len(ab)]
    BY <1>4, <1>8, ConcatProperties, Zenon
  <1>10. t = ab \o z
    BY DEF ab
  <1> HIDE DEF t
  <1>11. InsertAt(s, k, v) = t
    BY DEF InsertAt, t, a, b, z
  <1>12. t \in Seq(S) /\ Len(t) = Len(s) + 1
    BY <1>1, <1>5, <1>8, <1>9, <1>10
  <1>13. (\A i \in 1 .. k - 1 : t[i] = s[i]) /\ t[k] = v
    BY <1>1, <1>5, <1>8, <1>9, <1>10
  <1>14. ASSUME NEW i \in k .. Len(s)
         PROVE  t[i + 1] = s[i]
    <2>1. /\ i + 1 \in 1 .. Len(ab) + Len(z) /\ ~(i + 1 <= Len(ab)) /\ i + 1 - Len(ab) \in 1 .. Len(s) - k + 1
          /\ k + (i + 1 - Len(ab)) - 1 = i
      BY <1>1, <1>5, <1>8
    <2> DEFINE p == i + 1
               c == p - Len(ab)
    <2>2. p \in 1 .. Len(ab) + Len(z) /\ ~(p <= Len(ab)) /\ c \in 1 .. Len(s) - k + 1 /\ k + c - 1 = i
      BY <2>1
    <2> HIDE DEF p
    <2>3. t[p] = z[c]
      BY <1>9, <1>10, <2>2
    <2> HIDE DEF c
    <2>4. QED
      BY <1>4, <2>2, <2>3 DEF p
  <1>15. QED
    BY <1>11, <1>12, <1>13, <1>14

\* The rows before the one put in stay where they are.
LEMMA RowKept ==
  ASSUME NEW t \in Texts, NEW k \in 1 .. Len(t) + 1, NEW r \in RowSet, NEW i \in 1 .. k - 1
  PROVE  InsertAt(t, k, r)[i] = t[i]
  BY InsertFacts DEF Texts

\* A value taken out of a sequence.
LEMMA RemoveFacts ==
  ASSUME NEW S, NEW s \in Seq(S), NEW k \in 1 .. Len(s)
  PROVE  /\ RemoveAt(s, k) \in Seq(S) /\ Len(RemoveAt(s, k)) = Len(s) - 1
         /\ \A i \in 1 .. k - 1 : RemoveAt(s, k)[i] = s[i]
  <1> DEFINE a == SubSeq(s, 1, k - 1)
             z == SubSeq(s, k + 1, Len(s))
  <1>1. Len(s) \in Nat /\ k \in Nat /\ k - 1 \in Nat /\ k - 1 <= Len(s) /\ k + 1 \in Nat /\ k + 1 >= 1
    OBVIOUS
  <1>2. /\ a \in Seq(S) /\ Len(a) = (IF 1 <= k - 1 THEN k - 1 - 1 + 1 ELSE 0)
        /\ \A i \in 1 .. (k - 1) - 1 + 1 : a[i] = s[1 + i - 1]
    BY <1>1, PartFacts
  <1>3. Len(a) = k - 1 /\ \A i \in 1 .. k - 1 : a[i] = s[i]
    BY <1>1, <1>2
  <1>4. z \in Seq(S) /\ Len(z) = (IF k + 1 <= Len(s) THEN Len(s) - (k + 1) + 1 ELSE 0)
    BY <1>1, PartFacts
  <1>5. Len(z) = Len(s) - k
    BY <1>1, <1>4
  <1> HIDE DEF a, z
  <1>6. /\ a \o z \in Seq(S) /\ Len(a \o z) = Len(a) + Len(z)
        /\ \A i \in 1 .. Len(a) + Len(z) : (a \o z)[i] = IF i <= Len(a) THEN a[i] ELSE z[i - Len(a)]
    BY <1>2, <1>4, ConcatProperties, Zenon
  <1>7. RemoveAt(s, k) = a \o z
    BY DEF RemoveAt, a, z
  <1>8. QED
    BY <1>1, <1>3, <1>5, <1>6, <1>7

-----------------------------------------------------------------------------
(* Reading a file.                                                         *)

\* What fits a block or yank_buf is a sequence again.
LEMMA CutFacts ==
  ASSUME NEW S, NEW s \in Seq(S)
  PROVE  Cut(s) \in Seq(S) /\ Len(Cut(s)) <= Capacity /\ (s = << >> => Cut(s) = << >>)
  <1> DEFINE n == IF Len(s) > Capacity THEN Capacity ELSE Len(s)
  <1>1. n \in Nat /\ n <= Len(s) /\ n <= Capacity /\ 1 \in Nat /\ Len(s) \in Nat
    BY EditorAssumption
  <1>2. Cut(s) = SubSeq(s, 1, n)
    BY DEF Cut
  <1> HIDE DEF n
  <1>3. SubSeq(s, 1, n) \in Seq(S) /\ Len(SubSeq(s, 1, n)) = (IF 1 <= n THEN n - 1 + 1 ELSE 0)
    BY <1>1, PartFacts
  <1>4. Cut(s) \in Seq(S) /\ Len(Cut(s)) <= Capacity
    BY <1>1, <1>2, <1>3
  <1>5. s = << >> => Cut(s) = << >>
    <2> SUFFICES ASSUME s = << >>
                 PROVE  Cut(s) = << >>
      OBVIOUS
    <2>1. n = 0
      BY <1>1
    <2>2. SubSeq(s, 1, 0) = << >>
      BY SubSeqEmpty
    <2>3. QED
      BY <1>2, <2>1, <2>2
  <1>6. QED
    BY <1>4, <1>5

\* The row that ends at an end of the text holds no '\n'.
LEMMA RowUpToFacts ==
  ASSUME NEW text \in Files, NEW j \in Ends(text)
  PROVE  RowUpTo(text, j) \in RowSet
  <1> DEFINE B == EndsBefore(text, j) \cup {0}
             T == {n \in Nat : \A b \in B : b <= n}
             m == Max(B)
  <1>1. /\ Len(text) \in Nat /\ DOMAIN text = 1 .. Len(text)
        /\ \A i \in 1 .. Len(text) : text[i] \in Chars \cup {NL}
    BY DEF Files
  <1>2. Ends(text) \subseteq 1 .. Len(text) + 1 /\ j \in 1 .. Len(text) + 1
    BY <1>1 DEF Ends
  <1>3. B \subseteq Nat /\ \A b \in B : b < j
    BY <1>2 DEF EndsBefore
  <1>4. m \in B /\ \A b \in B : m >= b
    <2>1. j \in T
      BY <1>2, <1>3
    <2>2. PICK n \in T : \A k \in T : n <= k
      <3>1. T \subseteq Nat /\ T # {}
        BY <2>1
      <3>2. QED
        BY <3>1, LeastNat
    <2>3. n \in B
      <3> SUFFICES ASSUME n \notin B
                   PROVE  FALSE
        OBVIOUS
      <3>1. n # 0 /\ n \in Nat /\ \A b \in B : b <= n
        BY <2>2
      <3>2. \A b \in B : b <= n - 1
        BY <1>3, <3>1
      <3>3. n - 1 \in T
        BY <3>1, <3>2
      <3>4. n <= n - 1
        BY <2>2, <3>3
      <3>5. QED
        BY <3>1, <3>4
    <2>4. \A b \in B : n >= b
      BY <1>3, <2>2
    <2>5. QED
      BY <2>3, <2>4 DEF Max
  <1> HIDE DEF m
  <1>5. m \in Nat /\ m + 1 \in Nat /\ j - 1 \in Nat /\ m < j
    BY <1>2, <1>3, <1>4
  <1>6. ASSUME NEW i \in m + 1 .. j - 1
        PROVE  text[i] \in Chars
    <2>1. i \in 1 .. Len(text) /\ i < j /\ ~(m >= i)
      BY <1>2, <1>5
    <2>2. i \notin B
      BY <1>4, <2>1
    <2>3. text[i] # NL
      BY <1>1, <2>1, <2>2 DEF EndsBefore, Ends
    <2>4. QED
      BY <1>1, <2>1, <2>3
  <1>7. m + 1 \in Int /\ j - 1 \in Int
    BY <1>5
  <1>8. SubSeq(text, m + 1, j - 1) \in Seq(Chars)
    BY <1>6, <1>7, SubSeqProperties, Zenon
  <1>9. QED
    BY <1>8 DEF RowUpTo, RowSet, m

\* Every row has an end, with as many ends before it as there are rows before.
LEMMA NthEndFacts ==
  ASSUME NEW text \in Files, NEW n \in 1 .. Cardinality(Ends(text))
  PROVE  /\ NthEnd(text, n) \in Ends(text)
         /\ Cardinality(EndsBefore(text, NthEnd(text, n))) = n - 1
  <1> DEFINE last == Len(text) + 1
             Upto(j) == {k \in Ends(text) : k <= j}
             T == {j \in 1 .. last : Cardinality(Upto(j)) >= n}
  <1>1. Len(text) \in Nat /\ Ends(text) \subseteq 1 .. last /\ last \in Nat
    BY DEF Ends, Files
  <1>2. IsFiniteSet(Ends(text)) /\ Cardinality(Ends(text)) \in Nat
    <2>1. IsFiniteSet(1 .. last)
      BY <1>1, FS_Interval
    <2>2. QED
      BY <1>1, <2>1, FS_Subset, FS_CardinalityType
  <1>3. \A j : IsFiniteSet(Upto(j)) /\ Cardinality(Upto(j)) \in Nat
    <2> TAKE j
    <2>1. Upto(j) \subseteq Ends(text)
      OBVIOUS
    <2>2. QED
      BY <1>2, <2>1, FS_Subset, FS_CardinalityType
  <1>4. last \in T
    <2>1. Upto(last) = Ends(text)
      BY <1>1
    <2>2. last \in 1 .. last /\ Cardinality(Ends(text)) >= n
      BY <1>1, <1>2
    <2>3. QED
      BY <2>1, <2>2
  <1>5. PICK j \in T : \A k \in T : j <= k
    <2>1. T \subseteq 1 .. last
      OBVIOUS
    <2> HIDE DEF T
    <2>2. T \subseteq Nat /\ T # {}
      BY <1>1, <1>4, <2>1
    <2>3. QED
      BY <2>2, LeastNat
  <1>6. j \in 1 .. last /\ Cardinality(Upto(j)) >= n /\ j \in Nat /\ n \in Nat /\ n >= 1
    BY <1>1, <1>5
  <1> DEFINE B == EndsBefore(text, j)
  <1>7. IsFiniteSet(B) /\ Cardinality(B) \in Nat
    <2>1. B \subseteq Ends(text)
      BY DEF EndsBefore
    <2>2. QED
      BY <1>2, <2>1, FS_Subset, FS_CardinalityType
  <1>8. Cardinality(B) < n
    <2>1. CASE j = 1
      <3>1. B = {}
        BY <1>1, <2>1 DEF EndsBefore
      <3>2. Cardinality(B) = 0
        BY <3>1, FS_EmptySet
      <3>3. QED
        BY <1>6, <3>2
    <2>2. CASE j # 1
      <3>1. B = Upto(j - 1)
        BY <1>1, <1>6 DEF EndsBefore
      <3>2. j - 1 \in 1 .. last /\ ~(j <= j - 1)
        BY <1>6, <2>2
      <3>3. j - 1 \notin T
        BY <1>5, <3>2
      <3>4. ~(Cardinality(Upto(j - 1)) >= n)
        BY <3>2, <3>3
      <3> HIDE DEF B, Upto
      <3>5. ~(Cardinality(B) >= n)
        BY <3>1, <3>4
      <3>6. QED
        BY <1>6, <1>7, <3>5
    <2>3. QED
      BY <2>1, <2>2
  <1>9. j \in Ends(text)
    <2> SUFFICES ASSUME j \notin Ends(text)
                 PROVE  FALSE
      OBVIOUS
    <2>1. B = Upto(j)
      BY <1>1, <1>6 DEF EndsBefore
    <2> HIDE DEF B, Upto
    <2>2. QED
      BY <1>6, <1>7, <1>8, <2>1
  <1>10. Upto(j) = B \cup {j} /\ j \notin B
    BY <1>1, <1>6, <1>9 DEF EndsBefore
  <1>11. Cardinality(Upto(j)) = Cardinality(B) + 1
    <2> HIDE DEF B, Upto
    <2>1. QED
      BY <1>7, <1>10, FS_AddElement
  <1>12. Cardinality(EndsBefore(text, j)) = n - 1
    <2> HIDE DEF Upto
    <2>1. QED
      BY <1>6, <1>7, <1>8, <1>11
  <1>13. QED
    BY <1>9, <1>12 DEF NthEnd

\* editorOpen makes rows of characters.
LEMMA LinesFacts ==
  ASSUME NEW f, f = NoFile \/ f \in Files
  PROVE  Lines(f) \in Texts
  <1> DEFINE text == Cut(f)
             n == Cardinality(Ends(text))
  <1>1. CASE f = NoFile \/ f = << >>
    BY <1>1 DEF Lines, Texts
  <1>2. CASE ~(f = NoFile \/ f = << >>)
    <2>1. f \in Files
      BY <1>2
    <2>2. text \in Files
      BY <2>1, CutFacts DEF Files
    <2> HIDE DEF text
    <2>3. n \in Nat
      <3>1. Len(text) + 1 \in Nat /\ Ends(text) \subseteq 1 .. Len(text) + 1
        BY <2>2 DEF Ends, Files
      <3>2. IsFiniteSet(1 .. Len(text) + 1)
        BY <3>1, FS_Interval
      <3>3. QED
        BY <3>1, <3>2, FS_Subset, FS_CardinalityType
    <2>4. \A i \in 1 .. n : RowUpTo(text, NthEnd(text, i)) \in RowSet
      BY <2>2, NthEndFacts, RowUpToFacts
    <2> HIDE DEF n
    <2>5. [i \in 1 .. n |-> RowUpTo(text, NthEnd(text, i))] \in Texts
      BY <2>3, <2>4 DEF Texts
    <2>6. Lines(f) = [i \in 1 .. n |-> RowUpTo(text, NthEnd(text, i))]
      BY <1>2 DEF Lines, text, n
    <2>7. QED
      BY <2>5, <2>6
  <1>3. QED
    BY <1>1, <1>2

-----------------------------------------------------------------------------
(* Writing a file.                                                         *)

\* FlattenSeq chains its arguments one after the other.
LEMMA FlattenFacts ==
  ASSUME NEW S, NEW seqs \in Seq(Seq(S)), Len(seqs) # 0
  PROVE  \E g \in [1 .. Len(seqs) -> Seq(S)] :
           /\ g[1] = seqs[1]
           /\ \A i \in 2 .. Len(seqs) : g[i] = g[i - 1] \o seqs[i]
           /\ FlattenSeq(seqs) = g[Len(seqs)]
  <1> DEFINE N == Len(seqs)
             Body(g, i) == IF i = 1 THEN seqs[i] ELSE g[i - 1] \o seqs[i]
             IsChain(g, n) == DOMAIN g = 1 .. n /\ \A i \in 1 .. n : g[i] = Body(g, i)
             IsFlat(g) == g = [i \in 1 .. N |-> Body(g, i)]
             flat == CHOOSE g : IsFlat(g)
             R == Seq(S)
  <1>1. N \in Nat /\ N >= 1 /\ \A i \in 1 .. N : seqs[i] \in R
    <2>1. seqs \in Seq(R)
      OBVIOUS
    <2> HIDE DEF R
    <2>2. QED
      BY <2>1
  <1>2. FlattenSeq(seqs) = flat[N]
    BY DEF FlattenSeq
  <1> HIDE DEF N
  <1>3. \A n \in 0 .. N : \E g : g = [i \in 1 .. n |-> g[i]] /\ IsChain(g, n)
    <2> DEFINE P(n) == \E g : g = [i \in 1 .. n |-> g[i]] /\ IsChain(g, n)
               Bad == {n \in 0 .. N : ~P(n)}
    <2> SUFFICES ASSUME Bad # {}
                 PROVE  FALSE
      OBVIOUS
    <2>1. PICK n \in Bad : \A k \in Bad : n <= k
      <3>1. Bad \subseteq 0 .. N
        OBVIOUS
      <3> HIDE DEF Bad
      <3>2. Bad \subseteq Nat
        BY <1>1, <3>1
      <3>3. QED
        BY <3>2, LeastNat
    <2>2. n \in 0 .. N /\ ~P(n)
      OBVIOUS
    <2>3. CASE n = 0
      <3> DEFINE g == [i \in 1 .. 0 |-> 0]
      <3>1. DOMAIN g = 1 .. 0 /\ (\A i \in 1 .. 0 : FALSE) /\ g = [i \in 1 .. 0 |-> g[i]]
        OBVIOUS
      <3> HIDE DEF g
      <3>2. IsChain(g, 0)
        BY <3>1
      <3>3. QED
        BY <2>2, <2>3, <3>1, <3>2
    <2>4. CASE n # 0
      <3>1. n - 1 \in 0 .. N /\ ~(n <= n - 1) /\ n \in Nat /\ n >= 1
        BY <1>1, <2>2, <2>4
      <3>2. P(n - 1)
        <4>1. n - 1 \notin Bad
          BY <2>1, <3>1
        <4>2. QED
          BY <3>1, <4>1
      <3>3. PICK g : g = [i \in 1 .. n - 1 |-> g[i]] /\ IsChain(g, n - 1)
        BY <3>2
      <3> DEFINE h == [i \in 1 .. n |-> IF i = n THEN Body(g, n) ELSE g[i]]
      <3>4. DOMAIN h = 1 .. n /\ h = [i \in 1 .. n |-> h[i]]
        OBVIOUS
      <3>5. ASSUME NEW i \in 1 .. n
            PROVE  h[i] = Body(h, i)
        <4>1. i # 1 => h[i - 1] = g[i - 1]
          BY <3>1
        <4>2. Body(h, i) = Body(g, i)
          <5> HIDE DEF h
          <5>1. QED
            BY <4>1
        <4>3. h[i] = Body(g, i)
          <5>1. i # n => i \in 1 .. n - 1
            BY <3>1
          <5>2. h[i] = IF i = n THEN Body(g, n) ELSE g[i]
            OBVIOUS
          <5> HIDE DEF h, Body
          <5>3. QED
            BY <3>3, <5>1, <5>2
        <4>4. QED
          BY <4>2, <4>3
      <3> HIDE DEF h, Body
      <3>6. P(n)
        BY <3>4, <3>5
      <3>7. QED
        BY <2>2, <3>6
    <2>5. QED
      BY <2>3, <2>4
  <1>4. IsFlat(flat)
    <2>1. PICK g : g = [i \in 1 .. N |-> g[i]] /\ IsChain(g, N)
      <3>1. N \in 0 .. N
        BY <1>1
      <3>2. QED
        BY <1>3, <3>1
    <2> HIDE DEF Body
    <2>2. IsFlat(g)
      BY <2>1
    <2> HIDE DEF IsFlat
    <2>3. QED
      BY <2>2
  <1>5. DOMAIN flat = 1 .. N /\ \A i \in 1 .. N : flat[i] = Body(flat, i)
    <2> HIDE DEF flat, Body
    <2>1. QED
      BY <1>4
  <1> HIDE DEF flat
  <1>6. flat[1] = seqs[1] /\ \A i \in 2 .. N : flat[i] = flat[i - 1] \o seqs[i]
    <2>1. 1 \in 1 .. N /\ \A i \in 2 .. N : i \in 1 .. N /\ i # 1
      BY <1>1
    <2>2. QED
      BY <1>5, <2>1
  <1>7. \A i \in 1 .. N : flat[i] \in R
    <2> DEFINE Bad == {i \in 1 .. N : flat[i] \notin R}
    <2> SUFFICES ASSUME Bad # {}
                 PROVE  FALSE
      OBVIOUS
    <2>1. PICK n \in Bad : \A k \in Bad : n <= k
      <3>1. Bad \subseteq 1 .. N
        OBVIOUS
      <3> HIDE DEF Bad
      <3>2. Bad \subseteq Nat
        BY <1>1, <3>1
      <3>3. QED
        BY <3>2, LeastNat
    <2>2. n \in 1 .. N /\ flat[n] \notin R
      OBVIOUS
    <2>3. n # 1
      BY <1>1, <1>6, <2>2
    <2>4. n \in 2 .. N /\ n - 1 \in 1 .. N /\ ~(n <= n - 1)
      BY <1>1, <2>2, <2>3
    <2>5. flat[n - 1] \in Seq(S)
      BY <2>1, <2>4
    <2>6. seqs[n] \in Seq(S)
      BY <1>1, <2>2
    <2>7. flat[n - 1] \o seqs[n] \in Seq(S)
      BY <2>5, <2>6, ConcatProperties, Zenon
    <2>8. QED
      BY <1>6, <2>2, <2>4, <2>7
  <1>8. flat \in [1 .. N -> R]
    <2>1. flat = [i \in 1 .. N |-> flat[i]]
      BY <1>4, <1>5
    <2>2. QED
      BY <1>7, <2>1
  <1>9. QED
    BY <1>2, <1>6, <1>8 DEF N

\* What editorSave writes is a file that fits its block.
LEMMA ImageFacts ==
  ASSUME NEW rs \in Texts
  PROVE  Image(rs) \in Files
  <1> DEFINE C == Chars \cup {NL}
             seqs == [i \in DOMAIN rs |-> Append(rs[i], NL)]
             R == Seq(C)
  <1>1. Len(rs) \in Nat /\ DOMAIN rs = 1 .. Len(rs) /\ \A i \in 1 .. Len(rs) : rs[i] \in RowSet
    BY DEF Texts
  <1>2. \A i \in 1 .. Len(rs) : Append(rs[i], NL) \in R
    <2> TAKE i \in 1 .. Len(rs)
    <2>1. rs[i] \in Seq(C) /\ NL \in C
      BY <1>1 DEF RowSet
    <2> HIDE DEF C
    <2>2. QED
      BY <2>1
  <1>3. seqs \in Seq(R) /\ Len(seqs) = Len(rs)
    <2> HIDE DEF R
    <2>1. QED
      BY <1>1, <1>2
  <1> HIDE DEF seqs
  <1>4. FlattenSeq(seqs) \in R
    <2>1. CASE Len(seqs) = 0
      <3>1. seqs = << >>
        <4> HIDE DEF R
        <4>1. QED
          BY <1>3, <2>1
      <3>2. QED
        BY <2>1, <3>1 DEF FlattenSeq
    <2>2. CASE Len(seqs) # 0
      <3>1. PICK g \in [1 .. Len(seqs) -> Seq(C)] : FlattenSeq(seqs) = g[Len(seqs)]
        <4> HIDE DEF C
        <4>1. QED
          BY <1>3, <2>2, FlattenFacts
      <3>2. Len(seqs) \in 1 .. Len(seqs)
        BY <1>1, <1>3, <2>2
      <3>3. QED
        BY <3>1, <3>2
    <2>3. QED
      BY <2>1, <2>2
  <1>5. Image(rs) = Cut(FlattenSeq(seqs))
    BY DEF Image, seqs
  <1>6. QED
    BY <1>4, <1>5, CutFacts DEF Files

-----------------------------------------------------------------------------
(* Rows.                                                                   *)

\* The fields of an editor, and the length of the row the cursor is in.
LEMMA Fields ==
  ASSUME NEW e \in Editors
  PROVE  /\ e.cx \in Nat /\ e.cy \in Nat /\ e.rowoff \in Nat /\ e.coloff \in Nat
         /\ e.rows \in Texts /\ e.dirty \in BOOLEAN
         /\ e.mode \in {"normal", "insert", "command", "astray"}
         /\ Len(e.rows) \in Nat /\ DOMAIN e.rows = 1 .. Len(e.rows)
         /\ \A i \in 1 .. Len(e.rows) : e.rows[i] \in RowSet /\ Len(e.rows[i]) \in Nat
         /\ size(e) = (IF e.cy < Len(e.rows) THEN Len(e.rows[e.cy + 1]) ELSE 0)
         /\ size(e) \in Nat
  <1>1. /\ e.cx \in Nat /\ e.cy \in Nat /\ e.rowoff \in Nat /\ e.coloff \in Nat
        /\ e.rows \in Texts /\ e.dirty \in BOOLEAN
        /\ e.mode \in {"normal", "insert", "command", "astray"}
    BY DEF Editors
  <1>2. /\ Len(e.rows) \in Nat /\ DOMAIN e.rows = 1 .. Len(e.rows)
        /\ \A i \in 1 .. Len(e.rows) : e.rows[i] \in RowSet
    BY <1>1 DEF Texts
  <1>3. \A i \in 1 .. Len(e.rows) : Len(e.rows[i]) \in Nat
    BY <1>2 DEF RowSet
  <1>4. size(e) = (IF e.cy < Len(e.rows) THEN Len(e.rows[e.cy + 1]) ELSE 0)
    BY DEF size, OnRow, Row, numrows
  <1>5. size(e) \in Nat
    <2>1. e.cy < Len(e.rows) => e.cy + 1 \in 1 .. Len(e.rows)
      BY <1>1, <1>2
    <2>2. QED
      BY <1>3, <1>4, <2>1
  <1>6. QED
    BY <1>1, <1>2, <1>3, <1>4, <1>5

\* Cursor and mode are the same.
SamePlace(e, f) == f.cx = e.cx /\ f.cy = e.cy /\ f.mode = e.mode

\* A row put into the text, or refused.
LEMMA InsertRowFacts ==
  ASSUME NEW e \in Editors, NEW at \in Nat, NEW r \in RowSet
  PROVE  /\ editorInsertRow(e, at, r) \in Editors /\ SamePlace(e, editorInsertRow(e, at, r))
         /\ editorInsertRow(e, at, r).dirty = e.dirty
         /\ editorInsertRow(e, at, r).rows =
              IF at > Len(e.rows) THEN e.rows ELSE InsertAt(e.rows, at + 1, r)
         /\ Len(editorInsertRow(e, at, r).rows) =
              IF at > Len(e.rows) THEN Len(e.rows) ELSE Len(e.rows) + 1
  <1> DEFINE f == editorInsertRow(e, at, r)
             t == InsertAt(e.rows, at + 1, r)
  <1>1. e.rows \in Texts /\ Len(e.rows) \in Nat
    BY Fields
  <1>2. CASE at > Len(e.rows)
    BY <1>2 DEF editorInsertRow, numrows, SamePlace
  <1>3. CASE ~(at > Len(e.rows))
    <2>1. at + 1 \in 1 .. Len(e.rows) + 1
      BY <1>1, <1>3
    <2>2. t \in Texts /\ Len(t) = Len(e.rows) + 1
      BY <1>1, <2>1, InsertFacts DEF Texts
    <2>3. f = [e EXCEPT !.rows = t]
      BY <1>3 DEF editorInsertRow, numrows
    <2> HIDE DEF t
    <2>4. f \in Editors /\ f.rows = t /\ SamePlace(e, f) /\ f.dirty = e.dirty
      BY <2>2, <2>3 DEF Editors, SamePlace
    <2>5. QED
      BY <1>3, <2>2, <2>4 DEF t
  <1>4. QED
    BY <1>2, <1>3

\* A row taken out of the text.
LEMMA DelRowFacts ==
  ASSUME NEW e \in Editors, NEW at \in Nat
  PROVE  /\ editorDelRow(e, at) \in Editors /\ SamePlace(e, editorDelRow(e, at))
         /\ at >= Len(e.rows) => editorDelRow(e, at) = e
         /\ at < Len(e.rows) =>
              /\ editorDelRow(e, at).dirty
              /\ Len(editorDelRow(e, at).rows) = Len(e.rows) - 1
              /\ \A i \in 1 .. at : editorDelRow(e, at).rows[i] = e.rows[i]
  <1> DEFINE f == editorDelRow(e, at)
             t == RemoveAt(e.rows, at + 1)
  <1>1. e.rows \in Texts /\ Len(e.rows) \in Nat
    BY Fields
  <1>2. CASE at >= Len(e.rows)
    BY <1>1, <1>2 DEF editorDelRow, numrows, SamePlace
  <1>3. CASE ~(at >= Len(e.rows))
    <2>1. at + 1 \in 1 .. Len(e.rows)
      BY <1>1, <1>3
    <2>2. t \in Texts /\ Len(t) = Len(e.rows) - 1 /\ \A i \in 1 .. (at + 1) - 1 : t[i] = e.rows[i]
      BY <1>1, <2>1, RemoveFacts DEF Texts
    <2>3. f = [e EXCEPT !.rows = t, !.dirty = TRUE]
      BY <1>3 DEF editorDelRow, numrows
    <2> HIDE DEF t
    <2>4. f \in Editors /\ f.rows = t /\ SamePlace(e, f) /\ f.dirty = TRUE
      BY <2>2, <2>3 DEF Editors, SamePlace
    <2>5. QED
      BY <1>1, <1>3, <2>2, <2>4
  <1>4. QED
    BY <1>2, <1>3

\* A row replaced.
LEMMA SetRowFacts ==
  ASSUME NEW e \in Editors, NEW y \in Nat, y < Len(e.rows), NEW r \in RowSet
  PROVE  /\ SetRow(e, y, r) \in Editors /\ SamePlace(e, SetRow(e, y, r)) /\ SetRow(e, y, r).dirty
         /\ Len(SetRow(e, y, r).rows) = Len(e.rows) /\ SetRow(e, y, r).rows[y + 1] = r
         /\ \A i \in 1 .. Len(e.rows) : i # y + 1 => SetRow(e, y, r).rows[i] = e.rows[i]
  <1> DEFINE f == SetRow(e, y, r)
             t == [e.rows EXCEPT ![y + 1] = r]
  <1>1. e.rows \in Texts /\ Len(e.rows) \in Nat
    BY Fields
  <1>2. y + 1 \in 1 .. Len(e.rows)
    BY <1>1
  <1>3. t \in Texts /\ Len(t) = Len(e.rows) /\ t[y + 1] = r /\ \A i \in 1 .. Len(e.rows) : i # y + 1 => t[i] = e.rows[i]
    BY <1>1, <1>2 DEF Texts
  <1>4. f = [e EXCEPT !.rows = t, !.dirty = TRUE]
    BY DEF SetRow, Editors
  <1> HIDE DEF t
  <1>5. f \in Editors /\ f.rows = t /\ SamePlace(e, f) /\ f.dirty = TRUE
    BY <1>3, <1>4 DEF Editors, SamePlace
  <1>6. QED
    BY <1>3, <1>5

\* A character put into a row: the row is one longer.
LEMMA RowInsertCharFacts ==
  ASSUME NEW e \in Editors, NEW y \in Nat, y < Len(e.rows), NEW at \in Nat, NEW c \in Chars
  PROVE  /\ editorRowInsertChar(e, y, at, c) \in Editors
         /\ SamePlace(e, editorRowInsertChar(e, y, at, c))
         /\ editorRowInsertChar(e, y, at, c).dirty
         /\ Len(editorRowInsertChar(e, y, at, c).rows) = Len(e.rows)
         /\ Len(editorRowInsertChar(e, y, at, c).rows[y + 1]) = Len(e.rows[y + 1]) + 1
  <1> DEFINE r == e.rows[y + 1]
             k == (IF at > Len(r) THEN Len(r) ELSE at) + 1
             t == InsertAt(r, k, c)
  <1>1. r \in Seq(Chars) /\ Len(r) \in Nat
    <2>1. y + 1 \in 1 .. Len(e.rows)
      BY Fields
    <2>2. QED
      BY <2>1, Fields DEF RowSet
  <1> HIDE DEF r
  <1>2. k \in 1 .. Len(r) + 1
    BY <1>1
  <1> HIDE DEF k
  <1>3. t \in RowSet /\ Len(t) = Len(r) + 1
    BY <1>1, <1>2, InsertFacts DEF RowSet
  <1> HIDE DEF t
  <1>4. editorRowInsertChar(e, y, at, c) = SetRow(e, y, t)
    BY DEF editorRowInsertChar, t, k, r
  <1>5. QED
    BY <1>3, <1>4, SetRowFacts DEF r

\* A character taken out of a row: the row is one shorter.
LEMMA RowDelCharFacts ==
  ASSUME NEW e \in Editors, NEW y \in Nat, y < Len(e.rows), NEW at \in Nat, at < Len(e.rows[y + 1])
  PROVE  /\ editorRowDelChar(e, y, at) \in Editors
         /\ SamePlace(e, editorRowDelChar(e, y, at))
         /\ editorRowDelChar(e, y, at).dirty
         /\ Len(editorRowDelChar(e, y, at).rows) = Len(e.rows)
         /\ Len(editorRowDelChar(e, y, at).rows[y + 1]) = Len(e.rows[y + 1]) - 1
  <1> DEFINE r == e.rows[y + 1]
             k == at + 1
             t == RemoveAt(r, k)
  <1>1. r \in Seq(Chars) /\ Len(r) \in Nat
    <2>1. y + 1 \in 1 .. Len(e.rows)
      BY Fields
    <2>2. QED
      BY <2>1, Fields DEF RowSet
  <1>2. at < Len(r)
    OBVIOUS
  <1> HIDE DEF r
  <1>3. k \in 1 .. Len(r)
    BY <1>1, <1>2
  <1> HIDE DEF k
  <1>4. t \in RowSet /\ Len(t) = Len(r) - 1
    BY <1>1, <1>3, RemoveFacts DEF RowSet
  <1> HIDE DEF t
  <1>5. editorRowDelChar(e, y, at) = SetRow(e, y, t)
    <2>1. ~(at >= Len(r))
      BY <1>1, <1>2
    <2>2. QED
      BY <2>1 DEF editorRowDelChar, t, k, r
  <1> DEFINE f == SetRow(e, y, t)
  <1>6. f \in Editors /\ SamePlace(e, f) /\ f.dirty /\ Len(f.rows) = Len(e.rows) /\ f.rows[y + 1] = t
    BY <1>4, SetRowFacts
  <1> HIDE DEF f
  <1>7. f = editorRowDelChar(e, y, at)
    BY <1>5 DEF f
  <1>8. Len(t) = Len(e.rows[y + 1]) - 1
    BY <1>4 DEF r
  <1>9. QED
    BY <1>6, <1>7, <1>8

\* A row appended to another: the lengths add up.
LEMMA RowAppendFacts ==
  ASSUME NEW e \in Editors, NEW y \in Nat, y < Len(e.rows), NEW s \in RowSet
  PROVE  /\ editorRowAppendString(e, y, s) \in Editors
         /\ SamePlace(e, editorRowAppendString(e, y, s))
         /\ Len(editorRowAppendString(e, y, s).rows) = Len(e.rows)
         /\ Len(editorRowAppendString(e, y, s).rows[y + 1]) = Len(e.rows[y + 1]) + Len(s)
  <1> DEFINE r == e.rows[y + 1]
             t == r \o s
  <1>1. r \in Seq(Chars)
    <2>1. y + 1 \in 1 .. Len(e.rows)
      BY Fields
    <2>2. QED
      BY <2>1, Fields DEF RowSet
  <1> HIDE DEF r
  <1>2. t \in RowSet /\ Len(t) = Len(r) + Len(s)
    BY <1>1, ConcatProperties, Zenon DEF RowSet
  <1> HIDE DEF t
  <1>3. editorRowAppendString(e, y, s) = SetRow(e, y, t)
    BY DEF editorRowAppendString, t, r
  <1> DEFINE f == SetRow(e, y, t)
  <1>4. f \in Editors /\ SamePlace(e, f) /\ Len(f.rows) = Len(e.rows) /\ f.rows[y + 1] = t
    BY <1>2, SetRowFacts
  <1> HIDE DEF f
  <1>5. f = editorRowAppendString(e, y, s)
    BY <1>3 DEF f
  <1>6. Len(t) = Len(e.rows[y + 1]) + Len(s)
    BY <1>2 DEF r
  <1>7. QED
    BY <1>4, <1>5, <1>6

-----------------------------------------------------------------------------
(* What a key may do.                                                      *)

\* The text is as it was, or one row was added to it.
Grown(s, t) == t = s \/ \E k \in 1 .. Len(s) + 1, r \in RowSet : t = InsertAt(s, k, r)

\* Every key but 'p': the cursor is in its row; a text that comes out clean was
\* clean, and has grown at most; a cursor past the end was there before.
Edited(e, f) ==
  /\ f \in Editors
  /\ f.cx <= size(f)
  /\ ~f.dirty => ~e.dirty /\ Grown(e.rows, f.rows)
  /\ Beyond(f) \/ f.mode = "astray" => Beyond(e)

\* Only a cursor that was at the line after the text, or past it, gets past it.
Pasted(e, f) ==
  /\ f \in Editors
  /\ f.cx <= size(f)
  /\ ~f.dirty => ~e.dirty /\ Grown(e.rows, f.rows)
  /\ Beyond(f) => e.cy >= Len(e.rows)
  /\ f.mode = e.mode

\* A text is embedded in itself.
LEMMA EmbeddedInItself ==
  ASSUME NEW s \in Texts
  PROVE  Embedded(s, s)
  <1> DEFINE at == [i \in DOMAIN s |-> i]
  <1>1. at \in [DOMAIN s -> DOMAIN s]
    OBVIOUS
  <1>2. (\A i \in DOMAIN s : s[i] = s[at[i]]) /\ \A i, j \in DOMAIN s : i < j => at[i] < at[j]
    OBVIOUS
  <1>3. QED
    BY <1>1, <1>2 DEF Embedded

\* A text that grows keeps what is embedded in it.
LEMMA EmbeddedGrown ==
  ASSUME NEW s \in Texts, NEW t \in Texts, NEW u, Embedded(s, t), Grown(t, u)
  PROVE  Embedded(s, u)
  <1>1. CASE u = t
    BY <1>1
  <1>2. CASE \E k \in 1 .. Len(t) + 1, r \in RowSet : u = InsertAt(t, k, r)
    <2>1. PICK k \in 1 .. Len(t) + 1, r \in RowSet : u = InsertAt(t, k, r)
      BY <1>2
    <2>2. /\ u \in Texts /\ Len(u) = Len(t) + 1
          /\ \A i \in 1 .. k - 1 : u[i] = t[i]
          /\ \A i \in k .. Len(t) : u[i + 1] = t[i]
      BY <2>1, InsertFacts DEF Texts
    <2>3. Len(t) \in Nat /\ DOMAIN t = 1 .. Len(t) /\ DOMAIN u = 1 .. Len(t) + 1 /\ DOMAIN s \subseteq Nat
      BY <2>2 DEF Texts
    <2>4. PICK at \in [DOMAIN s -> DOMAIN t] :
            /\ \A i \in DOMAIN s : s[i] = t[at[i]]
            /\ \A i, j \in DOMAIN s : i < j => at[i] < at[j]
      BY DEF Embedded
    <2> DEFINE to(n) == IF n < k THEN n ELSE n + 1
               bt == [i \in DOMAIN s |-> to(at[i])]
    <2>5. \A n \in 1 .. Len(t) : to(n) \in 1 .. Len(t) + 1 /\ u[to(n)] = t[n]
      <3> TAKE n \in 1 .. Len(t)
      <3>1. CASE n < k
        <4>1. n \in 1 .. k - 1 /\ n \in 1 .. Len(t) + 1
          BY <2>3, <3>1
        <4>2. QED
          BY <2>2, <3>1, <4>1
      <3>2. CASE ~(n < k)
        <4>1. n \in k .. Len(t) /\ n + 1 \in 1 .. Len(t) + 1
          BY <2>3, <3>2
        <4>2. QED
          BY <2>2, <3>2, <4>1
      <3>3. QED
        BY <3>1, <3>2
    <2>6. \A m, n \in 1 .. Len(t) : m < n => to(m) < to(n)
      BY <2>3
    <2>7. \A i \in DOMAIN s : at[i] \in 1 .. Len(t)
      BY <2>3, <2>4
    <2> HIDE DEF to
    <2>8. bt \in [DOMAIN s -> DOMAIN u]
      BY <2>3, <2>5, <2>7
    <2>9. \A i \in DOMAIN s : s[i] = u[bt[i]]
      BY <2>4, <2>5, <2>7
    <2>10. \A i, j \in DOMAIN s : i < j => bt[i] < bt[j]
      BY <2>4, <2>6, <2>7
    <2> HIDE DEF bt
    <2>11. QED
      BY <2>8, <2>9, <2>10 DEF Embedded
  <1>3. QED
    BY <1>1, <1>2 DEF Grown

\* Scrolling moves the window only.
LEMMA ScrollFacts ==
  ASSUME NEW f \in Editors
  PROVE  /\ editorScroll(f) \in Editors /\ SamePlace(f, editorScroll(f))
         /\ editorScroll(f).rows = f.rows /\ editorScroll(f).dirty = f.dirty
  <1> DEFINE Off(off, at, n) == IF at < off THEN at ELSE IF at >= off + n THEN at - n + 1 ELSE off
             a == Off(f.rowoff, f.cy, screenrows)
             b == Off(f.coloff, f.cx, screencols)
  <1>1. \A off \in Nat, at \in Nat, n \in Nat : Off(off, at, n) \in Nat
    OBVIOUS
  <1>2. f.cx \in Nat /\ f.cy \in Nat /\ f.rowoff \in Nat /\ f.coloff \in Nat
    BY Fields
  <1>3. editorScroll(f) = [f EXCEPT !.rowoff = a, !.coloff = b]
    BY DEF editorScroll, Editors
  <1> HIDE DEF Off
  <1>4. a \in Nat /\ b \in Nat
    BY <1>1, <1>2, EditorAssumption
  <1> HIDE DEF a, b
  <1>5. QED
    BY <1>3, <1>4 DEF Editors, SamePlace

\* The cursor is in the part of the text the window shows.
InWindow(e) ==
  /\ e.cy \in e.rowoff .. e.rowoff + screenrows - 1
  /\ e.cx \in e.coloff .. e.coloff + screencols - 1

\* Scrolling brings the cursor into the window, wherever it was.
LEMMA ScrollShowsCursor ==
  ASSUME NEW f \in Editors
  PROVE  InWindow(editorScroll(f))
  <1> DEFINE Off(off, at, n) == IF at < off THEN at ELSE IF at >= off + n THEN at - n + 1 ELSE off
             a == Off(f.rowoff, f.cy, screenrows)
             b == Off(f.coloff, f.cx, screencols)
             g == editorScroll(f)
  <1>1. \A off \in Nat, at \in Nat, n \in Nat \ {0} : at \in Off(off, at, n) .. Off(off, at, n) + n - 1
    OBVIOUS
  <1>2. f.cx \in Nat /\ f.cy \in Nat /\ f.rowoff \in Nat /\ f.coloff \in Nat
    BY Fields
  <1>3. g.rowoff = a /\ g.coloff = b /\ g.cx = f.cx /\ g.cy = f.cy
    BY DEF editorScroll, Editors
  <1>4. screenrows \in Nat \ {0} /\ screencols \in Nat \ {0}
    BY EditorAssumption
  <1> HIDE DEF Off, g
  <1>5. f.cy \in a .. a + screenrows - 1 /\ f.cx \in b .. b + screencols - 1
    BY <1>1, <1>2, <1>4
  <1> HIDE DEF a, b
  <1>6. InWindow(g)
    BY <1>3, <1>5 DEF InWindow
  <1>7. QED
    BY <1>6 DEF g

\* The length of the cursor's row is determined by the rows and the cursor.
LEMMA SameSize ==
  ASSUME NEW e \in Editors, NEW f \in Editors, f.rows = e.rows, f.cy = e.cy
  PROVE  size(f) = size(e) /\ (Beyond(f) <=> Beyond(e))
  BY DEF size, OnRow, Row, numrows, Beyond

\* The refresh that follows a key changes nothing of that.
LEMMA EditedScrolled ==
  ASSUME NEW e \in Editors, NEW f
  PROVE  /\ Edited(e, f) => Edited(e, editorScroll(f))
         /\ Pasted(e, f) => Pasted(e, editorScroll(f))
  <1> DEFINE g == editorScroll(f)
  <1>1. ASSUME f \in Editors
        PROVE  g \in Editors /\ SamePlace(f, g) /\ g.rows = f.rows /\ g.dirty = f.dirty
    BY <1>1, ScrollFacts
  <1>2. ASSUME f \in Editors
        PROVE  size(g) = size(f) /\ (Beyond(g) <=> Beyond(f))
    BY <1>1, <1>2, SameSize DEF SamePlace
  <1> HIDE DEF g
  <1>3. QED
    BY <1>1, <1>2 DEF Edited, Pasted, SamePlace, g

\* A key that leaves the text alone.
LEMMA SameText ==
  ASSUME NEW e \in Editors, NEW f \in Editors, f.rows = e.rows, f.dirty = e.dirty, f.cx <= size(f),
         Beyond(f) \/ f.mode = "astray" => Beyond(e)
  PROVE  Edited(e, f)
  BY DEF Edited, Grown

\* A key that marks the text dirty.
LEMMA DirtyText ==
  ASSUME NEW e \in Editors, NEW f \in Editors, f.dirty, f.cx <= size(f),
         Beyond(f) \/ f.mode = "astray" => Beyond(e)
  PROVE  Edited(e, f)
  BY DEF Edited

\* An editor whose cursor, mode and text are replaced.
With(g, a, b, m, t) == [g EXCEPT !.cx = a, !.cy = b, !.mode = m, !.rows = t]

\* A line broken at the cursor.  At either end of the row the text only grows.
LEMMA NewlineFacts ==
  ASSUME NEW e \in Editors, e.cx <= size(e)
  PROVE  /\ editorInsertNewline(e) \in Editors
         /\ editorInsertNewline(e).cx = 0 /\ editorInsertNewline(e).dirty = e.dirty
         /\ editorInsertNewline(e).mode = e.mode
         /\ Beyond(editorInsertNewline(e)) => Beyond(e)
         /\ e.cx \in {0, size(e)} => Grown(e.rows, editorInsertNewline(e).rows)
  <1> DEFINE f == editorInsertNewline(e)
             none == << >>
  <1>1. /\ e.cx \in Nat /\ e.cy \in Nat /\ e.rows \in Texts /\ Len(e.rows) \in Nat
        /\ size(e) = (IF e.cy < Len(e.rows) THEN Len(e.rows[e.cy + 1]) ELSE 0)
    BY Fields
  <1>2. CASE e.cx = 0
    <2> DEFINE g == editorInsertRow(e, e.cy, none)
    <2>1. none \in RowSet
      BY DEF RowSet
    <2> HIDE DEF none
    <2>2. /\ g \in Editors /\ SamePlace(e, g) /\ g.dirty = e.dirty
          /\ g.rows = IF e.cy > Len(e.rows) THEN e.rows ELSE InsertAt(e.rows, e.cy + 1, none)
          /\ Len(g.rows) = IF e.cy > Len(e.rows) THEN Len(e.rows) ELSE Len(e.rows) + 1
      BY <1>1, <2>1, InsertRowFacts
    <2>3. f = [g EXCEPT !.cy = @ + 1, !.cx = 0]
      BY <1>2 DEF editorInsertNewline, none
    <2> HIDE DEF g
    <2>4. /\ f \in Editors /\ f.cx = 0 /\ f.dirty = e.dirty /\ f.mode = e.mode
          /\ f.rows = g.rows /\ f.cy = e.cy + 1
      <3>1. f = With(g, 0, g.cy + 1, g.mode, g.rows)
        BY <2>2, <2>3 DEF With, Editors
      <3>2. 0 \in Nat /\ g.cy + 1 \in Nat /\ g.mode \in Modes /\ g.rows \in Texts /\ g \in Editors
        BY <2>2, Fields DEF Modes
      <3> DEFINE b == g.cy + 1
                 w == With(g, 0, b, g.mode, g.rows)
      <3>3. b \in Nat
        BY <3>2
      <3> HIDE DEF b
      <3>4. w \in Editors /\ w.cx = 0 /\ w.cy = b /\ w.mode = g.mode /\ w.rows = g.rows /\ w.dirty = g.dirty
        BY <3>2, <3>3, Fields DEF With, Editors, Modes
      <3> HIDE DEF w
      <3>5. f = w
        BY <3>1 DEF w, b
      <3> HIDE DEF f
      <3>6. QED
        BY <2>2, <3>4, <3>5 DEF SamePlace, b
    <2>5. Beyond(f) => Beyond(e)
      <3> HIDE DEF f
      <3>1. QED
        BY <1>1, <2>2, <2>4 DEF Beyond, numrows
    <2>6. Grown(e.rows, f.rows)
      <3> HIDE DEF f
      <3>1. CASE e.cy > Len(e.rows)
        BY <2>2, <2>4, <3>1 DEF Grown
      <3>2. CASE ~(e.cy > Len(e.rows))
        <4>1. e.cy + 1 \in 1 .. Len(e.rows) + 1
          BY <1>1, <3>2
        <4>2. f.rows = InsertAt(e.rows, e.cy + 1, none)
          BY <2>2, <2>4, <3>2
        <4>3. QED
          BY <2>1, <4>1, <4>2 DEF Grown
      <3>3. QED
        BY <3>1, <3>2
    <2>7. QED
      BY <2>4, <2>5, <2>6
  <1>3. CASE e.cx # 0
    <2> DEFINE r == Row(e)
               tail == SubSeq(r, e.cx + 1, Len(r))
               head == SubSeq(r, 1, e.cx)
               g == editorInsertRow(e, e.cy + 1, tail)
               k == e.cy + 1
               t == [g.rows EXCEPT ![k] = SubSeq(@, 1, e.cx)]
    <2>1. e.cy < Len(e.rows) /\ size(e) = Len(e.rows[k])
      BY <1>1, <1>3
    <2>2. k \in 1 .. Len(e.rows) /\ k \in Nat /\ k + 1 \in 1 .. Len(e.rows) + 1 /\ ~(k > Len(e.rows)) /\ (k + 1) - 1 = k
      BY <1>1, <2>1
    <2>3. r = e.rows[k] /\ r \in Seq(Chars) /\ e.cx <= Len(r)
      BY <2>1, <2>2, Fields DEF RowSet, Row
    <2> HIDE DEF r
    <2>4. tail \in RowSet
      <3>1. e.cx + 1 \in Nat /\ e.cx + 1 >= 1 /\ Len(r) \in Nat /\ Len(r) <= Len(r)
        BY <1>1, <2>3
      <3>2. QED
        BY <2>3, <3>1, PartFacts DEF RowSet
    <2>5. head \in RowSet
      <3>1. 1 \in Nat /\ 1 >= 1
        OBVIOUS
      <3>2. QED
        BY <1>1, <2>3, <3>1, PartFacts DEF RowSet
    <2> HIDE DEF tail
    <2>6. /\ g \in Editors /\ SamePlace(e, g) /\ g.dirty = e.dirty
          /\ g.rows = InsertAt(e.rows, k + 1, tail) /\ Len(g.rows) = Len(e.rows) + 1
      <3> HIDE DEF k
      <3>1. editorInsertRow(e, k, tail) = g
        BY DEF k
      <3> HIDE DEF g
      <3>2. QED
        BY <2>2, <2>4, <3>1, InsertRowFacts
    <2>7. g.rows[k] = r /\ g.rows \in Texts
      <3> HIDE DEF g
      <3> DEFINE q == k + 1
      <3>1. q \in 1 .. Len(e.rows) + 1 /\ k \in 1 .. q - 1
        BY <2>2
      <3>2. g.rows = InsertAt(e.rows, q, tail)
        BY <2>6
      <3> HIDE DEF q, k
      <3>3. g.rows[k] = r
        BY <1>1, <2>3, <2>4, <3>1, <3>2, RowKept
      <3>4. g.rows \in Texts
        BY <2>6, Fields
      <3>5. QED
        BY <3>3, <3>4
    <2>8. f = [[g EXCEPT !.rows[k] = SubSeq(@, 1, e.cx)] EXCEPT !.cy = @ + 1, !.cx = 0]
      BY <1>3 DEF editorInsertNewline, r, tail
    <2> HIDE DEF g, k
    <2>9. t = [g.rows EXCEPT ![k] = head]
      BY <2>7
    <2>10. t \in Texts /\ Len(t) = Len(e.rows) + 1
      <3> HIDE DEF head
      <3>1. k \in 1 .. Len(g.rows)
        BY <1>1, <2>2, <2>6
      <3> HIDE DEF t
      <3>2. t \in Seq(RowSet) /\ Len(t) = Len(g.rows)
        BY <2>5, <2>7, <2>9, <3>1 DEF Texts
      <3>3. QED
        BY <2>6, <3>2 DEF Texts
    <2>11. f = With(g, 0, g.cy + 1, g.mode, t)
      BY <2>6, <2>8 DEF Editors, With
    <2> HIDE DEF t
    <2>12. /\ f \in Editors /\ f.cx = 0 /\ f.dirty = e.dirty /\ f.mode = e.mode
           /\ f.rows = t /\ f.cy = e.cy + 1
      <3>1. 0 \in Nat /\ g.cy + 1 \in Nat /\ g.mode \in Modes
        BY <2>6, Fields DEF Modes
      <3> DEFINE b == g.cy + 1
                 w == With(g, 0, b, g.mode, t)
      <3>3. b \in Nat
        BY <3>1
      <3> HIDE DEF b
      <3>4. w \in Editors /\ w.cx = 0 /\ w.cy = b /\ w.mode = g.mode /\ w.rows = t /\ w.dirty = g.dirty
        BY <2>6, <2>10, <3>1, <3>3, Fields DEF With, Editors, Modes
      <3> HIDE DEF w
      <3>5. f = w
        BY <2>11 DEF w, b
      <3> HIDE DEF f
      <3>6. QED
        BY <2>6, <3>4, <3>5 DEF SamePlace, b
    <2> HIDE DEF f
    <2>13. ~Beyond(f)
      BY <1>1, <2>1, <2>10, <2>12 DEF Beyond, numrows
    <2>14. ASSUME e.cx \in {0, size(e)}
           PROVE  Grown(e.rows, f.rows)
      <3>1. e.cx = Len(r)
        BY <1>3, <2>1, <2>3, <2>14
      <3>2. head = r
        BY <2>3, <3>1, SubSeqFull
      <3>3. t = g.rows
        <4> HIDE DEF head
        <4>1. k \in DOMAIN g.rows
          BY <1>1, <2>2, <2>6, <2>7 DEF Texts
        <4>2. QED
          BY <2>7, <2>9, <3>2, <4>1 DEF Texts
      <3>4. QED
        BY <2>2, <2>4, <2>6, <2>12, <3>3 DEF Grown
    <2>15. QED
      BY <2>12, <2>13, <2>14 DEF f
  <1>4. QED
    BY <1>2, <1>3

-----------------------------------------------------------------------------
(* The keys.                                                               *)

\* A key that moves the cursor or changes the mode.
LEMMA PlacedEdited ==
  ASSUME NEW e \in Editors, NEW a \in Nat, NEW b \in Nat, NEW m \in Modes,
         a <= (IF b < Len(e.rows) THEN Len(e.rows[b + 1]) ELSE 0),
         b > Len(e.rows) \/ m = "astray" => e.cy > Len(e.rows)
  PROVE  Edited(e, With(e, a, b, m, e.rows))
  <1> DEFINE f == With(e, a, b, m, e.rows)
  <1>1. e.rows \in Texts
    BY Fields
  <1>2. f \in Editors /\ f.cx = a /\ f.cy = b /\ f.mode = m /\ f.rows = e.rows /\ f.dirty = e.dirty
    BY <1>1, Fields DEF With, Editors, Modes
  <1> HIDE DEF f
  <1>3. f.cx <= size(f)
    BY <1>2, Fields
  <1>4. Beyond(f) \/ f.mode = "astray" => Beyond(e)
    BY <1>2 DEF Beyond, numrows
  <1>5. Edited(e, f)
    BY <1>2, <1>3, <1>4, SameText
  <1>6. QED
    BY <1>5 DEF f

\* Escape, 'i', 'a' and ':'.
LEMMA ModeKeys ==
  ASSUME NEW e \in Editors, e.cx <= size(e), NEW m \in Modes, m # "astray"
  PROVE  /\ Edited(e, [e EXCEPT !.mode = m])
         /\ Edited(e, [e EXCEPT !.mode = m, !.cx = IF @ > 0 THEN @ - 1 ELSE @])
         /\ Edited(e, [e EXCEPT !.mode = m, !.cx = IF @ < size(e) THEN @ + 1 ELSE @])
  <1> DEFINE L == IF e.cy < Len(e.rows) THEN Len(e.rows[e.cy + 1]) ELSE 0
             a2 == IF e.cx > 0 THEN e.cx - 1 ELSE e.cx
             a3 == IF e.cx < size(e) THEN e.cx + 1 ELSE e.cx
  <1>1. e.cx \in Nat /\ e.cy \in Nat /\ Len(e.rows) \in Nat /\ L \in Nat /\ L = size(e)
    BY Fields
  <1> HIDE DEF L
  <1>2. a2 \in Nat /\ a2 <= L /\ a3 \in Nat /\ a3 <= L /\ e.cx <= L
    BY <1>1
  <1>3. /\ [e EXCEPT !.mode = m] = With(e, e.cx, e.cy, m, e.rows)
        /\ [e EXCEPT !.mode = m, !.cx = IF @ > 0 THEN @ - 1 ELSE @] = With(e, a2, e.cy, m, e.rows)
        /\ [e EXCEPT !.mode = m, !.cx = IF @ < size(e) THEN @ + 1 ELSE @] = With(e, a3, e.cy, m, e.rows)
    BY DEF Editors, With
  <1> HIDE DEF a2, a3
  <1>4. \A a \in Nat : a <= L => Edited(e, With(e, a, e.cy, m, e.rows))
    BY <1>1, PlacedEdited DEF L
  <1>5. QED
    BY <1>1, <1>2, <1>3, <1>4

\* One step to the left, from the first column to the end of the row above.
LEMMA MoveLeftFacts ==
  ASSUME NEW e \in Editors, e.mode # "astray"
  PROVE  /\ MoveLeft(e) \in Editors /\ MoveLeft(e).rows = e.rows /\ MoveLeft(e).dirty = e.dirty
         /\ Beyond(MoveLeft(e)) \/ MoveLeft(e).mode = "astray" => Beyond(e)
  <1> DEFINE f == MoveLeft(e)
             up == e.cy - 1
             e1 == [e EXCEPT !.cy = @ - 1]
  <1>1. e.cx \in Nat /\ e.cy \in Nat /\ Len(e.rows) \in Nat /\ e.rows \in Texts /\ e.mode \in Modes
    BY Fields DEF Modes
  <1>2. "astray" \in Modes /\ 0 \in Nat
    BY DEF Modes
  <1>3. CASE e.cx > 0
    <2> DEFINE a == e.cx - 1
    <2>1. f = With(e, a, e.cy, e.mode, e.rows)
      <3>1. e.cx > 0 /\ e.cx # 0
        BY <1>1, <1>3
      <3>2. f = [e EXCEPT !.cx = @ - 1]
        BY <3>1 DEF MoveLeft
      <3>3. QED
        BY <3>2 DEF With, Editors
    <2>2. a \in Nat
      BY <1>1, <1>3
    <2> HIDE DEF a, f
    <2>3. f \in Editors /\ f.rows = e.rows /\ f.dirty = e.dirty /\ f.mode = e.mode /\ f.cy = e.cy
      BY <1>1, <2>1, <2>2, Fields DEF With, Editors, Modes
    <2>4. QED
      BY <2>3, SameSize DEF f
  <1>4. CASE e.cx = 0 /\ Beyond(e)
    <2>1. f = With(e, 0, up, "astray", e.rows)
      <3>1. ~(e.cx > 0) /\ e.cx = 0 /\ Beyond(e) /\ e.cy # 0
        BY <1>1, <1>4 DEF Beyond, numrows
      <3>2. f = Astray(e1)
        BY <3>1 DEF MoveLeft
      <3>3. QED
        BY <3>1, <3>2 DEF With, Astray, Editors
    <2>2. up \in Nat
      BY <1>1, <1>4 DEF Beyond, numrows
    <2> HIDE DEF up, f
    <2>3. f \in Editors /\ f.rows = e.rows /\ f.dirty = e.dirty
      BY <1>1, <1>2, <2>1, <2>2, Fields DEF With, Editors, Modes
    <2>4. QED
      BY <1>4, <2>3 DEF f
  <1>5. CASE e.cx = 0 /\ ~Beyond(e) /\ e.cy = 0
    BY <1>5 DEF MoveLeft
  <1>6. CASE e.cx = 0 /\ ~Beyond(e) /\ e.cy # 0
    <2>1. up \in Nat /\ ~(up > Len(e.rows))
      BY <1>1, <1>6 DEF Beyond, numrows
    <2>2. e1 = With(e, e.cx, up, e.mode, e.rows)
      BY DEF With, Editors
    <2>3. f = [e1 EXCEPT !.cx = size(e1)]
      <3>1. ~(e.cx > 0)
        BY <1>6
      <3>2. QED
        BY <1>6, <3>1 DEF MoveLeft
    <2> HIDE DEF up, f, e1
    <2>4. e1 \in Editors /\ e1.rows = e.rows /\ e1.dirty = e.dirty /\ e1.mode = e.mode /\ e1.cy = up
      BY <1>1, <2>1, <2>2, Fields DEF With, Editors, Modes
    <2>5. size(e1) \in Nat
      BY <2>4, Fields
    <2>6. f \in Editors /\ f.rows = e.rows /\ f.dirty = e.dirty /\ f.mode = e.mode /\ f.cy = up
      BY <2>3, <2>4, <2>5 DEF Editors
    <2>7. ~Beyond(f)
      BY <2>1, <2>6 DEF Beyond, numrows
    <2>8. QED
      BY <2>6, <2>7 DEF f
  <1>7. QED
    BY <1>1, <1>3, <1>4, <1>5, <1>6

\* The four directions.
LEMMA MoveKeys ==
  ASSUME NEW e \in Editors, e.mode # "astray", NEW key \in {"left", "right", "up", "down"}
  PROVE  Edited(e, editorMoveCursor(e, key))
  <1> DEFINE g == Move(e, key)
             f == editorMoveCursor(e, key)
             a == IF g.cx > size(g) THEN size(g) ELSE g.cx
  <1>1. e.cx \in Nat /\ e.cy \in Nat /\ Len(e.rows) \in Nat /\ e.rows \in Texts /\ e.mode \in Modes
    BY Fields DEF Modes
  <1>2. /\ g \in Editors /\ g.rows = e.rows /\ g.dirty = e.dirty
        /\ Beyond(g) \/ g.mode = "astray" => Beyond(e)
    <2>1. CASE key = "left"
      <3>1. g = MoveLeft(e)
        BY <2>1 DEF Move
      <3>2. QED
        BY <3>1, MoveLeftFacts
    <2>2. CASE key = "right"
      <3> DEFINE b == IF e.cx < size(e) THEN e.cx + 1 ELSE e.cx
      <3>1. g = With(e, b, e.cy, e.mode, e.rows)
        BY <2>2 DEF Move, With, Editors
      <3>2. b \in Nat
        BY <1>1
      <3> HIDE DEF b, g
      <3>3. g \in Editors /\ g.rows = e.rows /\ g.dirty = e.dirty /\ g.mode = e.mode /\ g.cy = e.cy
        BY <1>1, <3>1, <3>2, Fields DEF With, Editors, Modes
      <3>4. QED
        BY <3>3, SameSize
    <2>3. CASE key = "up"
      <3> DEFINE b == IF e.cy > 0 THEN e.cy - 1 ELSE e.cy
      <3>1. g = With(e, e.cx, b, e.mode, e.rows)
        BY <2>3 DEF Move, With, Editors
      <3>2. b \in Nat /\ b <= e.cy
        BY <1>1
      <3> HIDE DEF b, g
      <3>3. g \in Editors /\ g.rows = e.rows /\ g.dirty = e.dirty /\ g.mode = e.mode /\ g.cy = b
        BY <1>1, <3>1, <3>2, Fields DEF With, Editors, Modes
      <3>4. Beyond(g) => Beyond(e)
        BY <1>1, <3>2, <3>3 DEF Beyond, numrows
      <3>5. QED
        BY <3>3, <3>4
    <2>4. CASE key = "down"
      <3> DEFINE b == IF e.cy < numrows(e) - 1 THEN e.cy + 1 ELSE e.cy
      <3>1. g = With(e, e.cx, b, e.mode, e.rows)
        BY <2>4 DEF Move, MoveDown, With, Editors
      <3>2. b \in Nat /\ (b > Len(e.rows) => e.cy > Len(e.rows))
        BY <1>1 DEF numrows
      <3> HIDE DEF b, g
      <3>3. g \in Editors /\ g.rows = e.rows /\ g.dirty = e.dirty /\ g.mode = e.mode /\ g.cy = b
        BY <1>1, <3>1, <3>2, Fields DEF With, Editors, Modes
      <3>4. Beyond(g) => Beyond(e)
        BY <1>1, <3>2, <3>3 DEF Beyond, numrows
      <3>5. QED
        BY <3>3, <3>4
    <2>5. QED
      BY <2>1, <2>2, <2>3, <2>4
  <1>3. f = [g EXCEPT !.cx = a]
    <2> HIDE DEF g
    <2>1. f = [g EXCEPT !.cx = IF @ > size(g) THEN size(g) ELSE @]
      BY DEF editorMoveCursor, g
    <2>2. QED
      BY <1>2, <2>1 DEF Editors
  <1> HIDE DEF g, f
  <1>4. a \in Nat /\ a <= size(g)
    <2>1. g.cx \in Nat /\ size(g) \in Nat
      BY <1>2, Fields
    <2>2. QED
      BY <2>1
  <1> HIDE DEF a
  <1>5. f \in Editors /\ f.rows = g.rows /\ f.dirty = g.dirty /\ f.mode = g.mode /\ f.cy = g.cy /\ f.cx = a
    BY <1>2, <1>3, <1>4 DEF Editors
  <1>6. size(f) = size(g) /\ (Beyond(f) <=> Beyond(g))
    BY <1>2, <1>5, SameSize
  <1>7. Edited(e, f)
    BY <1>2, <1>4, <1>5, <1>6, SameText
  <1>8. QED
    BY <1>7 DEF f

\* A row put into the text makes it grow at most.
LEMMA InsertRowGrown ==
  ASSUME NEW e \in Editors, NEW at \in Nat, NEW r \in RowSet
  PROVE  Grown(e.rows, editorInsertRow(e, at, r).rows)
  <1> DEFINE t == editorInsertRow(e, at, r).rows
  <1>1. t = IF at > Len(e.rows) THEN e.rows ELSE InsertAt(e.rows, at + 1, r)
    BY InsertRowFacts
  <1> HIDE DEF t
  <1>2. CASE at > Len(e.rows)
    BY <1>1, <1>2 DEF Grown, t
  <1>3. CASE ~(at > Len(e.rows))
    <2>1. at + 1 \in 1 .. Len(e.rows) + 1
      BY <1>3, Fields
    <2>2. QED
      BY <1>1, <1>3, <2>1 DEF Grown, t
  <1>4. QED
    BY <1>2, <1>3

\* A character typed; on the line after the text it starts a row.
LEMMA InsertCharKey ==
  ASSUME NEW e \in Editors, e.cx <= size(e), e.mode # "astray", NEW c \in Chars
  PROVE  Edited(e, editorInsertChar(e, c))
  <1> DEFINE f == editorInsertChar(e, c)
             none == << >>
             e1 == IF e.cy = numrows(e) THEN editorInsertRow(e, numrows(e), none) ELSE e
             g == editorRowInsertChar(e1, e.cy, e.cx, c)
             a == e.cx + 1
  <1>1. /\ e.cx \in Nat /\ e.cy \in Nat /\ Len(e.rows) \in Nat /\ e.rows \in Texts
        /\ size(e) = (IF e.cy < Len(e.rows) THEN Len(e.rows[e.cy + 1]) ELSE 0)
    BY Fields
  <1>2. CASE Beyond(e)
    <2>1. f = [e EXCEPT !.mode = "astray"]
      BY <1>2 DEF editorInsertChar, Astray
    <2> HIDE DEF f
    <2>2. f \in Editors /\ f.cx = e.cx /\ f.cy = e.cy /\ f.rows = e.rows /\ f.dirty = e.dirty
      BY <2>1 DEF Editors
    <2>3. Edited(e, f)
      BY <1>2, <2>2, SameSize, SameText
    <2>4. QED
      BY <2>3 DEF f
  <1>3. CASE ~Beyond(e)
    <2>1. none \in RowSet
      BY DEF RowSet
    <2>2. f = [g EXCEPT !.cx = @ + 1]
      BY <1>3 DEF editorInsertChar, none
    <2> HIDE DEF none, f
    <2>3. e1 \in Editors /\ SamePlace(e, e1) /\ e.cy < Len(e1.rows)
      <3>1. CASE e.cy = numrows(e)
        <4>1. e1 = editorInsertRow(e, Len(e.rows), none) /\ e.cy = Len(e.rows) /\ ~(Len(e.rows) > Len(e.rows))
          BY <1>1, <3>1 DEF numrows
        <4> HIDE DEF e1
        <4>2. e1 \in Editors /\ SamePlace(e, e1) /\ Len(e1.rows) = Len(e.rows) + 1
          BY <1>1, <2>1, <4>1, InsertRowFacts
        <4>3. QED
          BY <1>1, <4>1, <4>2
      <3>2. CASE e.cy # numrows(e)
        <4>1. e1 = e
          BY <3>2
        <4>2. e.cy < Len(e.rows)
          BY <1>1, <1>3, <3>2 DEF Beyond, numrows
        <4>3. QED
          BY <4>1, <4>2 DEF SamePlace
      <3>3. QED
        BY <3>1, <3>2
    <2>4. e.cx <= Len(e1.rows[e.cy + 1]) /\ Len(e1.rows[e.cy + 1]) \in Nat
      <3>1. Len(e1.rows[e.cy + 1]) \in Nat
        <4> HIDE DEF e1
        <4>1. e.cy + 1 \in 1 .. Len(e1.rows)
          BY <1>1, <2>3, Fields
        <4>2. QED
          BY <2>3, <4>1, Fields
      <3>2. CASE e.cy = numrows(e)
        <4>1. e.cx = 0
          BY <1>1, <3>2 DEF numrows
        <4> HIDE DEF e1
        <4>2. QED
          BY <3>1, <4>1
      <3>3. CASE e.cy # numrows(e)
        <4>1. e1 = e /\ e.cy < Len(e.rows)
          BY <1>1, <1>3, <3>3 DEF Beyond, numrows
        <4> HIDE DEF e1
        <4>2. QED
          BY <1>1, <3>1, <4>1
      <3>4. QED
        BY <3>2, <3>3
    <2> HIDE DEF e1
    <2>5. /\ g \in Editors /\ SamePlace(e1, g) /\ g.dirty /\ Len(g.rows) = Len(e1.rows)
          /\ Len(g.rows[e.cy + 1]) = Len(e1.rows[e.cy + 1]) + 1
      BY <1>1, <2>3, RowInsertCharFacts
    <2> HIDE DEF g
    <2>6. f = [g EXCEPT !.cx = a] /\ a \in Nat /\ g.cy = e.cy /\ g.mode = e.mode
      BY <1>1, <2>2, <2>3, <2>5 DEF SamePlace, Editors
    <2>7. a <= Len(g.rows[e.cy + 1])
      BY <1>1, <2>4, <2>5
    <2> HIDE DEF a
    <2>8. f \in Editors /\ f.cx = a /\ f.cy = e.cy /\ f.mode = e.mode /\ f.rows = g.rows /\ f.dirty
      BY <2>5, <2>6 DEF Editors
    <2>9. e.cy < Len(g.rows)
      BY <2>3, <2>5
    <2>10. f.cx <= size(f)
      BY <2>7, <2>8, <2>9, Fields
    <2>11. ~Beyond(f)
      BY <1>1, <2>5, <2>8, <2>9, Fields DEF Beyond, numrows
    <2>12. Edited(e, f)
      BY <2>8, <2>10, <2>11, DirtyText
    <2>13. QED
      BY <2>12 DEF f
  <1>4. QED
    BY <1>2, <1>3

\* Backspace: a character out of the row, or the row joined to the one above.
LEMMA DelCharKey ==
  ASSUME NEW e \in Editors, e.cx <= size(e), e.mode # "astray"
  PROVE  Edited(e, editorDelChar(e))
  <1> DEFINE f == editorDelChar(e)
             idle == e.cy = numrows(e) \/ (e.cx = 0 /\ e.cy = 0)
  <1>1. /\ e.cx \in Nat /\ e.cy \in Nat /\ Len(e.rows) \in Nat /\ e.rows \in Texts
        /\ size(e) = (IF e.cy < Len(e.rows) THEN Len(e.rows[e.cy + 1]) ELSE 0)
        /\ e.mode \in Modes
    BY Fields DEF Modes
  <1>2. CASE idle
    <2>1. f = e
      <3>1. ~Beyond(e)
        BY <1>1, <1>2 DEF Beyond, numrows
      <3>2. QED
        BY <1>2, <3>1 DEF editorDelChar
    <2>2. QED
      BY <1>1, <2>1, SameText
  <1>3. CASE ~idle /\ Beyond(e)
    <2>1. f = [e EXCEPT !.mode = "astray"]
      BY <1>3 DEF editorDelChar, Astray
    <2> HIDE DEF f
    <2>2. f \in Editors /\ f.cx = e.cx /\ f.cy = e.cy /\ f.rows = e.rows /\ f.dirty = e.dirty
      BY <2>1 DEF Editors
    <2>3. Edited(e, f)
      BY <1>3, <2>2, SameSize, SameText
    <2>4. QED
      BY <2>3 DEF f
  <1>4. CASE ~idle /\ ~Beyond(e) /\ e.cx > 0
    <2> DEFINE a == e.cx - 1
               g == editorRowDelChar(e, e.cy, a)
    <2>1. f = [g EXCEPT !.cx = @ - 1, !.dirty = TRUE]
      BY <1>4 DEF editorDelChar
    <2> HIDE DEF f
    <2>2. e.cy < Len(e.rows) /\ size(e) = Len(e.rows[e.cy + 1]) /\ size(e) \in Nat
      BY <1>1, <1>4, Fields DEF Beyond, numrows
    <2>3. a \in Nat /\ a < Len(e.rows[e.cy + 1]) /\ a <= Len(e.rows[e.cy + 1]) - 1
      BY <1>1, <1>4, <2>2
    <2>4. f = [g EXCEPT !.cx = g.cx - 1, !.dirty = TRUE]
      BY <2>1
    <2> HIDE DEF a
    <2>5. /\ g \in Editors /\ SamePlace(e, g) /\ Len(g.rows) = Len(e.rows)
          /\ Len(g.rows[e.cy + 1]) = Len(e.rows[e.cy + 1]) - 1
      BY <1>1, <2>2, <2>3, RowDelCharFacts
    <2> HIDE DEF g
    <2>6. f = [g EXCEPT !.cx = a, !.dirty = TRUE] /\ g.cy = e.cy /\ g.mode = e.mode
      BY <2>4, <2>5 DEF SamePlace, a
    <2>7. f \in Editors /\ f.cx = a /\ f.cy = e.cy /\ f.mode = e.mode /\ f.rows = g.rows /\ f.dirty = TRUE
      BY <2>3, <2>5, <2>6 DEF Editors
    <2>8. f.cx <= size(f)
      BY <2>2, <2>3, <2>5, <2>7, Fields
    <2>9. ~Beyond(f)
      BY <1>1, <2>2, <2>5, <2>7, Fields DEF Beyond, numrows
    <2>10. Edited(e, f)
      BY <2>7, <2>8, <2>9, DirtyText
    <2>11. QED
      BY <2>10 DEF f
  <1>5. CASE ~idle /\ ~Beyond(e) /\ ~(e.cx > 0)
    <2> DEFINE b == e.cy - 1
               s == Row(e)
               g == editorRowAppendString(e, b, s)
               h == editorDelRow(g, e.cy)
               n == Len(e.rows[e.cy])
    <2>1. f = [h EXCEPT !.cx = n, !.cy = @ - 1]
      BY <1>5 DEF editorDelChar
    <2> HIDE DEF f
    <2>2. e.cy < Len(e.rows) /\ e.cy # 0
      BY <1>1, <1>5 DEF Beyond, numrows
    <2>3. b \in Nat /\ b < Len(e.rows) /\ b + 1 = e.cy /\ e.cy \in 1 .. Len(e.rows) /\ e.cy + 1 \in 1 .. Len(e.rows)
      BY <1>1, <2>2
    <2>4. s \in RowSet /\ n \in Nat /\ Len(s) \in Nat
      BY <2>3, Fields DEF Row
    <2> HIDE DEF s, n
    <2>5. /\ g \in Editors /\ SamePlace(e, g) /\ Len(g.rows) = Len(e.rows)
          /\ Len(g.rows[b + 1]) = Len(e.rows[b + 1]) + Len(s)
      <3> HIDE DEF b
      <3>1. QED
        BY <2>3, <2>4, RowAppendFacts
    <2> HIDE DEF b, g
    <2>6. Len(g.rows[e.cy]) = n + Len(s)
      BY <2>3, <2>5 DEF n
    <2>7. /\ h \in Editors /\ SamePlace(g, h) /\ h.dirty /\ Len(h.rows) = Len(e.rows) - 1
          /\ h.rows[e.cy] = g.rows[e.cy]
      <3>1. e.cy \in Nat /\ e.cy < Len(g.rows) /\ e.cy \in 1 .. e.cy
        BY <1>1, <2>2, <2>3, <2>5
      <3>2. QED
        BY <2>5, <3>1, DelRowFacts
    <2> HIDE DEF h
    <2>8. h.cy = e.cy /\ h.mode = e.mode
      BY <2>5, <2>7 DEF SamePlace
    <2>9. f = [h EXCEPT !.cx = n, !.cy = b]
      BY <2>1, <2>8 DEF b
    <2>10. f \in Editors /\ f.cx = n /\ f.cy = b /\ f.mode = e.mode /\ f.rows = h.rows /\ f.dirty = h.dirty
      BY <2>3, <2>4, <2>7, <2>8, <2>9 DEF Editors
    <2>11. b < Len(h.rows) /\ Len(h.rows) \in Nat
      BY <1>1, <2>2, <2>3, <2>7
    <2>12. size(f) = n + Len(s)
      <3>1. size(f) = Len(h.rows[b + 1])
        BY <2>10, <2>11, Fields
      <3>2. QED
        BY <2>3, <2>6, <2>7, <3>1
    <2>13. f.cx <= size(f) /\ ~Beyond(f)
      BY <2>3, <2>4, <2>10, <2>11, <2>12 DEF Beyond, numrows
    <2>14. Edited(e, f)
      BY <2>7, <2>10, <2>13, DirtyText
    <2>15. QED
      BY <2>14 DEF f
  <1>6. QED
    BY <1>2, <1>3, <1>4, <1>5

\* Return in insert mode.
LEMMA NewlineKey ==
  ASSUME NEW e \in Editors, e.cx <= size(e), e.mode # "astray"
  PROVE  Edited(e, [editorInsertNewline(e) EXCEPT !.dirty = TRUE])
  <1> DEFINE g == editorInsertNewline(e)
             f == [g EXCEPT !.dirty = TRUE]
  <1>1. g \in Editors /\ g.cx = 0 /\ g.mode = e.mode /\ (Beyond(g) => Beyond(e))
    BY NewlineFacts
  <1> HIDE DEF g
  <1>2. f \in Editors /\ f.cx = 0 /\ f.mode = e.mode /\ f.rows = g.rows /\ f.cy = g.cy /\ f.dirty = TRUE
    BY <1>1 DEF Editors
  <1> HIDE DEF f
  <1>3. f.cx <= size(f)
    BY <1>2, Fields
  <1>4. Beyond(f) => Beyond(e)
    BY <1>1, <1>2, SameSize
  <1>5. Edited(e, f)
    BY <1>2, <1>3, <1>4, DirtyText
  <1>6. QED
    BY <1>5 DEF f, g

\* 'o' opens a row below: it breaks the row at its end.
LEMMA OpenBelowKey ==
  ASSUME NEW e \in Editors, e.cx <= size(e)
  PROVE  Edited(e, o(e))
  <1> DEFINE g == [e EXCEPT !.cx = IF OnRow(e) THEN size(e) ELSE @]
             h == editorInsertNewline(g)
             f == [h EXCEPT !.mode = "insert"]
  <1>1. e.cx \in Nat /\ size(e) \in Nat /\ (~OnRow(e) => e.cx = size(e))
    <2>1. e.cx \in Nat /\ size(e) \in Nat
      BY Fields
    <2>2. QED
      BY <2>1 DEF size
  <1>2. g = [e EXCEPT !.cx = size(e)]
    BY <1>1 DEF Editors
  <1>3. g \in Editors /\ g.cx = size(e) /\ g.rows = e.rows /\ g.cy = e.cy /\ g.dirty = e.dirty
    <2> HIDE DEF g
    <2>1. QED
      BY <1>1, <1>2 DEF Editors
  <1> HIDE DEF g
  <1>4. size(g) = size(e) /\ (Beyond(g) <=> Beyond(e))
    BY <1>3, SameSize
  <1>5. g.cx <= size(g) /\ g.cx \in {0, size(g)}
    BY <1>1, <1>3, <1>4
  <1>6. /\ h \in Editors /\ h.cx = 0 /\ h.dirty = g.dirty /\ (Beyond(h) => Beyond(g))
        /\ Grown(g.rows, h.rows)
    BY <1>3, <1>5, NewlineFacts
  <1> HIDE DEF h
  <1>7. f \in Editors /\ f.cx = 0 /\ f.rows = h.rows /\ f.cy = h.cy /\ f.dirty = h.dirty /\ f.mode = "insert"
    BY <1>6 DEF Editors
  <1> HIDE DEF f
  <1>8. f.cx <= size(f)
    BY <1>7, Fields
  <1>9. Beyond(f) => Beyond(e)
    BY <1>4, <1>6, <1>7, SameSize
  <1>10. Grown(e.rows, f.rows) /\ f.dirty = e.dirty
    BY <1>3, <1>6, <1>7
  <1>11. Edited(e, f)
    BY <1>7, <1>8, <1>9, <1>10 DEF Edited
  <1>12. o(e) = f
    BY DEF o, f, h, g
  <1>13. QED
    BY <1>11, <1>12

\* 'O' opens a row above.
LEMMA OpenAboveKey ==
  ASSUME NEW e \in Editors
  PROVE  Edited(e, O(e))
  <1> DEFINE none == << >>
             g == [e EXCEPT !.cx = 0]
             h == editorInsertRow(g, e.cy, none)
             f == [h EXCEPT !.mode = "insert"]
  <1>1. none \in RowSet
    BY DEF RowSet
  <1>2. O(e) = f
    BY DEF O
  <1> HIDE DEF none
  <1>3. g \in Editors /\ g.cx = 0 /\ g.rows = e.rows /\ g.cy = e.cy /\ g.dirty = e.dirty
    BY DEF Editors
  <1> HIDE DEF g
  <1>4. e.cy \in Nat /\ Len(e.rows) \in Nat
    BY Fields
  <1>5. /\ h \in Editors /\ SamePlace(g, h) /\ h.dirty = g.dirty
        /\ Len(h.rows) = IF e.cy > Len(g.rows) THEN Len(g.rows) ELSE Len(g.rows) + 1
    BY <1>1, <1>3, <1>4, InsertRowFacts
  <1>6. Grown(g.rows, h.rows)
    BY <1>1, <1>3, <1>4, InsertRowGrown
  <1> HIDE DEF h
  <1>7. f \in Editors /\ f.cx = 0 /\ f.rows = h.rows /\ f.cy = e.cy /\ f.dirty = e.dirty /\ f.mode = "insert"
    BY <1>3, <1>5 DEF Editors, SamePlace
  <1> HIDE DEF f
  <1>8. f.cx <= size(f)
    BY <1>7, Fields
  <1>9. Beyond(f) => Beyond(e)
    BY <1>3, <1>4, <1>5, <1>7 DEF Beyond, numrows
  <1>10. Edited(e, f)
    BY <1>3, <1>6, <1>7, <1>8, <1>9 DEF Edited
  <1>11. QED
    BY <1>2, <1>10

\* 'x' takes out the character under the cursor.
LEMMA xKey ==
  ASSUME NEW e \in Editors, e.cx <= size(e), e.mode # "astray"
  PROVE  Edited(e, x(e))
  <1> DEFINE g == editorRowDelChar(e, e.cy, e.cx)
             a == IF g.cx >= size(g) /\ g.cx > 0 THEN g.cx - 1 ELSE g.cx
             f == [g EXCEPT !.cx = a]
  <1>1. e.cx \in Nat /\ e.cy \in Nat /\ Len(e.rows) \in Nat /\ size(e) \in Nat
    BY Fields
  <1>2. CASE ~(OnRow(e) /\ e.cx < size(e))
    <2>1. x(e) = e
      BY <1>2 DEF x
    <2>2. QED
      BY <2>1, SameText
  <1>3. CASE OnRow(e) /\ e.cx < size(e)
    <2>1. e.cy < Len(e.rows) /\ size(e) = Len(e.rows[e.cy + 1])
      BY <1>3 DEF OnRow, numrows, size, Row
    <2>2. /\ g \in Editors /\ SamePlace(e, g) /\ g.dirty /\ Len(g.rows) = Len(e.rows)
          /\ Len(g.rows[e.cy + 1]) = Len(e.rows[e.cy + 1]) - 1
      BY <1>1, <1>3, <2>1, RowDelCharFacts
    <2>3. x(e) = f
      <3> DEFINE h == [g EXCEPT !.cx = IF @ >= size(g) /\ @ > 0 THEN @ - 1 ELSE @]
      <3>1. x(e) = h
        BY <1>3 DEF x
      <3>2. h = f
        <4> HIDE DEF g
        <4>1. QED
          BY <2>2 DEF Editors
      <3>3. QED
        BY <3>1, <3>2
    <2> HIDE DEF g
    <2>4. g.cx = e.cx /\ g.cy = e.cy /\ g.mode = e.mode
      BY <2>2 DEF SamePlace
    <2>5. size(g) = size(e) - 1 /\ ~Beyond(g)
      <3>1. size(g) = Len(g.rows[e.cy + 1])
        BY <2>1, <2>2, <2>4, Fields
      <3>2. ~Beyond(g)
        BY <1>1, <2>1, <2>2, <2>4 DEF Beyond, numrows
      <3>3. QED
        BY <2>1, <2>2, <3>1, <3>2
    <2>6. a \in Nat /\ a <= size(g)
      BY <1>1, <1>3, <2>4, <2>5
    <2> HIDE DEF a
    <2>7. f \in Editors /\ f.cx = a /\ f.rows = g.rows /\ f.cy = g.cy /\ f.dirty = g.dirty /\ f.mode = e.mode
      BY <2>2, <2>4, <2>6 DEF Editors
    <2> HIDE DEF f
    <2>8. size(f) = size(g) /\ (Beyond(f) <=> Beyond(g))
      BY <2>2, <2>7, SameSize
    <2>9. Edited(e, f)
      BY <2>2, <2>5, <2>6, <2>7, <2>8, DirtyText
    <2>10. QED
      BY <2>3, <2>9
  <1>4. QED
    BY <1>2, <1>3

\* 'p' puts the yanked line below the cursor's.
LEMMA PasteKey ==
  ASSUME NEW e \in Editors, e.cx <= size(e), e.mode # "astray", yank_buf \in RowSet
  PROVE  /\ yank_buf = << >> => Edited(e, editorPasteLine(e))
         /\ yank_buf # << >> => Pasted(e, editorPasteLine(e))
  <1> DEFINE f == editorPasteLine(e)
             k == e.cy + 1
             h == editorInsertRow(e, k, yank_buf)
  <1>1. e.cy \in Nat /\ Len(e.rows) \in Nat /\ k \in Nat
    BY Fields
  <1>2. CASE yank_buf = << >>
    <2>1. f = e
      BY <1>2 DEF editorPasteLine
    <2>2. QED
      BY <1>2, <2>1, SameText
  <1>3. CASE yank_buf # << >>
    <2>1. f = [h EXCEPT !.cy = @ + 1, !.cx = 0]
      BY <1>3 DEF editorPasteLine
    <2> HIDE DEF f
    <2>2. Grown(e.rows, h.rows)
      <3> HIDE DEF k
      <3>1. QED
        BY <1>1, InsertRowGrown
    <2>3. /\ h \in Editors /\ SamePlace(e, h) /\ h.dirty = e.dirty
          /\ Len(h.rows) = IF k > Len(e.rows) THEN Len(e.rows) ELSE Len(e.rows) + 1
      <3> HIDE DEF k
      <3>1. QED
        BY <1>1, InsertRowFacts
    <2> HIDE DEF h
    <2>4. f = [h EXCEPT !.cy = k, !.cx = 0]
      BY <2>1, <2>3 DEF SamePlace
    <2>5. f \in Editors /\ f.cx = 0 /\ f.cy = k /\ f.rows = h.rows /\ f.dirty = e.dirty /\ f.mode = e.mode
      <3> HIDE DEF k
      <3>1. QED
        BY <1>1, <2>3, <2>4 DEF SamePlace, Editors
    <2>6. f.cx <= size(f)
      BY <2>5, Fields
    <2>7. Beyond(f) => e.cy >= Len(e.rows)
      BY <1>1, <2>3, <2>5 DEF Beyond, numrows
    <2>8. Pasted(e, f)
      BY <2>2, <2>5, <2>6, <2>7 DEF Pasted
    <2>9. QED
      BY <1>3, <2>8 DEF f
  <1>4. QED
    BY <1>2, <1>3

\* 'dd' takes out the cursor's line.
LEMMA DeleteLineKey ==
  ASSUME NEW e \in Editors, e.cx <= size(e), e.mode # "astray"
  PROVE  Edited(e, editorDeleteLine(e))
  <1> DEFINE f == editorDeleteLine(e)
             g == editorDelRow(e, e.cy)
             b == IF e.cy >= Len(g.rows) /\ e.cy > 0 THEN e.cy - 1 ELSE e.cy
  <1>1. e.cx \in Nat /\ e.cy \in Nat /\ Len(e.rows) \in Nat
    BY Fields
  <1>2. CASE numrows(e) = 0
    <2>1. f = e
      BY <1>2 DEF editorDeleteLine
    <2>2. QED
      BY <2>1, SameText
  <1>3. CASE numrows(e) # 0
    <2>1. /\ g \in Editors /\ SamePlace(e, g)
          /\ (e.cy >= Len(e.rows) => g = e)
          /\ (e.cy < Len(e.rows) => g.dirty /\ Len(g.rows) = Len(e.rows) - 1)
      BY <1>1, DelRowFacts
    <2>2. f = [g EXCEPT !.cy = IF @ >= numrows(g) /\ @ > 0 THEN @ - 1 ELSE @, !.cx = 0]
      BY <1>3 DEF editorDeleteLine
    <2> HIDE DEF f, g
    <2>3. f = [g EXCEPT !.cy = b, !.cx = 0]
      BY <2>1, <2>2 DEF SamePlace, numrows, Editors
    <2>4. b \in Nat /\ b <= e.cy
      BY <1>1
    <2>5. b > Len(g.rows) => e.cy > Len(e.rows)
      <3>1. CASE e.cy >= Len(e.rows)
        BY <1>1, <2>1, <2>4, <3>1
      <3>2. CASE ~(e.cy >= Len(e.rows))
        BY <1>1, <2>1, <2>4, <3>2
      <3>3. QED
        BY <3>1, <3>2
    <2> HIDE DEF b
    <2>6. f \in Editors /\ f.cx = 0 /\ f.cy = b /\ f.rows = g.rows /\ f.dirty = g.dirty /\ f.mode = e.mode
      BY <2>1, <2>3, <2>4 DEF SamePlace, Editors
    <2>7. f.cx <= size(f)
      BY <2>6, Fields
    <2>8. Beyond(f) => Beyond(e)
      BY <2>5, <2>6 DEF Beyond, numrows
    <2>9. CASE e.cy < Len(e.rows)
      <3>1. f.dirty
        BY <2>1, <2>6, <2>9
      <3>2. Edited(e, f)
        BY <2>6, <2>7, <2>8, <3>1, DirtyText
      <3>3. QED
        BY <3>2 DEF f
    <2>10. CASE ~(e.cy < Len(e.rows))
      <3>1. g = e
        BY <1>1, <2>1, <2>10
      <3>2. Edited(e, f)
        BY <2>6, <2>7, <2>8, <3>1, SameText
      <3>3. QED
        BY <3>2 DEF f
    <2>11. QED
      BY <2>9, <2>10
  <1>4. QED
    BY <1>2, <1>3

-----------------------------------------------------------------------------
(* The steps.                                                              *)

\* The type invariant, in the terms of this module.
TypeParts ==
  /\ E \in Editors
  /\ yank_buf \in RowSet /\ Len(yank_buf) <= Capacity
  /\ file = NoFile \/ file \in Files
  /\ open \in BOOLEAN
  /\ saved \in Texts

\* They are the same.
LEMMA TypeOKParts == TypeOK <=> TypeParts
  BY Zenon DEF TypeOK, TypeParts, Editors, Texts, RowSet, Files

\* And so is the promise about a clean text.
LEMMA CleanParts == CleanKeepsRows <=> (open /\ ~E.dirty => Embedded(saved, E.rows))
  BY Zenon DEF CleanKeepsRows, Embedded

\* What any key in insert or normal mode does.
KeyStep ==
  /\ file' = file /\ open' = open /\ saved' = saved
  /\ yank_buf' \in RowSet /\ Len(yank_buf') <= Capacity
  /\ Beyond(E) => yank_buf' = yank_buf
  /\ InWindow(E') \/ E' = E
  /\ \/ Edited(E, E')
     \/ /\ Pasted(E, E') /\ yank_buf' = yank_buf /\ yank_buf # << >>
        /\ E.mode # "astray" /\ E' = editorScroll(editorPasteLine(E))

\* A key that edits the text and yanks nothing.
LEMMA TextKey ==
  ASSUME IInv, NEW f, Edited(E, f), Text(f)
  PROVE  KeyStep
  <1>1. E \in Editors /\ yank_buf \in RowSet /\ Len(yank_buf) <= Capacity
    BY TypeOKParts DEF IInv, TypeParts
  <1>2. E' = editorScroll(f) /\ yank_buf' = yank_buf /\ file' = file /\ open' = open /\ saved' = saved
    BY DEF Text, Refresh
  <1>3. Edited(E, editorScroll(f))
    BY <1>1, EditedScrolled
  <1>4. InWindow(E')
    BY <1>2, ScrollShowsCursor DEF Edited
  <1>5. QED
    BY <1>1, <1>2, <1>3, <1>4 DEF KeyStep

\* The keys of insert mode.
LEMMA InsertModeStep ==
  ASSUME IInv, InsertMode
  PROVE  KeyStep
  <1>1. E \in Editors /\ E.cx <= size(E) /\ E.mode = "insert"
    BY TypeOKParts DEF IInv, TypeParts, CursorInText, InsertMode, In
  <1>2. "normal" \in Modes /\ "normal" # "astray" /\ E.mode # "astray"
    BY <1>1 DEF Modes
  <1>3. CASE Text([E EXCEPT !.mode = "normal", !.cx = IF @ > 0 THEN @ - 1 ELSE @])
    <2>1. Edited(E, [E EXCEPT !.mode = "normal", !.cx = IF @ > 0 THEN @ - 1 ELSE @])
      BY <1>1, <1>2, ModeKeys
    <2>2. QED
      BY <1>3, <2>1, TextKey
  <1>4. CASE Text([editorInsertNewline(E) EXCEPT !.dirty = TRUE])
    <2>1. Edited(E, [editorInsertNewline(E) EXCEPT !.dirty = TRUE])
      BY <1>1, <1>2, NewlineKey
    <2>2. QED
      BY <1>4, <2>1, TextKey
  <1>5. CASE Text(editorDelChar(E))
    <2>1. Edited(E, editorDelChar(E))
      BY <1>1, <1>2, DelCharKey
    <2>2. QED
      BY <1>5, <2>1, TextKey
  <1>6. ASSUME NEW c \in Chars, Text(editorInsertChar(E, c))
        PROVE  KeyStep
    <2>1. Edited(E, editorInsertChar(E, c))
      BY <1>1, <1>2, InsertCharKey
    <2>2. QED
      BY <1>6, <2>1, TextKey
  <1>7. QED
    BY <1>3, <1>4, <1>5, <1>6 DEF InsertMode

\* The keys of normal mode that are one key.
LEMMA NormalModeStep ==
  ASSUME IInv, NormalMode
  PROVE  KeyStep
  <1>1. E \in Editors /\ E.cx <= size(E) /\ E.mode = "normal" /\ yank_buf \in RowSet /\ Len(yank_buf) <= Capacity
    BY TypeOKParts DEF IInv, TypeParts, CursorInText, NormalMode, In
  <1>2. /\ "insert" \in Modes /\ "insert" # "astray" /\ "command" \in Modes /\ "command" # "astray"
        /\ E.mode # "astray"
    BY <1>1 DEF Modes
  <1>3. ASSUME NEW key \in {"left", "right", "up", "down"}, Text(editorMoveCursor(E, key))
        PROVE  KeyStep
    <2>1. Edited(E, editorMoveCursor(E, key))
      BY <1>1, <1>2, MoveKeys
    <2>2. QED
      BY <1>3, <2>1, TextKey
  <1>4. CASE Text([E EXCEPT !.mode = "insert"])
    <2>1. Edited(E, [E EXCEPT !.mode = "insert"])
      BY <1>1, <1>2, ModeKeys
    <2>2. QED
      BY <1>4, <2>1, TextKey
  <1>5. CASE Text([E EXCEPT !.mode = "insert", !.cx = IF @ < size(E) THEN @ + 1 ELSE @])
    <2>1. Edited(E, [E EXCEPT !.mode = "insert", !.cx = IF @ < size(E) THEN @ + 1 ELSE @])
      BY <1>1, <1>2, ModeKeys
    <2>2. QED
      BY <1>5, <2>1, TextKey
  <1>6. CASE Text(o(E))
    <2>1. Edited(E, o(E))
      BY <1>1, OpenBelowKey
    <2>2. QED
      BY <1>6, <2>1, TextKey
  <1>7. CASE Text(O(E))
    <2>1. Edited(E, O(E))
      BY <1>1, OpenAboveKey
    <2>2. QED
      BY <1>7, <2>1, TextKey
  <1>8. CASE Text(x(E))
    <2>1. Edited(E, x(E))
      BY <1>1, <1>2, xKey
    <2>2. QED
      BY <1>8, <2>1, TextKey
  <1>9. CASE Text([E EXCEPT !.mode = "command"])
    <2>1. Edited(E, [E EXCEPT !.mode = "command"])
      BY <1>1, <1>2, ModeKeys
    <2>2. QED
      BY <1>9, <2>1, TextKey
  <1>10. CASE Text(editorPasteLine(E))
    <2>1. /\ yank_buf = << >> => Edited(E, editorPasteLine(E))
          /\ yank_buf # << >> => Pasted(E, editorPasteLine(E))
      BY <1>1, <1>2, PasteKey
    <2>2. CASE yank_buf = << >>
      BY <1>10, <2>1, <2>2, TextKey
    <2>3. CASE yank_buf # << >>
      <3>1. Pasted(E, editorScroll(editorPasteLine(E)))
        BY <1>1, <2>1, <2>3, EditedScrolled
      <3>2. /\ E' = editorScroll(editorPasteLine(E))
            /\ yank_buf' = yank_buf /\ file' = file /\ open' = open /\ saved' = saved
        BY <1>10 DEF Text, Refresh
      <3>3. InWindow(E')
        BY <2>1, <2>3, <3>2, ScrollShowsCursor DEF Pasted
      <3>4. QED
        BY <1>1, <1>2, <2>3, <3>1, <3>2, <3>3 DEF KeyStep
    <2>4. QED
      BY <2>2, <2>3
  <1>11. QED
    BY <1>3, <1>4, <1>5, <1>6, <1>7, <1>8, <1>9, <1>10 DEF NormalMode

\* 'dd' and 'yy': what is yanked fits the buffer, and past the text nothing is.
LEMMA YankStep ==
  ASSUME IInv, dd \/ yy
  PROVE  KeyStep
  <1>1. E \in Editors /\ E.cx <= size(E) /\ E.mode = "normal" /\ yank_buf \in RowSet /\ Len(yank_buf) <= Capacity
    BY TypeOKParts DEF IInv, TypeParts, CursorInText, dd, yy, In
  <1>2. E.cy \in Nat /\ Len(E.rows) \in Nat /\ E.mode # "astray"
    BY <1>1, Fields
  <1>3. /\ editorYankLine(E) \in RowSet /\ Len(editorYankLine(E)) <= Capacity
        /\ Beyond(E) => editorYankLine(E) = yank_buf
    <2>1. CASE OnRow(E)
      <3>1. E.cy + 1 \in 1 .. Len(E.rows) /\ ~Beyond(E)
        BY <1>2, <2>1 DEF OnRow, Beyond, numrows
      <3>2. Row(E) \in Seq(Chars)
        BY <1>1, <3>1, Fields DEF Row, RowSet
      <3>3. Cut(Row(E)) \in Seq(Chars) /\ Len(Cut(Row(E))) <= Capacity
        BY <3>2, CutFacts
      <3>4. QED
        BY <2>1, <3>1, <3>3 DEF editorYankLine, RowSet
    <2>2. CASE ~OnRow(E)
      BY <1>1, <2>2 DEF editorYankLine
    <2>3. QED
      BY <2>1, <2>2
  <1>4. CASE dd
    <2>1. Edited(E, editorDeleteLine(E)) /\ Edited(E, editorScroll(editorDeleteLine(E)))
      BY <1>1, <1>2, DeleteLineKey, EditedScrolled
    <2>2. /\ E' = editorScroll(editorDeleteLine(E)) /\ yank_buf' = editorYankLine(E)
          /\ file' = file /\ open' = open /\ saved' = saved
      BY <1>4 DEF dd, Refresh
    <2>3. InWindow(E')
      BY <2>1, <2>2, ScrollShowsCursor DEF Edited
    <2>4. QED
      BY <1>3, <2>1, <2>2, <2>3 DEF KeyStep
  <1>5. CASE yy
    <2>1. Edited(E, E)
      BY <1>1, <1>2, SameText
    <2>2. E' = E /\ yank_buf' = editorYankLine(E) /\ file' = file /\ open' = open /\ saved' = saved
      BY <1>5 DEF yy
    <2>3. QED
      BY <1>3, <2>1, <2>2 DEF KeyStep
  <1>6. QED
    BY <1>4, <1>5

\* The invariant of the next state, put together from its parts.
LEMMA NextParts ==
  ASSUME E' \in Editors, yank_buf' \in RowSet, Len(yank_buf') <= Capacity,
         file' = NoFile \/ file' \in Files, open' \in BOOLEAN, saved' \in Texts,
         E'.cx <= size(E'), Beyond(E') \/ E'.mode = "astray" => yank_buf' # << >>,
         open' /\ ~E'.dirty => Embedded(saved', E'.rows)
  PROVE  IInv'
  <1>1. TypeOK'
    <2>1. TypeParts'
      BY DEF TypeParts
    <2>2. QED
      BY <2>1, TypeOKParts, PTL
  <1>2. CleanKeepsRows'
    <2>1. (open /\ ~E.dirty => Embedded(saved, E.rows))'
      OBVIOUS
    <2>2. QED
      BY <2>1, CleanParts, PTL
  <1>3. CursorInText'
    BY DEF CursorInText
  <1>4. QED
    BY <1>1, <1>2, <1>3 DEF IInv

\* A key keeps the invariant.
LEMMA KeyStepKeeps ==
  ASSUME IInv, KeyStep
  PROVE  IInv'
  <1>1. /\ E \in Editors /\ (file = NoFile \/ file \in Files) /\ open \in BOOLEAN /\ saved \in Texts
        /\ (Beyond(E) \/ E.mode = "astray" => yank_buf # << >>)
    BY TypeOKParts DEF IInv, TypeParts, CursorInText
  <1>2. E.rows \in Texts
    BY <1>1, Fields
  <1>3. open /\ ~E.dirty => Embedded(saved, E.rows)
    BY CleanParts DEF IInv
  <1>4. /\ E' \in Editors /\ E'.cx <= size(E')
        /\ ~E'.dirty => ~E.dirty /\ Grown(E.rows, E'.rows)
    BY DEF KeyStep, Edited, Pasted
  <1>5. Beyond(E') \/ E'.mode = "astray" => yank_buf' # << >>
    <2>1. CASE Edited(E, E')
      BY <1>1, <2>1 DEF KeyStep, Edited
    <2>2. CASE ~Edited(E, E')
      BY <2>2 DEF KeyStep
    <2>3. QED
      BY <2>1, <2>2
  <1>6. open' /\ ~E'.dirty => Embedded(saved', E'.rows)
    <2> SUFFICES ASSUME open', ~E'.dirty
                 PROVE  Embedded(saved', E'.rows)
      OBVIOUS
    <2>1. saved' = saved /\ open
      BY DEF KeyStep
    <2>2. Embedded(saved, E.rows) /\ Grown(E.rows, E'.rows)
      BY <1>3, <1>4, <2>1
    <2>3. Embedded(saved, E'.rows)
      BY <1>1, <1>2, <2>2, EmbeddedGrown
    <2>4. QED
      BY <2>1, <2>3
  <1>7. QED
    BY <1>1, <1>4, <1>5, <1>6, NextParts DEF KeyStep

\* A session that starts shows the file, from its top.
LEMMA OpenedFacts ==
  ASSUME NEW f, f = NoFile \/ f \in Files
  PROVE  /\ Opened(f) \in Editors /\ Opened(f).cx <= size(Opened(f)) /\ ~Beyond(Opened(f))
         /\ Opened(f).mode = "normal" /\ Opened(f).rows = Lines(f) /\ Lines(f) \in Texts
         /\ Embedded(Lines(f), Lines(f)) /\ Opened(f).dirty = FALSE
  <1> DEFINE e == Opened(f)
  <1>1. Lines(f) \in Texts
    BY LinesFacts
  <1>2. e \in Editors /\ e.cx = 0 /\ e.cy = 0 /\ e.mode = "normal" /\ e.rows = Lines(f) /\ e.dirty = FALSE
    BY <1>1 DEF Opened, Editors
  <1> HIDE DEF e
  <1>3. e.cx <= size(e) /\ ~Beyond(e)
    BY <1>2, Fields DEF Beyond, numrows
  <1>4. QED
    BY <1>1, <1>2, <1>3, EmbeddedInItself DEF e

\* The editor is started.
LEMMA RunStep ==
  ASSUME IInv, editorRun
  PROVE  IInv' /\ ~Beyond(E')
  <1>1. yank_buf \in RowSet /\ Len(yank_buf) <= Capacity /\ (file = NoFile \/ file \in Files)
    BY TypeOKParts DEF IInv, TypeParts
  <1>2. E' = Opened(file) /\ saved' = Lines(file) /\ yank_buf' = yank_buf /\ file' = file /\ open' = TRUE
    BY DEF editorRun
  <1>3. /\ E' \in Editors /\ E'.cx <= size(E') /\ ~Beyond(E')
        /\ E'.mode # "astray" /\ saved' \in Texts /\ Embedded(saved', E'.rows)
    BY <1>1, <1>2, OpenedFacts
  <1>4. QED
    BY <1>1, <1>2, <1>3, NextParts

\* A command line is run.
LEMMA ExecuteStep ==
  ASSUME IInv, NEW cmd \in {"q", "q!", "w", "wq", "other"}, Execute(cmd)
  PROVE  IInv' /\ (Beyond(E') => Beyond(E))
  <1>1. /\ E \in Editors /\ (file = NoFile \/ file \in Files) /\ open \in BOOLEAN /\ saved \in Texts
        /\ yank_buf \in RowSet /\ Len(yank_buf) <= Capacity
        /\ E.cx <= size(E) /\ (Beyond(E) => yank_buf # << >>) /\ E.mode = "command" /\ open
    BY TypeOKParts DEF IInv, TypeParts, CursorInText, Execute, In
  <1>2. E.rows \in Texts /\ Image(E.rows) \in Files
    BY <1>1, Fields, ImageFacts
  <1>3. ~E.dirty => Embedded(saved, E.rows)
    BY <1>1, CleanParts DEF IInv
  <1>4. Embedded(E.rows, E.rows)
    BY <1>2, EmbeddedInItself
  <1>5. yank_buf' = yank_buf
    BY DEF Execute
  <1>6. ASSUME NEW created \in BOOLEAN, editorSave(created)
        PROVE  /\ file' = NoFile \/ file' \in Files
               /\ saved' \in Texts
               /\ saved' = IF file = NoFile /\ ~created THEN saved ELSE E.rows
    BY <1>1, <1>2, <1>6 DEF editorSave
  <1>7. ASSUME NEW d \in BOOLEAN, E' = [E EXCEPT !.dirty = d, !.mode = "normal"], open' = open,
               file' = NoFile \/ file' \in Files, saved' \in Texts, ~d => Embedded(saved', E.rows)
        PROVE  IInv' /\ (Beyond(E') => Beyond(E))
    <2>1. /\ E' \in Editors /\ E'.rows = E.rows /\ E'.cx = E.cx /\ E'.cy = E.cy /\ E'.dirty = d
          /\ E'.mode = "normal"
      BY <1>1, <1>7 DEF Editors
    <2>2. size(E') = size(E) /\ (Beyond(E') <=> Beyond(E))
      BY <1>1, <2>1, SameSize
    <2>3. QED
      BY <1>1, <1>5, <1>7, <2>1, <2>2, NextParts
  <1>8. ASSUME Quit, file' = NoFile \/ file' \in Files, saved' \in Texts
        PROVE  IInv' /\ (Beyond(E') => Beyond(E))
    <2>1. E' = E /\ open' = FALSE
      BY <1>8 DEF Quit
    <2>2. QED
      BY <1>1, <1>5, <1>8, <2>1, NextParts
  <1>9. ASSUME Back(E), file' = file, saved' = saved
        PROVE  IInv' /\ (Beyond(E') => Beyond(E))
    <2>1. E' = [E EXCEPT !.dirty = E.dirty, !.mode = "normal"] /\ open' = open /\ E.dirty \in BOOLEAN
      BY <1>1, <1>9 DEF Back, Editors
    <2>2. QED
      BY <1>1, <1>3, <1>7, <1>9, <2>1
  <1>10. CASE cmd = "q"
    <2>1. (IF E.dirty THEN Back(E) ELSE Quit) /\ file' = file /\ saved' = saved
      BY <1>10 DEF Execute
    <2>2. QED
      BY <1>1, <1>8, <1>9, <2>1
  <1>11. CASE cmd = "q!"
    <2>1. Quit /\ file' = file /\ saved' = saved
      BY <1>11 DEF Execute
    <2>2. QED
      BY <1>1, <1>8, <2>1
  <1>12. CASE cmd = "w"
    <2>1. PICK created \in BOOLEAN :
            /\ editorSave(created)
            /\ Back([E EXCEPT !.dirty = @ /\ file = NoFile /\ ~created])
      BY <1>12 DEF Execute
    <2> DEFINE d == E.dirty /\ file = NoFile /\ ~created
    <2>2. E' = [E EXCEPT !.dirty = d, !.mode = "normal"] /\ open' = open
      BY <1>1, <2>1 DEF Back, Editors
    <2>3. /\ file' = NoFile \/ file' \in Files
          /\ saved' \in Texts
          /\ saved' = IF file = NoFile /\ ~created THEN saved ELSE E.rows
      BY <1>6, <2>1
    <2>4. ~d => Embedded(saved', E.rows)
      <3>1. CASE file = NoFile /\ ~created
        BY <1>3, <2>3, <3>1
      <3>2. CASE ~(file = NoFile /\ ~created)
        BY <1>4, <2>3, <3>2
      <3>3. QED
        BY <3>1, <3>2
    <2>5. d \in BOOLEAN
      OBVIOUS
    <2> HIDE DEF d
    <2>6. QED
      BY <1>7, <2>2, <2>3, <2>4, <2>5
  <1>13. CASE cmd = "wq"
    <2>1. Quit /\ \E created \in BOOLEAN : editorSave(created)
      BY <1>13 DEF Execute
    <2>2. QED
      BY <1>6, <1>8, <2>1
  <1>14. CASE cmd = "other"
    <2>1. Back(E) /\ file' = file /\ saved' = saved
      BY <1>14 DEF Execute
    <2>2. QED
      BY <1>9, <2>1
  <1>15. QED
    BY <1>10, <1>11, <1>12, <1>13, <1>14

\* Every step keeps the invariant.
LEMMA NextKeeps == IInv /\ [Next]_vars => IInv'
  <1> SUFFICES ASSUME IInv, [Next]_vars
               PROVE  IInv'
    OBVIOUS
  <1>1. CASE editorRun
    BY <1>1, RunStep
  <1>2. CASE InsertMode
    BY <1>2, InsertModeStep, KeyStepKeeps
  <1>3. CASE NormalMode
    BY <1>3, NormalModeStep, KeyStepKeeps
  <1>4. CASE dd \/ yy
    BY <1>4, YankStep, KeyStepKeeps
  <1>5. ASSUME NEW cmd \in {"q", "q!", "w", "wq", "other"}, Execute(cmd)
        PROVE  IInv'
    BY <1>5, ExecuteStep
  <1>6. CASE UNCHANGED vars
    <2>1. E' = E /\ yank_buf' = yank_buf /\ file' = file /\ open' = open /\ saved' = saved
      BY <1>6 DEF vars
    <2>2. QED
      BY <2>1 DEF IInv, TypeOK, CursorInText, CleanKeepsRows, size, OnRow, Row, numrows, Beyond
  <1>7. QED
    BY <1>1, <1>2, <1>3, <1>4, <1>5, <1>6 DEF Next

\* A step that takes the cursor past the line after the text is a paste.
LEMMA NextLeaves ==
  IInv /\ [Next]_vars =>
    [Beyond(E)' /\ ~Beyond(E) => E.cy = numrows(E) /\ E' = editorScroll(editorPasteLine(E))]_vars
  <1> SUFFICES ASSUME IInv, Next, Beyond(E'), ~Beyond(E)
               PROVE  E.cy = numrows(E) /\ E' = editorScroll(editorPasteLine(E))
    OBVIOUS
  <1>1. E \in Editors
    BY TypeOKParts DEF IInv, TypeParts
  <1>2. E.cy \in Nat /\ Len(E.rows) \in Nat
    BY <1>1, Fields
  <1>3. ~editorRun
    BY RunStep
  <1>4. ~(\E cmd \in {"q", "q!", "w", "wq", "other"} : Execute(cmd))
    BY ExecuteStep
  <1>5. KeyStep
    BY <1>3, <1>4, InsertModeStep, NormalModeStep, YankStep DEF Next
  <1>6. ~Edited(E, E')
    BY DEF Edited
  <1>7. Pasted(E, E') /\ E' = editorScroll(editorPasteLine(E))
    BY <1>5, <1>6 DEF KeyStep
  <1>8. E.cy >= Len(E.rows)
    BY <1>7 DEF Pasted
  <1>9. QED
    BY <1>2, <1>7, <1>8 DEF Beyond, numrows

-----------------------------------------------------------------------------
(* A saved file reads back.                                                *)

\* e numbers the ends of the text from 1 to m; 0 stands before the first.
Numbers(e, m, text) ==
  /\ e \in [0 .. m -> Nat] /\ e[0] = 0
  /\ \A i, j \in 0 .. m : i < j => e[i] < e[j]
  /\ \A i \in 1 .. m : e[i] \in Ends(text)
  /\ \A j \in Ends(text) : \E i \in 1 .. m : e[i] = j

\* A chain of growing numbers grows from any of them to any later one.
LEMMA ChainGrows ==
  ASSUME NEW m \in Nat, NEW e \in [0 .. m -> Nat], \A i \in 1 .. m : e[i - 1] < e[i]
  PROVE  \A i, j \in 0 .. m : i < j => e[i] < e[j]
  <1> SUFFICES ASSUME NEW i \in 0 .. m, \E j \in 0 .. m : i < j /\ ~(e[i] < e[j])
               PROVE  FALSE
    OBVIOUS
  <1> DEFINE T == {j \in 0 .. m : i < j /\ ~(e[i] < e[j])}
  <1>1. T \subseteq 0 .. m /\ T # {}
    OBVIOUS
  <1>2. PICK j \in T : \A k \in T : j <= k
    <2> HIDE DEF T
    <2>1. T \subseteq Nat
      BY <1>1
    <2>2. QED
      BY <1>1, <2>1, LeastNat
  <1>3. j \in 0 .. m /\ i < j /\ ~(e[i] < e[j])
    OBVIOUS
  <1> DEFINE k == j - 1
  <1>4. k \in 0 .. m /\ i <= k /\ ~(j <= k) /\ j \in 1 .. m
    BY <1>3
  <1>5. e[k] < e[j]
    BY <1>4
  <1>6. k \notin T
    BY <1>2, <1>4
  <1> HIDE DEF k
  <1>7. i = k \/ e[i] < e[k]
    BY <1>4, <1>6
  <1>8. e[i] \in Nat /\ e[j] \in Nat /\ e[k] \in Nat
    BY <1>3, <1>4
  <1>9. QED
    BY <1>3, <1>5, <1>7, <1>8

\* Every place up to the last number lies between two of them.
LEMMA Between ==
  ASSUME NEW m \in Nat, NEW e \in [0 .. m -> Nat], e[0] = 0, NEW j \in Nat, j >= 1, j <= e[m]
  PROVE  \E i \in 1 .. m : e[i - 1] < j /\ j <= e[i]
  <1> DEFINE T == {i \in 0 .. m : j <= e[i]}
  <1>1. T \subseteq 0 .. m /\ T # {}
    <2>1. m \in T
      OBVIOUS
    <2>2. QED
      BY <2>1
  <1>2. PICK i \in T : \A k \in T : i <= k
    <2> HIDE DEF T
    <2>1. T \subseteq Nat
      BY <1>1
    <2>2. QED
      BY <1>1, <2>1, LeastNat
  <1>3. i \in 0 .. m /\ j <= e[i]
    OBVIOUS
  <1>4. i # 0
    BY <1>3
  <1> DEFINE k == i - 1
  <1>5. k \in 0 .. m /\ ~(i <= k) /\ i \in 1 .. m
    BY <1>3, <1>4
  <1>6. k \notin T
    BY <1>2, <1>5
  <1>7. e[k] < j
    <2> HIDE DEF k
    <2>1. e[k] \in Nat /\ ~(j <= e[k])
      BY <1>5, <1>6
    <2>2. QED
      BY <2>1
  <1>8. QED
    BY <1>3, <1>5, <1>7

\* The ends of a text are finitely many places of it, and so are those before one.
LEMMA EndsFacts ==
  ASSUME NEW text \in Files
  PROVE  /\ Len(text) \in Nat /\ Ends(text) \subseteq 1 .. Len(text) + 1
         /\ IsFiniteSet(Ends(text)) /\ Cardinality(Ends(text)) \in Nat
         /\ \A j : /\ IsFiniteSet(EndsBefore(text, j)) /\ Cardinality(EndsBefore(text, j)) \in Nat
                   /\ EndsBefore(text, j) \subseteq Ends(text)
  <1>1. Len(text) \in Nat /\ Ends(text) \subseteq 1 .. Len(text) + 1
    BY DEF Ends, Files
  <1>2. IsFiniteSet(Ends(text)) /\ Cardinality(Ends(text)) \in Nat
    <2>1. IsFiniteSet(1 .. Len(text) + 1)
      BY <1>1, FS_Interval
    <2>2. QED
      BY <1>1, <2>1, FS_Subset, FS_CardinalityType
  <1>3. ASSUME NEW j
        PROVE  /\ IsFiniteSet(EndsBefore(text, j)) /\ Cardinality(EndsBefore(text, j)) \in Nat
               /\ EndsBefore(text, j) \subseteq Ends(text)
    <2>1. EndsBefore(text, j) \subseteq Ends(text)
      BY DEF EndsBefore
    <2>2. QED
      BY <1>2, <2>1, FS_Subset, FS_CardinalityType
  <1>4. QED
    BY <1>1, <1>2, <1>3

\* A later end has more ends before it.
LEMMA RankGrows ==
  ASSUME NEW text \in Files, NEW j \in Ends(text), NEW k \in Ends(text), j < k
  PROVE  Cardinality(EndsBefore(text, j)) < Cardinality(EndsBefore(text, k))
  <1> DEFINE J == EndsBefore(text, j)
             K == EndsBefore(text, k)
  <1>1. /\ IsFiniteSet(J) /\ Cardinality(J) \in Nat
        /\ IsFiniteSet(K) /\ Cardinality(K) \in Nat
    BY EndsFacts
  <1>2. j \in Nat /\ k \in Nat /\ \A i \in Ends(text) : i \in Nat
    BY EndsFacts
  <1>3. J \cup {j} \subseteq K /\ j \notin J
    <2>1. ~(j < j) /\ \A i \in Ends(text) : i < j => i < k
      BY <1>2
    <2>2. QED
      BY <2>1 DEF EndsBefore
  <1> HIDE DEF J, K
  <1>4. Cardinality(J \cup {j}) = Cardinality(J) + 1
    BY <1>1, <1>3, FS_AddElement
  <1>5. Cardinality(J \cup {j}) <= Cardinality(K)
    BY <1>1, <1>3, FS_Subset
  <1>6. QED
    BY <1>1, <1>4, <1>5 DEF J, K

\* So two ends with equally many before them are one.
LEMMA RankUnique ==
  ASSUME NEW text \in Files, NEW j \in Ends(text), NEW k \in Ends(text),
         Cardinality(EndsBefore(text, j)) = Cardinality(EndsBefore(text, k))
  PROVE  j = k
  <1>1. j \in Nat /\ k \in Nat
    BY EndsFacts
  <1>2. /\ Cardinality(EndsBefore(text, j)) \in Nat
        /\ Cardinality(EndsBefore(text, k)) \in Nat
    BY EndsFacts
  <1>3. CASE j < k
    <2>1. Cardinality(EndsBefore(text, j)) < Cardinality(EndsBefore(text, k))
      BY <1>3, RankGrows
    <2>2. QED
      BY <1>2, <2>1
  <1>4. CASE k < j
    <2>1. Cardinality(EndsBefore(text, k)) < Cardinality(EndsBefore(text, j))
      BY <1>4, RankGrows
    <2>2. QED
      BY <1>2, <2>1
  <1>5. QED
    BY <1>1, <1>3, <1>4

\* Of numbered ends the i-th has i - 1 before it; the rows lie between them.
LEMMA NumbersRank ==
  ASSUME NEW text \in Files, NEW m \in Nat, m >= 1, NEW e, Numbers(e, m, text)
  PROVE  /\ \A i \in 1 .. m : Cardinality(EndsBefore(text, e[i])) = i - 1
         /\ Cardinality(Ends(text)) = m
         /\ \A i \in 1 .. m : /\ NthEnd(text, i) = e[i]
                              /\ RowUpTo(text, e[i]) = SubSeq(text, e[i - 1] + 1, e[i] - 1)
         /\ e[m] = Len(text) + 1
  <1> DEFINE Rank(i) == Cardinality(EndsBefore(text, e[i]))
  <1>1. /\ e \in [0 .. m -> Nat] /\ e[0] = 0
        /\ \A i, j \in 0 .. m : i < j => e[i] < e[j]
        /\ \A i \in 1 .. m : e[i] \in Ends(text)
        /\ \A j \in Ends(text) : \E i \in 1 .. m : e[i] = j
    BY DEF Numbers
  <1>2. ASSUME NEW i \in 2 .. m
        PROVE  Rank(i) = Rank(i - 1) + 1
    <2> DEFINE k == i - 1
               K == EndsBefore(text, e[k])
    <2>1. k \in 1 .. m /\ k < i /\ i \in 1 .. m
      OBVIOUS
    <2>2. ASSUME NEW l \in 1 .. m
          PROVE  e[l] < e[i] <=> (e[l] < e[k] \/ e[l] = e[k])
      <3>1. l < k \/ l = k \/ l = i \/ i < l
        BY <2>1
      <3>2. e[l] \in Nat /\ e[k] \in Nat /\ e[i] \in Nat /\ l \in 0 .. m /\ k \in 0 .. m /\ i \in 0 .. m
        BY <1>1, <2>1
      <3>3. /\ l < k => e[l] < e[k]
            /\ i < l => e[i] < e[l]
            /\ e[k] < e[i]
        BY <1>1, <2>1, <3>2
      <3> HIDE DEF k
      <3>4. QED
        BY <3>1, <3>2, <3>3
    <2> HIDE DEF k
    <2>3. EndsBefore(text, e[i]) = K \cup {e[k]}
      BY <1>1, <2>1, <2>2 DEF EndsBefore
    <2>4. e[k] \notin K
      <3>1. e[k] \in Nat
        BY <1>1, <2>1
      <3>2. QED
        BY <3>1 DEF EndsBefore
    <2>5. IsFiniteSet(K)
      BY EndsFacts
    <2> HIDE DEF K
    <2>6. Cardinality(K \cup {e[k]}) = Cardinality(K) + 1
      BY <2>4, <2>5, FS_AddElement
    <2>7. QED
      BY <2>3, <2>6 DEF k, K
  <1>3. Rank(1) = 0
    <2>1. \A l \in 1 .. m : ~(e[l] < e[1])
      <3> TAKE l \in 1 .. m
      <3>1. 1 \in 0 .. m /\ l \in 0 .. m /\ (l = 1 \/ 1 < l)
        OBVIOUS
      <3>2. e[1] \in Nat /\ e[l] \in Nat /\ (l = 1 \/ e[1] < e[l])
        BY <1>1, <3>1
      <3>3. QED
        BY <3>2
    <2>2. EndsBefore(text, e[1]) = {}
      BY <1>1, <2>1 DEF EndsBefore
    <2>3. QED
      BY <2>2, FS_EmptySet
  <1>4. \A i \in 1 .. m : Rank(i) = i - 1
    <2> DEFINE Bad == {i \in 1 .. m : Rank(i) # i - 1}
    <2> SUFFICES ASSUME Bad # {}
                 PROVE  FALSE
      OBVIOUS
    <2>1. PICK i \in Bad : \A k \in Bad : i <= k
      <3>1. Bad \subseteq 1 .. m
        OBVIOUS
      <3> HIDE DEF Bad
      <3>2. Bad \subseteq Nat
        BY <3>1
      <3>3. QED
        BY <3>2, LeastNat
    <2> HIDE DEF Rank
    <2>2. i \in 1 .. m /\ Rank(i) # i - 1
      OBVIOUS
    <2>3. i # 1
      BY <1>3, <2>2
    <2>4. i \in 2 .. m /\ i - 1 \in 1 .. m /\ ~(i <= i - 1)
      BY <2>2, <2>3
    <2>5. i - 1 \notin Bad
      BY <2>1, <2>4
    <2>6. Rank(i - 1) = i - 1 - 1
      BY <2>4, <2>5
    <2>7. QED
      BY <1>2, <2>2, <2>4, <2>6
  <1>5. m \in 1 .. m /\ e[m] \in Ends(text)
    BY <1>1
  <1>6. \A l \in 1 .. m : e[l] <= e[m]
    <2> TAKE l \in 1 .. m
    <2>1. l \in 0 .. m /\ m \in 0 .. m /\ (l = m \/ l < m)
      OBVIOUS
    <2>2. e[l] \in Nat /\ e[m] \in Nat /\ (l = m \/ e[l] < e[m])
      BY <1>1, <2>1
    <2>3. QED
      BY <2>2
  <1>7. e[m] = Len(text) + 1
    <2>1. Len(text) + 1 \in Ends(text)
      BY DEF Ends
    <2>2. PICK l \in 1 .. m : e[l] = Len(text) + 1
      BY <1>1, <2>1
    <2>3. e[m] \in 1 .. Len(text) + 1 /\ Len(text) \in Nat
      BY <1>5, EndsFacts
    <2>4. e[l] <= e[m]
      BY <1>6
    <2>5. QED
      BY <2>2, <2>3, <2>4
  <1>8. Cardinality(Ends(text)) = m
    <2> DEFINE K == EndsBefore(text, e[m])
    <2>1. Ends(text) = K \cup {e[m]} /\ e[m] \notin K
      <3>1. e[m] \in Nat /\ \A j \in Ends(text) : j \in Nat /\ j <= e[m]
        BY <1>1, <1>5, <1>6
      <3>2. QED
        BY <1>5, <3>1 DEF EndsBefore
    <2>2. IsFiniteSet(K)
      BY EndsFacts
    <2>3. Cardinality(K) = m - 1
      BY <1>4, <1>5
    <2> HIDE DEF K
    <2>4. Cardinality(K \cup {e[m]}) = Cardinality(K) + 1
      BY <2>1, <2>2, FS_AddElement
    <2>5. QED
      BY <2>1, <2>3, <2>4
  <1>9. ASSUME NEW i \in 1 .. m
        PROVE  NthEnd(text, i) = e[i]
    <2>1. e[i] \in Ends(text) /\ Cardinality(EndsBefore(text, e[i])) = i - 1
      BY <1>1, <1>4
    <2>2. /\ NthEnd(text, i) \in Ends(text)
          /\ Cardinality(EndsBefore(text, NthEnd(text, i))) = i - 1
      BY <2>1 DEF NthEnd
    <2>3. QED
      BY <2>1, <2>2, RankUnique
  <1>10. ASSUME NEW i \in 1 .. m
         PROVE  RowUpTo(text, e[i]) = SubSeq(text, e[i - 1] + 1, e[i] - 1)
    <2> DEFINE k == i - 1
               B == EndsBefore(text, e[i]) \cup {0}
    <2>1. k \in 0 .. m /\ i \in 0 .. m /\ k < i /\ (k = 0 \/ k \in 1 .. m)
      OBVIOUS
    <2> HIDE DEF k
    <2>2. e[k] \in B
      BY <1>1, <2>1 DEF EndsBefore
    <2>3. ASSUME NEW b \in B
          PROVE  b \in Nat /\ b <= e[k]
      <3>1. CASE b = 0
        BY <1>1, <2>1, <3>1
      <3>2. CASE b # 0
        <4>1. b \in Ends(text) /\ b < e[i]
          BY <3>2 DEF EndsBefore
        <4>2. PICK l \in 1 .. m : e[l] = b
          BY <1>1, <4>1
        <4>3. l \in 0 .. m /\ e[l] \in Nat /\ e[i] \in Nat /\ e[k] \in Nat
          BY <1>1, <2>1
        <4>4. ~(i < l) /\ l # i
          <5>1. i < l => e[i] < e[l]
            BY <1>1, <2>1, <4>3
          <5>2. QED
            BY <4>1, <4>2, <4>3, <5>1
        <4>5. l = k \/ l < k
          BY <2>1, <4>4 DEF k
        <4>6. l = k \/ e[l] < e[k]
          BY <1>1, <2>1, <4>3, <4>5
        <4>7. QED
          BY <4>2, <4>3, <4>6
      <3>3. QED
        BY <3>1, <3>2
    <2>4. Max(B) \in B /\ \A b \in B : Max(B) >= b
      <3> HIDE DEF B
      <3>1. \A b \in B : e[k] >= b
        BY <2>2, <2>3
      <3>2. QED
        BY <2>2, <3>1 DEF Max
    <2>5. Max(B) = e[k]
      <3> HIDE DEF B
      <3>1. Max(B) \in Nat /\ Max(B) <= e[k] /\ Max(B) >= e[k] /\ e[k] \in Nat
        BY <2>2, <2>3, <2>4
      <3>2. QED
        BY <3>1
    <2>6. QED
      BY <2>5 DEF RowUpTo, k
  <1>11. QED
    BY <1>4, <1>7, <1>8, <1>9, <1>10

\* The ends of every text can be numbered: NthEnd does it.
LEMMA NumbersExist ==
  ASSUME NEW text \in Files
  PROVE  \E m \in Nat : \E e : m >= 1 /\ Numbers(e, m, text)
  <1> DEFINE m == Cardinality(Ends(text))
             Rank(j) == Cardinality(EndsBefore(text, j))
             e == [i \in 0 .. m |-> IF i = 0 THEN 0 ELSE NthEnd(text, i)]
  <1>1. m \in Nat /\ \A j : Rank(j) \in Nat
    BY EndsFacts
  <1>2. \A i \in 1 .. m : NthEnd(text, i) \in Ends(text) /\ Rank(NthEnd(text, i)) = i - 1
    BY NthEndFacts
  <1>3. ASSUME NEW j \in Ends(text)
        PROVE  Rank(j) + 1 \in 1 .. m
    <2> DEFINE J == EndsBefore(text, j)
               T == Ends(text)
    <2>1. IsFiniteSet(J) /\ IsFiniteSet(T) /\ J \subseteq T
      BY EndsFacts
    <2>2. j \notin J
      <3>1. j \in Nat
        BY EndsFacts
      <3>2. QED
        BY <3>1 DEF EndsBefore
    <2>3. J \cup {j} \in SUBSET T
      BY <2>1
    <2> HIDE DEF J, T
    <2>4. Cardinality(J \cup {j}) = Cardinality(J) + 1 /\ Cardinality(J \cup {j}) <= Cardinality(T)
      BY <2>1, <2>2, <2>3, FS_AddElement, FS_Subset
    <2>5. QED
      BY <1>1, <2>4 DEF J, T
  <1>4. Len(text) + 1 \in Ends(text)
    BY DEF Ends
  <1>5. m >= 1
    BY <1>1, <1>3, <1>4
  <1>6. \A j \in Ends(text) : j \in Nat /\ j >= 1
    BY EndsFacts
  <1> HIDE DEF m, Rank
  <1>7. /\ e[0] = 0 /\ \A i \in 1 .. m : e[i] = NthEnd(text, i)
    BY <1>1
  <1>8. e \in [0 .. m -> Nat]
    <2>1. ASSUME NEW i \in 0 .. m
          PROVE  (IF i = 0 THEN 0 ELSE NthEnd(text, i)) \in Nat
      <3>1. CASE i = 0
        BY <3>1
      <3>2. CASE i # 0
        <4>1. i \in 1 .. m
          BY <1>1, <3>2
        <4>2. QED
          BY <1>2, <1>6, <3>2, <4>1
      <3>3. QED
        BY <3>1, <3>2
    <2>2. QED
      BY <2>1
  <1> HIDE DEF e
  <1>9. ASSUME NEW i \in 0 .. m, NEW j \in 0 .. m, i < j
        PROVE  e[i] < e[j]
    <2>1. j \in 1 .. m
      BY <1>1, <1>9
    <2>2. e[j] \in Ends(text) /\ Rank(e[j]) = j - 1 /\ e[j] \in Nat /\ e[j] >= 1
      BY <1>2, <1>6, <1>7, <2>1
    <2>3. CASE i = 0
      BY <1>7, <2>2, <2>3
    <2>4. CASE i # 0
      <3>1. i \in 1 .. m
        BY <1>1, <2>4
      <3>2. e[i] \in Ends(text) /\ Rank(e[i]) = i - 1 /\ e[i] \in Nat
        BY <1>2, <1>6, <1>7, <3>1
      <3>3. e[i] # e[j]
        BY <1>9, <2>1, <2>2, <3>1, <3>2
      <3>4. ~(e[j] < e[i])
        <4> SUFFICES ASSUME e[j] < e[i]
                     PROVE  FALSE
          OBVIOUS
        <4>1. Rank(e[j]) < Rank(e[i])
          BY <2>2, <3>2, RankGrows DEF Rank
        <4>2. QED
          BY <1>9, <2>1, <2>2, <3>1, <3>2, <4>1
      <3>5. QED
        BY <2>2, <3>2, <3>3, <3>4
    <2>5. QED
      BY <2>3, <2>4
  <1>10. ASSUME NEW j \in Ends(text)
         PROVE  \E i \in 1 .. m : e[i] = j
    <2> DEFINE i == Rank(j) + 1
    <2>1. i \in 1 .. m /\ i - 1 = Rank(j)
      BY <1>1, <1>3
    <2> HIDE DEF i
    <2>2. e[i] \in Ends(text) /\ Rank(e[i]) = Rank(j)
      BY <1>2, <1>7, <2>1
    <2>3. e[i] = j
      BY <2>2, RankUnique DEF Rank
    <2>4. QED
      BY <2>1, <2>3
  <1>11. Numbers(e, m, text)
    BY <1>2, <1>7, <1>8, <1>9, <1>10 DEF Numbers
  <1>12. QED
    BY <1>1, <1>5, <1>11

\* A file that is not empty and fits a block has one row before every end.
LEMMA LinesOfFile ==
  ASSUME NEW f \in Files, f # << >>, Len(f) <= Capacity,
         NEW m \in Nat, m >= 1, NEW e, Numbers(e, m, f)
  PROVE  /\ Lines(f) = [i \in 1 .. m |-> SubSeq(f, e[i - 1] + 1, e[i] - 1)]
         /\ Cut(f) = f
  <1>1. f # NoFile
    BY EditorAssumption DEF Files
  <1>2. Cut(f) = f
    <2>1. Len(f) \in Nat /\ ~(Len(f) > Capacity)
      BY EditorAssumption DEF Files
    <2>2. SubSeq(f, 1, Len(f)) = f
      BY SubSeqFull DEF Files
    <2>3. QED
      BY <2>1, <2>2 DEF Cut
  <1>3. Cardinality(Ends(f)) = m
    BY NumbersRank
  <1>4. \A i \in 1 .. m : RowUpTo(f, NthEnd(f, i)) = SubSeq(f, e[i - 1] + 1, e[i] - 1)
    BY NumbersRank
  <1>5. Lines(f) = [i \in 1 .. m |-> RowUpTo(f, NthEnd(f, i))]
    BY <1>1, <1>2, <1>3 DEF Lines
  <1>6. QED
    BY <1>2, <1>4, <1>5

\* The rows, each with its '\n', before they are cut to the size of a block.
Written(rs) == FlattenSeq([i \in DOMAIN rs |-> Append(rs[i], NL)])

\* The rows lie in t one after the other, row i with its '\n' up to place e[i].
Laid(t, rs, e) ==
  /\ t \in Files /\ e \in [0 .. Len(rs) -> Nat] /\ e[0] = 0 /\ Len(t) = e[Len(rs)]
  /\ \A i \in 1 .. Len(rs) :
       /\ e[i] = e[i - 1] + Len(rs[i]) + 1
       /\ t[e[i]] = NL
       /\ \A p \in 1 .. Len(rs[i]) : t[e[i - 1] + p] = rs[i][p]

\* A chain of sequences, each the one before with another behind it.
Chained(g, d, n) == \A i \in 2 .. n : g[i] = g[i - 1] \o d[i]
Placed(g, d, n) ==
  \A i \in 2 .. n : /\ Len(g[i]) = Len(g[i - 1]) + Len(d[i])
                     /\ \A p \in 1 .. Len(d[i]) : g[i][Len(g[i - 1]) + p] = d[i][p]
Extended(g, n) ==
  \A i, k \in 1 .. n : i <= k => /\ Len(g[i]) <= Len(g[k])
                                 /\ \A q \in 1 .. Len(g[i]) : g[k][q] = g[i][q]

\* Every one begins with every earlier one.
LEMMA ChainPrefix ==
  ASSUME NEW S, NEW n \in Nat, NEW g \in [1 .. n -> Seq(S)], NEW d \in [1 .. n -> Seq(S)],
         Chained(g, d, n)
  PROVE  Placed(g, d, n) /\ Extended(g, n)
  <1>1. ASSUME NEW i \in 2 .. n
        PROVE  /\ Len(g[i]) = Len(g[i - 1]) + Len(d[i])
               /\ \A p \in 1 .. Len(d[i]) : g[i][Len(g[i - 1]) + p] = d[i][p]
               /\ \A q \in 1 .. Len(g[i - 1]) : g[i][q] = g[i - 1][q]
               /\ Len(g[i - 1]) \in Nat /\ Len(d[i]) \in Nat
    <2> DEFINE a == g[i - 1]
               b == d[i]
    <2>1. a \in Seq(S) /\ b \in Seq(S) /\ g[i] = a \o b
      <3>1. i - 1 \in 1 .. n /\ i \in 1 .. n
        OBVIOUS
      <3>2. QED
        BY <3>1 DEF Chained
    <2> HIDE DEF a, b
    <2>2. /\ Len(a \o b) = Len(a) + Len(b)
          /\ \A q \in 1 .. Len(a) + Len(b) : (a \o b)[q] = IF q <= Len(a) THEN a[q] ELSE b[q - Len(a)]
      BY <2>1, ConcatProperties, Zenon
    <2>3. Len(a) \in Nat /\ Len(b) \in Nat
      BY <2>1
    <2> DEFINE c == a \o b
    <2> HIDE DEF c
    <2>4. Len(c) = Len(a) + Len(b) /\ \A q \in 1 .. Len(a) : c[q] = a[q]
      BY <2>2, <2>3 DEF c
    <2>5. ASSUME NEW p \in 1 .. Len(b)
          PROVE  c[Len(a) + p] = b[p]
      <3> DEFINE q == Len(a) + p
      <3>1. q \in 1 .. Len(a) + Len(b) /\ ~(q <= Len(a)) /\ q - Len(a) = p
        BY <2>3
      <3> HIDE DEF q
      <3>2. c[q] = b[p]
        BY <2>2, <3>1 DEF c
      <3>3. QED
        BY <3>2 DEF q
    <2>6. g[i] = c
      BY <2>1 DEF c
    <2>7. QED
      BY <2>3, <2>4, <2>5, <2>6 DEF a, b
  <1> DEFINE Begins(i, k) == /\ Len(g[i]) <= Len(g[k])
                             /\ \A q \in 1 .. Len(g[i]) : g[k][q] = g[i][q]
  <1>2. ASSUME NEW i \in 1 .. n
        PROVE  \A k \in 1 .. n : i <= k => Begins(i, k)
    <2> DEFINE Bad == {k \in 1 .. n : i <= k /\ ~Begins(i, k)}
    <2> SUFFICES ASSUME Bad # {}
                 PROVE  FALSE
      OBVIOUS
    <2>1. PICK k \in Bad : \A l \in Bad : k <= l
      <3>1. Bad \subseteq 1 .. n
        OBVIOUS
      <3> HIDE DEF Bad
      <3>2. Bad \subseteq Nat
        BY <3>1
      <3>3. QED
        BY <3>2, LeastNat
    <2>2. k \in 1 .. n /\ i <= k /\ ~Begins(i, k)
      OBVIOUS
    <2>3. Len(g[i]) \in Nat
      OBVIOUS
    <2>4. k # i
      BY <2>2, <2>3
    <2> DEFINE l == k - 1
    <2>5. l \in 1 .. n /\ i <= l /\ ~(k <= l) /\ k \in 2 .. n
      BY <2>2, <2>4
    <2>6. l \notin Bad
      BY <2>1, <2>5
    <2> HIDE DEF Begins
    <2>7. Begins(i, l)
      BY <2>5, <2>6
    <2>8. /\ Len(g[k]) = Len(g[l]) + Len(d[k]) /\ Len(g[l]) \in Nat /\ Len(d[k]) \in Nat
          /\ \A q \in 1 .. Len(g[l]) : g[k][q] = g[l][q]
      BY <1>1, <2>5
    <2> HIDE DEF l
    <2>9. Begins(i, k)
      <3>1. Len(g[i]) <= Len(g[l]) /\ \A q \in 1 .. Len(g[i]) : g[l][q] = g[i][q]
        BY <2>7 DEF Begins
      <3>2. Len(g[i]) <= Len(g[k])
        BY <2>3, <2>8, <3>1
      <3>3. \A q \in 1 .. Len(g[i]) : q \in 1 .. Len(g[l])
        BY <2>3, <2>8, <3>1
      <3>4. \A q \in 1 .. Len(g[i]) : g[k][q] = g[i][q]
        BY <2>8, <3>1, <3>3, Zenon
      <3>5. QED
        BY <3>2, <3>4 DEF Begins
    <2>10. QED
      BY <2>2, <2>9
  <1>3. QED
    BY <1>1, <1>2 DEF Placed, Extended

\* A row with its '\n'.
LEMMA RowWritten ==
  ASSUME NEW r \in RowSet
  PROVE  /\ Append(r, NL) \in Files /\ Len(r) \in Nat /\ Len(Append(r, NL)) = Len(r) + 1
         /\ Append(r, NL)[Len(r) + 1] = NL
         /\ \A p \in 1 .. Len(r) : Append(r, NL)[p] = r[p]
  <1>1. r \in Files /\ NL \in Chars \cup {NL} /\ Len(r) \in Nat
    BY DEF RowSet, Files
  <1>2. QED
    BY <1>1 DEF Files

\* The written rows lie one after the other.
LEMMA WrittenFacts ==
  ASSUME NEW rs \in Texts, Len(rs) # 0
  PROVE  \E e : Laid(Written(rs), rs, e)
  <1> DEFINE n == Len(rs)
             seqs == [i \in DOMAIN rs |-> Append(rs[i], NL)]
             C == Chars \cup {NL}
             R == Seq(C)
             t == Written(rs)
  <1>1. n \in Nat /\ n >= 1 /\ DOMAIN rs = 1 .. n /\ \A i \in 1 .. n : rs[i] \in RowSet
    BY DEF Texts
  <1>2. \A i \in 1 .. n : /\ seqs[i] \in R /\ Len(rs[i]) \in Nat /\ Len(seqs[i]) = Len(rs[i]) + 1
                          /\ seqs[i][Len(rs[i]) + 1] = NL
                          /\ \A p \in 1 .. Len(rs[i]) : seqs[i][p] = rs[i][p]
    <2> TAKE i \in 1 .. n
    <2>1. seqs[i] = Append(rs[i], NL) /\ rs[i] \in RowSet
      BY <1>1
    <2>2. QED
      BY <2>1, RowWritten DEF Files
  <1>3. seqs \in Seq(R) /\ Len(seqs) = n /\ seqs \in [1 .. n -> R]
    <2>1. seqs = [i \in 1 .. n |-> seqs[i]]
      BY <1>1
    <2>2. \A i \in 1 .. n : seqs[i] \in R
      BY <1>2
    <2> HIDE DEF R, seqs, n
    <2>3. QED
      BY <1>1, <2>1, <2>2
  <1>4. t = FlattenSeq(seqs)
    BY DEF Written
  <1> HIDE DEF seqs, t, n
  <1>5. PICK g \in [1 .. n -> Seq(C)] :
          g[1] = seqs[1] /\ (\A i \in 2 .. n : g[i] = g[i - 1] \o seqs[i]) /\ t = g[n]
    <2> HIDE DEF C
    <2>1. PICK g \in [1 .. Len(seqs) -> Seq(C)] :
            /\ g[1] = seqs[1]
            /\ \A i \in 2 .. Len(seqs) : g[i] = g[i - 1] \o seqs[i]
            /\ FlattenSeq(seqs) = g[Len(seqs)]
      <3>1. seqs \in Seq(Seq(C)) /\ Len(seqs) # 0
        BY <1>1, <1>3
      <3>2. QED
        BY <3>1, FlattenFacts, Zenon
    <2>2. g \in [1 .. n -> Seq(C)]
      BY <1>3, <2>1, Zenon
    <2>3. g[1] = seqs[1] /\ (\A i \in 2 .. n : g[i] = g[i - 1] \o seqs[i]) /\ t = g[n]
      BY <1>3, <1>4, <2>1, Zenon
    <2>4. QED
      BY <2>2, <2>3, Zenon
  <1>6. /\ \A i \in 2 .. n : /\ Len(g[i]) = Len(g[i - 1]) + Len(seqs[i])
                             /\ \A p \in 1 .. Len(seqs[i]) : g[i][Len(g[i - 1]) + p] = seqs[i][p]
        /\ \A i, k \in 1 .. n : i <= k => /\ Len(g[i]) <= Len(g[k])
                                          /\ \A q \in 1 .. Len(g[i]) : g[k][q] = g[i][q]
    <2> HIDE DEF C
    <2>1. seqs \in [1 .. n -> Seq(C)] /\ n \in Nat
      BY <1>1, <1>3
    <2>2. Chained(g, seqs, n)
      BY <1>5 DEF Chained
    <2>3. Placed(g, seqs, n) /\ Extended(g, n)
      BY <1>5, <2>1, <2>2, ChainPrefix, Zenon
    <2>4. QED
      BY <2>3, Zenon DEF Placed, Extended
  <1> DEFINE e == [i \in 0 .. n |-> IF i = 0 THEN 0 ELSE Len(g[i])]
  <1>7. e[0] = 0 /\ (\A i \in 1 .. n : e[i] = Len(g[i])) /\ \A i \in 1 .. n : Len(g[i]) \in Nat
    BY <1>1, <1>5
  <1>8. e \in [0 .. n -> Nat]
    <2>1. \A i \in 0 .. n : (IF i = 0 THEN 0 ELSE Len(g[i])) \in Nat
      BY <1>1, <1>7
    <2>2. QED
      BY <2>1
  <1> HIDE DEF e
  <1>9. t \in Files /\ Len(t) = e[n]
    <2>1. n \in 1 .. n
      BY <1>1
    <2>2. QED
      BY <1>5, <1>7, <2>1 DEF Files
  <1>10. ASSUME NEW i \in 1 .. n
         PROVE  /\ e[i] = e[i - 1] + Len(rs[i]) + 1
                /\ \A p \in 1 .. Len(seqs[i]) : g[i][e[i - 1] + p] = seqs[i][p]
    <2>1. CASE i = 1
      <3>1. e[i - 1] = 0 /\ g[i] = seqs[i]
        BY <1>5, <1>7, <2>1
      <3>2. QED
        BY <1>2, <1>7, <3>1
    <2>2. CASE i # 1
      <3>1. i \in 2 .. n /\ i - 1 \in 1 .. n
        BY <1>1, <2>2
      <3>2. e[i - 1] = Len(g[i - 1]) /\ e[i] = Len(g[i])
        BY <1>7, <3>1
      <3>3. Len(g[i]) = Len(g[i - 1]) + Len(seqs[i])
        BY <1>6, <3>1
      <3>4. \A p \in 1 .. Len(seqs[i]) : g[i][Len(g[i - 1]) + p] = seqs[i][p]
        BY <1>6, <3>1
      <3>5. Len(g[i - 1]) \in Nat /\ Len(seqs[i]) = Len(rs[i]) + 1 /\ Len(rs[i]) \in Nat
        BY <1>2, <1>7, <3>1
      <3>6. e[i] = e[i - 1] + Len(rs[i]) + 1
        <4> DEFINE u == Len(g[i - 1])
                   w == Len(rs[i])
        <4>1. e[i - 1] = u /\ e[i] = u + (w + 1) /\ u \in Nat /\ w \in Nat
          BY <3>2, <3>3, <3>5, Zenon
        <4> HIDE DEF u, w
        <4>2. e[i] = e[i - 1] + w + 1
          BY <4>1
        <4>3. QED
          BY <4>2 DEF w
      <3>7. \A p \in 1 .. Len(seqs[i]) : g[i][e[i - 1] + p] = seqs[i][p]
        BY <3>2, <3>4, Zenon
      <3>8. QED
        BY <3>6, <3>7
    <2>3. QED
      BY <2>1, <2>2
  <1>11. ASSUME NEW i \in 1 .. n, NEW p \in 1 .. Len(seqs[i])
         PROVE  t[e[i - 1] + p] = seqs[i][p]
    <2> DEFINE q == e[i - 1] + p
    <2>1. e[i - 1] \in Nat /\ Len(seqs[i]) = Len(rs[i]) + 1 /\ Len(rs[i]) \in Nat
      <3>1. i - 1 \in 0 .. n
        BY <1>1
      <3>2. QED
        BY <1>2, <1>8, <3>1
    <2>2. q \in 1 .. e[i] /\ e[i] = Len(g[i])
      BY <1>7, <1>10, <2>1
    <2>3. g[i][q] = seqs[i][p]
      BY <1>10
    <2> HIDE DEF q
    <2>4. n \in 1 .. n /\ i <= n
      BY <1>1
    <2>5. g[n][q] = g[i][q]
      BY <1>6, <2>2, <2>4
    <2>6. QED
      BY <1>5, <2>3, <2>5 DEF q
  <1>12. ASSUME NEW i \in 1 .. n
         PROVE  /\ e[i] = e[i - 1] + Len(rs[i]) + 1
                /\ t[e[i]] = NL
                /\ \A p \in 1 .. Len(rs[i]) : t[e[i - 1] + p] = rs[i][p]
    <2>1. /\ Len(seqs[i]) = Len(rs[i]) + 1 /\ seqs[i][Len(rs[i]) + 1] = NL /\ Len(rs[i]) \in Nat
          /\ \A p \in 1 .. Len(rs[i]) : seqs[i][p] = rs[i][p]
      BY <1>2
    <2> DEFINE p == Len(rs[i]) + 1
    <2>2. p \in 1 .. Len(seqs[i]) /\ seqs[i][p] = NL
      BY <2>1
    <2>3. e[i - 1] \in Nat
      <3>1. i - 1 \in 0 .. n
        BY <1>1
      <3>2. QED
        BY <1>8, <3>1
    <2>4. e[i] = e[i - 1] + p
      BY <1>10, <2>1, <2>3
    <2> HIDE DEF p
    <2>5. t[e[i]] = NL
      BY <1>11, <2>2, <2>4
    <2>6. \A q \in 1 .. Len(rs[i]) : t[e[i - 1] + q] = rs[i][q]
      <3> TAKE q \in 1 .. Len(rs[i])
      <3>1. q \in 1 .. Len(seqs[i])
        BY <2>1
      <3>2. QED
        BY <1>11, <2>1, <3>1
    <2>7. QED
      BY <1>10, <2>5, <2>6
  <1>13. Laid(t, rs, e)
    BY <1>8, <1>7, <1>9, <1>12 DEF Laid, n
  <1>14. QED
    BY <1>13 DEF t

\* Places of rows that lie one after the other.
LEMMA LaidFacts ==
  ASSUME NEW rs \in Texts, NEW t, NEW e, Laid(t, rs, e)
  PROVE  /\ \A i, j \in 0 .. Len(rs) : i < j => e[i] < e[j]
         /\ \A i \in 1 .. Len(rs) : e[i - 1] \in Nat /\ e[i] \in Nat /\ Len(rs[i]) \in Nat
         /\ \A j \in 1 .. Len(t) :
              \E i \in 1 .. Len(rs) : e[i - 1] < j /\ j <= e[i]
  <1>1. Len(rs) \in Nat /\ \A i \in 1 .. Len(rs) : Len(rs[i]) \in Nat
    BY DEF Texts, RowSet
  <1>2. e \in [0 .. Len(rs) -> Nat] /\ e[0] = 0 /\ Len(t) = e[Len(rs)]
    BY DEF Laid
  <1>3. \A i \in 1 .. Len(rs) : e[i - 1] \in Nat /\ e[i] \in Nat
    <2> TAKE i \in 1 .. Len(rs)
    <2>1. i - 1 \in 0 .. Len(rs) /\ i \in 0 .. Len(rs)
      BY <1>1
    <2>2. QED
      BY <1>2, <2>1
  <1>4. \A i \in 1 .. Len(rs) : e[i - 1] < e[i]
    <2> TAKE i \in 1 .. Len(rs)
    <2>1. e[i] = e[i - 1] + Len(rs[i]) + 1
      BY DEF Laid
    <2>2. QED
      BY <1>1, <1>3, <2>1
  <1>5. \A i, j \in 0 .. Len(rs) : i < j => e[i] < e[j]
    BY <1>1, <1>2, <1>4, ChainGrows
  <1>6. ASSUME NEW j \in 1 .. Len(t)
        PROVE  \E i \in 1 .. Len(rs) : e[i - 1] < j /\ j <= e[i]
    <2>1. e[Len(rs)] \in Nat
      BY <1>1, <1>2
    <2>2. j \in Nat /\ j >= 1 /\ j <= e[Len(rs)]
      BY <1>2, <2>1
    <2>3. QED
      BY <1>1, <1>2, <2>2, Between
  <1>7. QED
    BY <1>1, <1>3, <1>5, <1>6

\* The '\n's of the written rows are the ones behind the rows, for a row holds
\* none; behind the last is the end of the text.
LEMMA LaidEnds ==
  ASSUME NEW rs \in Texts, Len(rs) # 0, NEW t, NEW e, Laid(t, rs, e)
  PROVE  \E d : /\ Numbers(d, Len(rs) + 1, t)
                /\ \A i \in 0 .. Len(rs) : d[i] = e[i]
                /\ d[Len(rs) + 1] = Len(t) + 1
  <1> DEFINE n == Len(rs)
             d == [i \in 0 .. n + 1 |-> IF i = n + 1 THEN Len(t) + 1 ELSE e[i]]
  <1>1. n \in Nat /\ n >= 1 /\ \A i \in 1 .. n : rs[i] \in Seq(Chars)
    BY DEF Texts, RowSet
  <1>2. /\ t \in Seq(Chars \cup {NL}) /\ e \in [0 .. n -> Nat] /\ e[0] = 0 /\ Len(t) = e[n] /\ Len(t) \in Nat
        /\ \A i \in 1 .. n : t[e[i]] = NL /\ e[i] = e[i - 1] + Len(rs[i]) + 1
    BY DEF Laid, Files
  <1>3. /\ \A i, j \in 0 .. n : i < j => e[i] < e[j]
        /\ \A i \in 1 .. n : e[i - 1] \in Nat /\ e[i] \in Nat /\ Len(rs[i]) \in Nat
        /\ \A j \in 1 .. Len(t) : \E i \in 1 .. n : e[i - 1] < j /\ j <= e[i]
    BY LaidFacts
  <1>4. \A i \in 1 .. n : \A p \in 1 .. Len(rs[i]) : t[e[i - 1] + p] = rs[i][p]
    BY DEF Laid
  <1> HIDE DEF n
  <1>5. ASSUME NEW j \in 1 .. Len(t), t[j] = NL
        PROVE  \E i \in 1 .. n : e[i] = j
    <2>1. PICK i \in 1 .. n : e[i - 1] < j /\ j <= e[i]
      BY <1>3
    <2> DEFINE p == j - e[i - 1]
    <2>2. e[i - 1] \in Nat /\ e[i] \in Nat /\ Len(rs[i]) \in Nat /\ e[i] = e[i - 1] + Len(rs[i]) + 1
      BY <1>2, <1>3
    <2>3. e[i] # j => p \in 1 .. Len(rs[i]) /\ e[i - 1] + p = j
      BY <2>1, <2>2
    <2> HIDE DEF p
    <2>4. e[i] # j => t[j] \in Chars
      <3> SUFFICES ASSUME e[i] # j
                   PROVE  t[j] \in Chars
        OBVIOUS
      <3>1. t[j] = rs[i][p]
        BY <1>4, <2>3
      <3>2. rs[i][p] \in Chars
        BY <1>1, <2>3
      <3>3. QED
        BY <3>1, <3>2
    <2>5. QED
      BY <1>5, <2>4, EditorAssumption
  <1>6. (\A i \in 0 .. n : d[i] = e[i]) /\ d[n + 1] = Len(t) + 1
    BY <1>1
  <1>7. d \in [0 .. n + 1 -> Nat]
    <2>1. \A i \in 0 .. n + 1 : (IF i = n + 1 THEN Len(t) + 1 ELSE e[i]) \in Nat
      <3> TAKE i \in 0 .. n + 1
      <3>1. i # n + 1 => i \in 0 .. n
        BY <1>1
      <3>2. QED
        BY <1>2, <3>1
    <2>2. QED
      BY <2>1
  <1> HIDE DEF d
  <1>8. \A i \in 0 .. n : e[i] \in Nat /\ e[i] <= Len(t)
    <2> TAKE i \in 0 .. n
    <2>1. n \in 0 .. n /\ (i = n \/ i < n)
      BY <1>1
    <2>2. e[i] \in Nat /\ e[n] \in Nat /\ (i = n \/ e[i] < e[n])
      BY <1>2, <1>3, <2>1
    <2>3. QED
      BY <1>2, <2>2
  <1>9. ASSUME NEW i \in 0 .. n + 1, NEW j \in 0 .. n + 1, i < j
        PROVE  d[i] < d[j]
    <2>1. i \in 0 .. n
      BY <1>1, <1>9
    <2>2. CASE j = n + 1
      BY <1>2, <1>6, <1>8, <2>1, <2>2
    <2>3. CASE j # n + 1
      <3>1. j \in 0 .. n
        BY <1>1, <2>3
      <3>2. QED
        BY <1>3, <1>6, <1>9, <2>1, <3>1
    <2>4. QED
      BY <2>2, <2>3
  <1>10. ASSUME NEW i \in 1 .. n + 1
         PROVE  d[i] \in Ends(t)
    <2>1. CASE i = n + 1
      BY <1>6, <2>1 DEF Ends
    <2>2. CASE i # n + 1
      <3>1. i \in 1 .. n /\ i \in 0 .. n /\ 0 \in 0 .. n /\ 0 < i
        BY <1>1, <2>2
      <3>2. e[i] > 0 /\ t[e[i]] = NL /\ d[i] = e[i]
        BY <1>2, <1>3, <1>6, <1>8, <3>1
      <3>3. e[i] \in 1 .. Len(t)
        BY <1>2, <1>8, <3>1, <3>2
      <3>4. QED
        BY <1>2, <3>2, <3>3 DEF Ends
    <2>3. QED
      BY <2>1, <2>2
  <1>11. ASSUME NEW j \in Ends(t)
         PROVE  \E i \in 1 .. n + 1 : d[i] = j
    <2>1. CASE j = Len(t) + 1
      <3>1. n + 1 \in 1 .. n + 1
        BY <1>1
      <3>2. QED
        BY <1>6, <2>1, <3>1
    <2>2. CASE j # Len(t) + 1
      <3>1. j \in 1 .. Len(t) /\ t[j] = NL
        BY <1>2, <2>2 DEF Ends
      <3>2. PICK i \in 1 .. n : e[i] = j
        BY <1>5, <3>1
      <3>3. i \in 0 .. n /\ i \in 1 .. n + 1
        BY <1>1
      <3>4. QED
        BY <1>6, <3>2, <3>3
    <2>3. QED
      BY <2>1, <2>2
  <1>12. d[0] = 0
    <2>1. 0 \in 0 .. n
      BY <1>1
    <2>2. QED
      BY <1>2, <1>6, <2>1
  <1>13. Numbers(d, n + 1, t)
    BY <1>7, <1>9, <1>10, <1>11, <1>12 DEF Numbers
  <1>14. QED
    BY <1>6, <1>13 DEF n

\* A sequence that agrees with the places of a longer one is its beginning.
LEMMA PrefixByPlaces ==
  ASSUME NEW S, NEW s \in Seq(S), NEW t \in Seq(S), Len(s) <= Len(t),
         \A i \in 1 .. Len(s) : t[i] = s[i]
  PROVE  IsPrefix(s, t)
  <1> DEFINE a == SubSeq(s, 1, Len(s))
             b == SubSeq(t, 1, Len(s))
  <1>1. Len(s) \in Nat /\ Len(t) \in Nat /\ 1 \in Nat /\ 1 >= 1
    OBVIOUS
  <1>2. a = s
    BY SubSeqFull
  <1>3. /\ b \in Seq(S) /\ Len(b) = (IF 1 <= Len(s) THEN Len(s) - 1 + 1 ELSE 0)
        /\ \A i \in 1 .. Len(s) - 1 + 1 : b[i] = t[1 + i - 1]
    BY <1>1, PartFacts
  <1> HIDE DEF a, b
  <1>4. Len(b) = Len(s) /\ \A i \in 1 .. Len(s) : b[i] = t[i]
    BY <1>1, <1>3
  <1>5. b = s
    BY <1>3, <1>4, SeqEqual
  <1>6. QED
    BY <1>2, <1>5 DEF IsPrefix, a, b

\* A text that fits the block reads back as it was written, with one empty row
\* behind the last '\n'.
LEMMA WrittenReadsBack ==
  ASSUME NEW rs \in Texts, Len(rs) # 0, Len(Written(rs)) <= Capacity
  PROVE  Lines(Written(rs)) = Append(rs, << >>)
  <1> DEFINE t == Written(rs)
             n == Len(rs)
             m == n + 1
  <1>1. PICK e : Laid(t, rs, e)
    BY WrittenFacts
  <1>2. PICK d : Numbers(d, n + 1, t) /\ (\A i \in 0 .. n : d[i] = e[i]) /\ d[n + 1] = Len(t) + 1
    BY <1>1, LaidEnds
  <1>3. n \in Nat /\ n >= 1 /\ \A i \in 1 .. n : rs[i] \in Seq(Chars)
    BY DEF Texts, RowSet
  <1>4. /\ t \in Files /\ t \in Seq(Chars \cup {NL}) /\ e \in [0 .. n -> Nat] /\ e[0] = 0
        /\ Len(t) = e[n] /\ Len(t) \in Nat
        /\ \A i \in 1 .. n : e[i] = e[i - 1] + Len(rs[i]) + 1
    BY <1>1 DEF Laid, Files
  <1>5. /\ \A i, j \in 0 .. n : i < j => e[i] < e[j]
        /\ \A i \in 1 .. n : e[i - 1] \in Nat /\ e[i] \in Nat /\ Len(rs[i]) \in Nat
    BY <1>1, LaidFacts
  <1>6. \A i \in 1 .. n : \A p \in 1 .. Len(rs[i]) : t[e[i - 1] + p] = rs[i][p]
    BY <1>1 DEF Laid
  <1>7. t # << >>
    <2>1. 0 \in 0 .. n /\ n \in 0 .. n /\ 0 < n
      BY <1>3
    <2>2. e[0] < e[n]
      BY <1>5, <2>1
    <2>3. Len(t) # 0
      BY <1>4, <2>2
    <2> HIDE DEF t
    <2>4. QED
      BY <2>3
  <1>8. Lines(t) = [i \in 1 .. m |-> SubSeq(t, d[i - 1] + 1, d[i] - 1)]
    <2>1. m \in Nat /\ m >= 1 /\ Numbers(d, m, t) /\ Len(t) <= Capacity
      BY <1>2, <1>3
    <2> HIDE DEF m, t
    <2>2. QED
      BY <1>4, <1>7, <2>1, LinesOfFile
  <1> HIDE DEF t, n
  <1>9. ASSUME NEW i \in 1 .. n
        PROVE  SubSeq(t, d[i - 1] + 1, d[i] - 1) = rs[i]
    <2> DEFINE a == e[i - 1] + 1
               b == e[i] - 1
               r == SubSeq(t, a, b)
    <2>1. i - 1 \in 0 .. n /\ i \in 0 .. n /\ n \in 0 .. n /\ (i = n \/ i < n)
      BY <1>3
    <2>2. d[i - 1] = e[i - 1] /\ d[i] = e[i]
      BY <1>2, <2>1
    <2>3. /\ e[i - 1] \in Nat /\ e[i] \in Nat /\ Len(rs[i]) \in Nat /\ e[i] = e[i - 1] + Len(rs[i]) + 1
          /\ e[i] <= Len(t)
      <3>1. e[i - 1] \in Nat /\ e[i] \in Nat /\ Len(rs[i]) \in Nat /\ e[i] = e[i - 1] + Len(rs[i]) + 1
        BY <1>4, <1>5
      <3>2. i = n \/ e[i] < e[n]
        BY <1>5, <2>1
      <3>3. QED
        BY <1>4, <3>1, <3>2
    <2>4. a \in Nat /\ a >= 1 /\ b \in Nat /\ b <= Len(t) /\ b - a + 1 = Len(rs[i])
      <3> DEFINE u == e[i - 1]
                 w == e[i]
                 l == Len(rs[i])
      <3>1. u \in Nat /\ w \in Nat /\ l \in Nat /\ w = u + l + 1 /\ w <= Len(t) /\ Len(t) \in Nat
        BY <1>4, <2>3, Zenon
      <3> HIDE DEF u, w, l
      <3>2. u + 1 \in Nat /\ u + 1 >= 1 /\ w - 1 \in Nat /\ w - 1 <= Len(t) /\ (w - 1) - (u + 1) + 1 = l
        BY <3>1
      <3>3. QED
        BY <3>2, Zenon DEF u, w, l
    <2>5. \A p \in 1 .. Len(rs[i]) : a + p - 1 = e[i - 1] + p
      BY <2>3
    <2> HIDE DEF a, b
    <2>6. /\ r \in Seq(Chars \cup {NL})
          /\ Len(r) = IF a <= b THEN b - a + 1 ELSE 0
          /\ \A p \in 1 .. b - a + 1 : r[p] = t[a + p - 1]
      BY <1>4, <2>4, PartFacts
    <2> HIDE DEF r
    <2>7. Len(r) = Len(rs[i])
      <3> DEFINE l == Len(rs[i])
                 k == Len(r)
      <3>1. l \in Nat /\ b - a + 1 = l /\ a \in Nat /\ b \in Nat
        BY <2>3, <2>4, Zenon
      <3>2. k = IF a <= b THEN b - a + 1 ELSE 0
        BY <2>6, Zenon
      <3> HIDE DEF l, k
      <3>3. k = l
        BY <3>1, <3>2
      <3>4. QED
        BY <3>3, Zenon DEF l, k
    <2>8. \A p \in 1 .. Len(r) : r[p] = rs[i][p]
      <3> TAKE p \in 1 .. Len(r)
      <3>1. p \in 1 .. Len(rs[i]) /\ r[p] = t[a + p - 1]
        BY <2>4, <2>6, <2>7
      <3>2. a + p - 1 = e[i - 1] + p
        BY <2>5, <3>1
      <3>3. t[e[i - 1] + p] = rs[i][p]
        BY <1>6, <3>1
      <3>4. QED
        BY <3>1, <3>2, <3>3
    <2>9. rs[i] \in Seq(Chars \cup {NL})
      BY <1>3
    <2>10. r = rs[i]
      BY <2>6, <2>7, <2>8, <2>9, SeqEqual
    <2>11. QED
      BY <2>2, <2>10 DEF r, a, b
  <1>10. SubSeq(t, d[m - 1] + 1, d[m] - 1) = << >>
    <2>1. m - 1 = n /\ n \in 0 .. n
      BY <1>3
    <2>2. d[m - 1] = Len(t) /\ d[m] = Len(t) + 1
      BY <1>2, <1>4, <2>1
    <2>3. d[m - 1] + 1 = Len(t) + 1 /\ d[m] - 1 = Len(t)
      BY <1>4, <2>2
    <2>4. SubSeq(t, Len(t) + 1, Len(t)) = << >>
      BY <1>4, SubSeqEmpty
    <2>5. QED
      BY <2>3, <2>4
  <1>11. Append(rs, << >>) = [i \in 1 .. m |-> IF i = m THEN << >> ELSE rs[i]]
    <2> DEFINE v == << >>
               w == Append(rs, v)
    <2>1. rs \in Seq(RowSet) /\ v \in RowSet /\ Len(rs) = n
      BY DEF Texts, RowSet, n
    <2> HIDE DEF v
    <2>2. /\ w \in Seq(RowSet) /\ Len(w) = Len(rs) + 1 /\ w[Len(rs) + 1] = v
          /\ \A i \in 1 .. Len(rs) : w[i] = rs[i]
      BY <2>1, AppendProperties
    <2> HIDE DEF w
    <2>3. w = [i \in 1 .. m |-> w[i]]
      BY <1>3, <2>1, <2>2
    <2>4. \A i \in 1 .. m : w[i] = IF i = m THEN v ELSE rs[i]
      <3> TAKE i \in 1 .. m
      <3>1. i # m => i \in 1 .. Len(rs)
        BY <1>3, <2>1
      <3>2. w[m] = v
        BY <2>1, <2>2
      <3>3. QED
        BY <2>2, <3>1, <3>2, Zenon
    <2>5. QED
      BY <2>3, <2>4 DEF v, w
  <1>12. \A i \in 1 .. m : SubSeq(t, d[i - 1] + 1, d[i] - 1) = IF i = m THEN << >> ELSE rs[i]
    <2> TAKE i \in 1 .. m
    <2>1. CASE i = m
      BY <1>10, <2>1
    <2>2. CASE i # m
      <3>1. i \in 1 .. n
        BY <1>3, <2>2
      <3>2. QED
        BY <1>9, <2>2, <3>1
    <2>3. QED
      BY <2>1, <2>2
  <1> HIDE DEF m
  <1>13. QED
    BY <1>8, <1>11, <1>12 DEF t

\* A file that fits a block is the beginning of its own rows, written out: only
\* the '\n' behind the last row may be more.
LEMMA LinesWriteBack ==
  ASSUME NEW f \in Files, f # << >>, Len(f) <= Capacity
  PROVE  IsPrefix(f, Written(Lines(f)))
  <1> DEFINE rs == Lines(f)
             t == Written(rs)
  <1>1. PICK m \in Nat : \E e : m >= 1 /\ Numbers(e, m, f)
    BY NumbersExist
  <1>2. PICK e : m >= 1 /\ Numbers(e, m, f)
    BY <1>1
  <1>3. /\ e \in [0 .. m -> Nat] /\ e[0] = 0
        /\ \A i, j \in 0 .. m : i < j => e[i] < e[j]
        /\ \A i \in 1 .. m : e[i] \in Ends(f)
    BY <1>2 DEF Numbers
  <1>4. Len(f) \in Nat /\ f \in Seq(Chars \cup {NL}) /\ Ends(f) \subseteq 1 .. Len(f) + 1 /\ DOMAIN f = 1 .. Len(f)
    BY EndsFacts DEF Files
  <1>5. e[m] = Len(f) + 1
    BY <1>2, NumbersRank
  <1>6. rs = [i \in 1 .. m |-> SubSeq(f, e[i - 1] + 1, e[i] - 1)]
    BY <1>2, LinesOfFile
  <1>7. rs \in Texts
    BY LinesFacts
  <1> HIDE DEF rs
  <1>8. Len(rs) = m
    BY <1>6
  <1>9. ASSUME NEW i \in 1 .. m
        PROVE  /\ e[i - 1] \in Nat /\ e[i] \in Nat /\ e[i] = e[i - 1] + Len(rs[i]) + 1
               /\ Len(rs[i]) \in Nat
               /\ \A p \in 1 .. Len(rs[i]) : rs[i][p] = f[e[i - 1] + p]
    <2> DEFINE u == e[i - 1]
               w == e[i]
               a == u + 1
               b == w - 1
               r == SubSeq(f, a, b)
    <2>1. i - 1 \in 0 .. m /\ i \in 0 .. m /\ i - 1 < i
      OBVIOUS
    <2>2. u \in Nat /\ w \in Nat /\ u < w /\ w <= Len(f) + 1
      BY <1>3, <1>4, <2>1
    <2>3. rs[i] = r
      BY <1>6
    <2> HIDE DEF u, w
    <2>4. a \in Nat /\ a >= 1 /\ b \in Nat /\ b <= Len(f) /\ b - a + 1 = w - u - 1
      BY <1>4, <2>2
    <2>5. \A p \in Nat : a + p - 1 = u + p
      BY <2>2
    <2> HIDE DEF a, b
    <2>6. /\ Len(r) = IF a <= b THEN b - a + 1 ELSE 0
          /\ \A p \in 1 .. b - a + 1 : r[p] = f[a + p - 1]
      BY <1>4, <2>4, PartFacts
    <2> HIDE DEF r
    <2>7. Len(r) = b - a + 1 /\ Len(r) \in Nat /\ w = u + Len(r) + 1
      BY <2>2, <2>4, <2>6
    <2>8. \A p \in 1 .. Len(r) : r[p] = f[u + p]
      <3> TAKE p \in 1 .. Len(r)
      <3>1. p \in Nat /\ r[p] = f[a + p - 1]
        BY <2>6, <2>7
      <3>2. QED
        BY <2>5, <3>1
    <2>9. QED
      BY <2>2, <2>3, <2>7, <2>8, Zenon DEF u, w
  <1>10. PICK d : Laid(t, rs, d)
    BY <1>2, <1>7, <1>8, WrittenFacts
  <1>11. /\ t \in Seq(Chars \cup {NL}) /\ d \in [0 .. m -> Nat] /\ d[0] = 0 /\ Len(t) = d[m]
         /\ \A i \in 1 .. m : d[i] = d[i - 1] + Len(rs[i]) + 1 /\ t[d[i]] = NL
    BY <1>8, <1>10 DEF Laid, Files
  <1>12. \A i \in 1 .. m : \A p \in 1 .. Len(rs[i]) : t[d[i - 1] + p] = rs[i][p]
    BY <1>8, <1>10 DEF Laid
  <1> HIDE DEF t
  <1>13. \A i \in 0 .. m : d[i] = e[i]
    <2> DEFINE Bad == {i \in 0 .. m : d[i] # e[i]}
    <2> SUFFICES ASSUME Bad # {}
                 PROVE  FALSE
      OBVIOUS
    <2>1. PICK i \in Bad : \A k \in Bad : i <= k
      <3>1. Bad \subseteq 0 .. m
        OBVIOUS
      <3> HIDE DEF Bad
      <3>2. Bad \subseteq Nat
        BY <3>1
      <3>3. QED
        BY <3>2, LeastNat
    <2>2. i \in 0 .. m /\ d[i] # e[i]
      OBVIOUS
    <2>3. i # 0
      BY <1>3, <1>11, <2>2
    <2>4. i \in 1 .. m /\ i - 1 \in 0 .. m /\ ~(i <= i - 1)
      BY <2>2, <2>3
    <2>5. i - 1 \notin Bad
      BY <2>1, <2>4
    <2>6. d[i - 1] = e[i - 1]
      BY <2>4, <2>5
    <2>7. e[i] = e[i - 1] + Len(rs[i]) + 1 /\ d[i] = d[i - 1] + Len(rs[i]) + 1
      BY <1>9, <1>11, <2>4
    <2>8. QED
      BY <2>2, <2>6, <2>7
  <1>14. Len(t) = Len(f) + 1
    <2>1. m \in 0 .. m
      OBVIOUS
    <2>2. QED
      BY <1>5, <1>11, <1>13, <2>1
  <1>15. ASSUME NEW j \in 1 .. Len(f)
         PROVE  t[j] = f[j]
    <2>1. j \in Nat /\ j >= 1 /\ j <= e[m]
      BY <1>4, <1>5
    <2>2. PICK i \in 1 .. m : e[i - 1] < j /\ j <= e[i]
      BY <1>3, <2>1, Between
    <2>3. i \in 0 .. m /\ i - 1 \in 0 .. m
      OBVIOUS
    <2>4. d[i] = e[i] /\ d[i - 1] = e[i - 1]
      BY <1>13, <2>3
    <2>5. CASE j = e[i]
      <3>1. e[i] \in Ends(f) /\ e[i] # Len(f) + 1
        BY <1>3, <1>4, <2>5
      <3>2. f[j] = NL
        BY <2>5, <3>1 DEF Ends
      <3>3. t[j] = NL
        BY <1>11, <2>4, <2>5
      <3>4. QED
        BY <3>2, <3>3
    <2>6. CASE j # e[i]
      <3> DEFINE p == j - e[i - 1]
      <3>1. /\ e[i - 1] \in Nat /\ e[i] \in Nat /\ e[i] = e[i - 1] + Len(rs[i]) + 1
            /\ Len(rs[i]) \in Nat
        BY <1>9
      <3>2. p \in 1 .. Len(rs[i]) /\ e[i - 1] + p = j
        BY <2>2, <2>6, <3>1
      <3> HIDE DEF p
      <3>3. t[d[i - 1] + p] = rs[i][p]
        BY <1>12, <3>2
      <3>4. rs[i][p] = f[e[i - 1] + p]
        BY <1>9, <3>2
      <3>5. QED
        BY <2>4, <3>2, <3>3, <3>4
    <2>7. QED
      BY <2>5, <2>6
  <1>16. IsPrefix(f, t)
    <2>1. f \in Seq(Chars \cup {NL}) /\ t \in Seq(Chars \cup {NL}) /\ Len(f) <= Len(t)
      BY <1>4, <1>11, <1>14
    <2>2. QED
      BY <1>15, <2>1, PrefixByPlaces
  <1>17. QED
    BY <1>16 DEF t, rs

\* A file the editor wrote holds the text as saved last, or that text was read
\* from it since.
SavedInv ==
  file \notin FirstFiles =>
    /\ file \in Files /\ Len(file) <= Capacity
    /\ (file = Image(saved) \/ saved = Lines(file))

\* What is cut to the size of a block is the beginning of the whole.
LEMMA CutPrefix ==
  ASSUME NEW S, NEW s \in Seq(S)
  PROVE  IsPrefix(Cut(s), s) /\ (Len(s) <= Capacity => Cut(s) = s)
  <1> DEFINE n == IF Len(s) > Capacity THEN Capacity ELSE Len(s)
             b == SubSeq(s, 1, n)
  <1>1. n \in Nat /\ n <= Len(s) /\ 1 \in Nat /\ 1 >= 1 /\ Len(s) \in Nat
    BY EditorAssumption
  <1>2. Len(s) <= Capacity => n = Len(s)
    BY <1>1, EditorAssumption
  <1>3. Cut(s) = b
    BY DEF Cut
  <1> HIDE DEF n
  <1>4. /\ b \in Seq(S) /\ Len(b) = (IF 1 <= n THEN n - 1 + 1 ELSE 0)
        /\ \A i \in 1 .. n - 1 + 1 : b[i] = s[1 + i - 1]
    BY <1>1, PartFacts
  <1>5. SubSeq(s, 1, Len(s)) = s
    BY SubSeqFull
  <1>6. Len(s) <= Capacity => b = s
    BY <1>2, <1>5
  <1> HIDE DEF b
  <1>7. Len(b) = n /\ \A i \in 1 .. n : s[i] = b[i]
    BY <1>1, <1>4
  <1>8. IsPrefix(b, s)
    BY <1>1, <1>4, <1>7, PrefixByPlaces
  <1>9. QED
    BY <1>3, <1>6, <1>8

\* The written rows are a file, empty without rows.
LEMMA WrittenIsFile ==
  ASSUME NEW rs \in Texts
  PROVE  Written(rs) \in Files /\ (Len(rs) = 0 => rs = << >> /\ Written(rs) = << >>)
  <1>1. CASE Len(rs) = 0
    <2>1. rs = << >>
      BY <1>1 DEF Texts
    <2> DEFINE d == [i \in DOMAIN rs |-> Append(rs[i], NL)]
    <2>2. d = << >>
      BY <2>1
    <2>3. Len(d) = 0
      BY <2>2
    <2> HIDE DEF d
    <2>4. FlattenSeq(d) = << >>
      BY <2>2, <2>3 DEF FlattenSeq
    <2>5. Written(rs) = << >>
      BY <2>4, Zenon DEF Written, d
    <2>6. << >> \in Files
      BY DEF Files
    <2>7. QED
      BY <2>1, <2>5, <2>6, Zenon
  <1>2. CASE Len(rs) # 0
    BY <1>2, WrittenFacts DEF Laid
  <1>3. QED
    BY <1>1, <1>2

\* Either way the file reads back.
LEMMA SavedReads ==
  ASSUME saved \in Texts, SavedInv
  PROVE  SaveReadsBack
  <1> SUFFICES ASSUME file \notin FirstFiles
               PROVE  /\ IsPrefix(file, Written(saved))
                      /\ Len(Written(saved)) <= Capacity => Lines(file) \in {saved, Append(saved, << >>)}
    BY DEF SaveReadsBack, Written
  <1>1. file \in Files /\ Len(file) <= Capacity
    BY DEF SavedInv
  <1>2. CASE file = Image(saved)
    <2>1. Written(saved) \in Files
      BY WrittenIsFile
    <2>2. file = Cut(Written(saved))
      BY <1>2 DEF Image, Written
    <2>3. IsPrefix(file, Written(saved)) /\ (Len(Written(saved)) <= Capacity => file = Written(saved))
      BY <2>1, <2>2, CutPrefix DEF Files
    <2>4. ASSUME Len(Written(saved)) <= Capacity
          PROVE  Lines(file) \in {saved, Append(saved, << >>)}
      <3>1. file = Written(saved)
        BY <2>3, <2>4
      <3>2. CASE Len(saved) = 0
        <4>1. saved = << >> /\ file = << >>
          BY <3>1, <3>2, WrittenIsFile
        <4>2. Lines(file) = << >>
          BY <4>1 DEF Lines
        <4>3. QED
          BY <4>1, <4>2
      <3>3. CASE Len(saved) # 0
        BY <2>4, <3>1, <3>3, WrittenReadsBack
      <3>4. QED
        BY <3>2, <3>3
    <2>5. QED
      BY <2>3, <2>4
  <1>3. CASE saved = Lines(file)
    <2>1. CASE file = << >>
      <3>1. saved = << >>
        BY <1>3, <2>1 DEF Lines
      <3>2. Len(saved) = 0
        BY <3>1
      <3>3. Written(saved) = << >>
        BY <3>2, WrittenIsFile
      <3>4. IsPrefix(<< >>, << >>)
        BY DEF IsPrefix
      <3>5. QED
        BY <1>3, <2>1, <3>3, <3>4
    <2>2. CASE file # << >>
      BY <1>1, <1>3, <2>2, LinesWriteBack
    <2>3. QED
      BY <2>1, <2>2
  <1>4. QED
    BY <1>2, <1>3 DEF SavedInv

\* A key leaves file and saved text alone, ":w" makes the file the image of the
\* saved text, a new session reads the text from the file.
LEMMA SavedKept == IInv /\ SavedInv /\ [Next]_vars => SavedInv'
  <1> SUFFICES ASSUME IInv, SavedInv, [Next]_vars
               PROVE  SavedInv'
    OBVIOUS
  <1>1. E \in Editors /\ saved \in Texts
    BY TypeOKParts DEF IInv, TypeParts
  <1>2. ASSUME file' = file, saved' = saved
        PROVE  SavedInv'
    <2>1. Image(saved)' = Image(saved) /\ Lines(file)' = Lines(file)
      BY <1>2
    <2>2. QED
      BY <1>2, <2>1 DEF SavedInv
  <1>3. CASE KeyStep
    BY <1>2, <1>3 DEF KeyStep
  <1>4. CASE editorRun
    <2>1. file' = file /\ saved' = Lines(file)
      BY <1>4 DEF editorRun
    <2>2. Lines(file)' = Lines(file)
      BY <2>1
    <2>3. QED
      BY <2>1, <2>2 DEF SavedInv
  <1>5. ASSUME NEW created \in BOOLEAN, editorSave(created)
        PROVE  SavedInv'
    <2>1. CASE file = NoFile /\ ~created
      BY <1>2, <1>5, <2>1 DEF editorSave
    <2>2. CASE ~(file = NoFile /\ ~created)
      <3>1. file' = Image(E.rows) /\ saved' = E.rows
        BY <1>5, <2>2 DEF editorSave
      <3>2. E.rows \in Texts
        BY <1>1, Fields
      <3>3. Image(E.rows) \in Files /\ Len(Image(E.rows)) <= Capacity
        <4>1. Image(E.rows) = Cut(Written(E.rows)) /\ Written(E.rows) \in Files
          BY <3>2, WrittenIsFile DEF Image, Written
        <4>2. QED
          BY <4>1, CutFacts DEF Files
      <3>4. Image(saved)' = Image(E.rows)
        BY <3>1
      <3>5. QED
        BY <3>1, <3>3, <3>4 DEF SavedInv
    <2>3. QED
      BY <2>1, <2>2
  <1>6. ASSUME NEW cmd \in {"q", "q!", "w", "wq", "other"}, Execute(cmd)
        PROVE  SavedInv'
    <2>1. (file' = file /\ saved' = saved) \/ \E created \in BOOLEAN : editorSave(created)
      BY <1>6 DEF Execute
    <2>2. QED
      BY <1>2, <1>5, <2>1
  <1>7. CASE UNCHANGED vars
    BY <1>2, <1>7 DEF vars
  <1>8. QED
    BY <1>3, <1>4, <1>6, <1>7, InsertModeStep, NormalModeStep, YankStep DEF Next

-----------------------------------------------------------------------------
(* The screen.                                                             *)

\* One character as kprintf prints it.
PutChar(t, c) == IF c = NL THEN Vga!kprint_newline(t) ELSE Vga!Put(t, c)

\* The greatest of finitely many numbers.
LEMMA MaxFacts ==
  ASSUME NEW n \in Nat, NEW S \in SUBSET (1 .. n), S # {}
  PROVE  Max(S) \in S /\ \A k \in S : k <= Max(S)
  <1> DEFINE T == {m \in 0 .. n : \A k \in S : k <= m}
  <1>1. n \in T /\ T \subseteq 0 .. n
    OBVIOUS
  <1>2. PICK m \in T : \A k \in T : m <= k
    <2> HIDE DEF T
    <2>1. T \subseteq Nat /\ T # {}
      BY <1>1
    <2>2. QED
      BY <2>1, LeastNat
  <1>3. m \in 0 .. n /\ \A k \in S : k <= m
    OBVIOUS
  <1>4. m \in S
    <2> SUFFICES ASSUME m \notin S
                 PROVE  FALSE
      OBVIOUS
    <2>1. m # 0 
      <3>1. PICK k \in S : TRUE
        OBVIOUS
      <3>2. k \in 1 .. n /\ k <= m
        BY <1>3
      <3>3. QED
        BY <1>3, <3>2
    <2>2. m - 1 \in 0 .. n /\ ~(m <= m - 1)
      BY <1>3, <2>1
    <2>3. \A k \in S : k <= m - 1
      BY <1>3
    <2>4. m - 1 \in T
      BY <2>2, <2>3
    <2>5. QED
      BY <1>2, <2>2, <2>4
  <1>5. \A k \in S : m >= k
    BY <1>3
  <1>6. Max(S) \in S /\ \A k \in S : Max(S) >= k
    BY <1>4, <1>5 DEF Max
  <1>7. QED
    BY <1>6

\* kprintf prints one character after the other.
LEMMA KprintfSteps ==
  ASSUME NEW s, NEW V, NEW str \in Seq(V)
  PROVE  \E h : /\ h[0] = s /\ Vga!kprintf(s, str) = h[Len(str)]
                /\ \A i \in 1 .. Len(str) : h[i] = PutChar(h[i - 1], str[i])
  <1> DEFINE Step(t, k) == PutChar(t, str[k])
             Body(g, S) == IF S = {} THEN s ELSE Step(g[S \ {Max(S)}], Max(S))
             IsFold(g) == g = [S \in SUBSET DOMAIN str |-> Body(g, S)]
             fold == CHOOSE g : IsFold(g)
             n == Len(str)
             P(k) == \E g : /\ g = [S \in SUBSET (1 .. k) |-> g[S]]
                            /\ \A S \in SUBSET (1 .. k) : g[S] = Body(g, S)
  <1>1. Vga!kprintf(s, str) = fold[DOMAIN str]
    BY DEF Vga!kprintf, Vga!FoldLeft, Vga!MapThenFoldSet, Vga!Max, Max, PutChar
  <1>2. n \in Nat /\ DOMAIN str = 1 .. n
    OBVIOUS
  <1> HIDE DEF Step, n
  <1>3. \A k \in 0 .. n : P(k)
    <2> DEFINE Bad == {k \in 0 .. n : ~P(k)}
    <2> SUFFICES ASSUME Bad # {}
                 PROVE  FALSE
      OBVIOUS
    <2>1. PICK k \in Bad : \A l \in Bad : k <= l
      <3>1. Bad \subseteq 0 .. n
        OBVIOUS
      <3> HIDE DEF Bad
      <3>2. Bad \subseteq Nat
        BY <1>2, <3>1
      <3>3. QED
        BY <3>2, LeastNat
    <2>2. k \in 0 .. n /\ ~P(k)
      OBVIOUS
    <2>3. CASE k = 0
      <3> DEFINE g == [S \in SUBSET (1 .. 0) |-> s]
      <3>1. g = [S \in SUBSET (1 .. 0) |-> g[S]] /\ \A S \in SUBSET (1 .. 0) : g[S] = s /\ S = {}
        OBVIOUS
      <3> HIDE DEF g
      <3>2. \A S \in SUBSET (1 .. 0) : g[S] = Body(g, S)
        BY <3>1
      <3>3. QED
        BY <2>2, <2>3, <3>1, <3>2
    <2>4. CASE k # 0
      <3> DEFINE l == k - 1
      <3>1. l \in 0 .. n /\ ~(k <= l) /\ k \in Nat /\ l \in Nat /\ 1 .. k = (1 .. l) \cup {k} /\ k \notin 1 .. l
        BY <1>2, <2>2, <2>4
      <3>2. l \notin Bad
        BY <2>1, <3>1
      <3> HIDE DEF l
      <3>3. PICK g : /\ g = [S \in SUBSET (1 .. l) |-> g[S]]
                     /\ \A S \in SUBSET (1 .. l) : g[S] = Body(g, S)
        BY <3>1, <3>2
      <3> DEFINE w == [S \in SUBSET (1 .. k) |-> IF k \in S THEN Step(g[S \ {k}], k) ELSE g[S]]
      <3>4. w = [S \in SUBSET (1 .. k) |-> w[S]]
        OBVIOUS
      <3>5. ASSUME NEW S \in SUBSET (1 .. k)
            PROVE  w[S] = IF k \in S THEN Step(g[S \ {k}], k) ELSE g[S]
        OBVIOUS
      <3> HIDE DEF w
      <3>6. ASSUME NEW S \in SUBSET (1 .. l)
            PROVE  S \in SUBSET (1 .. k) /\ w[S] = g[S]
        BY <3>1, <3>5
      <3>7. ASSUME NEW S \in SUBSET (1 .. k)
            PROVE  w[S] = Body(w, S)
        <4>1. CASE k \in S
          <5>1. Max(S) \in S /\ k <= Max(S) /\ Max(S) \in 1 .. k
            BY <3>1, <4>1, MaxFacts
          <5>2. Max(S) = k
            BY <3>1, <5>1
          <5>3. S \ {k} \in SUBSET (1 .. l)
            BY <3>1
          <5>4. w[S \ {k}] = g[S \ {k}]
            BY <3>6, <5>3
          <5>5. w[S] = Step(g[S \ {k}], k)
            BY <3>5, <4>1
          <5>6. S # {}
            BY <4>1
          <5>7. QED
            BY <5>2, <5>4, <5>5, <5>6
        <4>2. CASE k \notin S
          <5>1. S \in SUBSET (1 .. l)
            BY <3>1, <4>2
          <5>2. w[S] = g[S] /\ g[S] = Body(g, S)
            BY <3>3, <3>6, <5>1, Zenon
          <5>3. CASE S = {}
            BY <5>2, <5>3
          <5>4. CASE S # {}
            <6>1. S \ {Max(S)} \in SUBSET (1 .. l)
              BY <5>1
            <6>2. w[S \ {Max(S)}] = g[S \ {Max(S)}]
              BY <3>6, <6>1
            <6>3. QED
              BY <5>2, <5>4, <6>2
          <5>5. QED
            BY <5>3, <5>4
        <4>3. QED
          BY <4>1, <4>2
      <3> HIDE DEF Body
      <3>8. P(k)
        BY <3>4, <3>7
      <3>9. QED
        BY <2>2, <3>8
    <2>5. QED
      BY <2>3, <2>4
  <1>4. IsFold(fold)
    <2>1. PICK g : /\ g = [S \in SUBSET (1 .. n) |-> g[S]]
                   /\ \A S \in SUBSET (1 .. n) : g[S] = Body(g, S)
      <3>1. n \in 0 .. n
        BY <1>2
      <3>2. QED
        BY <1>3, <3>1
    <2> HIDE DEF Body
    <2>2. IsFold(g)
      BY <1>2, <2>1
    <2> HIDE DEF IsFold
    <2>3. QED
      BY <2>2
  <1>5. \A S \in SUBSET (1 .. n) : fold[S] = Body(fold, S)
    <2> HIDE DEF fold, Body
    <2>1. QED
      BY <1>2, <1>4
  <1> HIDE DEF fold
  <1> DEFINE h == [i \in 0 .. n |-> fold[1 .. i]]
  <1>6. \A i \in 0 .. n : h[i] = fold[1 .. i]
    OBVIOUS
  <1>7. 0 \in 0 .. n /\ n \in 0 .. n /\ 1 .. 0 = {} /\ {} \in SUBSET (1 .. n)
    BY <1>2
  <1> HIDE DEF h
  <1>8. h[0] = s
    BY <1>5, <1>6, <1>7
  <1>9. ASSUME NEW i \in 1 .. n
        PROVE  h[i] = Step(h[i - 1], i)
    <2> DEFINE S == 1 .. i
    <2>1. i \in 0 .. n /\ i - 1 \in 0 .. n /\ S \in SUBSET (1 .. n) /\ i \in S /\ S \ {i} = 1 .. i - 1
      BY <1>2
    <2>2. Max(S) \in S /\ \A k \in S : k <= Max(S)
      BY <1>2, <2>1, MaxFacts
    <2>3. Max(S) = i
      BY <2>1, <2>2
    <2>4. fold[S] = Step(fold[S \ {i}], i)
      <3> HIDE DEF S
      <3>1. QED
        BY <1>5, <2>1, <2>3
    <2>5. QED
      BY <1>6, <2>1, <2>4
  <1>10. Vga!kprintf(s, str) = h[n]
    BY <1>1, <1>2, <1>6, <1>7
  <1>11. QED
    BY <1>8, <1>9, <1>10 DEF Step, n

\* One line of the text area.
DrawLine(t, e, y, junk) ==
  IF y + e.rowoff >= numrows(e) THEN DrawFiller(Vga!kvga_set_cursor(t, y, 0), e, y)
  ELSE DrawRow(Vga!kvga_set_cursor(t, y, 0), e.rows[y + e.rowoff + 1], y, e.coloff, junk)

\* editorDrawRows draws one line after the other.
LEMMA DrawRowsSteps ==
  ASSUME NEW s, NEW e, NEW junk
  PROVE  \E h : /\ h[0] = s /\ editorDrawRows(s, e, junk) = h[screenrows]
                /\ \A i \in 1 .. screenrows : h[i] = DrawLine(h[i - 1], e, i - 1, junk)
  <1> DEFINE lines == [i \in 1 .. screenrows |-> i - 1]
  <1> DEFINE Step(t, k) == DrawLine(t, e, lines[k], junk)
             Body(g, S) == IF S = {} THEN s ELSE Step(g[S \ {Max(S)}], Max(S))
             IsFold(g) == g = [S \in SUBSET DOMAIN lines |-> Body(g, S)]
             fold == CHOOSE g : IsFold(g)
             n == screenrows
             P(k) == \E g : /\ g = [S \in SUBSET (1 .. k) |-> g[S]]
                            /\ \A S \in SUBSET (1 .. k) : g[S] = Body(g, S)
  <1>1. editorDrawRows(s, e, junk) = fold[DOMAIN lines]
    BY DEF editorDrawRows, FoldLeft, MapThenFoldSet, DrawLine
  <1>2. n \in Nat /\ DOMAIN lines = 1 .. n
    BY EditorAssumption
  <1> HIDE DEF Step, n
  <1>3. \A k \in 0 .. n : P(k)
    <2> DEFINE Bad == {k \in 0 .. n : ~P(k)}
    <2> SUFFICES ASSUME Bad # {}
                 PROVE  FALSE
      OBVIOUS
    <2>1. PICK k \in Bad : \A l \in Bad : k <= l
      <3>1. Bad \subseteq 0 .. n
        OBVIOUS
      <3> HIDE DEF Bad
      <3>2. Bad \subseteq Nat
        BY <1>2, <3>1
      <3>3. QED
        BY <3>2, LeastNat
    <2>2. k \in 0 .. n /\ ~P(k)
      OBVIOUS
    <2>3. CASE k = 0
      <3> DEFINE g == [S \in SUBSET (1 .. 0) |-> s]
      <3>1. g = [S \in SUBSET (1 .. 0) |-> g[S]] /\ \A S \in SUBSET (1 .. 0) : g[S] = s /\ S = {}
        OBVIOUS
      <3> HIDE DEF g
      <3>2. \A S \in SUBSET (1 .. 0) : g[S] = Body(g, S)
        BY <3>1
      <3>3. QED
        BY <2>2, <2>3, <3>1, <3>2
    <2>4. CASE k # 0
      <3> DEFINE l == k - 1
      <3>1. l \in 0 .. n /\ ~(k <= l) /\ k \in Nat /\ l \in Nat /\ 1 .. k = (1 .. l) \cup {k} /\ k \notin 1 .. l
        BY <1>2, <2>2, <2>4
      <3>2. l \notin Bad
        BY <2>1, <3>1
      <3> HIDE DEF l
      <3>3. PICK g : /\ g = [S \in SUBSET (1 .. l) |-> g[S]]
                     /\ \A S \in SUBSET (1 .. l) : g[S] = Body(g, S)
        BY <3>1, <3>2
      <3> DEFINE w == [S \in SUBSET (1 .. k) |-> IF k \in S THEN Step(g[S \ {k}], k) ELSE g[S]]
      <3>4. w = [S \in SUBSET (1 .. k) |-> w[S]]
        OBVIOUS
      <3>5. ASSUME NEW S \in SUBSET (1 .. k)
            PROVE  w[S] = IF k \in S THEN Step(g[S \ {k}], k) ELSE g[S]
        OBVIOUS
      <3> HIDE DEF w
      <3>6. ASSUME NEW S \in SUBSET (1 .. l)
            PROVE  S \in SUBSET (1 .. k) /\ w[S] = g[S]
        BY <3>1, <3>5
      <3>7. ASSUME NEW S \in SUBSET (1 .. k)
            PROVE  w[S] = Body(w, S)
        <4>1. CASE k \in S
          <5>1. Max(S) \in S /\ k <= Max(S) /\ Max(S) \in 1 .. k
            BY <3>1, <4>1, MaxFacts
          <5>2. Max(S) = k
            BY <3>1, <5>1
          <5>3. S \ {k} \in SUBSET (1 .. l)
            BY <3>1
          <5>4. w[S \ {k}] = g[S \ {k}]
            BY <3>6, <5>3
          <5>5. w[S] = Step(g[S \ {k}], k)
            BY <3>5, <4>1
          <5>6. S # {}
            BY <4>1
          <5>7. QED
            BY <5>2, <5>4, <5>5, <5>6
        <4>2. CASE k \notin S
          <5>1. S \in SUBSET (1 .. l)
            BY <3>1, <4>2
          <5>2. w[S] = g[S] /\ g[S] = Body(g, S)
            BY <3>3, <3>6, <5>1, Zenon
          <5>3. CASE S = {}
            BY <5>2, <5>3
          <5>4. CASE S # {}
            <6>1. S \ {Max(S)} \in SUBSET (1 .. l)
              BY <5>1
            <6>2. w[S \ {Max(S)}] = g[S \ {Max(S)}]
              BY <3>6, <6>1
            <6>3. QED
              BY <5>2, <5>4, <6>2
          <5>5. QED
            BY <5>3, <5>4
        <4>3. QED
          BY <4>1, <4>2
      <3> HIDE DEF Body
      <3>8. P(k)
        BY <3>4, <3>7
      <3>9. QED
        BY <2>2, <3>8
    <2>5. QED
      BY <2>3, <2>4
  <1>4. IsFold(fold)
    <2>1. PICK g : /\ g = [S \in SUBSET (1 .. n) |-> g[S]]
                   /\ \A S \in SUBSET (1 .. n) : g[S] = Body(g, S)
      <3>1. n \in 0 .. n
        BY <1>2
      <3>2. QED
        BY <1>3, <3>1
    <2> HIDE DEF Body
    <2>2. IsFold(g)
      BY <1>2, <2>1
    <2> HIDE DEF IsFold
    <2>3. QED
      BY <2>2
  <1>5. \A S \in SUBSET (1 .. n) : fold[S] = Body(fold, S)
    <2> HIDE DEF fold, Body
    <2>1. QED
      BY <1>2, <1>4
  <1> HIDE DEF fold
  <1> DEFINE h == [i \in 0 .. n |-> fold[1 .. i]]
  <1>6. \A i \in 0 .. n : h[i] = fold[1 .. i]
    OBVIOUS
  <1>7. 0 \in 0 .. n /\ n \in 0 .. n /\ 1 .. 0 = {} /\ {} \in SUBSET (1 .. n)
    BY <1>2
  <1> HIDE DEF h
  <1>8. h[0] = s
    BY <1>5, <1>6, <1>7
  <1>9. ASSUME NEW i \in 1 .. n
        PROVE  h[i] = Step(h[i - 1], i)
    <2> DEFINE S == 1 .. i
    <2>1. i \in 0 .. n /\ i - 1 \in 0 .. n /\ S \in SUBSET (1 .. n) /\ i \in S /\ S \ {i} = 1 .. i - 1
      BY <1>2
    <2>2. Max(S) \in S /\ \A k \in S : k <= Max(S)
      BY <1>2, <2>1, MaxFacts
    <2>3. Max(S) = i
      BY <2>1, <2>2
    <2>4. fold[S] = Step(fold[S \ {i}], i)
      <3> HIDE DEF S
      <3>1. QED
        BY <1>5, <2>1, <2>3
    <2>5. QED
      BY <1>6, <2>1, <2>4
  <1>10. editorDrawRows(s, e, junk) = h[n]
    BY <1>1, <1>2, <1>6, <1>7
  <1>11. QED
    BY <1>8, <1>9, <1>10 DEF Step, n

\* What a cell can show, and a screen.
Shown == {Vga!Blank, Tilde, "welcome", "stale", "junk", ":", "k",
          "normal", "insert", "command", "astray", NL} \cup (Nat \X Nat)
Screens == [cells : [Vga!Cells -> Shown], loc : Nat]

\* Lines follow each other without a gap.
LEMMA AtFacts ==
  ASSUME NEW y \in Nat
  PROVE  /\ Vga!At(y, 0) \in Nat /\ Vga!At(y + 1, 0) = Vga!At(y, 0) + screencols
         /\ \A col \in Nat : Vga!At(y, col) = Vga!At(y, 0) + col
  BY EditorAssumption DEF Vga!At

\* A later line lies behind the whole of an earlier one.
LEMMA AtOrder ==
  ASSUME NEW y \in Nat, NEW z \in Nat, y < z
  PROVE  Vga!At(y, 0) + screencols <= Vga!At(z, 0)
  <1> DEFINE d == z - (y + 1)
             C == screencols
  <1>1. d \in Nat /\ z = y + 1 + d /\ C \in Nat
    BY EditorAssumption
  <1> HIDE DEF d, C
  <1>2. (y + 1 + d) * C = y * C + C + d * C /\ d * C \in Nat /\ y * C \in Nat
    BY <1>1
  <1>3. Vga!At(y, 0) = y * C /\ Vga!At(z, 0) = (y + 1 + d) * C
    BY <1>1, <1>2 DEF Vga!At, C
  <1>4. QED
    BY <1>1, <1>2, <1>3 DEF C

\* The places of the screen's lines are cells.
LEMMA CellFacts ==
  ASSUME NEW y \in 0 .. screenrows + 1, NEW col \in 0 .. screencols - 1
  PROVE  /\ Vga!At(y, col) \in Vga!Cells /\ Vga!At(y, col) \in Nat
         /\ Vga!At(y, 0) <= Vga!At(y, col) /\ Vga!At(y, col) < Vga!At(y + 1, 0)
  <1>1. /\ screenrows \in Nat /\ screencols \in Nat /\ y \in Nat /\ y + 1 \in Nat /\ screenrows + 2 \in Nat
        /\ (y + 1 = screenrows + 2 \/ y + 1 < screenrows + 2) /\ col \in Nat
    BY EditorAssumption
  <1>2. Vga!Cells = 0 .. Vga!At(screenrows + 2, 0) - 1
    BY <1>1 DEF Vga!Cells, Vga!At
  <1>3. /\ Vga!At(y, col) = Vga!At(y, 0) + col
        /\ Vga!At(y, 0) \in Nat /\ Vga!At(y + 1, 0) = Vga!At(y, 0) + screencols
    BY <1>1, AtFacts
  <1>4. Vga!At(y + 1, 0) <= Vga!At(screenrows + 2, 0) /\ Vga!At(screenrows + 2, 0) \in Nat
    <2>1. Vga!At(screenrows + 2, 0) \in Nat /\ Vga!At(y + 1, 0) \in Nat
      BY <1>1, AtFacts
    <2>2. CASE y + 1 = screenrows + 2
      BY <2>1, <2>2
    <2>3. CASE y + 1 < screenrows + 2
      <3>1. Vga!At(y + 1, 0) + screencols <= Vga!At(screenrows + 2, 0)
        BY <1>1, <2>3, AtOrder
      <3>2. QED
        BY <1>1, <2>1, <3>1
    <2>4. QED
      BY <1>1, <2>2, <2>3
  <1>5. QED
    BY <1>1, <1>2, <1>3, <1>4

\* The cursor is set.
LEMMA SetCursorFacts ==
  ASSUME NEW s \in Screens, NEW y \in Nat, NEW col \in Nat
  PROVE  /\ Vga!kvga_set_cursor(s, y, col) \in Screens
         /\ Vga!kvga_set_cursor(s, y, col).loc = Vga!At(y, col)
         /\ Vga!kvga_set_cursor(s, y, col).cells = s.cells
  <1>1. Vga!At(y, col) \in Nat
    <2>1. Vga!At(y, col) = Vga!At(y, 0) + col /\ Vga!At(y, 0) \in Nat
      BY AtFacts
    <2>2. QED
      BY <2>1
  <1>2. QED
    BY <1>1 DEF Vga!kvga_set_cursor, Screens

\* Cells that are all given a new value.
LEMMA PaintFacts ==
  ASSUME NEW s \in Screens, NEW f \in [Vga!Cells -> Shown]
  PROVE  /\ [s EXCEPT !.cells = f] \in Screens
         /\ [s EXCEPT !.cells = f].loc = s.loc /\ [s EXCEPT !.cells = f].cells = f
  BY DEF Screens

\* One character is written.
LEMMA WriteCharFacts ==
  ASSUME NEW s \in Screens, NEW y, NEW col, NEW c \in Shown
  PROVE  /\ Vga!kvga_write_char(s, y, col, c) \in Screens
         /\ Vga!kvga_write_char(s, y, col, c).loc = s.loc
         /\ \A i \in Vga!Cells : Vga!kvga_write_char(s, y, col, c).cells[i] =
              IF i = Vga!At(y, col) THEN c ELSE s.cells[i]
  <1> DEFINE f == [i \in Vga!Cells |-> IF i = Vga!At(y, col) THEN c ELSE s.cells[i]]
  <1>1. \A i \in Vga!Cells : s.cells[i] \in Shown
    BY DEF Screens
  <1>2. f \in [Vga!Cells -> Shown]
    BY <1>1
  <1>3. Vga!kvga_write_char(s, y, col, c) = [s EXCEPT !.cells = f]
    BY DEF Vga!kvga_write_char
  <1>4. \A i \in Vga!Cells : f[i] = IF i = Vga!At(y, col) THEN c ELSE s.cells[i]
    OBVIOUS
  <1> HIDE DEF f
  <1>5. QED
    BY <1>2, <1>3, <1>4, PaintFacts

\* The rest of a line is cleared.
LEMMA ClearFacts ==
  ASSUME NEW s \in Screens, NEW y, NEW col
  PROVE  /\ Vga!kvga_clear_to_eol(s, y, col) \in Screens
         /\ Vga!kvga_clear_to_eol(s, y, col).loc = s.loc
         /\ \A i \in Vga!Cells : Vga!kvga_clear_to_eol(s, y, col).cells[i] =
              IF i \in Vga!At(y, col) .. Vga!At(y + 1, 0) - 1 THEN Vga!Blank ELSE s.cells[i]
  <1> DEFINE f == [i \in Vga!Cells |-> IF i \in Vga!At(y, col) .. Vga!At(y + 1, 0) - 1
                                       THEN Vga!Blank ELSE s.cells[i]]
  <1>1. (\A i \in Vga!Cells : s.cells[i] \in Shown) /\ Vga!Blank \in Shown
    BY DEF Screens, Shown
  <1>2. f \in [Vga!Cells -> Shown]
    BY <1>1
  <1>3. Vga!kvga_clear_to_eol(s, y, col) = [s EXCEPT !.cells = f]
    BY DEF Vga!kvga_clear_to_eol
  <1>4. \A i \in Vga!Cells : f[i] = IF i \in Vga!At(y, col) .. Vga!At(y + 1, 0) - 1
                                    THEN Vga!Blank ELSE s.cells[i]
    OBVIOUS
  <1> HIDE DEF f
  <1>5. QED
    BY <1>2, <1>3, <1>4, PaintFacts

\* One character is printed: nothing before the cursor changes, and a character
\* that is no '\n' is shown at the cursor.
LEMMA PutCharFacts ==
  ASSUME NEW s \in Screens, NEW c \in Shown
  PROVE  /\ PutChar(s, c) \in Screens /\ PutChar(s, c).loc > s.loc
         /\ \A i \in Vga!Cells : i < s.loc => PutChar(s, c).cells[i] = s.cells[i]
         /\ c # NL => /\ PutChar(s, c).loc = s.loc + 1
                      /\ s.loc \in Vga!Cells => PutChar(s, c).cells[s.loc] = c
  <1>1. s.loc \in Nat /\ s.cells \in [Vga!Cells -> Shown] /\ screencols \in Nat /\ screencols > 0
    BY EditorAssumption DEF Screens
  <1>2. CASE c = NL
    <2> DEFINE l == s.loc + (screencols - (s.loc % screencols))
    <2>1. PutChar(s, c) = [s EXCEPT !.loc = l]
      BY <1>2 DEF PutChar, Vga!kprint_newline
    <2>2. s.loc % screencols \in 0 .. screencols - 1
      BY <1>1
    <2>3. l \in Nat /\ l > s.loc
      BY <1>1, <2>2
    <2> HIDE DEF l
    <2>4. QED
      BY <1>2, <2>1, <2>3 DEF Screens
  <1>3. CASE c # NL
    <2> DEFINE f == IF s.loc \in Vga!Cells THEN [s.cells EXCEPT ![s.loc] = c] ELSE s.cells
    <2>1. PutChar(s, c) = [cells |-> f, loc |-> s.loc + 1]
      BY <1>3 DEF PutChar, Vga!Put
    <2>2. f \in [Vga!Cells -> Shown]
      BY <1>1
    <2>3. \A i \in Vga!Cells : i < s.loc => f[i] = s.cells[i]
      BY <1>1
    <2>4. s.loc \in Vga!Cells => f[s.loc] = c
      BY <1>1
    <2> HIDE DEF f
    <2>5. s.loc + 1 \in Nat /\ s.loc + 1 > s.loc
      BY <1>1
    <2>6. QED
      BY <2>1, <2>2, <2>3, <2>4, <2>5 DEF Screens
  <1>4. QED
    BY <1>2, <1>3

\* A string is printed: nothing before the cursor changes, and one without '\n'
\* is shown from the cursor on.
LEMMA KprintfFacts ==
  ASSUME NEW s \in Screens, NEW str \in Seq(Shown)
  PROVE  /\ Vga!kprintf(s, str) \in Screens
         /\ \A i \in Vga!Cells : i < s.loc => Vga!kprintf(s, str).cells[i] = s.cells[i]
         /\ (\A k \in 1 .. Len(str) : str[k] # NL) =>
              \A k \in 1 .. Len(str) : s.loc + k - 1 \in Vga!Cells =>
                Vga!kprintf(s, str).cells[s.loc + k - 1] = str[k]
  <1> DEFINE n == Len(str)
             Plain == \A k \in 1 .. Len(str) : str[k] # NL
  <1>1. n \in Nat /\ \A k \in 1 .. n : str[k] \in Shown
    OBVIOUS
  <1>2. PICK h : /\ h[0] = s /\ Vga!kprintf(s, str) = h[n]
                 /\ \A i \in 1 .. n : h[i] = PutChar(h[i - 1], str[i])
    BY KprintfSteps
  <1> DEFINE Good(i) ==
               /\ h[i] \in Screens /\ h[i].loc >= s.loc
               /\ \A j \in Vga!Cells : j < s.loc => h[i].cells[j] = s.cells[j]
               /\ Plain => /\ h[i].loc = s.loc + i
                           /\ \A k \in 1 .. i : s.loc + k - 1 \in Vga!Cells =>
                                h[i].cells[s.loc + k - 1] = str[k]
  <1>3. s.loc \in Nat /\ Vga!Cells \subseteq Nat
    BY DEF Screens, Vga!Cells
  <1> HIDE DEF n, Plain
  <1>4. Good(0)
    BY <1>2, <1>3
  <1>5. ASSUME NEW i \in 1 .. n, Good(i - 1)
        PROVE  Good(i)
    <2> DEFINE t == h[i - 1]
               u == h[i]
               c == str[i]
    <2>1. /\ t \in Screens /\ t.loc >= s.loc /\ t.loc \in Nat
          /\ \A j \in Vga!Cells : j < s.loc => t.cells[j] = s.cells[j]
          /\ Plain => /\ t.loc = s.loc + (i - 1)
                      /\ \A k \in 1 .. i - 1 : s.loc + k - 1 \in Vga!Cells =>
                           t.cells[s.loc + k - 1] = str[k]
      BY <1>5 DEF Screens
    <2>2. u = PutChar(t, c) /\ c \in Shown /\ (Plain => c # NL)
      BY <1>1, <1>2 DEF Plain, n
    <2> HIDE DEF t, u, c
    <2>3. /\ u \in Screens /\ u.loc > t.loc
          /\ \A j \in Vga!Cells : j < t.loc => u.cells[j] = t.cells[j]
          /\ c # NL => /\ u.loc = t.loc + 1
                       /\ t.loc \in Vga!Cells => u.cells[t.loc] = c
      BY <2>1, <2>2, PutCharFacts
    <2>4. u.loc \in Nat
      BY <2>3 DEF Screens
    <2>5. u.loc >= s.loc
      BY <1>3, <2>1, <2>3, <2>4
    <2>6. \A j \in Vga!Cells : j < s.loc => u.cells[j] = s.cells[j]
      <3> SUFFICES ASSUME NEW j \in Vga!Cells, j < s.loc
                   PROVE  u.cells[j] = s.cells[j]
        OBVIOUS
      <3>1. j < t.loc
        BY <1>3, <2>1
      <3>2. QED
        BY <2>1, <2>3, <3>1
    <2>7. ASSUME Plain
          PROVE  /\ u.loc = s.loc + i
                 /\ \A k \in 1 .. i : s.loc + k - 1 \in Vga!Cells =>
                      u.cells[s.loc + k - 1] = str[k]
      <3>1. t.loc = s.loc + (i - 1) /\ c # NL /\ u.loc = t.loc + 1
        BY <2>1, <2>2, <2>3, <2>7
      <3>2. u.loc = s.loc + i
        BY <1>3, <3>1
      <3>3. ASSUME NEW k \in 1 .. i, s.loc + k - 1 \in Vga!Cells
            PROVE  u.cells[s.loc + k - 1] = str[k]
        <4> DEFINE j == s.loc + k - 1
        <4>1. CASE k = i
          <5>1. j = t.loc
            BY <1>3, <3>1, <4>1
          <5>2. u.cells[t.loc] = c
            BY <2>3, <3>1, <3>3, <5>1
          <5>3. QED
            BY <4>1, <5>1, <5>2 DEF c
        <4>2. CASE k # i
          <5>1. k \in 1 .. i - 1 /\ j < t.loc
            BY <1>1, <1>3, <3>1, <4>2
          <5>2. t.cells[j] = str[k]
            BY <2>1, <2>7, <3>3, <5>1
          <5>3. j \in Vga!Cells
            BY <3>3
          <5> HIDE DEF j
          <5>4. u.cells[j] = t.cells[j]
            BY <2>3, <5>1, <5>3
          <5>5. QED
            BY <5>2, <5>4 DEF j
        <4>3. QED
          BY <4>1, <4>2
      <3>4. QED
        BY <3>2, <3>3
    <2>8. QED
      BY <2>3, <2>5, <2>6, <2>7 DEF u
  <1>6. \A i \in 0 .. n : Good(i)
    <2> HIDE DEF Good
    <2> DEFINE Bad == {i \in 0 .. n : ~Good(i)}
    <2> SUFFICES ASSUME Bad # {}
                 PROVE  FALSE
      OBVIOUS
    <2>1. PICK i \in Bad : \A k \in Bad : i <= k
      <3>1. Bad \subseteq 0 .. n
        OBVIOUS
      <3> HIDE DEF Bad
      <3>2. Bad \subseteq Nat
        BY <1>1, <3>1
      <3>3. QED
        BY <3>2, LeastNat
    <2>2. i \in 0 .. n /\ ~Good(i)
      OBVIOUS
    <2>3. i # 0
      BY <1>4, <2>2
    <2>4. i \in 1 .. n /\ i - 1 \in 0 .. n /\ ~(i <= i - 1)
      BY <1>1, <2>2, <2>3
    <2>5. i - 1 \notin Bad
      BY <2>1, <2>4
    <2>6. Good(i - 1)
      BY <2>4, <2>5
    <2>7. QED
      BY <1>5, <2>2, <2>4, <2>6
  <1>7. n \in 0 .. n
    BY <1>1
  <1>8. Good(n)
    BY <1>6, <1>7
  <1>9. QED
    BY <1>2, <1>8 DEF n, Plain

\* Where the cells of a line are, counted from its first.
LEMMA LinePlaces ==
  ASSUME NEW y \in 0 .. screenrows + 1
  PROVE  /\ Vga!At(y, 0) \in Nat /\ Vga!At(y + 1, 0) = Vga!At(y, 0) + screencols
         /\ screencols \in Nat /\ screencols >= 1
         /\ \A col \in Nat : Vga!At(y, col) = Vga!At(y, 0) + col
         /\ \A col \in 0 .. screencols - 1 : Vga!At(y, 0) + col \in Vga!Cells
         /\ Vga!Cells \subseteq Nat
  <1>1. y \in Nat /\ screenrows \in Nat /\ screencols \in Nat /\ screencols >= 1
    BY EditorAssumption
  <1>2. /\ Vga!At(y, 0) \in Nat /\ Vga!At(y + 1, 0) = Vga!At(y, 0) + screencols
        /\ \A col \in Nat : Vga!At(y, col) = Vga!At(y, 0) + col
    BY <1>1, AtFacts
  <1>3. ASSUME NEW col \in 0 .. screencols - 1
        PROVE  Vga!At(y, 0) + col \in Vga!Cells
    <2>1. col \in Nat /\ Vga!At(y, col) \in Vga!Cells
      BY <1>1, CellFacts
    <2>2. QED
      BY <1>2, <2>1
  <1>4. Vga!Cells \subseteq Nat
    BY DEF Vga!Cells
  <1>5. QED
    BY <1>1, <1>2, <1>3, <1>4

\* A line is cleared from column a on.
LEMMA ClearLine ==
  ASSUME NEW s \in Screens, NEW y \in 0 .. screenrows + 1, NEW a \in Nat
  PROVE  /\ Vga!kvga_clear_to_eol(s, y, a) \in Screens
         /\ \A i \in Vga!Cells : i < Vga!At(y, 0) =>
              Vga!kvga_clear_to_eol(s, y, a).cells[i] = s.cells[i]
         /\ \A col \in 0 .. screencols - 1 :
              Vga!kvga_clear_to_eol(s, y, a).cells[Vga!At(y, 0) + col] =
                IF col >= a THEN Vga!Blank ELSE s.cells[Vga!At(y, 0) + col]
  <1> DEFINE u == Vga!kvga_clear_to_eol(s, y, a)
             b == Vga!At(y, 0)
  <1>1. /\ u \in Screens
        /\ \A i \in Vga!Cells :
             u.cells[i] = IF i \in Vga!At(y, a) .. Vga!At(y + 1, 0) - 1 THEN Vga!Blank ELSE s.cells[i]
    BY ClearFacts
  <1>2. /\ b \in Nat /\ Vga!At(y + 1, 0) = b + screencols /\ screencols \in Nat
        /\ Vga!At(y, a) = b + a /\ Vga!Cells \subseteq Nat
        /\ \A col \in 0 .. screencols - 1 : b + col \in Vga!Cells
    BY LinePlaces
  <1> HIDE DEF u, b
  <1>3. ASSUME NEW i \in Vga!Cells, i < b
        PROVE  u.cells[i] = s.cells[i]
    <2>1. i \notin b + a .. b + screencols - 1
      BY <1>2, <1>3
    <2>2. QED
      BY <1>1, <1>2, <2>1
  <1>4. ASSUME NEW col \in 0 .. screencols - 1
        PROVE  u.cells[b + col] = IF col >= a THEN Vga!Blank ELSE s.cells[b + col]
    <2> DEFINE i == b + col
    <2>1. i \in Vga!Cells /\ (i \in b + a .. b + screencols - 1 <=> col >= a)
      BY <1>2
    <2> HIDE DEF i
    <2>2. QED
      BY <1>1, <1>2, <2>1 DEF i
  <1>5. QED
    BY <1>1, <1>3, <1>4 DEF u, b

\* A sequence is one of what its places hold.
LEMMA SeqOfPlaces ==
  ASSUME NEW S, NEW T, NEW r \in Seq(S), \A k \in 1 .. Len(r) : r[k] \in T
  PROVE  r \in Seq(T)
  OBVIOUS

\* The rest of a sequence.
LEMMA RestFacts ==
  ASSUME NEW S, NEW r \in Seq(S), NEW start \in Nat, start <= Len(r)
  PROVE  /\ SubSeq(r, start + 1, Len(r)) \in Seq(S)
         /\ Len(SubSeq(r, start + 1, Len(r))) = Len(r) - start
         /\ \A k \in 1 .. Len(r) - start : SubSeq(r, start + 1, Len(r))[k] = r[start + k]
  <1> DEFINE m == start + 1
             n == Len(r)
             q == SubSeq(r, m, n)
  <1>1. m \in Nat /\ n \in Nat /\ m >= 1 /\ n <= Len(r) /\ m = start + 1 /\ start <= n
    OBVIOUS
  <1> HIDE DEF m
  <1>2. /\ q \in Seq(S) /\ Len(q) = (IF m <= n THEN n - m + 1 ELSE 0)
        /\ \A k \in 1 .. n - m + 1 : q[k] = r[m + k - 1]
    BY <1>1, PartFacts
  <1> HIDE DEF n, q
  <1>3. Len(q) = n - start
    BY <1>1, <1>2
  <1>4. ASSUME NEW k \in 1 .. n - start
        PROVE  q[k] = r[start + k]
    <2>1. k \in 1 .. n - m + 1 /\ m + k - 1 = start + k
      BY <1>1
    <2>2. QED
      BY <1>2, <2>1
  <1>5. QED
    BY <1>2, <1>3, <1>4 DEF m, n, q

\* A row is drawn on its line, whatever it prints beyond it: from column start on,
\* with blanks behind its end.
LEMMA DrawRowFacts ==
  ASSUME NEW s \in Screens, NEW y \in 0 .. screenrows + 1, s.loc = Vga!At(y, 0),
         NEW r \in Seq(Nat \X Nat), NEW start \in Nat, NEW junk \in Seq(Shown)
  PROVE  /\ DrawRow(s, r, y, start, junk) \in Screens
         /\ \A i \in Vga!Cells : i < Vga!At(y, 0) =>
              DrawRow(s, r, y, start, junk).cells[i] = s.cells[i]
         /\ \A col \in 0 .. screencols - 1 :
              DrawRow(s, r, y, start, junk).cells[Vga!At(y, 0) + col] =
                IF start + col + 1 <= Len(r) THEN r[start + col + 1] ELSE Vga!Blank
  <1> DEFINE u == DrawRow(s, r, y, start, junk)
             b == Vga!At(y, 0)
             n == Len(r)
             len == IF n < start THEN 0 ELSE least(n - start, screencols)
             str == From(r, start, junk)
             t == Vga!kprintf(s, str)
  <1>1. /\ b \in Nat /\ screencols \in Nat /\ Vga!Cells \subseteq Nat
        /\ \A col \in 0 .. screencols - 1 : b + col \in Vga!Cells
    BY LinePlaces
  <1>2. n \in Nat /\ len \in Nat
    BY <1>1 DEF least
  <1>3. u = Vga!kvga_clear_to_eol(t, y, len)
    BY DEF DrawRow
  <1>4. \A k \in 1 .. n : r[k] \in Shown /\ r[k] # NL
    <2> TAKE k \in 1 .. n
    <2> DEFINE p == r[k]
    <2>1. p \in Nat \X Nat
      OBVIOUS
    <2> HIDE DEF p
    <2>2. p # NL
      BY <2>1, ScreenAssumption
    <2>3. p \in Shown
      BY <2>1, Zenon DEF Shown
    <2>4. QED
      BY <2>2, <2>3 DEF p
  <1>5. r \in Seq(Shown)
    BY <1>4, SeqOfPlaces, Zenon
  <1>6. start <= n => /\ str \in Seq(Shown) /\ Len(str) = n - start
                      /\ \A k \in 1 .. n - start : str[k] = r[start + k]
    <2> SUFFICES ASSUME start <= n
                 PROVE  /\ str \in Seq(Shown) /\ Len(str) = n - start
                        /\ \A k \in 1 .. n - start : str[k] = r[start + k]
      OBVIOUS
    <2>1. str = SubSeq(r, start + 1, Len(r))
      BY DEF From
    <2>2. /\ SubSeq(r, start + 1, Len(r)) \in Seq(Shown)
          /\ Len(SubSeq(r, start + 1, Len(r))) = Len(r) - start
          /\ \A k \in 1 .. Len(r) - start : SubSeq(r, start + 1, Len(r))[k] = r[start + k]
      BY <1>5, RestFacts, Zenon
    <2> HIDE DEF str
    <2>3. QED
      BY <2>1, <2>2, Zenon
  <1>7. str \in Seq(Shown)
    <2>1. ~(start <= n) => str = junk
      BY DEF From
    <2>2. QED
      BY <1>6, <2>1
  <1> HIDE DEF str, len, n
  <1>8. /\ t \in Screens
        /\ \A i \in Vga!Cells : i < b => t.cells[i] = s.cells[i]
        /\ (\A k \in 1 .. Len(str) : str[k] # NL) =>
             \A k \in 1 .. Len(str) : b + k - 1 \in Vga!Cells => t.cells[b + k - 1] = str[k]
    <2>1. /\ t \in Screens
          /\ \A i \in Vga!Cells : i < s.loc => t.cells[i] = s.cells[i]
          /\ (\A k \in 1 .. Len(str) : str[k] # NL) =>
               \A k \in 1 .. Len(str) : s.loc + k - 1 \in Vga!Cells => t.cells[s.loc + k - 1] = str[k]
      BY <1>7, KprintfFacts, Zenon
    <2>2. s.loc = b
      OBVIOUS
    <2> HIDE DEF t, b
    <2>3. QED
      BY <2>1, <2>2, Zenon
  <1> HIDE DEF t, u
  <1>9. /\ u \in Screens
        /\ \A i \in Vga!Cells : i < b => u.cells[i] = t.cells[i]
        /\ \A col \in 0 .. screencols - 1 :
             u.cells[b + col] = IF col >= len THEN Vga!Blank ELSE t.cells[b + col]
    BY <1>2, <1>3, <1>8, ClearLine, Zenon
  <1> HIDE DEF b
  <1>10. ASSUME NEW col \in 0 .. screencols - 1
         PROVE  u.cells[b + col] = IF start + col + 1 <= n THEN r[start + col + 1] ELSE Vga!Blank
    <2>1. start + col + 1 <= n <=> ~(col >= len)
      BY <1>1, <1>2 DEF len, least
    <2>2. CASE col >= len
      BY <1>9, <2>1, <2>2
    <2>3. CASE ~(col >= len)
      <3> DEFINE k == col + 1
      <3>1. start <= n /\ k \in 1 .. n - start /\ b + k - 1 = b + col /\ start + k = start + col + 1
        BY <1>1, <1>2, <2>1, <2>3
      <3> HIDE DEF k
      <3>2. Len(str) = n - start /\ str[k] = r[start + k] /\ \A j \in 1 .. n - start : str[j] = r[start + j]
        BY <1>6, <3>1
      <3>3. \A j \in 1 .. Len(str) : str[j] # NL
        <4> TAKE j \in 1 .. Len(str)
        <4>1. j \in 1 .. n - start /\ start + j \in 1 .. n
          <5>1. j \in 1 .. n - start
            BY <3>2, Zenon
          <5>2. QED
            BY <1>2, <5>1
        <4>2. str[j] = r[start + j] /\ r[start + j] # NL
          BY <1>4, <3>2, <4>1, Zenon
        <4>3. QED
          BY <4>2
      <3>4. b + k - 1 \in Vga!Cells
        BY <1>1, <3>1
      <3>5. t.cells[b + k - 1] = str[k]
        BY <1>8, <3>1, <3>2, <3>3, <3>4
      <3>6. u.cells[b + col] = t.cells[b + col]
        BY <1>9, <2>3
      <3>7. QED
        BY <2>1, <2>3, <3>1, <3>2, <3>5, <3>6
    <2>4. QED
      BY <2>2, <2>3
  <1>11. \A i \in Vga!Cells : i < b => u.cells[i] = s.cells[i]
    BY <1>8, <1>9
  <1>12. QED
    BY <1>9, <1>10, <1>11 DEF u, b, n

\* The column of the welcome line's text.
Pad == (screencols - least(Len(Welcome), screencols)) \div 2

\* What a line behind the text shows.
Filler(e, y, col) ==
  IF numrows(e) = 0 /\ y = screenrows \div 3 /\ col = Pad THEN "welcome"
  ELSE IF col = 0 THEN Tilde ELSE Vga!Blank

\* The welcome text is one character and fits every screen.
LEMMA WelcomeFacts ==
  /\ least(Len(Welcome), screencols) = 1 /\ Welcome[1] = "welcome" /\ Welcome \in Seq(Shown)
  /\ Len(Welcome) = 1 /\ "welcome" # NL
  /\ Pad \in Nat /\ Pad \in 0 .. screencols - 1
  <1>1. Len(Welcome) = 1 /\ Welcome[1] = "welcome"
    BY DEF Welcome
  <1>2. least(Len(Welcome), screencols) = 1
    BY <1>1, EditorAssumption DEF least
  <1>3. Welcome \in Seq(Shown)
    <2>1. "welcome" \in Shown
      BY Zenon DEF Shown
    <2>2. QED
      BY <2>1 DEF Welcome
  <1>4. Pad = (screencols - 1) \div 2
    BY <1>2 DEF Pad
  <1>5. Pad \in Nat /\ Pad \in 0 .. screencols - 1
    BY <1>4, EditorAssumption
  <1>6. QED
    BY <1>1, <1>2, <1>3, <1>5, ScreenAssumption

\* A line behind the text is drawn.
LEMMA DrawFillerFacts ==
  ASSUME NEW s \in Screens, NEW y \in 0 .. screenrows + 1, NEW e
  PROVE  /\ DrawFiller(s, e, y) \in Screens
         /\ \A i \in Vga!Cells : i < Vga!At(y, 0) => DrawFiller(s, e, y).cells[i] = s.cells[i]
         /\ \A col \in 0 .. screencols - 1 :
              DrawFiller(s, e, y).cells[Vga!At(y, 0) + col] = Filler(e, y, col)
  <1> DEFINE b == Vga!At(y, 0)
             t == Vga!kvga_write_char(s, y, 0, Tilde)
             u == DrawFiller(s, e, y)
  <1>1. /\ b \in Nat /\ screencols \in Nat /\ screencols >= 1 /\ Vga!Cells \subseteq Nat
        /\ \A col \in 0 .. screencols - 1 : b + col \in Vga!Cells
        /\ \A col \in Nat : Vga!At(y, col) = b + col
    BY LinePlaces
  <1>2. Tilde \in Shown /\ Vga!Blank \in Shown
    BY Zenon DEF Shown
  <1>3. /\ t \in Screens
        /\ \A i \in Vga!Cells : t.cells[i] = IF i = b THEN Tilde ELSE s.cells[i]
    BY <1>2, WriteCharFacts
  <1> HIDE DEF t
  <1>4. CASE ~(numrows(e) = 0 /\ y = screenrows \div 3)
    <2>1. u = Vga!kvga_clear_to_eol(t, y, 1)
      BY <1>4, Zenon DEF DrawFiller, t
    <2> HIDE DEF u
    <2>2. /\ u \in Screens
          /\ \A i \in Vga!Cells : i < b => u.cells[i] = t.cells[i]
          /\ \A col \in 0 .. screencols - 1 :
               u.cells[b + col] = IF col >= 1 THEN Vga!Blank ELSE t.cells[b + col]
      <3>1. 1 \in Nat
        OBVIOUS
      <3>2. QED
        BY <1>3, <2>1, <3>1, ClearLine, Zenon
    <2> HIDE DEF b
    <2>3. ASSUME NEW i \in Vga!Cells, i < b
          PROVE  u.cells[i] = s.cells[i]
      <3>1. i # b
        BY <1>1, <2>3
      <3>2. u.cells[i] = t.cells[i] /\ t.cells[i] = s.cells[i]
        BY <1>3, <2>2, <2>3, <3>1, Zenon
      <3>3. QED
        BY <3>2
    <2>4. ASSUME NEW col \in 0 .. screencols - 1
          PROVE  u.cells[b + col] = Filler(e, y, col)
      <3>1. Filler(e, y, col) = IF col = 0 THEN Tilde ELSE Vga!Blank
        BY <1>4, Zenon DEF Filler
      <3>2. CASE col = 0
        <4>1. b + col = b /\ b \in Vga!Cells /\ ~(col >= 1)
          BY <1>1, <3>2
        <4>2. t.cells[b] = Tilde
          BY <1>3, <4>1
        <4>3. u.cells[b + col] = t.cells[b + col]
          BY <2>2, <4>1
        <4>4. QED
          BY <3>1, <3>2, <4>1, <4>2, <4>3
      <3>3. CASE col # 0
        <4>1. col >= 1
          BY <3>3
        <4>2. QED
          BY <2>2, <3>1, <3>3, <4>1
      <3>4. QED
        BY <3>2, <3>3
    <2>5. QED
      BY <2>2, <2>3, <2>4 DEF u, b
  <1>5. CASE numrows(e) = 0 /\ y = screenrows \div 3
    <2> DEFINE f == [i \in Vga!Cells |-> IF i \in Vga!At(y, 1) .. Vga!At(y, Pad) - 1
                                         THEN Vga!Blank ELSE t.cells[i]]
               t1 == [t EXCEPT !.cells = f]
               t2 == Vga!kvga_set_cursor(t1, y, Pad)
               t3 == Vga!kprintf(t2, Welcome)
    <2>1. u = Vga!kvga_clear_to_eol(t3, y, Pad + least(Len(Welcome), screencols))
      BY <1>5, Zenon DEF DrawFiller, t, Pad
    <2>2. /\ least(Len(Welcome), screencols) = 1 /\ Welcome[1] = "welcome" /\ Welcome \in Seq(Shown)
          /\ Len(Welcome) = 1 /\ "welcome" # NL
          /\ Pad \in Nat /\ Pad \in 0 .. screencols - 1
      BY WelcomeFacts
    <2>3. \A i \in Vga!Cells : t.cells[i] \in Shown
      BY <1>3 DEF Screens
    <2>4. f \in [Vga!Cells -> Shown]
      BY <1>2, <2>3
    <2>5. \A i \in Vga!Cells : f[i] = IF i \in b + 1 .. b + Pad - 1 THEN Vga!Blank ELSE t.cells[i]
      <3>1. Vga!At(y, 1) = b + 1 /\ Vga!At(y, Pad) = b + Pad
        BY <1>1, <2>2
      <3>2. \A i \in Vga!Cells : f[i] = IF i \in Vga!At(y, 1) .. Vga!At(y, Pad) - 1
                                        THEN Vga!Blank ELSE t.cells[i]
        OBVIOUS
      <3> HIDE DEF b, f
      <3>3. Vga!At(y, 1) .. Vga!At(y, Pad) - 1 = b + 1 .. b + Pad - 1
        <4>1. b \in Nat /\ Pad \in Nat
          BY <1>1, <2>2
        <4>2. QED
          BY <3>1, <4>1
      <3>4. QED
        BY <3>2, <3>3, Zenon
    <2> HIDE DEF f
    <2>6. t1 \in Screens /\ t1.cells = f
      BY <1>3, <2>4, PaintFacts
    <2> HIDE DEF t1
    <2>7. t2 \in Screens /\ t2.loc = b + Pad /\ t2.cells = f
      <3>1. t2 \in Screens /\ t2.loc = Vga!At(y, Pad) /\ t2.cells = t1.cells
        <4>1. y \in Nat
          BY EditorAssumption
        <4>2. QED
          BY <2>2, <2>6, <4>1, SetCursorFacts
      <3>2. QED
        BY <1>1, <2>2, <2>6, <3>1
    <2> HIDE DEF t2
    <2>8. /\ t3 \in Screens
          /\ \A i \in Vga!Cells : i < b + Pad => t3.cells[i] = f[i]
          /\ t3.cells[b + Pad] = "welcome"
      <3>1. /\ t3 \in Screens
            /\ \A i \in Vga!Cells : i < t2.loc => t3.cells[i] = t2.cells[i]
            /\ (\A k \in 1 .. Len(Welcome) : Welcome[k] # NL) =>
                 \A k \in 1 .. Len(Welcome) : t2.loc + k - 1 \in Vga!Cells =>
                   t3.cells[t2.loc + k - 1] = Welcome[k]
        BY <2>2, <2>7, KprintfFacts, Zenon
      <3> HIDE DEF t3, b
      <3>2. \A k \in 1 .. Len(Welcome) : Welcome[k] # NL
        BY <2>2
      <3>3. 1 \in 1 .. Len(Welcome) /\ t2.loc + 1 - 1 = b + Pad /\ b + Pad \in Vga!Cells
        <4>1. b + Pad \in Vga!Cells
          BY <1>1, <2>2, Zenon
        <4>2. 1 \in 1 .. Len(Welcome)
          BY <2>2
        <4>3. b + Pad + 1 - 1 = b + Pad
          <5>1. b \in Nat /\ Pad \in Nat
            BY <1>1, <2>2
          <5>2. QED
            BY <5>1
        <4>4. t2.loc = b + Pad
          BY <2>7
        <4>5. QED
          BY <4>1, <4>2, <4>3, <4>4, Zenon
      <3>4. t3.cells[b + Pad] = "welcome"
        BY <2>2, <3>1, <3>2, <3>3
      <3>5. QED
        BY <2>7, <3>1, <3>4, Zenon
    <2> HIDE DEF t3, u
    <2>9. /\ u \in Screens
          /\ \A i \in Vga!Cells : i < b => u.cells[i] = t3.cells[i]
          /\ \A col \in 0 .. screencols - 1 :
               u.cells[b + col] = IF col >= Pad + 1 THEN Vga!Blank ELSE t3.cells[b + col]
      <3>1. u = Vga!kvga_clear_to_eol(t3, y, Pad + 1) /\ Pad + 1 \in Nat
        BY <2>1, <2>2
      <3>2. QED
        BY <2>8, <3>1, ClearLine, Zenon
    <2> HIDE DEF b
    <2>10. \A i \in Vga!Cells : i < b => u.cells[i] = s.cells[i]
      <3> SUFFICES ASSUME NEW i \in Vga!Cells, i < b
                   PROVE  u.cells[i] = s.cells[i]
        OBVIOUS
      <3>1. i \in Nat /\ i < b + Pad /\ i \notin b + 1 .. b + Pad - 1 /\ i # b
        BY <1>1, <2>2
      <3>2. QED
        BY <1>3, <2>5, <2>8, <2>9, <3>1
    <2>11. ASSUME NEW col \in 0 .. screencols - 1
           PROVE  u.cells[b + col] = Filler(e, y, col)
      <3> DEFINE i == b + col
      <3>1. Filler(e, y, col) = IF col = Pad THEN "welcome" ELSE IF col = 0 THEN Tilde ELSE Vga!Blank
        BY <1>5, Zenon DEF Filler
      <3>2. i \in Vga!Cells /\ i \in Nat /\ u.cells[i] = IF col >= Pad + 1 THEN Vga!Blank ELSE t3.cells[i]
        BY <1>1, <2>9
      <3>3. CASE col = Pad
        <4>1. ~(col >= Pad + 1) /\ i = b + Pad
          BY <2>2, <3>3
        <4>2. QED
          BY <2>8, <3>1, <3>2, <3>3, <4>1
      <3>4. CASE col >= Pad + 1
        <4>1. col # Pad /\ col # 0
          BY <2>2, <3>4
        <4>2. QED
          BY <3>1, <3>2, <3>4, <4>1
      <3>5. CASE col < Pad
        <4>1. ~(col >= Pad + 1) /\ col # Pad /\ i < b + Pad
          BY <1>1, <2>2, <3>5
        <4>2. u.cells[i] = f[i]
          BY <2>8, <3>2, <4>1
        <4>3. CASE col = 0
          <5>1. i = b /\ i \notin b + 1 .. b + Pad - 1
            BY <1>1, <4>3
          <5>2. f[i] = Tilde
            BY <1>3, <2>5, <3>2, <5>1
          <5>3. QED
            BY <3>1, <4>1, <4>2, <4>3, <5>2
        <4>4. CASE col # 0
          <5>1. i \in b + 1 .. b + Pad - 1
            BY <1>1, <2>2, <3>5, <4>4
          <5>2. f[i] = Vga!Blank
            BY <2>5, <3>2, <5>1
          <5>3. QED
            BY <3>1, <4>1, <4>2, <4>4, <5>2
        <4>5. QED
          BY <4>3, <4>4
      <3>6. QED
        BY <2>2, <3>3, <3>4, <3>5
    <2>12. QED
      BY <2>9, <2>10, <2>11 DEF u, b
  <1>6. QED
    BY <1>4, <1>5

\* The text with its characters replaced by their places.
LEMMA PlacesFacts ==
  ASSUME NEW e \in Editors
  PROVE  /\ Places(e).rowoff = e.rowoff /\ Places(e).coloff = e.coloff /\ Places(e).mode = e.mode
         /\ Places(e).cx = e.cx /\ Places(e).cy = e.cy
         /\ numrows(Places(e)) = Len(e.rows)
         /\ \A i \in 1 .. Len(e.rows) :
              /\ Places(e).rows[i] \in Seq(Nat \X Nat) /\ Len(Places(e).rows[i]) = Len(e.rows[i])
              /\ DOMAIN e.rows[i] = 1 .. Len(e.rows[i]) /\ Len(e.rows[i]) \in Nat
              /\ \A j \in 1 .. Len(e.rows[i]) : Places(e).rows[i][j] = <<i, j>>
  <1> DEFINE R == [i \in DOMAIN e.rows |-> [j \in DOMAIN e.rows[i] |-> <<i, j>>]]
             p == Places(e)
  <1>1. p = [e EXCEPT !.rows = R]
    BY DEF Places
  <1>2. /\ Len(e.rows) \in Nat /\ DOMAIN e.rows = 1 .. Len(e.rows)
        /\ \A i \in 1 .. Len(e.rows) : e.rows[i] \in RowSet /\ Len(e.rows[i]) \in Nat
    BY Fields
  <1>3. DOMAIN R = 1 .. Len(e.rows) /\ \A i \in 1 .. Len(e.rows) : R[i] = [j \in DOMAIN e.rows[i] |-> <<i, j>>]
    BY <1>2
  <1>4. Len(R) = Len(e.rows)
    BY <1>2, <1>3
  <1> HIDE DEF R, p
  <1>5. p.rows = R /\ p.rowoff = e.rowoff /\ p.coloff = e.coloff /\ p.mode = e.mode /\ p.cx = e.cx /\ p.cy = e.cy
    BY <1>1 DEF Editors
  <1>6. ASSUME NEW i \in 1 .. Len(e.rows)
        PROVE  /\ R[i] \in Seq(Nat \X Nat) /\ Len(R[i]) = Len(e.rows[i])
               /\ DOMAIN e.rows[i] = 1 .. Len(e.rows[i]) /\ Len(e.rows[i]) \in Nat
               /\ \A j \in 1 .. Len(e.rows[i]) : R[i][j] = <<i, j>>
    <2> DEFINE n == Len(e.rows[i])
               q == [j \in 1 .. n |-> <<i, j>>]
    <2>1. DOMAIN e.rows[i] = 1 .. n /\ n \in Nat
      BY <1>2 DEF RowSet
    <2>2. R[i] = q
      BY <1>3, <2>1
    <2> HIDE DEF n
    <2>3. \A j \in 1 .. n : <<i, j>> \in Nat \X Nat
      BY <1>2, <2>1
    <2>4. q \in Seq(Nat \X Nat) /\ Len(q) = n
      BY <2>1, <2>3
    <2>5. \A j \in 1 .. n : q[j] = <<i, j>>
      OBVIOUS
    <2> HIDE DEF q
    <2>6. QED
      BY <2>1, <2>2, <2>4, <2>5 DEF n
  <1>7. numrows(p) = Len(e.rows)
    BY <1>4, <1>5 DEF numrows
  <1>8. QED
    BY <1>5, <1>6, <1>7 DEF p

\* A line is drawn: it shows what belongs there, the lines above stay.
LEMMA DrawLineFacts ==
  ASSUME NEW s \in Screens, NEW e \in Editors, NEW y \in 0 .. screenrows - 1, NEW junk \in Seq(Shown)
  PROVE  /\ DrawLine(s, Places(e), y, junk) \in Screens
         /\ \A i \in Vga!Cells : i < Vga!At(y, 0) => DrawLine(s, Places(e), y, junk).cells[i] = s.cells[i]
         /\ \A col \in 0 .. screencols - 1 :
              DrawLine(s, Places(e), y, junk).cells[Vga!At(y, 0) + col] = Expected(e, y, col)
  <1> DEFINE p == Places(e)
             u == DrawLine(s, p, y, junk)
             t == Vga!kvga_set_cursor(s, y, 0)
             b == Vga!At(y, 0)
             f == e.rowoff + y + 1
  <1>1. /\ p.rowoff = e.rowoff /\ p.coloff = e.coloff /\ numrows(p) = Len(e.rows)
        /\ \A i \in 1 .. Len(e.rows) :
             /\ p.rows[i] \in Seq(Nat \X Nat) /\ Len(p.rows[i]) = Len(e.rows[i])
             /\ DOMAIN e.rows[i] = 1 .. Len(e.rows[i]) /\ Len(e.rows[i]) \in Nat
             /\ \A j \in 1 .. Len(e.rows[i]) : p.rows[i][j] = <<i, j>>
    BY PlacesFacts
  <1>2. /\ e.rowoff \in Nat /\ e.coloff \in Nat /\ Len(e.rows) \in Nat /\ DOMAIN e.rows = 1 .. Len(e.rows)
    BY Fields
  <1>3. y \in Nat /\ y \in 0 .. screenrows + 1 /\ 0 \in Nat
    BY EditorAssumption
  <1>4. t \in Screens /\ t.loc = b /\ t.cells = s.cells
    BY <1>3, SetCursorFacts
  <1> HIDE DEF p, t
  <1>5. CASE y + e.rowoff >= Len(e.rows)
    <2>1. u = DrawFiller(t, p, y)
      BY <1>1, <1>5, Zenon DEF DrawLine, t
    <2> HIDE DEF u
    <2>2. /\ u \in Screens
          /\ \A i \in Vga!Cells : i < b => u.cells[i] = t.cells[i]
          /\ \A col \in 0 .. screencols - 1 : u.cells[b + col] = Filler(p, y, col)
      BY <1>3, <1>4, <2>1, DrawFillerFacts, Zenon
    <2>3. f \notin DOMAIN e.rows
      BY <1>2, <1>3, <1>5
    <2>4. ASSUME NEW col \in 0 .. screencols - 1
          PROVE  Expected(e, y, col) = Filler(p, y, col)
      <3>1. Welcome[1] = "welcome"
        BY WelcomeFacts
      <3>2. numrows(p) = numrows(e)
        BY <1>1 DEF numrows
      <3>3. QED
        BY <2>3, <3>1, <3>2, Zenon DEF Expected, Filler, Pad
    <2>5. QED
      BY <1>4, <2>2, <2>4 DEF u, b, p
  <1>6. CASE ~(y + e.rowoff >= Len(e.rows))
    <2>1. u = DrawRow(t, p.rows[y + e.rowoff + 1], y, e.coloff, junk)
      BY <1>1, <1>6, Zenon DEF DrawLine, t
    <2>2. y + e.rowoff + 1 = f /\ f \in 1 .. Len(e.rows)
      BY <1>2, <1>3, <1>6
    <2> DEFINE r == p.rows[f]
    <2>3. /\ r \in Seq(Nat \X Nat) /\ Len(r) = Len(e.rows[f])
          /\ DOMAIN e.rows[f] = 1 .. Len(e.rows[f]) /\ Len(e.rows[f]) \in Nat
          /\ \A j \in 1 .. Len(e.rows[f]) : r[j] = <<f, j>>
      BY <1>1, <2>2
    <2>4. u = DrawRow(t, r, y, e.coloff, junk)
      BY <2>1, <2>2
    <2> HIDE DEF u, r
    <2>5. /\ u \in Screens
          /\ \A i \in Vga!Cells : i < b => u.cells[i] = t.cells[i]
          /\ \A col \in 0 .. screencols - 1 :
               u.cells[b + col] = IF e.coloff + col + 1 <= Len(r) THEN r[e.coloff + col + 1] ELSE Vga!Blank
      <3>1. /\ t \in Screens /\ t.loc = Vga!At(y, 0) /\ r \in Seq(Nat \X Nat) /\ e.coloff \in Nat
            /\ junk \in Seq(Shown) /\ y \in 0 .. screenrows + 1
        BY <1>2, <1>3, <1>4, <2>3
      <3> DEFINE w == e.coloff
      <3> HIDE DEF w
      <3>2. w \in Nat /\ u = DrawRow(t, r, y, w, junk)
        BY <2>4, <3>1 DEF w
      <3>3. /\ u \in Screens
            /\ \A i \in Vga!Cells : i < Vga!At(y, 0) => u.cells[i] = t.cells[i]
            /\ \A col \in 0 .. screencols - 1 :
                 u.cells[Vga!At(y, 0) + col] = IF w + col + 1 <= Len(r) THEN r[w + col + 1] ELSE Vga!Blank
        <4> DEFINE v == DrawRow(t, r, y, w, junk)
        <4>1. /\ v \in Screens
              /\ \A i \in Vga!Cells : i < Vga!At(y, 0) => v.cells[i] = t.cells[i]
              /\ \A col \in 0 .. screencols - 1 :
                   v.cells[Vga!At(y, 0) + col] = IF w + col + 1 <= Len(r) THEN r[w + col + 1] ELSE Vga!Blank
          BY <3>1, <3>2, DrawRowFacts
        <4>2. u = v
          BY <3>2
        <4> HIDE DEF v
        <4>3. QED
          BY <4>1, <4>2, Zenon
      <3>4. QED
        BY <3>3, Zenon DEF w
    <2>6. ASSUME NEW col \in 0 .. screencols - 1
          PROVE  u.cells[b + col] = Expected(e, y, col)
      <3> DEFINE j == e.coloff + col + 1
      <3>1. Expected(e, y, col) = IF j \in 1 .. Len(r) THEN <<f, j>> ELSE Vga!Blank
        <4>1. f \in DOMAIN e.rows /\ DOMAIN e.rows[f] = 1 .. Len(r)
          BY <1>2, <2>2, <2>3
        <4>2. QED
          BY <4>1, Zenon DEF Expected
      <3>2. j \in 1 .. Len(r) <=> j <= Len(r)
        <4>1. e.coloff \in Nat /\ Len(r) \in Nat /\ col \in Nat
          BY <1>2, <2>3
        <4>2. j \in Nat /\ j >= 1
          BY <4>1
        <4> HIDE DEF j
        <4>3. QED
          BY <4>1, <4>2
      <3>3. j \in 1 .. Len(r) => r[j] = <<f, j>>
        BY <2>3, Zenon
      <3>4. u.cells[b + col] = IF j <= Len(r) THEN r[j] ELSE Vga!Blank
        BY <2>5
      <3> HIDE DEF j
      <3>5. CASE j <= Len(r)
        BY <3>1, <3>2, <3>3, <3>4, <3>5
      <3>6. CASE ~(j <= Len(r))
        BY <3>1, <3>2, <3>4, <3>6
      <3>7. QED
        BY <3>5, <3>6
    <2>7. QED
      BY <1>4, <2>5, <2>6 DEF u, b, p
  <1>7. QED
    BY <1>5, <1>6

\* After the last line the whole text area shows what belongs there: the rest of
\* a long row, or of the memory behind a short one, is painted over.
LEMMA DrawRowsFacts ==
  ASSUME NEW s \in Screens, NEW e \in Editors, NEW junk \in Seq(Shown)
  PROVE  /\ editorDrawRows(s, Places(e), junk) \in Screens
         /\ \A y \in 0 .. screenrows - 1, col \in 0 .. screencols - 1 :
              editorDrawRows(s, Places(e), junk).cells[Vga!At(y, 0) + col] = Expected(e, y, col)
  <1> DEFINE p == Places(e)
             n == screenrows
  <1>1. PICK h : /\ h[0] = s /\ editorDrawRows(s, p, junk) = h[n]
                 /\ \A i \in 1 .. n : h[i] = DrawLine(h[i - 1], p, i - 1, junk)
    BY DrawRowsSteps
  <1> DEFINE Good(i) ==
               /\ h[i] \in Screens
               /\ \A y \in 0 .. i - 1, col \in 0 .. screencols - 1 :
                    h[i].cells[Vga!At(y, 0) + col] = Expected(e, y, col)
  <1>2. n \in Nat
    BY EditorAssumption
  <1>3. Good(0)
    BY <1>1
  <1>4. ASSUME NEW i \in 1 .. n, Good(i - 1)
        PROVE  Good(i)
    <2> DEFINE z == i - 1
               t == h[z]
               u == h[i]
    <2>1. z \in 0 .. screenrows - 1 /\ z \in Nat /\ i - 1 = z
      BY <1>2
    <2>2. /\ t \in Screens
          /\ \A y \in 0 .. z - 1, col \in 0 .. screencols - 1 :
               t.cells[Vga!At(y, 0) + col] = Expected(e, y, col)
      BY <1>4
    <2>3. u = DrawLine(t, p, z, junk)
      BY <1>1
    <2> HIDE DEF t, u, z
    <2>4. /\ u \in Screens
          /\ \A j \in Vga!Cells : j < Vga!At(z, 0) => u.cells[j] = t.cells[j]
          /\ \A col \in 0 .. screencols - 1 : u.cells[Vga!At(z, 0) + col] = Expected(e, z, col)
      BY <2>1, <2>2, <2>3, DrawLineFacts
    <2>5. ASSUME NEW y \in 0 .. i - 1, NEW col \in 0 .. screencols - 1
          PROVE  u.cells[Vga!At(y, 0) + col] = Expected(e, y, col)
      <3>1. CASE y = z
        BY <2>4, <3>1
      <3>2. CASE y # z
        <4>1. y \in 0 .. z - 1 /\ y \in Nat /\ y < z /\ y \in 0 .. screenrows + 1
          BY <1>2, <2>1, <3>2
        <4> DEFINE j == Vga!At(y, 0) + col
        <4>2. Vga!At(y, 0) \in Nat /\ Vga!At(z, 0) \in Nat /\ screencols \in Nat
          BY <2>1, <4>1, AtFacts, EditorAssumption
        <4>3. Vga!At(y, 0) + screencols <= Vga!At(z, 0)
          BY <2>1, <4>1, AtOrder
        <4>4. j < Vga!At(z, 0)
          BY <4>2, <4>3
        <4>5. j \in Vga!Cells
          BY <4>1, LinePlaces
        <4>6. t.cells[j] = Expected(e, y, col)
          BY <2>2, <4>1
        <4> HIDE DEF j
        <4>7. u.cells[j] = t.cells[j]
          BY <2>4, <4>4, <4>5
        <4>8. QED
          BY <4>6, <4>7 DEF j
      <3>3. QED
        BY <3>1, <3>2
    <2>6. QED
      BY <2>4, <2>5 DEF u
  <1>5. \A i \in 0 .. n : Good(i)
    <2> HIDE DEF Good
    <2> DEFINE Bad == {i \in 0 .. n : ~Good(i)}
    <2> SUFFICES ASSUME Bad # {}
                 PROVE  FALSE
      OBVIOUS
    <2>1. PICK i \in Bad : \A k \in Bad : i <= k
      <3>1. Bad \subseteq 0 .. n
        OBVIOUS
      <3> HIDE DEF Bad
      <3>2. Bad \subseteq Nat
        BY <1>2, <3>1
      <3>3. QED
        BY <3>2, LeastNat
    <2>2. i \in 0 .. n /\ ~Good(i)
      OBVIOUS
    <2>3. i # 0
      BY <1>3, <2>2
    <2>4. i \in 1 .. n /\ i - 1 \in 0 .. n /\ ~(i <= i - 1)
      BY <1>2, <2>2, <2>3
    <2>5. i - 1 \notin Bad
      BY <2>1, <2>4
    <2>6. Good(i - 1)
      BY <2>4, <2>5
    <2>7. QED
      BY <1>4, <2>2, <2>4, <2>6
  <1>6. n \in 0 .. n
    BY <1>2
  <1>7. Good(n)
    BY <1>5, <1>6
  <1>8. QED
    BY <1>1, <1>7

\* A command line, with its ':', fits its line and holds no '\n'.
LEMMA CommandLineFacts ==
  ASSUME NEW cmdbuf \in CommandLines
  PROVE  /\ Len(cmdbuf) \in Nat /\ Len(cmdbuf) + 1 < screencols
         /\ <<":">> \o cmdbuf \in Seq(Shown) /\ Len(<<":">> \o cmdbuf) = Len(cmdbuf) + 1
         /\ \A k \in 1 .. Len(cmdbuf) + 1 : (<<":">> \o cmdbuf)[k] # NL
  <1>1. PICK n \in 0 .. screencols - 2 : cmdbuf = [i \in 1 .. n |-> "k"]
    BY DEF CommandLines
  <1> DEFINE T == {":", "k"}
             a == <<":">>
             l == a \o cmdbuf
  <1>2. n \in Nat /\ n + 1 < screencols
    BY EditorAssumption
  <1>3. cmdbuf \in Seq(T) /\ Len(cmdbuf) = n
    BY <1>1, <1>2
  <1>4. a \in Seq(T) /\ Len(a) = 1
    OBVIOUS
  <1> HIDE DEF T, a
  <1>5. l \in Seq(T) /\ Len(l) = Len(a) + Len(cmdbuf)
    BY <1>3, <1>4, ConcatProperties, Zenon
  <1> HIDE DEF l
  <1>6. Len(l) = n + 1
    BY <1>2, <1>3, <1>4, <1>5
  <1>7. \A k \in 1 .. Len(l) : l[k] \in T
    BY <1>5
  <1>8. \A c \in T : c \in Shown /\ c # NL
    BY ScreenAssumption, Zenon DEF T, Shown
  <1>9. l \in Seq(Shown)
    BY <1>5, <1>7, <1>8, SeqOfPlaces
  <1>10. \A k \in 1 .. n + 1 : l[k] # NL
    BY <1>6, <1>7, <1>8
  <1>11. QED
    BY <1>2, <1>3, <1>6, <1>9, <1>10 DEF l, a

\* The bars are drawn below the text area and leave it alone.
LEMMA StatusBarFacts ==
  ASSUME NEW s \in Screens, NEW e, e.mode \in Modes, NEW cmdbuf \in CommandLines
  PROVE  LET u == editorDrawStatusBar(s, e, cmdbuf)
             cmdline == IF e.mode = "command" THEN <<":">> \o cmdbuf ELSE << >>
         IN  /\ u \in Screens
             /\ \A i \in Vga!Cells : i < Vga!At(screenrows, 0) => u.cells[i] = s.cells[i]
             /\ u.cells[Vga!At(screenrows, 0)] = e.mode
             /\ \A col \in 0 .. screencols - 1 :
                  u.cells[Vga!At(screenrows + 1, 0) + col] =
                    IF col < Len(cmdline) THEN cmdline[col + 1] ELSE Vga!Blank
  <1> DEFINE a == Vga!At(screenrows, 0)
             b == Vga!At(screenrows + 1, 0)
             z == screenrows + 1
             f == [i \in Vga!Cells |->
                     IF i = Vga!At(screenrows, 0) THEN e.mode
                     ELSE IF i \in Vga!At(screenrows, 1) .. Vga!At(screenrows + 1, 0) - 1 THEN Vga!Blank
                     ELSE s.cells[i]]
             bar == [s EXCEPT !.cells = f]
             t == Vga!kvga_set_cursor(bar, z, 0)
             u == editorDrawStatusBar(s, e, cmdbuf)
             l == <<":">> \o cmdbuf
             cmdline == IF e.mode = "command" THEN <<":">> \o cmdbuf ELSE << >>
  <1>1. /\ screenrows \in Nat /\ screenrows \in 0 .. screenrows + 1 /\ z \in Nat /\ z \in 0 .. screenrows + 1
        /\ screencols \in Nat /\ screencols >= 1 /\ 0 \in Nat /\ 0 \in 0 .. screencols - 1
    BY EditorAssumption
  <1>2. /\ a \in Nat /\ b \in Nat /\ b = a + screencols /\ Vga!At(screenrows, 1) = a + 1
        /\ Vga!Cells \subseteq Nat /\ a + 0 \in Vga!Cells
        /\ \A col \in 0 .. screencols - 1 : b + col \in Vga!Cells
    <2>1. /\ a \in Nat /\ b = a + screencols /\ Vga!Cells \subseteq Nat
          /\ (\A col \in 0 .. screencols - 1 : a + col \in Vga!Cells)
          /\ \A col \in Nat : Vga!At(screenrows, col) = a + col
      BY <1>1, LinePlaces
    <2>2. b \in Nat /\ \A col \in 0 .. screencols - 1 : b + col \in Vga!Cells
      BY <1>1, LinePlaces
    <2> HIDE DEF a, b
    <2>3. QED
      BY <1>1, <2>1, <2>2
  <1>3. \A i \in Vga!Cells : s.cells[i] \in Shown
    BY DEF Screens
  <1>4. e.mode \in Shown /\ Vga!Blank \in Shown
    <2>1. \A m \in Modes : m \in Shown
      BY Zenon DEF Modes, Shown
    <2>2. QED
      BY <2>1, Zenon DEF Shown
  <1>5. f \in [Vga!Cells -> Shown]
    BY <1>3, <1>4
  <1>6. (\A i \in Vga!Cells : i < a => f[i] = s.cells[i]) /\ f[a] = e.mode
    <2>1. a \in Vga!Cells
      BY <1>2
    <2>2. f[a] = e.mode
      BY <2>1
    <2>3. ASSUME NEW i \in Vga!Cells, i < a
          PROVE  f[i] = s.cells[i]
      <3>1. i # a /\ i \notin Vga!At(screenrows, 1) .. b - 1
        BY <1>1, <1>2, <2>3
      <3>2. QED
        BY <3>1
    <2>4. QED
      BY <2>2, <2>3
  <1> HIDE DEF f
  <1>7. bar \in Screens /\ bar.cells = f
    BY <1>5, PaintFacts
  <1> HIDE DEF bar
  <1>8. t \in Screens /\ t.loc = b /\ t.cells = f
    BY <1>1, <1>7, SetCursorFacts
  <1>9. u = IF e.mode = "command"
            THEN Vga!kvga_clear_to_eol(Vga!kprintf(t, l), z, Len(cmdbuf) + 1)
            ELSE Vga!kvga_clear_to_eol(t, z, 0)
    BY Zenon DEF editorDrawStatusBar, t, bar, f
  <1> HIDE DEF t, u
  <1>10. ASSUME NEW w \in Screens, NEW n \in Nat, u = Vga!kvga_clear_to_eol(w, z, n),
                \A i \in Vga!Cells : i < b => w.cells[i] = f[i]
         PROVE  /\ u \in Screens
                /\ \A i \in Vga!Cells : i < a => u.cells[i] = s.cells[i]
                /\ u.cells[a] = e.mode
                /\ \A col \in 0 .. screencols - 1 :
                     u.cells[b + col] = IF col >= n THEN Vga!Blank ELSE w.cells[b + col]
    <2> DEFINE v == Vga!kvga_clear_to_eol(w, screenrows + 1, n)
    <2>0. /\ v \in Screens
          /\ \A i \in Vga!Cells : i < Vga!At(screenrows + 1, 0) => v.cells[i] = w.cells[i]
          /\ \A col \in 0 .. screencols - 1 :
               v.cells[Vga!At(screenrows + 1, 0) + col] =
                 IF col >= n THEN Vga!Blank ELSE w.cells[Vga!At(screenrows + 1, 0) + col]
      BY <1>1, <1>10, ClearLine
    <2>00. u = v
      BY <1>10
    <2> HIDE DEF v
    <2>1. /\ u \in Screens
          /\ \A i \in Vga!Cells : i < b => u.cells[i] = w.cells[i]
          /\ \A col \in 0 .. screencols - 1 :
               u.cells[b + col] = IF col >= n THEN Vga!Blank ELSE w.cells[b + col]
      BY <2>0, <2>00, Zenon DEF b
    <2> HIDE DEF a, b
    <2>2. a \in Vga!Cells /\ a < b
      BY <1>1, <1>2
    <2>3. \A i \in Vga!Cells : i < b => u.cells[i] = f[i]
      BY <1>10, <2>1, Zenon
    <2>4. u.cells[a] = e.mode
      BY <1>6, <2>2, <2>3
    <2>5. ASSUME NEW i \in Vga!Cells, i < a
          PROVE  u.cells[i] = s.cells[i]
      <3>1. i < b
        BY <1>1, <1>2, <2>5
      <3>2. QED
        BY <1>6, <2>3, <2>5, <3>1
    <2>6. QED
      BY <2>1, <2>4, <2>5
  <1> DEFINE Bars == /\ u \in Screens
                     /\ \A i \in Vga!Cells : i < a => u.cells[i] = s.cells[i]
                     /\ u.cells[a] = e.mode
                     /\ \A col \in 0 .. screencols - 1 :
                          u.cells[b + col] = IF col < Len(cmdline) THEN cmdline[col + 1] ELSE Vga!Blank
  <1>11. ASSUME e.mode # "command"
         PROVE  Bars
    <2>1. u = Vga!kvga_clear_to_eol(t, z, 0) /\ \A i \in Vga!Cells : i < b => t.cells[i] = f[i]
      BY <1>8, <1>9, <1>11
    <2>2. /\ u \in Screens
          /\ \A i \in Vga!Cells : i < a => u.cells[i] = s.cells[i]
          /\ u.cells[a] = e.mode
          /\ \A col \in 0 .. screencols - 1 :
               u.cells[b + col] = IF col >= 0 THEN Vga!Blank ELSE t.cells[b + col]
      BY <1>1, <1>8, <1>10, <2>1
    <2> HIDE DEF a, b
    <2>3. Len(cmdline) = 0
      BY <1>11
    <2>4. \A col \in 0 .. screencols - 1 : col >= 0 /\ ~(col < Len(cmdline))
      BY <1>1, <2>3
    <2> HIDE DEF cmdline
    <2>5. \A col \in 0 .. screencols - 1 :
            u.cells[b + col] = IF col < Len(cmdline) THEN cmdline[col + 1] ELSE Vga!Blank
      BY <2>2, <2>4
    <2>6. QED
      BY <2>2, <2>5, Zenon
  <1>12. ASSUME e.mode = "command"
         PROVE  Bars
    <2> DEFINE w == Vga!kprintf(t, l)
               n == Len(cmdbuf) + 1
    <2>1. /\ n \in Nat /\ n < screencols /\ l \in Seq(Shown) /\ Len(l) = n
          /\ \A k \in 1 .. n : l[k] # NL
      BY CommandLineFacts
    <2>2. u = Vga!kvga_clear_to_eol(w, z, n)
      BY <1>9, <1>12
    <2> HIDE DEF l, n
    <2>3. /\ w \in Screens
          /\ \A i \in Vga!Cells : i < t.loc => w.cells[i] = t.cells[i]
          /\ (\A k \in 1 .. Len(l) : l[k] # NL) =>
               \A k \in 1 .. Len(l) : t.loc + k - 1 \in Vga!Cells => w.cells[t.loc + k - 1] = l[k]
      BY <1>8, <2>1, KprintfFacts, Zenon
    <2> HIDE DEF w
    <2>4. /\ \A i \in Vga!Cells : i < b => w.cells[i] = f[i]
          /\ \A k \in 1 .. n : b + k - 1 \in Vga!Cells => w.cells[b + k - 1] = l[k]
      <3> HIDE DEF b
      <3>1. QED
        BY <1>8, <2>1, <2>3, Zenon
    <2>5. /\ u \in Screens
          /\ \A i \in Vga!Cells : i < a => u.cells[i] = s.cells[i]
          /\ u.cells[a] = e.mode
          /\ \A col \in 0 .. screencols - 1 :
               u.cells[b + col] = IF col >= n THEN Vga!Blank ELSE w.cells[b + col]
      BY <1>10, <2>1, <2>2, <2>3, <2>4
    <2> HIDE DEF a, b
    <2>6. cmdline = l /\ Len(cmdline) = n
      BY <1>12, <2>1 DEF l
    <2> HIDE DEF cmdline
    <2>7. ASSUME NEW col \in 0 .. screencols - 1
          PROVE  u.cells[b + col] = IF col < Len(cmdline) THEN cmdline[col + 1] ELSE Vga!Blank
      <3>1. CASE col >= n
        <4>1. ~(col < n)
          BY <1>1, <2>1, <3>1
        <4>2. QED
          BY <2>5, <2>6, <3>1, <4>1
      <3>2. CASE ~(col >= n)
        <4> DEFINE k == col + 1
        <4>1. k \in 1 .. n /\ col < n /\ b + k - 1 = b + col
          BY <1>1, <1>2, <2>1, <3>2
        <4>2. b + col \in Vga!Cells
          BY <1>2
        <4> HIDE DEF k
        <4>3. w.cells[b + col] = l[k]
          BY <2>4, <4>1, <4>2
        <4>4. u.cells[b + col] = w.cells[b + col]
          BY <2>5, <3>2
        <4>5. QED
          BY <2>6, <4>1, <4>3, <4>4 DEF k
      <3>3. QED
        BY <3>1, <3>2
    <2>8. QED
      BY <2>5, <2>7, Zenon
  <1>13. Bars
    BY <1>11, <1>12
  <1>14. QED
    BY <1>13, Zenon DEF u

\* The cell of the text area the cursor is parked in shows what belongs there.
LEMMA CursorFacts ==
  ASSUME NEW e \in Editors, InWindow(e), e.cx <= size(e)
  PROVE  LET y == e.cy - e.rowoff
             col == e.cx - e.coloff
         IN  /\ y \in 0 .. screenrows - 1 /\ col \in 0 .. screencols - 1
             /\ e.cx \in 0 .. size(e) - 1 => Expected(e, y, col) = <<e.cy + 1, e.cx + 1>>
             /\ e.cx = size(e) => Expected(e, y, col) \in {Vga!Blank, Tilde, Welcome[1]}
  <1> DEFINE y == e.cy - e.rowoff
             col == e.cx - e.coloff
             i == e.cy + 1
             j == e.cx + 1
             R == e.rows
             pad == (screencols - least(Len(Welcome), screencols)) \div 2
  <1>1. /\ e.cx \in Nat /\ e.cy \in Nat /\ e.rowoff \in Nat /\ e.coloff \in Nat
        /\ screenrows \in Nat /\ screencols \in Nat
    BY Fields, EditorAssumption
  <1>2. /\ y \in 0 .. screenrows - 1 /\ col \in 0 .. screencols - 1
        /\ e.rowoff + y + 1 = i /\ e.coloff + col + 1 = j
    BY <1>1 DEF InWindow
  <1>3. Len(R) \in Nat /\ DOMAIN R = 1 .. Len(R)
    BY Fields DEF Texts
  <1>4. \A k \in 1 .. Len(R) : DOMAIN R[k] = 1 .. Len(R[k]) /\ Len(R[k]) \in Nat
    BY PlacesFacts
  <1>5. size(e) = IF e.cy < Len(R) THEN Len(R[i]) ELSE 0
    BY Zenon DEF size, OnRow, Row, numrows
  <1>6. e.cy < Len(R) <=> i \in DOMAIN R
    BY <1>1, <1>3
  <1> HIDE DEF y, col
  <1>7. Expected(e, y, col) =
          IF i \in DOMAIN R THEN IF j \in DOMAIN R[i] THEN <<i, j>> ELSE Vga!Blank
          ELSE IF numrows(e) = 0 /\ y = screenrows \div 3 /\ col = pad THEN Welcome[1]
          ELSE IF col = 0 THEN Tilde ELSE Vga!Blank
    BY <1>2, Zenon DEF Expected
  <1>8. CASE i \in DOMAIN R
    <2> DEFINE n == Len(R[i])
    <2>1. size(e) = n /\ n \in Nat /\ DOMAIN R[i] = 1 .. n
      BY <1>3, <1>4, <1>5, <1>6, <1>8
    <2>2. Expected(e, y, col) = IF j \in DOMAIN R[i] THEN <<i, j>> ELSE Vga!Blank
      BY <1>7, <1>8
    <2> HIDE DEF n
    <2>3. (e.cx \in 0 .. size(e) - 1 => j \in DOMAIN R[i]) /\ (e.cx = size(e) => j \notin DOMAIN R[i])
      BY <1>1, <2>1
    <2>4. QED
      BY <1>2, <2>2, <2>3 DEF y, col
  <1>9. CASE i \notin DOMAIN R
    <2>1. e.cx \notin 0 .. size(e) - 1
      BY <1>5, <1>6, <1>9
    <2>2. Expected(e, y, col) \in {Vga!Blank, Tilde, Welcome[1]}
      BY <1>7, <1>9, Zenon
    <2>3. QED
      BY <1>2, <2>1, <2>2 DEF y, col
  <1>10. QED
    BY <1>8, <1>9

\* What ScreenShowsText asks of a screen.
ShowsText(s, e, cmdbuf) ==
  LET cmdline == IF e.mode = "command" THEN <<":">> \o cmdbuf ELSE <<>>
  IN  /\ \A y \in 0 .. screenrows - 1, col \in 0 .. screencols - 1 :
           s.cells[Vga!At(y, col)] = Expected(e, y, col)
      /\ s.cells[Vga!At(screenrows, 0)] = e.mode
      /\ \A col \in 0 .. screencols - 1 :
           s.cells[Vga!At(screenrows + 1, col)] =
             IF col < Len(cmdline) THEN cmdline[col + 1] ELSE Vga!Blank
      /\ e.mode # "command" =>
           /\ s.loc < Vga!At(screenrows, 0)
           /\ e.cx \in 0 .. size(e) - 1 => s.cells[s.loc] = <<e.cy + 1, e.cx + 1>>
           /\ e.cx = size(e) => s.cells[s.loc] \in {Vga!Blank, Tilde, Welcome[1]}

\* A refresh shows the text, whatever was on the screen and behind the rows.
LEMMA RefreshShows ==
  ASSUME NEW s0 \in Screens, NEW e \in Editors, InWindow(e), e.cx <= size(e),
         NEW cmdbuf \in CommandLines, NEW junk \in Seq(Shown)
  PROVE  ShowsText(editorRefreshScreen(s0, Places(e), cmdbuf, junk), e, cmdbuf)
  <1> DEFINE p == Places(e)
             t == editorDrawRows(s0, p, junk)
             u == editorDrawStatusBar(t, p, cmdbuf)
             s == editorRefreshScreen(s0, p, cmdbuf, junk)
             cmdline == IF e.mode = "command" THEN <<":">> \o cmdbuf ELSE << >>
             a == Vga!At(screenrows, 0)
             b == Vga!At(screenrows + 1, 0)
             y0 == e.cy - e.rowoff
             c0 == e.cx - e.coloff
  <1>1. p.rowoff = e.rowoff /\ p.coloff = e.coloff /\ p.mode = e.mode /\ p.cx = e.cx /\ p.cy = e.cy
    BY PlacesFacts
  <1>2. e.mode \in Modes
    BY DEF Editors, Modes
  <1>3. /\ t \in Screens
        /\ \A y \in 0 .. screenrows - 1, col \in 0 .. screencols - 1 :
             t.cells[Vga!At(y, 0) + col] = Expected(e, y, col)
    BY DrawRowsFacts
  <1>4. s = IF e.mode = "command" THEN Vga!kvga_set_cursor(u, screenrows + 1, Len(cmdbuf) + 1)
            ELSE Vga!kvga_set_cursor(u, y0, c0)
    BY <1>1, Zenon DEF editorRefreshScreen
  <1> HIDE DEF s, t, p
  <1>5. /\ u \in Screens
        /\ \A i \in Vga!Cells : i < a => u.cells[i] = t.cells[i]
        /\ u.cells[a] = e.mode
        /\ \A col \in 0 .. screencols - 1 :
             u.cells[b + col] = IF col < Len(cmdline) THEN cmdline[col + 1] ELSE Vga!Blank
    <2> DEFINE line == IF p.mode = "command" THEN <<":">> \o cmdbuf ELSE << >>
    <2>1. p.mode \in Modes
      BY <1>1, <1>2
    <2>2. /\ u \in Screens
          /\ \A i \in Vga!Cells : i < a => u.cells[i] = t.cells[i]
          /\ u.cells[a] = p.mode
          /\ \A col \in 0 .. screencols - 1 :
               u.cells[b + col] = IF col < Len(line) THEN line[col + 1] ELSE Vga!Blank
      BY <1>3, <2>1, StatusBarFacts, Zenon
    <2>3. line = cmdline
      BY <1>1
    <2> HIDE DEF line, cmdline, u, a, b
    <2>4. QED
      BY <1>1, <2>2, <2>3
  <1> HIDE DEF u, cmdline
  <1>6. screenrows \in Nat /\ screencols \in Nat /\ screencols >= 1
    BY EditorAssumption
  <1>7. ASSUME NEW y \in 0 .. screenrows - 1, NEW col \in 0 .. screencols - 1
        PROVE  /\ Vga!At(y, col) < a /\ u.cells[Vga!At(y, col)] = Expected(e, y, col)
    <2> DEFINE q == Vga!At(y, 0)
               r == Vga!At(y, col)
    <2>1. y \in Nat /\ col \in Nat /\ y < screenrows /\ y \in 0 .. screenrows + 1 /\ screenrows \in 0 .. screenrows + 1
      BY <1>6
    <2>2. q \in Nat /\ r = q + col /\ q + col \in Vga!Cells /\ a \in Nat
      BY <2>1, LinePlaces
    <2>3. q + screencols <= a
      BY <1>6, <2>1, AtOrder
    <2>4. t.cells[q + col] = Expected(e, y, col)
      BY <1>3
    <2> HIDE DEF q, r, a
    <2>5. r < a
      BY <1>6, <2>1, <2>2, <2>3
    <2>6. r \in Vga!Cells /\ t.cells[r] = Expected(e, y, col)
      BY <2>2, <2>4, Zenon
    <2>7. u.cells[r] = Expected(e, y, col)
      BY <1>5, <2>5, <2>6
    <2>8. QED
      BY <2>5, <2>7 DEF r
  <1>8. \A col \in 0 .. screencols - 1 :
          u.cells[Vga!At(screenrows + 1, col)] = IF col < Len(cmdline) THEN cmdline[col + 1] ELSE Vga!Blank
    <2> TAKE col \in 0 .. screencols - 1
    <2>1. screenrows + 1 \in 0 .. screenrows + 1 /\ col \in Nat
      BY <1>6
    <2>2. Vga!At(screenrows + 1, col) = b + col
      BY <2>1, LinePlaces
    <2>3. QED
      BY <1>5, <2>2, Zenon
  <1>9. /\ y0 \in 0 .. screenrows - 1 /\ c0 \in 0 .. screencols - 1
        /\ e.cx \in 0 .. size(e) - 1 => Expected(e, y0, c0) = <<e.cy + 1, e.cx + 1>>
        /\ e.cx = size(e) => Expected(e, y0, c0) \in {Vga!Blank, Tilde, Welcome[1]}
    BY CursorFacts
  <1> HIDE DEF y0, c0
  <1>10. y0 \in Nat /\ c0 \in Nat /\ Len(cmdbuf) + 1 \in Nat /\ screenrows + 1 \in Nat
    BY <1>6, <1>9, CommandLineFacts
  <1>11. s.cells = u.cells
    <2>1. /\ Vga!kvga_set_cursor(u, screenrows + 1, Len(cmdbuf) + 1).cells = u.cells
          /\ Vga!kvga_set_cursor(u, y0, c0).cells = u.cells
      BY <1>5, <1>10, SetCursorFacts
    <2>2. QED
      BY <1>4, <2>1
  <1>12. ASSUME e.mode # "command"
         PROVE  /\ s.loc < a
                /\ e.cx \in 0 .. size(e) - 1 => s.cells[s.loc] = <<e.cy + 1, e.cx + 1>>
                /\ e.cx = size(e) => s.cells[s.loc] \in {Vga!Blank, Tilde, Welcome[1]}
    <2>1. s = Vga!kvga_set_cursor(u, y0, c0)
      BY <1>4, <1>12
    <2>2. s.loc = Vga!At(y0, c0)
      BY <1>5, <1>10, <2>1, SetCursorFacts
    <2>3. Vga!At(y0, c0) < a /\ u.cells[Vga!At(y0, c0)] = Expected(e, y0, c0)
      BY <1>7, <1>9
    <2>4. s.loc < a /\ s.cells[s.loc] = Expected(e, y0, c0)
      BY <1>11, <2>2, <2>3, Zenon
    <2>5. QED
      BY <1>9, <2>4, Zenon
  <1>13. ShowsText(s, e, cmdbuf)
    BY <1>5, <1>7, <1>8, <1>11, <1>12, Zenon DEF ShowsText, cmdline
  <1>14. QED
    BY <1>13, Zenon DEF s, p

\* The screen the property starts from is a screen, and what a row is followed by
\* can be shown.
LEMMA StaleFacts ==
  Stale \in Screens /\ \A junk \in Behind : junk \in Seq(Shown)
  <1>1. {"stale", "junk", NL} \subseteq Shown
    BY Zenon DEF Shown
  <1>2. Stale \in Screens
    BY <1>1 DEF Stale, Screens
  <1> DEFINE T == {"junk", NL}
  <1>3. << >> \in Seq(T) /\ <<"junk", NL, "junk">> \in Seq(T)
    OBVIOUS
  <1>4. [i \in 1 .. 3 * screencols |-> "junk"] \in Seq(T)
    <2>1. 3 * screencols \in Nat
      BY EditorAssumption
    <2>2. QED
      BY <2>1
  <1>5. \A r \in Seq(T) : r \in Seq(Shown)
    <2> HIDE DEF T
    <2>1. T \subseteq Shown
      BY <1>1, Zenon DEF T
    <2>2. ASSUME NEW r \in Seq(T)
          PROVE  \A k \in 1 .. Len(r) : r[k] \in Shown
      BY <2>1
    <2>3. QED
      BY <2>2, SeqOfPlaces, Zenon
  <1> HIDE DEF T
  <1>6. QED
    BY <1>2, <1>3, <1>4, <1>5, Zenon DEF Behind

\* While the editor runs, the cursor is in the window.
WindowInv == open => InWindow(E)

\* A text that is opened shows its top, where the cursor is.
LEMMA OpenedInWindow ==
  ASSUME NEW f
  PROVE  InWindow(Opened(f))
  BY EditorAssumption DEF InWindow, Opened

\* Every step keeps the cursor in the window.
LEMMA WindowKept == IInv /\ WindowInv /\ [Next]_vars => WindowInv'
  <1> SUFFICES ASSUME IInv, WindowInv, [Next]_vars, open'
               PROVE  InWindow(E')
    BY DEF WindowInv
  <1>1. E \in Editors
    BY TypeOKParts DEF IInv, TypeParts
  <1>2. ASSUME open, E' = E
        PROVE  InWindow(E')
    BY <1>2 DEF WindowInv
  <1>3. CASE KeyStep
    BY <1>2, <1>3 DEF KeyStep
  <1>4. CASE editorRun
    <2>1. E' = Opened(file)
      BY <1>4 DEF editorRun
    <2>2. QED
      BY <2>1, OpenedInWindow
  <1>5. ASSUME NEW f, Back(f), f.cx = E.cx, f.cy = E.cy, f.rowoff = E.rowoff, f.coloff = E.coloff,
               f \in Editors, open
        PROVE  InWindow(E')
    <2>1. E'.cx = E.cx /\ E'.cy = E.cy /\ E'.rowoff = E.rowoff /\ E'.coloff = E.coloff
      BY <1>5 DEF Back, Editors
    <2>2. InWindow(E)
      BY <1>5 DEF WindowInv
    <2>3. QED
      BY <2>1, <2>2, Zenon DEF InWindow
  <1>6. ASSUME NEW cmd \in {"q", "q!", "w", "wq", "other"}, Execute(cmd)
        PROVE  InWindow(E')
    <2>1. open
      BY <1>6 DEF Execute, In
    <2>2. ~Quit
      BY DEF Quit
    <2>3. Back(E) \/ \E d \in BOOLEAN : Back([E EXCEPT !.dirty = d])
      <3>1. CASE cmd = "w"
        <4>1. PICK created \in BOOLEAN : Back([E EXCEPT !.dirty = @ /\ file = NoFile /\ ~created])
          BY <1>6, <3>1 DEF Execute
        <4> DEFINE d == E.dirty /\ file = NoFile /\ ~created
        <4>2. d \in BOOLEAN /\ [E EXCEPT !.dirty = @ /\ file = NoFile /\ ~created] = [E EXCEPT !.dirty = d]
          OBVIOUS
        <4> HIDE DEF d
        <4>3. QED
          BY <4>1, <4>2
      <3>2. CASE cmd # "w"
        BY <1>6, <2>2, <3>2 DEF Execute
      <3>3. QED
        BY <3>1, <3>2
    <2>4. CASE Back(E)
      BY <1>1, <1>5, <2>1, <2>4
    <2>5. ASSUME NEW d \in BOOLEAN, Back([E EXCEPT !.dirty = d])
          PROVE  InWindow(E')
      <3> DEFINE f == [E EXCEPT !.dirty = d]
      <3>1. f \in Editors /\ f.cx = E.cx /\ f.cy = E.cy /\ f.rowoff = E.rowoff /\ f.coloff = E.coloff
        BY <1>1 DEF Editors
      <3>2. Back(f)
        BY <2>5
      <3> HIDE DEF f
      <3>3. QED
        BY <1>5, <2>1, <3>1, <3>2
    <2>6. QED
      BY <2>3, <2>4, <2>5
  <1>7. CASE UNCHANGED vars
    BY <1>2, <1>7 DEF vars
  <1>8. QED
    BY <1>3, <1>4, <1>6, <1>7, InsertModeStep, NormalModeStep, YankStep DEF Next

\* A refresh now would show the text, over any screen, with any command line and
\* with any memory behind the rows.
RefreshRepaints ==
  open => \A s0 \in Screens, cmdbuf \in CommandLines, junk \in Seq(Shown) :
            ShowsText(editorRefreshScreen(s0, Places(E), cmdbuf, junk), E, cmdbuf)

\* With the cursor in the window it does.
LEMMA WindowShows == IInv /\ WindowInv => RefreshRepaints
  <1>1. IInv /\ WindowInv /\ open => E \in Editors /\ E.cx <= size(E) /\ InWindow(E)
    BY TypeOKParts DEF IInv, TypeParts, CursorInText, WindowInv
  <1>2. QED
    BY <1>1, RefreshShows, Zenon DEF RefreshRepaints

\* The screen, the command lines and the memory of ScreenShowsText are among these.
LEMMA RepaintsShows == RefreshRepaints => ScreenShowsText
  <1> SUFFICES ASSUME RefreshRepaints, open,
                      NEW cmdbuf \in CommandLines, NEW junk \in Behind
               PROVE  ShowsText(editorRefreshScreen(Stale, Places(E), cmdbuf, junk), E, cmdbuf)
    BY Zenon DEF ScreenShowsText, ShowsText
  <1>1. QED
    BY StaleFacts, Zenon DEF RefreshRepaints

-----------------------------------------------------------------------------
(* The theorems.                                                           *)

\* The inductive invariant of the editor: types, the cursor in its row and not
\* past the text unless something was yanked, a clean text that lost no row.
THEOREM EditorInvariant == Spec => []IInv
  <1>1. Init => IInv
    <2> SUFFICES ASSUME Init
                 PROVE  IInv
      OBVIOUS
    <2>1. /\ E = Opened(NoFile) /\ file \in FirstFiles /\ open = FALSE
          /\ yank_buf = << >> /\ saved = << >>
      BY DEF Init
    <2>2. E \in Editors /\ E.cx <= size(E) /\ ~Beyond(E) /\ E.mode = "normal"
      BY <2>1, OpenedFacts
    <2>3. file = NoFile \/ file \in Files
      BY <2>1, EditorAssumption DEF Files
    <2>4. yank_buf \in RowSet /\ Len(yank_buf) <= Capacity /\ saved \in Texts
      BY <2>1, EditorAssumption DEF RowSet, Texts
    <2>5. TypeOK
      BY <2>1, <2>2, <2>3, <2>4, TypeOKParts DEF TypeParts
    <2>6. CursorInText
      BY <2>2 DEF CursorInText
    <2>7. CleanKeepsRows
      BY <2>1 DEF CleanKeepsRows
    <2>8. QED
      BY <2>5, <2>6, <2>7 DEF IInv
  <1>2. QED
    BY <1>1, NextKeeps, PTL DEF Spec

\* The editor, the yank buffer and the file keep their types: rows hold no '\n',
\* cursor and window are never negative, what is yanked fits yank_buf.
THEOREM EditorTypeCorrect == Spec => []TypeOK
  BY EditorInvariant, PTL DEF IInv

\* The cursor stays within its row, whatever keys are pressed, and nobody who has
\* yanked nothing gets it past the line after the text or goes astray.
THEOREM EditorCursor == Spec => []CursorInText
  BY EditorInvariant, PTL DEF IInv

\* A text that is not dirty has lost no row since it was read or saved, although
\* 'o', 'O' and 'p' add rows without setting dirty.
THEOREM EditorCleanKeepsRows == Spec => []CleanKeepsRows
  BY EditorInvariant, PTL DEF IInv

\* Of all keys only 'p', and only on the line after the text, takes the cursor
\* past that line.
THEOREM EditorLeavesText == Spec => LeavesTextByPasteOnly
  BY EditorInvariant, NextLeaves, PTL DEF Spec, LeavesTextByPasteOnly

\* A file the editor has written is the beginning of the text as saved or read
\* last, and one that fits its block reads back as that text, with one empty row
\* more at most.
THEOREM EditorSaveReadsBack == Spec => []SaveReadsBack
  <1>1. Init => SavedInv
    BY DEF Init, SavedInv
  <1>2. IInv => saved \in Texts
    BY TypeOKParts DEF IInv, TypeParts
  <1>3. IInv /\ SavedInv => SaveReadsBack
    BY <1>2, SavedReads
  <1>4. QED
    BY <1>1, <1>3, EditorInvariant, SavedKept, PTL DEF Spec

\* While the editor runs the cursor is inside the window, so a refresh never parks
\* it outside the text area: every key ends with editorScroll, and the commands
\* that do not scroll leave cursor and window alone.
THEOREM EditorShowsCursor == Spec => []WindowInv
  <1>1. Init => WindowInv
    BY DEF Init, WindowInv
  <1>2. QED
    BY <1>1, EditorInvariant, WindowKept, PTL DEF Spec

\* Whatever is on the screen, whatever command line is typed and whatever memory the
\* rows are followed by, a refresh leaves the text and nothing else in the text
\* area, the mode in the status bar and what was typed on the command line, for every
\* size of the screen and every text: what kprintf prints too much of a row is
\* painted over.
THEOREM EditorRefreshRepaints == Spec => []RefreshRepaints
  BY EditorInvariant, EditorShowsCursor, WindowShows, PTL

\* So after every key the screen shows the text, and the cursor is parked inside
\* the text area on its own character.
THEOREM EditorScreenShowsText == Spec => []ScreenShowsText
  BY EditorRefreshRepaints, RepaintsShows, PTL
=============================================================================
