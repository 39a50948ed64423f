----------------------------- MODULE Allocator -----------------------------
(***************************************************************************)
(* What the callers of malloc, mem_free and realloc (kernel/mm.h) may rely *)
(* on, with no word about headers, lists or best fit.  A live block is a   *)
(* pointer and the cells its owner may use: live[p] is a function from     *)
(* 0 .. n-1, where n is the size last asked for.                           *)
(***************************************************************************)
EXTENDS Integers

CONSTANTS Arena,   \* cells under management
          Cells    \* what a cell can hold

VARIABLE live      \* pointer -> contents of the block its owner holds

\* Two blocks share no cell.
Apart(p, c, q, d) == \A i \in DOMAIN c, j \in DOMAIN d : p + i # q + j

\* Every block lies in the arena and no cell has two owners.
Exclusive(l) ==
  /\ \A p \in DOMAIN l : \A i \in DOMAIN l[p] : p + i \in 0 .. Arena - 1
  /\ \A p, q \in DOMAIN l : p # q => Apart(p, l[p], q, l[q])

\* The blocks of the pointers in S are the same before and after the step.
Keeps(S) == \A p \in S : p \in DOMAIN live' /\ live'[p] = live[p]

\* A new block appears; everybody else's is untouched.
Malloc ==
  \E p \in DOMAIN live' \ DOMAIN live :
    /\ DOMAIN live' = DOMAIN live \cup {p}
    /\ Keeps(DOMAIN live)
    /\ Exclusive(live')

Free ==
  \E p \in DOMAIN live :
    /\ DOMAIN live' = DOMAIN live \ {p}
    /\ Keeps(DOMAIN live \ {p})

\* The block of p is resized, here or elsewhere: the cells both sizes have
\* keep their contents, and so does everybody else's block.
Realloc ==
  \E p \in DOMAIN live, q \in DOMAIN live' :
    /\ DOMAIN live' = (DOMAIN live \ {p}) \cup {q}
    /\ Keeps(DOMAIN live \ {p})
    /\ q = p \/ q \notin DOMAIN live
    /\ \A i \in DOMAIN live[p] \cap DOMAIN live'[q] : live'[q][i] = live[p][i]
    /\ Exclusive(live')

\* An owner stores into its own block.
Write ==
  \E p \in DOMAIN live :
    /\ DOMAIN live' = DOMAIN live
    /\ DOMAIN live'[p] = DOMAIN live[p]
    /\ Keeps(DOMAIN live \ {p})

Init == live = [p \in {} |-> {}]

Next == Malloc \/ Free \/ Realloc \/ Write

Spec == Init /\ [][Next]_live
=============================================================================
