----------------------------- MODULE FileStore -----------------------------
(***************************************************************************)
(* What the callers of the file system may rely on: a flat set of named    *)
(* files, each with a size and the contents last written to it, and no     *)
(* file affected by what is done to another one.                           *)
(***************************************************************************)
CONSTANTS Names, Sizes, Data,
          Nothing     \* the contents of an empty file

VARIABLE store        \* name of a file -> its size and contents

Init == store = [n \in {} |-> Nothing]

Others(n) == {m \in DOMAIN store : m # n}

Create(n) ==
  /\ n \notin DOMAIN store
  /\ store' = [m \in DOMAIN store \cup {n} |->
                 IF m = n THEN [size |-> 0, data |-> Nothing] ELSE store[m]]

Delete(n) ==
  /\ n \in DOMAIN store
  /\ store' = [m \in Others(n) |-> store[m]]

Write(n, d, size) ==
  /\ n \in DOMAIN store
  /\ store' = [store EXCEPT ![n] = [size |-> size,
                                    data |-> IF size = 0 THEN Nothing ELSE d]]

Next == \E n \in Names :
          \/ Create(n)
          \/ Delete(n)
          \/ \E d \in Data, size \in Sizes : Write(n, d, size)

Spec == Init /\ [][Next]_store
=============================================================================
