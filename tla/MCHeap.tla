------------------------------- MODULE MCHeap -------------------------------
(* The heap on an arena that holds up to five headers: large enough for a   *)
(* block with a free neighbour on each side, ties of the best-fit search,   *)
(* blocks handed out whole with slack, and exhaustion.                      *)
EXTENDS Heap
MCTotalSize == 11
MCNodeSize == 2
MCSizes == {0, 1, 2, 4}
=============================================================================
