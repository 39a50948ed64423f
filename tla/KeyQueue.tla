------------------------------ MODULE KeyQueue ------------------------------
(***************************************************************************)
(* What the readers of the keyboard (kernel/Shell.c, fs/ed.c, system call  *)
(* 2) may rely on: a bounded first-in first-out queue of key codes between *)
(* the interrupt handler and kbd_getchar.  A code that finds the queue     *)
(* full is dropped; a code that is in the queue is delivered, once and in  *)
(* its turn.                                                               *)
(***************************************************************************)
EXTENDS Naturals, Sequences

CONSTANTS Capacity,   \* codes the queue can hold
          Codes       \* the key codes

VARIABLES queue,      \* codes pushed and not delivered
          got         \* the code kbd_getchar returned last

Init == queue = << >> /\ got \notin Codes

Push(c) ==
  /\ Len(queue) < Capacity
  /\ queue' = Append(queue, c)
  /\ UNCHANGED got

Deliver ==
  /\ queue # << >>
  /\ got' = Head(queue)
  /\ queue' = Tail(queue)

Next == Deliver \/ \E c \in Codes : Push(c)

\* The reader comes back for the next code, so every code gets its turn.
Spec == Init /\ [][Next]_<<queue, got>> /\ WF_<<queue, got>>(Deliver)
=============================================================================
