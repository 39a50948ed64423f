----------------------------- MODULE KbdDriver -----------------------------
(***************************************************************************)
(* drivers/kbd_driver.c: the ring buffer between kbd_handler_main, which   *)
(* runs as the IRQ1 handler behind an interrupt gate and is one step, and  *)
(* kbd_getchar, which polls the buffer with interrupts on and can be       *)
(* interrupted between any two of its steps.  The main program is the tail *)
(* of kmain that brings the driver up (idt_init, kbd_init, kbd_enable) and *)
(* then reads characters for ever.                                         *)
(*                                                                         *)
(* External: the keyboard and its i8042 controller, which holds one byte   *)
(* at port 0x60 until it is read and raises an IRQ1 edge for a byte when   *)
(* it puts it there; and the person at the keyboard.                       *)
(***************************************************************************)
EXTENDS Naturals, Sequences

CONSTANTS KBD_BUF_SIZE,   \* slots of the ring buffer
          CharKeys,       \* keys with an entry in keyboard_map
          SpecialKeys,    \* keys of the switch: arrows, HOME, DEL, enter, ...
          DeadKeys,       \* keys with no entry: control, F1, ...
          ShiftKeys,      \* the shift keys in use: LSHIFT, RSHIFT or both
          MaxPending      \* bound: bytes the keyboard holds back

Keys == CharKeys \cup SpecialKeys \cup DeadKeys \cup ShiftKeys

\* A scancode is that of a shift key or of another key, never of both; "none"
\* stands for no key.
ASSUME KbdAssumption ==
  /\ KBD_BUF_SIZE \in Nat /\ KBD_BUF_SIZE > 1
  /\ MaxPending \in Nat
  /\ ShiftKeys # {}
  /\ ShiftKeys \cap (CharKeys \cup SpecialKeys \cup DeadKeys) = {}
  /\ "none" \notin Keys

\* What the handler pushes: a character under the plain or the shifted map, or
\* the synthetic code of a special key.
Codes == [key : CharKeys, map : {"plain", "shift"}] \cup [key : SpecialKeys, map : {"special"}]

None == [key |-> "none", map |-> "none"]      \* no code, an unused slot
NoByte == [key |-> "none", release |-> FALSE] \* the output buffer is empty

Slots == 0 .. KBD_BUF_SIZE - 1

VARIABLES
  kbd_buf, kbd_buf_read, kbd_buf_write, shift_held,
  initialized, enabled,   \* state.initialized, state.enabled
  pc, c,                  \* where the main program is; kbd_getchar's local
  got,                    \* what kbd_getchar returned last
  intsOn,                 \* EFLAGS.IF: the processor takes interrupts
  obf, irq,               \* the byte at port 0x60; an IRQ1 edge not yet taken
  pending,                \* bytes still in the keyboard
  down,                   \* the shift keys that are physically held down
  missed                  \* an interrupt was taken and its byte left at port 0x60

ring == <<kbd_buf, kbd_buf_read, kbd_buf_write>>
main == <<pc, c, got, initialized, enabled, intsOn>>
keyboard == <<pending, down>>
vars == <<ring, shift_held, main, obf, irq, keyboard, missed>>

-----------------------------------------------------------------------------
(* The keyboard and its controller (external).                             *)

Type(k, release) ==
  /\ intsOn
  /\ Len(pending) < MaxPending
  /\ (k \in ShiftKeys /\ release) => k \in down
  /\ pending' = Append(pending, [key |-> k, release |-> release])
  /\ down' = IF release THEN down \ {k} ELSE down \cup ({k} \cap ShiftKeys)
  /\ UNCHANGED <<ring, shift_held, main, obf, irq, missed>>

\* The next byte moves to port 0x60 when the port is free: an IRQ1 edge.
PresentByte ==
  /\ pending # << >>
  /\ obf = NoByte
  /\ obf' = Head(pending)
  /\ pending' = Tail(pending)
  /\ irq' = TRUE
  /\ UNCHANGED <<ring, shift_held, main, down, missed>>

-----------------------------------------------------------------------------
(* The interrupt handler.                                                  *)

Following(i) == (i + 1) % KBD_BUF_SIZE

\* Faulty variant: the last free slot is used too, and full looks like empty.
PushToTheBrim(code) ==
  /\ kbd_buf' = [kbd_buf EXCEPT ![kbd_buf_write] = code]
  /\ kbd_buf_write' = Following(kbd_buf_write)
  /\ UNCHANGED kbd_buf_read

kbd_push(code) ==
  IF Following(kbd_buf_write) = kbd_buf_read THEN UNCHANGED ring
  ELSE /\ kbd_buf' = [kbd_buf EXCEPT ![kbd_buf_write] = code]
       /\ kbd_buf_write' = Following(kbd_buf_write)
       /\ UNCHANGED kbd_buf_read

\* The two tables of keyboard_map.h, and the codes of the switch.
CodeOf(k) ==
  IF k \in SpecialKeys THEN [key |-> k, map |-> "special"]
  ELSE [key |-> k, map |-> IF shift_held THEN "shift" ELSE "plain"]

\* Faulty variant: every release is ignored, that of a shift key too.
IgnoreReleases(b) ==
  \/ /\ b.release
     /\ UNCHANGED <<ring, shift_held>>
  \/ /\ ~b.release /\ b.key \in ShiftKeys
     /\ shift_held' = TRUE
     /\ UNCHANGED ring
  \/ /\ ~b.release /\ b.key \in CharKeys \cup SpecialKeys
     /\ kbd_push(CodeOf(b.key))
     /\ UNCHANGED shift_held
  \/ /\ ~b.release /\ b.key \in DeadKeys
     /\ UNCHANGED <<ring, shift_held>>

\* What the handler does with a byte it has read.
HandleByte(b) ==
  \/ /\ b.release /\ b.key \in ShiftKeys
     /\ shift_held' = FALSE
     /\ UNCHANGED ring
  \/ /\ b.release /\ b.key \notin ShiftKeys
     /\ UNCHANGED <<ring, shift_held>>
  \/ /\ ~b.release /\ b.key \in ShiftKeys
     /\ shift_held' = TRUE
     /\ UNCHANGED ring
  \/ /\ ~b.release /\ b.key \in CharKeys \cup SpecialKeys
     /\ kbd_push(CodeOf(b.key))
     /\ UNCHANGED shift_held
  \/ /\ ~b.release /\ b.key \in DeadKeys
     /\ UNCHANGED <<ring, shift_held>>

\* Faulty variant: the handler serves the byte but does not read it away.
HandlerPeeks ==
  /\ intsOn /\ irq
  /\ irq' = FALSE
  /\ IF enabled /\ obf # NoByte
     THEN HandleByte(obf) /\ UNCHANGED <<obf, missed>>
     ELSE UNCHANGED <<ring, shift_held, obf>> /\ missed' = TRUE
  /\ UNCHANGED <<main, keyboard>>

\* Faulty variant: with the buffer full the handler returns before kbd_read.
HandlerBacksOff ==
  /\ intsOn /\ irq
  /\ irq' = FALSE
  /\ IF enabled /\ obf # NoByte /\ Following(kbd_buf_write) # kbd_buf_read
     THEN HandleByte(obf) /\ obf' = NoByte
     ELSE UNCHANGED <<ring, shift_held, obf>>
  /\ missed' = (missed \/ (~enabled /\ obf # NoByte))
  /\ UNCHANGED <<main, keyboard>>

\* EOI, then nothing at all while the driver is not enabled: the byte stays at
\* port 0x60.  Otherwise kbd_read takes it, if there is one.
kbd_handler_main ==
  /\ intsOn /\ irq
  /\ irq' = FALSE
  /\ IF enabled /\ obf # NoByte
     THEN HandleByte(obf) /\ obf' = NoByte
     ELSE UNCHANGED <<ring, shift_held, obf>>
  /\ missed' = (missed \/ (~enabled /\ obf # NoByte))
  /\ UNCHANGED <<main, keyboard>>

-----------------------------------------------------------------------------
(* The main program.                                                       *)

Goto(from, to) == pc = from /\ pc' = to

\* idt_init loads the IDT, unmasks IRQ1 and turns interrupts on.
idt_init ==
  /\ Goto("idt_init", "kbd_init")
  /\ intsOn' = TRUE
  /\ UNCHANGED <<ring, shift_held, c, got, initialized, enabled, obf, irq, keyboard, missed>>

kbd_init ==
  /\ Goto("kbd_init", "kbd_enable")
  /\ initialized' = TRUE
  /\ enabled' = IF initialized THEN enabled ELSE FALSE
  /\ UNCHANGED <<ring, shift_held, c, got, intsOn, obf, irq, keyboard, missed>>

kbd_enable ==
  /\ Goto("kbd_enable", "poll")
  /\ enabled' = (initialized \/ enabled)
  /\ UNCHANGED <<ring, shift_held, c, got, initialized, intsOn, obf, irq, keyboard, missed>>

\* kbd_getchar: the wait loop sees the buffer nonempty, ...
GetcharPoll ==
  /\ kbd_buf_read # kbd_buf_write
  /\ Goto("poll", "fetch")
  /\ UNCHANGED <<ring, shift_held, c, got, initialized, enabled, intsOn, obf, irq, keyboard, missed>>

\* ... the slot is read, ...
GetcharFetch ==
  /\ Goto("fetch", "advance")
  /\ c' = kbd_buf[kbd_buf_read]
  /\ UNCHANGED <<ring, shift_held, got, initialized, enabled, intsOn, obf, irq, keyboard, missed>>

\* ... the index moves on, and the caller, in a loop, calls again.
GetcharAdvance ==
  /\ Goto("advance", "poll")
  /\ kbd_buf_read' = Following(kbd_buf_read)
  /\ got' = c
  /\ UNCHANGED <<kbd_buf, kbd_buf_write, shift_held, c, initialized, enabled, intsOn, obf, irq,
                 keyboard, missed>>

-----------------------------------------------------------------------------
Init ==
  /\ kbd_buf = [i \in Slots |-> None]
  /\ kbd_buf_read = 0 /\ kbd_buf_write = 0
  /\ shift_held = FALSE
  /\ initialized = FALSE /\ enabled = FALSE
  /\ pc = "idt_init" /\ c = None /\ got = None
  /\ intsOn = FALSE
  /\ obf = NoByte /\ irq = FALSE
  /\ pending = << >> /\ down = {}
  /\ missed = FALSE

MainStep ==
  \/ idt_init \/ kbd_init \/ kbd_enable
  \/ GetcharPoll \/ GetcharFetch \/ GetcharAdvance

Next ==
  \/ MainStep
  \/ kbd_handler_main
  \/ PresentByte
  \/ \E k \in Keys, release \in BOOLEAN : Type(k, release)

\* The processor executes the main program and takes the interrupts that are
\* raised; the controller presents the bytes it has.  Nobody has to type.
Fairness == WF_vars(MainStep) /\ WF_vars(kbd_handler_main) /\ WF_vars(PresentByte)

Spec == Init /\ [][Next]_vars /\ Fairness

-----------------------------------------------------------------------------
\* The unread slots, oldest first.
Unread == (kbd_buf_write + KBD_BUF_SIZE - kbd_buf_read) % KBD_BUF_SIZE
Contents == [i \in 1 .. Unread |-> kbd_buf[(kbd_buf_read + i - 1) % KBD_BUF_SIZE]]

\* The ring buffer is the bounded queue, although kbd_getchar reads the slot and
\* moves the index in two steps with pushes in between: no code is lost once it
\* is in, none is delivered twice or out of turn, a push never lands on a slot
\* that is still to be read, and every code that is in is delivered.
Queue == INSTANCE KeyQueue WITH Capacity <- KBD_BUF_SIZE - 1, queue <- Contents

ImplementsKeyQueue == Queue!Spec

\* As long as no interrupt came too early for the driver, every byte at port
\* 0x60 has its interrupt on the way: the controller gives no second one.
ByteHasInterrupt == (obf # NoByte /\ ~missed) => irq

\* A byte the controller presents is read away, so that the next one can come,
\* unless an interrupt between idt_init and kbd_enable was answered without
\* reading its byte: then the keyboard stays silent.
ByteIsRead == (obf # NoByte /\ ~missed) ~> (obf = NoByte \/ missed)

\* shift_held follows the shift keys as far as one flag can follow two keys: once
\* every byte has been handled it is never left set with both keys up, and it is
\* set with all of them down.  With one of two keys held the last byte decides:
\* releasing the second key of a pair forgets the one that is still down.
ShiftTracked ==
  (pending = << >> /\ obf = NoByte /\ enabled /\ ~missed) =>
    /\ shift_held => down # {}
    /\ down = ShiftKeys => shift_held
=============================================================================
