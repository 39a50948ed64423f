----------------------------- MODULE KbdProofs -----------------------------
(***************************************************************************)
(* Proofs about the keyboard driver, for every buffer size, every set of   *)
(* keys and every number of bytes the keyboard holds back: the ring buffer *)
(* of kbd_driver.c is the bounded queue of KeyQueue, whatever point of     *)
(* kbd_getchar the interrupt handler cuts in at; no byte is left at port   *)
(* 0x60 without its interrupt; and shift_held follows the shift keys.      *)
(***************************************************************************)
EXTENDS KbdDriver, TLAPS

Bytes == [key : Keys, release : BOOLEAN]

Types ==
  /\ kbd_buf \in [Slots -> Codes \cup {None}]
  /\ kbd_buf_read \in Slots /\ kbd_buf_write \in Slots
  /\ shift_held \in BOOLEAN /\ initialized \in BOOLEAN /\ enabled \in BOOLEAN
  /\ pc \in {"idt_init", "kbd_init", "kbd_enable", "poll", "fetch", "advance"}
  /\ obf \in Bytes \cup {NoByte}
  /\ pending \in Seq(Bytes)
  /\ down \subseteq ShiftKeys

\* kbd_getchar has seen a code in the buffer and, after the fetch, has it in c.
GetcharInv ==
  /\ pc \in {"fetch", "advance"} => kbd_buf_read # kbd_buf_write
  /\ pc = "advance" => c = kbd_buf[kbd_buf_read]

\* A flag of value h is no worse than one flag for two shift keys can be.
Follows(h) == (h => down # {}) /\ (~h => down # ShiftKeys)

IsShift(b) == b.key \in ShiftKeys

\* The last shift byte still to be handled decides what shift_held will be:
\* one in the keyboard, else the one at the port, else shift_held is final.
LastPendingShift(i) ==
  /\ i \in 1 .. Len(pending) /\ IsShift(pending[i])
  /\ \A j \in i + 1 .. Len(pending) : ~IsShift(pending[j])

NoPendingShift == \A i \in 1 .. Len(pending) : ~IsShift(pending[i])

ShiftInv ==
  /\ \A i \in 1 .. Len(pending) : LastPendingShift(i) => Follows(~pending[i].release)
  /\ NoPendingShift /\ IsShift(obf) => Follows(~obf.release)
  /\ NoPendingShift /\ ~IsShift(obf) => Follows(shift_held)

IInv == Types /\ GetcharInv /\ ShiftInv /\ ByteHasInterrupt

-----------------------------------------------------------------------------
(* The arithmetic of the ring.                                             *)

\* The remainder of a number below twice the size of the ring.
LEMMA RingMod ==
  ASSUME NEW n \in Nat, n > 0, NEW x \in 0 .. 2 * n - 1
  PROVE  x % n = IF x < n THEN x ELSE x - n
  OBVIOUS

\* The index after i is the next one, or 0 at the end.
LEMMA FollowingFacts ==
  ASSUME NEW i \in Slots
  PROVE  /\ Following(i) = IF i = KBD_BUF_SIZE - 1 THEN 0 ELSE i + 1
         /\ Following(i) \in Slots
         /\ Following(i) # i
  BY KbdAssumption, RingMod DEF Following, Slots

-----------------------------------------------------------------------------
(* The inductive invariant, action by action.                              *)

\* A push writes a slot that nobody is reading: the slot at kbd_buf_read keeps
\* its code and the buffer does not become empty.
LEMMA PushFacts ==
  ASSUME Types, NEW code \in Codes, kbd_push(code)
  PROVE  /\ kbd_buf' \in [Slots -> Codes \cup {None}]
         /\ kbd_buf_read' = kbd_buf_read /\ kbd_buf_write' \in Slots
         /\ kbd_buf_read # kbd_buf_write =>
              /\ kbd_buf_read' # kbd_buf_write'
              /\ kbd_buf'[kbd_buf_read] = kbd_buf[kbd_buf_read]
  <1>1. Following(kbd_buf_write) \in Slots
    BY FollowingFacts DEF Types
  <1>2. CASE Following(kbd_buf_write) = kbd_buf_read
    BY <1>2 DEF kbd_push, ring, Types
  <1>3. CASE Following(kbd_buf_write) # kbd_buf_read
    BY <1>1, <1>3 DEF kbd_push, Types
  <1>4. QED
    BY <1>2, <1>3

\* The handler pushes only the codes of keys that have one.
LEMMA CodeOfFacts ==
  ASSUME NEW k \in CharKeys \cup SpecialKeys
  PROVE  CodeOf(k) \in Codes
  BY DEF CodeOf, Codes

\* A byte the handler takes leaves the ring fit for kbd_getchar, and sets the
\* shift flag only from a shift byte.
LEMMA HandleByteFacts ==
  ASSUME Types, GetcharInv, NEW b \in Bytes, HandleByte(b), UNCHANGED <<pc, c>>
  PROVE  /\ kbd_buf' \in [Slots -> Codes \cup {None}]
         /\ kbd_buf_read' \in Slots /\ kbd_buf_write' \in Slots
         /\ GetcharInv'
         /\ shift_held' = IF IsShift(b) THEN ~b.release ELSE shift_held
  <1>0. b.release \in BOOLEAN /\ shift_held \in BOOLEAN
    BY DEF Bytes, Types
  <1>1. CASE UNCHANGED ring
    <2>1. UNCHANGED <<kbd_buf, kbd_buf_read, kbd_buf_write>>
      BY <1>1 DEF ring
    <2>2. GetcharInv'
      BY <2>1 DEF GetcharInv
    <2>3. shift_held' = IF IsShift(b) THEN ~b.release ELSE shift_held
      BY <1>0, <2>1, KbdAssumption DEF HandleByte, IsShift, Bytes
    <2>4. QED
      BY <2>1, <2>2, <2>3 DEF Types
  <1>2. CASE /\ ~b.release /\ b.key \in CharKeys \cup SpecialKeys
             /\ kbd_push(CodeOf(b.key)) /\ UNCHANGED shift_held
    <2>1. CodeOf(b.key) \in Codes
      BY <1>2, CodeOfFacts
    <2>2. /\ kbd_buf' \in [Slots -> Codes \cup {None}]
          /\ kbd_buf_read' = kbd_buf_read /\ kbd_buf_write' \in Slots
          /\ kbd_buf_read # kbd_buf_write =>
               /\ kbd_buf_read' # kbd_buf_write'
               /\ kbd_buf'[kbd_buf_read] = kbd_buf[kbd_buf_read]
      BY <1>2, <2>1, PushFacts
    <2>3. GetcharInv'
      BY <2>2 DEF GetcharInv
    <2>4. ~IsShift(b)
      BY <1>2, KbdAssumption DEF IsShift
    <2>5. QED
      BY <1>2, <2>2, <2>3, <2>4 DEF Types
  <1>3. QED
    BY <1>1, <1>2 DEF HandleByte, ring

\* Typing: the new byte is the last one, and decides if it is a shift byte.
LEMMA TypeIInv ==
  ASSUME IInv, NEW k \in Keys, NEW release \in BOOLEAN, Type(k, release)
  PROVE  IInv'
  <1> DEFINE b == [key |-> k, release |-> release]
  <1>1. /\ UNCHANGED <<kbd_buf, kbd_buf_read, kbd_buf_write, shift_held, pc, c, got, initialized,
                       enabled, intsOn, obf, irq, missed>>
        /\ pending' = Append(pending, b)
        /\ down' = IF release THEN down \ {k} ELSE down \cup ({k} \cap ShiftKeys)
        /\ (k \in ShiftKeys /\ release) => k \in down
    BY DEF Type, ring, main
  <1>2. b \in Bytes /\ pending \in Seq(Bytes) /\ down \subseteq ShiftKeys
    BY DEF Bytes, IInv, Types
  <1>3. Types'
    BY <1>1, <1>2 DEF IInv, Types
  <1>4. GetcharInv' /\ ByteHasInterrupt'
    BY <1>1 DEF IInv, GetcharInv, ByteHasInterrupt
  <1>5. /\ Len(pending') = Len(pending) + 1 /\ Len(pending) \in Nat
        /\ pending'[Len(pending')] = b
        /\ \A i \in 1 .. Len(pending) : pending'[i] = pending[i]
    BY <1>1, <1>2
  <1>6. ShiftInv'
    <2>1. CASE k \in ShiftKeys
      <3>1. IsShift(pending'[Len(pending')]) /\ pending'[Len(pending')].release = release
        BY <1>5, <2>1 DEF IsShift
      <3>2. ~NoPendingShift'
        BY <1>5, <3>1 DEF NoPendingShift, IsShift
      <3>3. \A i \in 1 .. Len(pending') : LastPendingShift(i)' => i = Len(pending')
        BY <1>5, <3>1 DEF LastPendingShift, IsShift
      <3>4. Follows(~release)'
        BY <1>1, <1>2, <2>1 DEF Follows
      <3>5. QED
        BY <3>1, <3>2, <3>3, <3>4 DEF ShiftInv, Follows
    <2>2. CASE k \notin ShiftKeys
      <3>1. down' = down
        BY <1>1, <1>2, <2>2
      <3>2. ~IsShift(pending'[Len(pending')])
        BY <1>5, <2>2 DEF IsShift
      <3>3. NoPendingShift' = NoPendingShift
        BY <1>5, <3>2 DEF NoPendingShift, IsShift
      <3>4. \A i \in 1 .. Len(pending') : LastPendingShift(i)' =>
              i \in 1 .. Len(pending) /\ LastPendingShift(i) /\ pending'[i] = pending[i]
        BY <1>5, <3>2 DEF LastPendingShift, IsShift
      <3>5. QED
        BY <1>1, <3>1, <3>3, <3>4 DEF IInv, ShiftInv, Follows, IsShift
    <2>3. QED
      BY <2>1, <2>2
  <1>7. QED
    BY <1>3, <1>4, <1>6 DEF IInv

\* The first byte held back moves to the port: what decides stays what it was.
LEMMA PresentIInv ==
  ASSUME IInv, PresentByte
  PROVE  IInv'
  <1>1. /\ UNCHANGED <<kbd_buf, kbd_buf_read, kbd_buf_write, shift_held, pc, c, got, initialized,
                       enabled, intsOn, down, missed>>
        /\ pending # << >> /\ obf = NoByte /\ obf' = Head(pending)
        /\ pending' = Tail(pending) /\ irq' = TRUE
    BY DEF PresentByte, ring, main
  <1>2. pending \in Seq(Bytes)
    BY DEF IInv, Types
  <1>3. /\ Len(pending) \in Nat /\ Len(pending) > 0 /\ Len(pending') = Len(pending) - 1
        /\ obf' = pending[1] /\ obf' \in Bytes /\ pending' \in Seq(Bytes)
        /\ \A i \in 1 .. Len(pending') : pending'[i] = pending[i + 1]
    BY <1>1, <1>2
  <1>4. Types' /\ GetcharInv' /\ ByteHasInterrupt'
    BY <1>1, <1>3 DEF IInv, Types, GetcharInv, ByteHasInterrupt
  <1>5. \A i \in 1 .. Len(pending') : LastPendingShift(i)' => LastPendingShift(i + 1)
    <2> SUFFICES ASSUME NEW i \in 1 .. Len(pending'), LastPendingShift(i)'
                 PROVE  LastPendingShift(i + 1)
      OBVIOUS
    <2>1. IsShift(pending[i + 1])
      BY <1>3 DEF LastPendingShift, IsShift
    <2>2. ASSUME NEW j \in i + 2 .. Len(pending) PROVE ~IsShift(pending[j])
      <3>1. j - 1 \in i + 1 .. Len(pending') /\ j - 1 \in 1 .. Len(pending')
        BY <1>3
      <3>2. ~IsShift(pending'[j - 1])
        BY <3>1 DEF LastPendingShift, IsShift
      <3>3. pending'[j - 1] = pending[j]
        BY <1>3, <3>1
      <3>4. QED
        BY <3>2, <3>3
    <2>3. QED
      BY <1>3, <2>1, <2>2 DEF LastPendingShift
  <1>6. NoPendingShift' => \A j \in 2 .. Len(pending) : ~IsShift(pending[j])
    <2> SUFFICES ASSUME NoPendingShift', NEW j \in 2 .. Len(pending)
                 PROVE  ~IsShift(pending[j])
      OBVIOUS
    <2>1. j - 1 \in 1 .. Len(pending')
      BY <1>3
    <2>2. ~IsShift(pending'[j - 1]) /\ pending'[j - 1] = pending[j]
      BY <1>3, <2>1 DEF NoPendingShift, IsShift
    <2>3. QED
      BY <2>2
  <1>7. ~IsShift(obf)
    BY <1>1, KbdAssumption DEF IsShift, NoByte, Keys
  <1>8. ShiftInv'
    <2>1. ASSUME NEW i \in 1 .. Len(pending'), LastPendingShift(i)'
          PROVE  Follows(~pending[i + 1].release)
      BY <1>3, <1>5, <2>1 DEF IInv, ShiftInv
    <2>2. ASSUME NoPendingShift', IsShift(pending[1]) PROVE Follows(~pending[1].release)
      <3>1. LastPendingShift(1)
        BY <1>3, <1>6, <2>2 DEF LastPendingShift
      <3>2. QED
        BY <1>3, <3>1 DEF IInv, ShiftInv
    <2>3. ASSUME NoPendingShift', ~IsShift(pending[1]) PROVE Follows(shift_held)
      <3>1. NoPendingShift
        BY <1>3, <1>6, <2>3 DEF NoPendingShift
      <3>2. QED
        BY <1>7, <3>1 DEF IInv, ShiftInv
    <2>4. QED
      BY <1>1, <1>3, <2>1, <2>2, <2>3 DEF ShiftInv, Follows, IsShift
  <1>9. QED
    BY <1>4, <1>8 DEF IInv

\* The handler: the byte at the port takes effect when the driver is enabled and
\* stays, with the interrupt gone and missed, when it is not.
LEMMA HandlerIInv ==
  ASSUME IInv, kbd_handler_main
  PROVE  IInv'
  <1>1. UNCHANGED <<pc, c, got, initialized, enabled, intsOn, pending, down>>
    BY DEF kbd_handler_main, main, keyboard
  <1>2. ByteHasInterrupt'
    BY DEF kbd_handler_main, ByteHasInterrupt
  <1>3. CASE enabled /\ obf # NoByte
    <2>1. obf \in Bytes /\ HandleByte(obf) /\ obf' = NoByte
      BY <1>3 DEF kbd_handler_main, IInv, Types
    <2>2. /\ kbd_buf' \in [Slots -> Codes \cup {None}]
          /\ kbd_buf_read' \in Slots /\ kbd_buf_write' \in Slots
          /\ GetcharInv'
          /\ shift_held' = IF IsShift(obf) THEN ~obf.release ELSE shift_held
      BY <1>1, <2>1, HandleByteFacts DEF IInv
    <2>3. Types'
      BY <1>1, <2>1, <2>2 DEF IInv, Types
    <2>4. ~IsShift(NoByte)
      BY KbdAssumption DEF IsShift, NoByte, Keys
    <2>5. ShiftInv'
      BY <1>1, <2>1, <2>2, <2>4
      DEF IInv, ShiftInv, NoPendingShift, LastPendingShift, Follows, IsShift
    <2>6. QED
      BY <1>2, <2>2, <2>3, <2>5 DEF IInv
  <1>4. CASE ~(enabled /\ obf # NoByte)
    <2>1. UNCHANGED <<kbd_buf, kbd_buf_read, kbd_buf_write, shift_held, obf>>
      BY <1>4 DEF kbd_handler_main, ring
    <2>2. QED
      BY <1>1, <1>2, <2>1
      DEF IInv, Types, GetcharInv, ShiftInv, NoPendingShift, LastPendingShift, Follows, IsShift
  <1>5. QED
    BY <1>3, <1>4

\* The main program moves on: only kbd_getchar touches the buffer, and only after
\* it has seen it nonempty.
LEMMA MainIInv ==
  ASSUME IInv, MainStep
  PROVE  IInv'
  <1>1. UNCHANGED <<kbd_buf, kbd_buf_write, shift_held, obf, irq, pending, down, missed>>
    BY DEF MainStep, idt_init, kbd_init, kbd_enable, GetcharPoll, GetcharFetch, GetcharAdvance,
           ring, keyboard
  <1>2. ShiftInv' /\ ByteHasInterrupt'
    BY <1>1 DEF IInv, ShiftInv, NoPendingShift, LastPendingShift, Follows, ByteHasInterrupt
  <1>3. CASE GetcharAdvance
    <2>1. kbd_buf_read' \in Slots
      BY <1>3, FollowingFacts DEF GetcharAdvance, IInv, Types
    <2>2. Types' /\ GetcharInv'
      BY <1>1, <1>3, <2>1 DEF GetcharAdvance, Goto, IInv, Types, GetcharInv
    <2>3. QED
      BY <1>2, <2>2 DEF IInv
  <1>4. CASE idt_init \/ kbd_init \/ kbd_enable
    <2>1. UNCHANGED kbd_buf_read /\ pc' \in {"kbd_init", "kbd_enable", "poll"}
      BY <1>4 DEF idt_init, kbd_init, kbd_enable, Goto, ring
    <2>2. initialized' \in BOOLEAN /\ enabled' \in BOOLEAN
      BY <1>4 DEF idt_init, kbd_init, kbd_enable, IInv, Types
    <2>3. Types' /\ GetcharInv'
      BY <1>1, <2>1, <2>2 DEF IInv, Types, GetcharInv
    <2>4. QED
      BY <1>2, <2>3 DEF IInv
  <1>5. CASE GetcharPoll \/ GetcharFetch
    <2>1. UNCHANGED <<kbd_buf_read, initialized, enabled>>
      BY <1>5 DEF GetcharPoll, GetcharFetch, ring
    <2>2. Types' /\ GetcharInv'
      BY <1>1, <1>5, <2>1 DEF GetcharPoll, GetcharFetch, Goto, IInv, Types, GetcharInv
    <2>3. QED
      BY <1>2, <2>2 DEF IInv
  <1>6. QED
    BY <1>3, <1>4, <1>5 DEF MainStep

\* The driver starts in the invariant.
LEMMA InitIInv == Init => IInv
  <1> SUFFICES ASSUME Init PROVE IInv
    OBVIOUS
  <1>1. Types
    <2>1. 0 \in Slots /\ None \in Codes \cup {None}
      BY KbdAssumption DEF Slots
    <2>2. kbd_buf \in [Slots -> Codes \cup {None}]
      BY <2>1 DEF Init
    <2>3. QED
      BY <2>1, <2>2 DEF Init, Types
  <1>2. GetcharInv /\ ByteHasInterrupt
    BY DEF Init, GetcharInv, ByteHasInterrupt
  <1>3. ~IsShift(obf) /\ pending = << >>
    BY KbdAssumption DEF Init, IsShift, NoByte, Keys
  <1>4. Follows(shift_held)
    BY KbdAssumption DEF Init, Follows
  <1>5. ShiftInv
    BY <1>3, <1>4 DEF ShiftInv
  <1>6. QED
    BY <1>1, <1>2, <1>5 DEF IInv

\* No step of the main program, the handler, the controller or the typist leaves
\* the invariant.
LEMMA NextIInv == IInv /\ [Next]_vars => IInv'
  <1> SUFFICES ASSUME IInv, [Next]_vars PROVE IInv'
    OBVIOUS
  <1>1. CASE UNCHANGED vars
    BY <1>1 DEF vars, ring, main, keyboard, IInv, Types, GetcharInv, ShiftInv, NoPendingShift,
                LastPendingShift, Follows, ByteHasInterrupt
  <1>2. QED
    BY <1>1, MainIInv, HandlerIInv, PresentIInv, TypeIInv DEF Next

\* The ring indices stay in range, kbd_getchar never fetches from an empty
\* buffer, and the last shift byte on its way decides the flag.
THEOREM KbdInvariant == Spec => []IInv
  BY InitIInv, NextIInv, PTL DEF Spec

\* A byte at port 0x60 has its interrupt on the way unless an interrupt before
\* kbd_enable was answered without reading its byte (ByteHasInterrupt).
THEOREM KbdInterrupt == Spec => []ByteHasInterrupt
  <1>1. IInv => ByteHasInterrupt
    BY DEF IInv
  <1>2. QED
    BY <1>1, KbdInvariant, PTL

\* With every byte handled, shift_held is set only with a shift key down and is
\* set with all of them down (ShiftTracked).
THEOREM KbdShift == Spec => []ShiftTracked
  <1>1. IInv => ShiftTracked
    <2> SUFFICES ASSUME IInv, pending = << >>, obf = NoByte
                 PROVE  (shift_held => down # {}) /\ (down = ShiftKeys => shift_held)
      BY DEF ShiftTracked
    <2>1. NoPendingShift /\ ~IsShift(obf)
      BY KbdAssumption DEF NoPendingShift, IsShift, NoByte, Keys
    <2>2. QED
      BY <2>1 DEF IInv, ShiftInv, Follows
  <1>2. QED
    BY <1>1, KbdInvariant, PTL

-----------------------------------------------------------------------------
(* The ring buffer is the queue.                                           *)

\* The number of unread codes and where the i-th of them lies.
ContentsView ==
  /\ Unread \in 0 .. KBD_BUF_SIZE - 1
  /\ Unread = IF kbd_buf_read <= kbd_buf_write THEN kbd_buf_write - kbd_buf_read
              ELSE kbd_buf_write + KBD_BUF_SIZE - kbd_buf_read
  /\ Contents \in Seq(Codes \cup {None}) /\ Len(Contents) = Unread
  /\ \A i \in 1 .. Unread :
       /\ (kbd_buf_read + i - 1) % KBD_BUF_SIZE \in Slots
       /\ (kbd_buf_read + i - 1) % KBD_BUF_SIZE =
            IF kbd_buf_read + i - 1 < KBD_BUF_SIZE THEN kbd_buf_read + i - 1
            ELSE kbd_buf_read + i - 1 - KBD_BUF_SIZE

\* The unread codes are a sequence that wraps round the ring at most once.
LEMMA ContentsFacts == Types => ContentsView
  <1> SUFFICES ASSUME Types PROVE ContentsView
    OBVIOUS
  <1>0. /\ kbd_buf_read \in 0 .. KBD_BUF_SIZE - 1 /\ kbd_buf_write \in 0 .. KBD_BUF_SIZE - 1
        /\ KBD_BUF_SIZE \in Nat /\ KBD_BUF_SIZE > 1
    BY KbdAssumption DEF Types, Slots
  <1>1. kbd_buf_write + KBD_BUF_SIZE - kbd_buf_read \in 0 .. 2 * KBD_BUF_SIZE - 1
    BY <1>0
  <1>2. Unread = IF kbd_buf_write + KBD_BUF_SIZE - kbd_buf_read < KBD_BUF_SIZE
                 THEN kbd_buf_write + KBD_BUF_SIZE - kbd_buf_read
                 ELSE kbd_buf_write + KBD_BUF_SIZE - kbd_buf_read - KBD_BUF_SIZE
    BY <1>0, <1>1, RingMod DEF Unread
  <1>3. /\ Unread \in 0 .. KBD_BUF_SIZE - 1
        /\ Unread = IF kbd_buf_read <= kbd_buf_write THEN kbd_buf_write - kbd_buf_read
                    ELSE kbd_buf_write + KBD_BUF_SIZE - kbd_buf_read
    BY <1>0, <1>2
  <1>4. ASSUME NEW i \in 1 .. Unread
        PROVE  /\ (kbd_buf_read + i - 1) % KBD_BUF_SIZE \in Slots
               /\ (kbd_buf_read + i - 1) % KBD_BUF_SIZE =
                    IF kbd_buf_read + i - 1 < KBD_BUF_SIZE THEN kbd_buf_read + i - 1
                    ELSE kbd_buf_read + i - 1 - KBD_BUF_SIZE
    <2>1. kbd_buf_read + i - 1 \in 0 .. 2 * KBD_BUF_SIZE - 1
      BY <1>0, <1>3
    <2>2. (kbd_buf_read + i - 1) % KBD_BUF_SIZE =
            IF kbd_buf_read + i - 1 < KBD_BUF_SIZE THEN kbd_buf_read + i - 1
            ELSE kbd_buf_read + i - 1 - KBD_BUF_SIZE
      BY <1>0, <2>1, RingMod
    <2>3. QED
      BY <1>0, <2>1, <2>2 DEF Slots
  <1>5. Contents \in Seq(Codes \cup {None}) /\ Len(Contents) = Unread
    <2>1. \A i \in 1 .. Unread : kbd_buf[(kbd_buf_read + i - 1) % KBD_BUF_SIZE] \in Codes \cup {None}
      BY <1>4 DEF Types
    <2>2. Contents \in [1 .. Unread -> Codes \cup {None}]
      BY <2>1 DEF Contents
    <2>3. QED
      BY <1>3, <2>2
  <1>6. QED
    BY <1>3, <1>4, <1>5 DEF ContentsView

\* The i-th unread code, by the slot it is in.
LEMMA ContentsAt ==
  ASSUME NEW i \in 1 .. Unread
  PROVE  Contents[i] = kbd_buf[(kbd_buf_read + i - 1) % KBD_BUF_SIZE]
  BY DEF Contents

\* A code that finds a free slot is appended to the queue; one that finds the
\* buffer full changes nothing.
LEMMA PushRefines ==
  ASSUME Types, Types', NEW code \in Codes, kbd_push(code)
  PROVE  \/ UNCHANGED Contents
         \/ Len(Contents) < KBD_BUF_SIZE - 1 /\ Contents' = Append(Contents, code)
  <1> DEFINE N == KBD_BUF_SIZE
             r == kbd_buf_read
             w == kbd_buf_write
  <1>1. CASE Following(w) = r
    <2>1. UNCHANGED <<kbd_buf, kbd_buf_read, kbd_buf_write>>
      BY <1>1 DEF kbd_push, ring
    <2>2. UNCHANGED Contents
      BY <2>1 DEF Contents, Unread
    <2>3. QED
      BY <2>2
  <1>2. CASE Following(w) # r
    <2>0. /\ r \in 0 .. N - 1 /\ w \in 0 .. N - 1 /\ N \in Nat /\ N > 1
          /\ kbd_buf \in [Slots -> Codes \cup {None}]
      BY KbdAssumption DEF Types, Slots
    <2>1. /\ kbd_buf' = [kbd_buf EXCEPT ![w] = code] /\ kbd_buf_read' = r
          /\ kbd_buf_write' = IF w = N - 1 THEN 0 ELSE w + 1
      BY <1>2, FollowingFacts DEF kbd_push, Types
    <2>2. /\ Unread \in 0 .. N - 1
          /\ Unread = IF r <= w THEN w - r ELSE w + N - r
          /\ Contents \in Seq(Codes \cup {None}) /\ Len(Contents) = Unread
          /\ \A i \in 1 .. Unread : /\ (r + i - 1) % N \in Slots
                                   /\ (r + i - 1) % N = IF r + i - 1 < N THEN r + i - 1
                                                        ELSE r + i - 1 - N
      BY ContentsFacts DEF ContentsView
    <2>3. /\ Unread' \in 0 .. N - 1
          /\ Unread' = IF r <= kbd_buf_write' THEN kbd_buf_write' - r ELSE kbd_buf_write' + N - r
          /\ Contents' \in Seq(Codes \cup {None}) /\ Len(Contents') = Unread'
          /\ \A i \in 1 .. Unread' : (r + i - 1) % N = IF r + i - 1 < N THEN r + i - 1
                                                        ELSE r + i - 1 - N
      <3>1. Types' => ContentsView'
        BY ContentsFacts, PTL
      <3>2. QED
        BY <2>1, <3>1 DEF ContentsView
    <2>4. Unread' = Unread + 1 /\ Unread < N - 1
      BY <2>0, <2>1, <2>2, <2>3, <1>2, FollowingFacts DEF Types
    <2>5. ASSUME NEW i \in 1 .. Unread' PROVE Contents'[i] = Append(Contents, code)[i]
      <3>1. Contents'[i] = kbd_buf'[(r + i - 1) % N]
        BY <2>1 DEF Contents
      <3>2. CASE i = Unread'
        <4>1. (r + i - 1) % N = w
          BY <2>0, <2>2, <2>3, <2>4, <3>2
        <4>2. kbd_buf'[w] = code
          BY <2>0, <2>1 DEF Slots
        <4>3. Append(Contents, code)[i] = code
          BY <2>2, <2>4, <3>2
        <4>4. QED
          BY <3>1, <4>1, <4>2, <4>3
      <3>3. CASE i # Unread'
        <4>1. i \in 1 .. Unread
          BY <2>2, <2>4, <3>3
        <4>2. (r + i - 1) % N # w /\ (r + i - 1) % N \in Slots
          <5>1. /\ (r + i - 1) % N \in Slots
                /\ (r + i - 1) % N = IF r + i - 1 < N THEN r + i - 1 ELSE r + i - 1 - N
            BY <2>2, <4>1
          <5>2. (IF r + i - 1 < N THEN r + i - 1 ELSE r + i - 1 - N) # w
            BY <2>0, <2>2, <4>1
          <5>3. QED
            BY <5>1, <5>2
        <4>3. kbd_buf'[(r + i - 1) % N] = kbd_buf[(r + i - 1) % N]
          BY <2>0, <2>1, <4>2
        <4>4. Append(Contents, code)[i] = Contents[i]
          BY <2>2, <4>1
        <4>5. QED
          BY <3>1, <4>1, <4>3, <4>4, ContentsAt
      <3>4. QED
        BY <3>2, <3>3
    <2>6. Contents' = Append(Contents, code)
      <3>1. Append(Contents, code) \in Seq(Codes \cup {None}) /\ Len(Append(Contents, code)) = Unread'
        BY <2>2, <2>4
      <3>2. QED
        BY <2>3, <2>5, <3>1
    <2>7. QED
      BY <2>2, <2>4, <2>6
  <1>3. QED
    BY <1>1, <1>2

\* kbd_getchar's last step delivers the oldest code, whatever was pushed since
\* it looked: the queue loses its head.
LEMMA DeliverRefines ==
  ASSUME IInv, Types', GetcharAdvance
  PROVE  Contents # << >> /\ got' = Head(Contents) /\ Contents' = Tail(Contents)
  <1> DEFINE N == KBD_BUF_SIZE
             r == kbd_buf_read
             w == kbd_buf_write
  <1>0. /\ r \in 0 .. N - 1 /\ w \in 0 .. N - 1 /\ N \in Nat /\ N > 1 /\ r # w
        /\ got' = kbd_buf[r]
    BY KbdAssumption DEF GetcharAdvance, Goto, IInv, Types, GetcharInv, Slots
  <1>1. UNCHANGED <<kbd_buf, kbd_buf_write>> /\ kbd_buf_read' = IF r = N - 1 THEN 0 ELSE r + 1
    BY FollowingFacts DEF GetcharAdvance, IInv, Types
  <1>2. ContentsView /\ ContentsView'
    <2>1. Types' => ContentsView'
      BY ContentsFacts, PTL
    <2>2. QED
      BY <2>1, ContentsFacts DEF IInv
  <1>3. Unread \in Nat /\ Unread > 0 /\ Unread' = Unread - 1
    BY <1>0, <1>1, <1>2 DEF ContentsView
  <1>4. /\ Contents \in Seq(Codes \cup {None}) /\ Len(Contents) = Unread
        /\ Contents' \in Seq(Codes \cup {None}) /\ Len(Contents') = Unread'
    BY <1>2 DEF ContentsView
  <1>5. Contents[1] = kbd_buf[r]
    <2>1. (r + 1 - 1) % N = r
      BY <1>0, RingMod
    <2>2. QED
      BY <1>3, <2>1, ContentsAt
  <1>6. ASSUME NEW i \in 1 .. Unread' PROVE Contents'[i] = Contents[i + 1]
    <2>1. i + 1 \in 1 .. Unread
      BY <1>3
    <2>2. Contents'[i] = kbd_buf[(kbd_buf_read' + i - 1) % N]
      BY <1>1 DEF Contents
    <2>3. Contents[i + 1] = kbd_buf[(r + (i + 1) - 1) % N]
      BY <2>1, ContentsAt
    <2>4. (kbd_buf_read' + i - 1) % N =
            IF kbd_buf_read' + i - 1 < N THEN kbd_buf_read' + i - 1 ELSE kbd_buf_read' + i - 1 - N
      BY <1>2 DEF ContentsView
    <2>5. (r + (i + 1) - 1) % N =
            IF r + (i + 1) - 1 < N THEN r + (i + 1) - 1 ELSE r + (i + 1) - 1 - N
      BY <1>2, <2>1 DEF ContentsView
    <2>6. (kbd_buf_read' + i - 1) % N = (r + (i + 1) - 1) % N
      <3>1. Unread <= N - 1
        BY <1>0, <1>2 DEF ContentsView
      <3>2. QED
        BY <1>0, <1>1, <1>3, <2>1, <2>4, <2>5, <3>1
    <2>7. QED
      BY <2>2, <2>3, <2>6
  <1>7. Tail(Contents) \in Seq(Codes \cup {None}) /\ Len(Tail(Contents)) = Unread'
    BY <1>3, <1>4
  <1>8. \A i \in 1 .. Unread' : Tail(Contents)[i] = Contents[i + 1]
    BY <1>3, <1>4
  <1>9. Contents' = Tail(Contents)
    BY <1>4, <1>6, <1>7, <1>8
  <1>10. QED
    BY <1>0, <1>3, <1>4, <1>5, <1>9

\* Every step of the driver is a step of the queue or leaves it alone.
LEMMA StepRefines ==
  ASSUME IInv, IInv', [Next]_vars
  PROVE  [Queue!Next]_<<Contents, got>>
  <1>1. CASE GetcharAdvance
    BY <1>1, DeliverRefines DEF IInv, Queue!Next, Queue!Deliver
  <1>2. ASSUME UNCHANGED ring, UNCHANGED got PROVE UNCHANGED <<Contents, got>>
    BY <1>2 DEF ring, Contents, Unread
  <1>3. CASE MainStep /\ ~GetcharAdvance
    <2>1. UNCHANGED ring /\ UNCHANGED got
      BY <1>3 DEF MainStep, idt_init, kbd_init, kbd_enable, GetcharPoll, GetcharFetch
    <2>2. QED
      BY <1>2, <2>1
  <1>4. CASE PresentByte \/ (\E k \in Keys, release \in BOOLEAN : Type(k, release))
    <2>1. UNCHANGED ring /\ UNCHANGED got
      BY <1>4 DEF PresentByte, Type, main
    <2>2. QED
      BY <1>2, <2>1
  <1>5. CASE kbd_handler_main
    <2>1. UNCHANGED got
      BY <1>5 DEF kbd_handler_main, main
    <2>2. UNCHANGED ring \/ (\E k \in CharKeys \cup SpecialKeys : kbd_push(CodeOf(k)))
      BY <1>5 DEF kbd_handler_main, HandleByte, ring
    <2>3. CASE UNCHANGED ring
      BY <1>2, <2>1, <2>3
    <2>4. ASSUME NEW k \in CharKeys \cup SpecialKeys, kbd_push(CodeOf(k))
          PROVE  Queue!Next \/ UNCHANGED <<Contents, got>>
      <3>1. CodeOf(k) \in Codes
        BY CodeOfFacts
      <3>2. \/ UNCHANGED Contents
            \/ Len(Contents) < KBD_BUF_SIZE - 1 /\ Contents' = Append(Contents, CodeOf(k))
        BY <2>4, <3>1, PushRefines DEF IInv
      <3>3. QED
        BY <2>1, <3>1, <3>2 DEF Queue!Next, Queue!Push
    <2>5. QED
      BY <2>2, <2>3, <2>4
  <1>6. CASE UNCHANGED vars
    BY <1>2, <1>6 DEF vars, main
  <1>7. QED
    BY <1>1, <1>3, <1>4, <1>5, <1>6 DEF Next

\* The ring buffer with its handler and its reader behaves as the bounded queue:
\* the safety half of ImplementsKeyQueue.
THEOREM KbdRefinesQueue ==
  Spec => Queue!Init /\ [][Queue!Next]_<<Contents, got>>
  <1>1. Init => Queue!Init
    <2> SUFFICES ASSUME Init PROVE Contents = << >> /\ got \notin Codes
      BY DEF Queue!Init
    <2>1. Unread = 0
      <3>1. Types => ContentsView
        BY ContentsFacts
      <3>2. QED
        BY <3>1, InitIInv DEF Init, IInv, ContentsView
    <2>2. Contents = << >>
      <3>1. Len(Contents) = 0 /\ Contents \in Seq(Codes \cup {None})
        BY <2>1, ContentsFacts, InitIInv DEF IInv, ContentsView
      <3>2. QED
        BY <3>1
    <2>3. got \notin Codes
      BY DEF Init, None, Codes
    <2>4. QED
      BY <2>2, <2>3
  <1>2. IInv /\ IInv' /\ [Next]_vars => [Queue!Next]_<<Contents, got>>
    BY StepRefines
  <1>3. QED
    BY <1>1, <1>2, KbdInvariant, PTL DEF Spec
=============================================================================
