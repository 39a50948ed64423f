---------------------------- MODULE KernelProofs ----------------------------
(***************************************************************************)
(* Theorems about Kernel: which data segments are loaded where, what a     *)
(* visit to ring 3 costs the stack, and that the timer is masked for good. *)
(***************************************************************************)
EXTENDS Kernel, TLAPS

States == Booting \cup {"prompt", "command", "ring3", "dispatch", "getchar", "return",
                        "spin", "hlt", "off", "reset"}

StackPointers == [stack : {"boot", "tss"}, depth : Int]

TypeOK ==
  /\ pc \in States
  /\ paging \in BOOLEAN
  /\ esp \in StackPointers /\ kernel_esp_save \in StackPointers
  /\ visits \in Nat

\* Frames below the first loop of a stack: those of kernel_main and the loop, or
\* those of a system call, the jump it was left by and the loop.
Base(sp) == IF sp.stack = "boot" THEN 2 ELSE 4

InSystemCall == {"dispatch", "getchar", "return"}

\* The depth of the stack at every point where it is used again: in the shell,
\* in a system call, and in what jump_to_* has saved for the exit.
StackInv ==
  /\ pc \in Booting \ {"_start"} => esp = Push(BootStack, 1)
  /\ pc = "prompt" => esp.depth = Base(esp) + 3 * visits
  /\ pc = "command" => esp.depth = Base(esp) + 3 * visits + 1
  /\ pc \in InSystemCall => esp = Push(TssStack, 2)
  /\ pc \in InSystemCall \cup {"ring3"} =>
       \/ kernel_esp_save = Push(TssStack, 3) /\ visits = 0
       \/ kernel_esp_save.depth = Base(kernel_esp_save) + 3 * visits + 2

\* _start is reached with paging on only from the hlt; every loop but the first
\* was started by a system call.
BootInv ==
  /\ pc \in {"_start", "gdt_init", "init_paging"} \/ paging
  /\ pc \in {"gdt_init", "init_paging"} => ~paging
  /\ pc \in Booting => visits = 0 \/ (pc = "_start" /\ paging)
  /\ pc = "_start" /\ paging => called
  /\ pc \in InSystemCall \cup {"hlt"} => called
  /\ pc \in {"prompt", "command"} => called \/ (esp.stack = "boot" /\ visits = 0)

\* From kbd_init on the timer is masked.
MaskInv == pc \notin (Booting \ {"kbd_enable"}) => "timer" \in mask \/ pc = "reset"

IInv == TypeOK /\ StackInv /\ BootInv /\ MaskInv /\ SegmentsInPlace

-----------------------------------------------------------------------------
\* Two stack pointers with the same stack and depth are the same.
LEMMA SamePointer ==
  ASSUME NEW sp \in StackPointers, NEW sq \in StackPointers,
         sp.stack = sq.stack, sp.depth = sq.depth
  PROVE  sp = sq
  BY DEF StackPointers

\* The stacks of _start and of the TSS, when frames are on them.
LEMMA FirstStacks ==
  /\ BootStack \in StackPointers /\ BootStack.stack = "boot" /\ BootStack.depth = 0
  /\ TssStack \in StackPointers /\ TssStack.stack = "tss" /\ TssStack.depth = 0
  BY DEF BootStack, TssStack, StackPointers

\* The state GRUB enters _start in satisfies the invariant.
LEMMA InitIInv == Init => IInv
  <1> SUFFICES ASSUME Init PROVE IInv
    OBVIOUS
  <1> USE DEF Init, States, Booting, InSystemCall
  <1>1. TypeOK
    BY FirstStacks DEF TypeOK
  <1>2. StackInv
    BY DEF StackInv
  <1>3. BootInv /\ MaskInv
    BY DEF BootInv, MaskInv
  <1>4. SegmentsInPlace
    BY DEF SegmentsInPlace
  <1>5. QED
    BY <1>1, <1>2, <1>3, <1>4 DEF IInv

\* The steps of kernel_main's start.
LEMMA BootIInv == ASSUME IInv, Boot PROVE IInv'
  <1> USE FirstStacks DEF IInv, TypeOK, StackInv, BootInv, MaskInv, SegmentsInPlace, States,
        Booting, InSystemCall, Goto, devices, ring
  <1>0. /\ Push(BootStack, 1) \in StackPointers
        /\ Push(BootStack, 1).stack = "boot" /\ Push(BootStack, 1).depth = 1
    BY DEF Push, StackPointers, BootStack
  <1>1. CASE Start
    BY <1>0, <1>1 DEF Start
  <1>2. CASE gdt_init
    BY <1>2 DEF gdt_init
  <1>3. CASE init_paging
    BY <1>3 DEF init_paging
  <1>4. CASE idt_init
    BY <1>4 DEF idt_init
  <1>5. CASE pit_init
    BY <1>5 DEF pit_init
  <1>6. CASE UnmaskTimer
    BY <1>6 DEF UnmaskTimer
  <1>7. CASE kbd_init
    BY <1>7 DEF kbd_init
  <1>8. CASE kbd_enable
    <2>1. esp' \in StackPointers /\ esp'.stack = "boot" /\ esp'.depth = 2
      BY <1>0, <1>8 DEF kbd_enable, Push, StackPointers
    <2>2. QED
      BY <2>1, <1>8 DEF kbd_enable, Base
  <1>9. QED
    BY <1>1, <1>2, <1>3, <1>4, <1>5, <1>6, <1>7, <1>8 DEF Boot

\* The handlers, whatever they interrupt.
LEMMA InterruptIInv ==
  ASSUME IInv, timer_handler \/ PressKey \/ kbd_handler
  PROVE  IInv'
  <1> USE DEF IInv, TypeOK, StackInv, BootInv, MaskInv, SegmentsInPlace, States,
        Booting, InSystemCall, ring, Base
  <1>1. CASE timer_handler
    BY <1>1 DEF timer_handler
  <1>2. CASE PressKey
    BY <1>2 DEF PressKey
  <1>3. CASE kbd_handler
    <2>1. CASE ds = "null"
      BY <1>3, <2>1 DEF kbd_handler, Running
    <2>2. CASE ds # "null" /\ pc = "hlt"
      BY <1>3, <2>2 DEF kbd_handler
    <2>3. CASE ds # "null" /\ pc # "hlt"
      BY <1>3, <2>3 DEF kbd_handler
    <2>4. QED
      BY <2>1, <2>2, <2>3
  <1>4. QED
    BY <1>1, <1>2, <1>3

\* The shell's own steps.
LEMMA ShellIInv ==
  ASSUME IInv, ReadLine \/ Command \/ Shutdown
  PROVE  IInv'
  <1> USE DEF IInv, TypeOK, StackInv, BootInv, MaskInv, SegmentsInPlace, States,
        Booting, InSystemCall, Goto, devices, ring, Base
  <1>1. CASE ReadLine
    <2>1. esp' \in StackPointers /\ esp'.stack = esp.stack /\ esp'.depth = esp.depth + 1
      BY <1>1 DEF ReadLine, Push, StackPointers
    <2>2. QED
      BY <1>1, <2>1 DEF ReadLine
  <1>2. CASE Command
    <2>1. esp' \in StackPointers /\ esp'.stack = esp.stack /\ esp'.depth = esp.depth - 1
      BY <1>2 DEF Command, Push, StackPointers
    <2>2. QED
      BY <1>2, <2>1 DEF Command
  <1>3. CASE Shutdown
    <2>1. esp' \in StackPointers
      BY <1>3 DEF Shutdown, Push, StackPointers
    <2>2. ~called => esp = Push(BootStack, 3)
      <3> SUFFICES ASSUME ~called PROVE esp = Push(BootStack, 3)
        OBVIOUS
      <3>1. esp.stack = "boot" /\ esp.depth = 3
        BY <1>3 DEF Shutdown
      <3>2. /\ Push(BootStack, 3) \in StackPointers
            /\ Push(BootStack, 3).stack = "boot" /\ Push(BootStack, 3).depth = 3
        BY DEF Push, StackPointers, BootStack, TssStack
      <3>3. QED
        BY <3>1, <3>2, SamePointer
    <2>3. pc' \in {"off", "spin", "hlt"} /\ (pc' = "hlt" => called)
      BY <1>3, <2>2 DEF Shutdown
    <2>4. QED
      BY <1>3, <2>1, <2>3 DEF Shutdown
  <1>4. QED
    BY <1>1, <1>2, <1>3

\* Into ring 3, from the shell or from within a system call.
LEMMA JumpIInv ==
  ASSUME IInv, lsh_ring3 \/ SysExecEditor
  PROVE  IInv'
  <1> USE DEF IInv, TypeOK, StackInv, BootInv, MaskInv, SegmentsInPlace, States,
        Booting, InSystemCall, Goto, devices, Base, Jump
  <1>0. /\ Push(esp, 1) \in StackPointers
        /\ Push(esp, 1).stack = esp.stack /\ Push(esp, 1).depth = esp.depth + 1
    BY DEF Push, StackPointers, BootStack
  <1>1. CASE lsh_ring3
    BY <1>0, <1>1 DEF lsh_ring3
  <1>2. CASE SysExecEditor
    <2>1. /\ Push(TssStack, 2) \in StackPointers
          /\ Push(TssStack, 2).stack = "tss" /\ Push(TssStack, 2).depth = 2
          /\ Push(TssStack, 3) \in StackPointers
          /\ Push(TssStack, 3).stack = "tss" /\ Push(TssStack, 3).depth = 3
      BY DEF Push, StackPointers, BootStack, TssStack
    <2>2. esp = Push(TssStack, 2)
      BY <1>2 DEF SysExecEditor
    <2>3. kernel_esp_save' = Push(TssStack, 3)
      BY <1>0, <1>2, <2>1, <2>2, SamePointer DEF SysExecEditor
    <2>4. QED
      BY <1>2, <2>1, <2>3 DEF SysExecEditor
  <1>3. QED
    BY <1>1, <1>2

\* A system call, from the trap to the return or the exit.
LEMMA SyscallIInv ==
  ASSUME IInv,
         \/ TouchData \/ syscall_handler \/ SysExit \/ SysGetchar \/ SysOther
         \/ kbd_getchar \/ SyscallReturn \/ do_exit
  PROVE  IInv'
  <1> USE DEF IInv, TypeOK, StackInv, BootInv, MaskInv, SegmentsInPlace, States,
        Booting, InSystemCall, Goto, devices, Base
  <1>0. /\ Push(TssStack, 2) \in StackPointers
        /\ Push(TssStack, 3) \in StackPointers
        /\ Push(TssStack, 3).stack = "tss" /\ Push(TssStack, 3).depth = 3
    BY DEF Push, StackPointers, BootStack, TssStack
  <1>1. CASE TouchData
    BY <1>1 DEF TouchData, ring
  <1>2. CASE syscall_handler
    BY <1>0, <1>2 DEF syscall_handler
  <1>3. CASE SysExit
    BY <1>3 DEF SysExit
  <1>4. CASE SysGetchar
    BY <1>4 DEF SysGetchar, ring
  <1>5. CASE SysOther
    BY <1>5 DEF SysOther, ring
  <1>6. CASE kbd_getchar
    BY <1>6 DEF kbd_getchar, ring
  <1>7. CASE SyscallReturn
    BY <1>7 DEF SyscallReturn, ring
  <1>8. CASE do_exit
    <2>1. /\ esp' \in StackPointers
          /\ esp'.stack = kernel_esp_save.stack /\ esp'.depth = kernel_esp_save.depth + 1
      BY <1>8 DEF do_exit, Push, StackPointers
    <2>2. CASE kernel_esp_save = Push(TssStack, 3)
      BY <1>0, <1>8, <2>1, <2>2 DEF do_exit
    <2>3. CASE kernel_esp_save # Push(TssStack, 3)
      BY <1>8, <2>1, <2>3 DEF do_exit
    <2>4. QED
      BY <2>2, <2>3
  <1>9. QED
    BY <1>1, <1>2, <1>3, <1>4, <1>5, <1>6, <1>7, <1>8

\* No step of the machine breaks the invariant.
LEMMA NextIInv == IInv /\ [Next]_vars => IInv'
  <1> SUFFICES ASSUME IInv, [Next]_vars PROVE IInv'
    OBVIOUS
  <1>1. CASE Next
    BY <1>1, BootIInv, InterruptIInv, ShellIInv, JumpIInv, SyscallIInv
    DEF Next, KernelStep, syscall_dispatch
  <1>2. CASE UNCHANGED vars
    BY <1>2 DEF IInv, TypeOK, StackInv, BootInv, MaskInv, SegmentsInPlace, vars, devices, ring,
                Base
  <1>3. QED
    BY <1>1, <1>2

\* The invariant holds for any number of keys, ticks and programs.
THEOREM KernelInvariant == Spec => []IInv
  BY InitIInv, NextIInv, PTL DEF Spec

\* Kernel code never works with a program's segments, a program has its own until
\* its first system call returns, and the machine is only lost after such a
\* return or when a loop that an exit started has ended.
THEOREM KernelSegments == Spec => []SegmentsInPlace
  <1>1. IInv => SegmentsInPlace
    BY DEF IInv
  <1>2. QED
    BY <1>1, KernelInvariant, PTL

\* However many programs were started and however they ended, each has cost the
\* stack of the kernel three frames.
THEOREM KernelStackCost == Spec => []StackCost
  <1>1. IInv => StackCost
    BY DEF IInv, StackInv, StackCost, Base
  <1>2. QED
    BY <1>1, KernelInvariant, PTL

\* Once the shell runs, no step moves jiffies: the timer kernel_main unmasked was
\* masked again by kbd_init.
THEOREM KernelUptime == Spec => UptimeStandsStill
  <1>1. IInv /\ [Next]_vars => [pc \notin Booting => jiffies' = jiffies]_vars
    <2> SUFFICES ASSUME IInv, [Next]_vars, pc \notin Booting PROVE jiffies' = jiffies
      OBVIOUS
    <2>1. CASE timer_handler
      BY <2>1 DEF IInv, MaskInv, timer_handler, Running
    <2>2. CASE Next /\ ~timer_handler
      BY <2>2 DEF Next, KernelStep, Boot, Start, gdt_init, init_paging, idt_init, pit_init,
        UnmaskTimer, kbd_init, kbd_enable, PressKey, kbd_handler, ReadLine, Command, Shutdown,
        lsh_ring3, TouchData, syscall_handler, syscall_dispatch, SysExit, SysGetchar,
        SysExecEditor, SysOther, kbd_getchar, SyscallReturn, do_exit, devices
    <2>3. CASE UNCHANGED vars
      BY <2>3 DEF vars, devices
    <2>4. QED
      BY <2>1, <2>2, <2>3
  <1>2. QED
    BY <1>1, KernelInvariant, PTL DEF Spec, UptimeStandsStill
=============================================================================
