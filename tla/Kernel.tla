------------------------------- MODULE Kernel -------------------------------
(***************************************************************************)
(* The processor's view of the kernel (kernel/kernel.c, kernel/boot.asm):  *)
(* the order of kernel_main's start, the interrupt flag and the mask of    *)
(* the PIC, the timer, entry into ring 3 and back through int 0x80, and    *)
(* what becomes of the stack and of the data segments on the way.          *)
(*                                                                         *)
(* A kernel stack pointer is a stack, the one of _start or the one the TSS *)
(* names, and the number of frames on it.  Every interrupt handler is one  *)
(* step.  A program in ring 3 is any sequence of system calls and accesses *)
(* to its data.  What a command of the shell or a system call does to      *)
(* files, heap, pages or screen is the subject of the other modules.       *)
(***************************************************************************)
EXTENDS Integers

CONSTANTS KEYS,         \* keys the driver's buffer holds: KBD_BUF_SIZE - 1
          MaxTicks,     \* bound: timer interrupts
          MaxVisits     \* bound: programs started on one stack

ASSUME KernelAssumption ==
  KEYS \in Nat \ {0} /\ MaxTicks \in Nat /\ MaxVisits \in Nat

VARIABLES pc,
          interrupts,        \* the interrupt flag
          mask,              \* lines the PIC holds back
          paging,            \* CR0.PG
          jiffies,
          irq1,              \* the byte the keyboard asks for an interrupt for:
                             \* "none", a "char"acter or an"other", such as a shift
          keys,              \* keys in the driver's buffer
          ds,                \* what DS, ES, FS and GS select
          esp,               \* the kernel's stack
          kernel_esp_save,
          exit_requested,
          visits,            \* history: programs left behind on this stack
          called             \* history: the program in ring 3 has made a system call

devices == <<interrupts, mask, paging, jiffies, irq1, keys>>
ring == <<kernel_esp_save, exit_requested, visits, called>>
vars == <<pc, devices, ds, esp, ring>>

Goto(from, to) == pc = from /\ pc' = to
Push(sp, frames) == [sp EXCEPT !.depth = @ + frames]

BootStack == [stack |-> "boot", depth |-> 0]       \* 0x90000
TssStack == [stack |-> "tss", depth |-> 0]         \* default_tss.esp0

-----------------------------------------------------------------------------
(* The start.  Keys that come before kbd_enable are left to KbdDriver.     *)

\* cli, the stack, and the BSS set to zero, four bytes at each of as many steps
\* as it has bytes: past the 8 MB that are mapped onto themselves, which does no
\* harm before paging is on and is a page fault without a handler after.
Start ==
  /\ pc = "_start"
  /\ pc' = IF paging THEN "reset" ELSE "gdt_init"
  /\ interrupts' = FALSE
  /\ esp' = Push(BootStack, 1)
  /\ UNCHANGED <<mask, paging, jiffies, irq1, keys, ds, ring>>

gdt_init ==
  /\ Goto("gdt_init", "init_paging")
  /\ ds' = "kernel"
  /\ UNCHANGED <<devices, esp, ring>>

\* init_paging and the mappings after it.
init_paging ==
  /\ Goto("init_paging", "idt_init")
  /\ paging' = TRUE
  /\ UNCHANGED <<interrupts, mask, jiffies, irq1, keys, ds, esp, ring>>

\* Ends in load_idt, which sets the interrupt flag.
idt_init ==
  /\ Goto("idt_init", "pit_init")
  /\ mask' = {}                                     \* 0xFC
  /\ interrupts' = TRUE
  /\ UNCHANGED <<paging, jiffies, irq1, keys, ds, esp, ring>>

pit_init ==
  /\ Goto("pit_init", "unmask")
  /\ UNCHANGED <<devices, ds, esp, ring>>

\* write_port(0x21, read_port(0x21) & ~0x01) and sti
UnmaskTimer ==
  /\ Goto("unmask", "kbd_init")
  /\ mask' = mask \ {"timer"}
  /\ interrupts' = TRUE
  /\ UNCHANGED <<paging, jiffies, irq1, keys, ds, esp, ring>>

\* Faulty variant: only the keyboard's bit of the mask is written.
KbdInitKeepsOthers ==
  /\ Goto("kbd_init", "kbd_enable")
  /\ mask' = mask \ {"keyboard"}
  /\ UNCHANGED <<interrupts, paging, jiffies, irq1, keys, ds, esp, ring>>

\* 0xFD leaves the keyboard alone unmasked.
kbd_init ==
  /\ Goto("kbd_init", "kbd_enable")
  /\ mask' = {"timer"}
  /\ UNCHANGED <<interrupts, paging, jiffies, irq1, keys, ds, esp, ring>>

\* kbd_enable, the heap, the file system and the shell, whose loop is called.
kbd_enable ==
  /\ Goto("kbd_enable", "prompt")
  /\ esp' = Push(esp, 1)
  /\ UNCHANGED <<devices, ds, ring>>

Booting == {"_start", "gdt_init", "init_paging", "idt_init", "pit_init", "unmask",
            "kbd_init", "kbd_enable"}
Boot == \/ Start \/ gdt_init \/ init_paging \/ idt_init \/ pit_init
        \/ UnmaskTimer \/ kbd_init \/ kbd_enable

-----------------------------------------------------------------------------
(* Interrupts.  The gates of both handlers clear the interrupt flag until  *)
(* they return.  The handlers use the data segments they find.             *)

Running == pc \notin {"reset", "off"}

timer_handler ==
  /\ Running /\ interrupts /\ "timer" \notin mask /\ jiffies < MaxTicks
  /\ jiffies' = jiffies + 1
  /\ UNCHANGED <<pc, interrupts, mask, paging, irq1, keys, ds, esp, ring>>

PressKey ==
  /\ Running /\ pc \notin Booting /\ irq1 = "none"
  /\ irq1' \in {"char", "other"}
  /\ UNCHANGED <<pc, interrupts, mask, paging, jiffies, keys, ds, esp, ring>>

kbd_push(n) == IF n < KEYS THEN n + 1 ELSE n

\* Shift keys, releases and unmapped keys push nothing.  A hlt ends with the first
\* interrupt; what follows the one in syscall_handler is _start.
kbd_handler ==
  /\ Running /\ interrupts /\ "keyboard" \notin mask /\ irq1 # "none"
  /\ irq1' = "none"
  /\ keys' = IF irq1 = "char" THEN kbd_push(keys) ELSE keys
  /\ pc' = CASE ds = "null" -> "reset"
             [] pc = "hlt"  -> "_start"
             [] OTHER       -> pc
  /\ UNCHANGED <<interrupts, mask, paging, jiffies, ds, esp, ring>>

-----------------------------------------------------------------------------
(* The shell, as far as the stack goes: lsh_loop waits for keys and calls  *)
(* a command.                                                              *)

ReadLine ==
  /\ keys > 0 /\ keys' = keys - 1
  /\ Goto("prompt", "command")
  /\ esp' = Push(esp, 1)
  /\ UNCHANGED <<interrupts, mask, paging, jiffies, irq1, ds, ring>>

Command ==
  /\ Goto("command", "prompt")
  /\ esp' = Push(esp, -1)
  /\ UNCHANGED <<devices, ds, ring>>

\* lsh_shutdown switches the machine off; where that fails it may return 0: the
\* loop returns to kernel_main's while (1), or to the hlt if an exit called it.
Shutdown ==
  /\ pc = "command"
  /\ pc' \in {"off", IF esp = Push(BootStack, 3) THEN "spin" ELSE "hlt"}
  /\ esp' = Push(esp, -2)
  /\ UNCHANGED <<devices, ds, ring>>

-----------------------------------------------------------------------------
(* Ring 3.                                                                 *)

\* Faulty variant: the data segments are left as they are.  iret takes away the
\* ones ring 3 may not use.
JumpUnprepared(from) ==
  /\ Goto(from, "ring3")
  /\ kernel_esp_save' = Push(esp, 1)
  /\ ds' = "null"
  /\ called' = FALSE

\* jump_to_userspace, jump_to_shell and jump_to_editor: save the stack of the
\* kernel, load the data segments of ring 3 and iret.
Jump(from) ==
  /\ Goto(from, "ring3")
  /\ kernel_esp_save' = Push(esp, 1)
  /\ ds' = "user"
  /\ called' = FALSE

lsh_ring3 ==
  /\ visits < MaxVisits
  /\ Jump("command")
  /\ UNCHANGED <<devices, esp, exit_requested, visits>>

\* The program reads or writes its data: a general protection fault, without a
\* handler, when the segment is gone.
TouchData ==
  /\ pc = "ring3" /\ ds = "null"
  /\ pc' = "reset"
  /\ UNCHANGED <<devices, ds, esp, ring>>

\* Faulty variant: the gate is an interrupt gate, as the other two are.
SyscallMasked ==
  /\ Goto("ring3", "dispatch")
  /\ ds' = "kernel" /\ interrupts' = FALSE
  /\ esp' = Push(TssStack, 2)
  /\ called' = TRUE
  /\ UNCHANGED <<mask, paging, jiffies, irq1, keys, kernel_esp_save, exit_requested, visits>>

\* int 0x80 through a trap gate: the interrupt flag stays; the frames are the
\* processor's with the registers', and syscall_dispatch's.
syscall_handler ==
  /\ Goto("ring3", "dispatch")
  /\ ds' = "kernel"
  /\ esp' = Push(TssStack, 2)
  /\ called' = TRUE
  /\ UNCHANGED <<devices, kernel_esp_save, exit_requested, visits>>

\* syscall_dispatch.  Every number but 0, 2 and 13 does its work and returns.
SysExit ==
  /\ Goto("dispatch", "return")
  /\ exit_requested' = TRUE
  /\ UNCHANGED <<devices, ds, esp, kernel_esp_save, visits, called>>

SysGetchar ==
  /\ Goto("dispatch", "getchar")
  /\ UNCHANGED <<devices, ds, esp, ring>>

\* jump_to_editor from within the system call: its stack becomes the kernel's.
SysExecEditor ==
  /\ Jump("dispatch")
  /\ visits' = 0
  /\ UNCHANGED <<devices, esp, exit_requested>>

SysOther ==
  /\ Goto("dispatch", "return")
  /\ UNCHANGED <<devices, ds, esp, ring>>

kbd_getchar ==
  /\ keys > 0 /\ keys' = keys - 1
  /\ Goto("getchar", "return")
  /\ UNCHANGED <<interrupts, mask, paging, jiffies, irq1, ds, esp, ring>>

\* popa and iretd.  The processor clears the segment registers that still select
\* the kernel's segments.
SyscallReturn ==
  /\ ~exit_requested
  /\ Goto("return", "ring3")
  /\ ds' = "null"
  /\ UNCHANGED <<devices, esp, ring>>

\* Faulty variant: the loop is called on the stack of the system call.
ExitOnTssStack ==
  /\ exit_requested /\ exit_requested' = FALSE
  /\ Goto("return", "prompt")
  /\ ds' = "kernel"
  /\ esp' = Push(esp, 1)
  /\ visits' = visits + 1
  /\ UNCHANGED <<devices, kernel_esp_save, called>>

\* .do_exit: a new lsh_loop on top of the frames the program was started from.
\* (After SysExecEditor these are the ones of the system call.)
do_exit ==
  /\ exit_requested /\ exit_requested' = FALSE
  /\ Goto("return", "prompt")
  /\ ds' = "kernel"
  /\ esp' = Push(kernel_esp_save, 1)
  /\ visits' = IF kernel_esp_save = Push(TssStack, 3) THEN 0 ELSE visits + 1
  /\ UNCHANGED <<devices, kernel_esp_save, called>>

syscall_dispatch == SysExit \/ SysGetchar \/ SysExecEditor \/ SysOther

-----------------------------------------------------------------------------
Init ==
  /\ pc = "_start"
  /\ interrupts \in BOOLEAN /\ mask = {"timer", "keyboard"} /\ paging = FALSE
  /\ jiffies = 0 /\ irq1 = "none" /\ keys = 0
  /\ ds = "kernel" /\ esp = BootStack
  /\ kernel_esp_save = BootStack /\ exit_requested = FALSE
  /\ visits = 0 /\ called = FALSE

KernelStep ==
  \/ Boot \/ ReadLine \/ Command \/ Shutdown \/ lsh_ring3
  \/ syscall_dispatch \/ kbd_getchar \/ SyscallReturn \/ do_exit

Next ==
  \/ KernelStep
  \/ timer_handler \/ PressKey \/ kbd_handler
  \/ TouchData \/ syscall_handler

\* The processor executes the kernel's code and takes interrupts that are
\* enabled.  Nobody has to press a key, no program has to do anything.
Spec == Init /\ [][Next]_vars /\ WF_vars(KernelStep) /\ WF_vars(kbd_handler)

-----------------------------------------------------------------------------
\* The shell and the system calls work with the kernel's segments (a handler that
\* interrupts ring 3 works with the program's, or with none); a program has its
\* own from its start until its first system call returns; and the machine is
\* only lost when the last program has made a system call.
SegmentsInPlace ==
  /\ pc \notin {"ring3", "reset"} => ds = "kernel"
  /\ pc = "ring3" => ds = (IF called THEN "null" ELSE "user")
  /\ pc = "reset" => called

\* "shared memory - both editor and shell can see this": a program in ring 3 can
\* reach its data through DS and ES, before and after its system calls.  (Its
\* stack it reaches through SS, which iretd gives back.)
ProgramHasData == pc = "ring3" => ds = "user"

\* A visit to ring 3 costs the kernel's stack the frames of the loop, the command
\* and the jump it was left from, and no more, however the program ended; an
\* editor started by a system call moves the shell to the stack of the TSS.
StackCost ==
  pc = "prompt" =>
    esp.depth = (IF esp.stack = "boot" THEN 2 ELSE 4) + 3 * visits

\* The timer kernel_main unmasks is masked again by kbd_init: once the shell runs
\* uptime() stands still.
UptimeStandsStill == [][pc \notin Booting => jiffies' = jiffies]_vars

\* Whoever waits for a key, the shell or a system call, is woken by the first
\* byte that is a character: the handler can run while kbd_getchar waits.
KeyEndsWait ==
  \A wait \in {"prompt", "getchar"} : (pc = wait /\ irq1 = "char") ~> (pc # wait)
=============================================================================
