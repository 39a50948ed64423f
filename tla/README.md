# TLA+ models of ShedKernel

ShedKernel is a small 32-bit x86 kernel: it boots from GRUB, sets up paging,
interrupts, a keyboard driver, a heap and a file system in memory, and runs a
shell in ring 0 from which a text editor and programs in ring 3 are started.
This directory models the parts of it that keep state, checks them with TLC on
small instances and, with TLAPS, proves nearly all of the safety properties for
every size of the parts.

## The system

| part | source | state | operations | hard because |
|---|---|---|---|---|
| heap | `kernel/mm.c` | list of headers inside one arena | `malloc`, `mem_free`, `realloc` | long sequences of splits and merges; exact fits |
| keyboard driver | `drivers/kbd_driver.c` | ring buffer, `shift_held`, `enabled` | IRQ1 handler, `kbd_getchar`, `kbd_init`, `kbd_enable` | the handler interrupts the reader anywhere; buffer full; interrupts before the driver is enabled |
| file system | `fs/easyfs.c` | bitmap, free count, directory, blocks | create, delete, read, write | metadata in three places; sizes and names at their limits; clients that look a name up twice |
| editor | `fs/ed.c` | rows, cursor, scroll offsets, mode, dirty flag, yank buffer | one per key, open, save, refresh | any sequence of keys; cursor against text; dirty against file; text against screen |
| shell | `kernel/Shell.c`, `strtok` of `kernel/string.h` | line buffer, token table, `___strtok` | read and echo, split, execute | allocations that fail half way; ring 3 leaves the loop for good |
| console | `kernel/kprintf.c` | video memory, `current_loc` | `kprintf`, newline, clear, `kvga_*` | nothing scrolls or checks an end; precisions are ignored |
| page frames and user pages | `kernel/mm.c`, `kernel/kernel.c` | next free frame, page directory, tables, user heap end | boot mappings, `map_user_page`, `sbrk` | running out; unaligned ends |
| boot, interrupts, system calls, ring 3 | `kernel/kernel.c`, `kernel/boot.asm` | interrupt flag, PIC mask, segments, stack, `kernel_esp_save`, `exit_requested`, `jiffies` | `kernel_main`, handlers, `syscall_dispatch`, `jump_to_*` | stacks that are abandoned; registers left over by the other side; the order of the start |
| time | `kernel/time.c` | none | `kernel_mktime` | leap years |
| user programs | `user/` | their own | system calls | modelled as any sequence of calls |
| graphics, ACPI, driver template | `drivers/vga13.c`, `drivers/acpi.h`, `kernel/template.c` | none | | not modelled |

How they meet: the shell and the editor call `kbd_getchar` and wait; the
handler fills the ring buffer behind their back.  The shell keeps its line and
tokens on the heap, the editor its rows.  `edit` runs the editor on a file,
`touch` and `del` change the directory; system calls reach the same functions
from ring 3.  There is one thread of kernel code and two interrupt handlers; the
keyboard handler is the only one that shares data with it.  Nothing survives a
reboot: the disk is an array.

What makes each part correct:

* heap: the list tiles the arena, free neighbours are merged, used blocks are
  exactly the held ones, contents survive other callers' operations;
* keyboard: first in, first out, nothing lost once it is in, everything
  delivered; every byte the controller presents is read;
* file system: one owner per block, bitmap = directory, a file reads back what
  was written to it if it was less than a block, a text the editor was told to
  save is in its file as far as one block goes;
* editor: cursor inside the text, the screen shows the text, dirty whenever the
  text has lost a row of the file (the code promises more, see `editor_dirty`),
  save and open are inverses as far as a block goes;
* shell: buffers never overrun, the echo is the line, the command gets the words
  of the line, line and tokens are given back once on every path to the prompt;
* paging: no frame behind two pages, a page leads to its own frame, the heap is
  mapped when `sbrk` returns;
* kernel: each side of a system call finds its segments, a program that ends
  costs no more stack than it must, a key ends every wait.

## Modules

| module | models | state and actions |
|---|---|---|
| `Allocator` | what callers of `malloc` may rely on | `live`: pointer to contents |
| `Heap` | `mm.c` 75-208 | `node`: the linked headers, by address; `held`: pointers callers own; `mem`: cells. One action per function |
| `HeapProofs`, `KbdProofs`, `FileClientsProofs`, `EditorProofs`, `ShellProofs`, `PagingProofs`, `KernelProofs`, `KTimeProofs` | theorems about the module of that name (`KbdDriver` for `KbdProofs`) | each defines its inductive invariant `IInv` |
| `KeyQueue` | what readers of the keyboard may rely on | `queue`, `got` |
| `KbdDriver` | `kbd_driver.c`, `idt_init` | the driver's variables by name; the handler is one step (interrupt gate), `kbd_getchar` three; external: the person (`Type`) and the controller (`PresentByte`) |
| `FileStore` | what callers of the file system may rely on | `store`: name to size and contents |
| `EasyFS` | `easyfs.c` | bitmap, free count, directory entries field by field, blocks |
| `FileClients` | `EasyFS` under the shell, the file system calls and the editor's sessions | adds who is running, and the editor's name, text and dirty flag; keys that mark the text (`Edit`) and keys that do not (`AddRow`); a save is two steps, as in `editorSave` |
| `Editor` | `ed.c` | `E` is the global of that name as a record; an operator per function of `ed.c`; an action is a key and the refresh after it |
| `EditorScreen` | the drawing functions of `ed.c`, on `Console` | no variables: the screen is a function of `E` |
| `Console` | `kprintf.c` | operators on a screen, a record of cells and cursor |
| `Shell` | `Shell.c`, `strtok`, on `Console`; sessions of the editor, the way to ring 3 and back | line, tokens, `___strtok`, screen, live blocks, blocks left behind, visits to ring 3 |
| `Paging` | frame allocator, mappings, `sbrk`; external: the processor's TLB (`Touch`, `Forget`) | directory, tables by frame, the pages still to map, the translations the processor remembers |
| `Kernel` | `kernel_main`, `boot.asm`, interrupts, system calls | interrupt flag, mask, data segments, stack and its depth |
| `KTime` | `time.c` | a walk along the calendar that evaluates `kernel_mktime` |
| `MCHeap`, `MCKbd`, `MCEasyFS`, `MCEditor`, `MCPaging` | constants for TLC | |

Abstractions worth knowing.

* Heap.  An address is an offset, a header takes `NodeSize` cells marked as
  header, so that a store on a header is visible.  `mem_free` is called once per
  block held, as the callers in this repository do.
* Files.  Names are values and `Stored` says what the directory keeps of a name
  (`MAX_FILENAME_LEN - 1` is 15 characters).  Block k of a buffer of v's is
  `<<v, k>>`.  In `FileClients` a text is the one block it makes and a flag, `rest`,
  for what it has beyond; a save drops the rest and clears `dirty`, as the code does.
* Editor.  A command line is chosen when it is entered, `dd` and `yy` are one key
  each, a failed creation of the file is a choice, and rows are values: an
  allocation that fails in the editor is not modelled.  Where `ed.c` would take a
  row past the text the editor goes `astray` and the model stops, since what it
  then reads and writes is no row.
* Screen.  Colours are left out.  `ScreenShowsText` draws each state onto a
  screen full of something else, with every character of the text replaced by
  its place and with several contents of the memory behind a row; drawing reads
  nothing else, so this is what any sequence of refreshes leaves.
* Shell.  A character is a word's or a delimiter's, every allocation may fail,
  what a command prints is some lines, and `lsh_shutdown`, which returns no
  value, lets the loop go on or end.  `edit` is two steps, into the editor and out
  of it, and leaves any number of blocks behind, up to `MaxDropped` in all.
  `MaxLoc` keeps the screen finite: no prompt is drawn behind it.
* Paging.  Tables that `map_user_page` takes without clearing them start with
  any contents.  The model stops when a table lies outside the identity mapping.
  `map_user_page` rewrites entries without `invlpg`, so the processor may go on
  with an old translation: any mapped user page may be touched and forgotten at
  any time.  Pages that nobody mapped are not touched, and entries the processor
  might fetch for them by speculation are left out.
* Kernel.  A stack pointer is a stack and a number of frames.  A program is any
  sequence of system calls and accesses to its data.  A handler is one step, and
  a byte from the keyboard is a character or one that puts none in the buffer.

Operators commented "Faulty variant" are not part of any specification.  Each
changes one definition the way a slip in the code would, and is the input of a
mutation run that shows that the property named in `PROJECT.json` notices it.

## Runs

| run | bounds | result |
|---|---|---|
| `heap` | 11 cells, headers of 2, requests of 0, 1, 2, 4 | all properties hold; refines `Allocator` |
| `keyboard` | ring of 3 slots, one key of each kind, both shift keys, one byte held back by the keyboard | all hold; refines `KeyQueue`, with its fairness |
| `easyfs` | 3 data blocks, 2 directory entries, 3 names of which one is cut to another, sizes up to more than two blocks, the editor among the clients | all hold |
| `easyfs_store` | 2 entries, 3 names that fit, writes below a block, the same clients | refines `FileStore` |
| `easyfs_names` | as `easyfs` | `NamesUnique` fails: a name that is cut can be created twice |
| `editor` | 2 rows of 4 characters on a screen of 2 by 3, files of up to 5 characters; missing, empty, unterminated and overlong files | all hold |
| `editor_dirty` | 3 rows of 2 characters | `CleanMeansSaved` fails: `o`, `O` and `p` leave `dirty` at 0 |
| `shell` | lines of up to 3 characters, buffers grown once and token tables twice, a screen of 2 by 3, one visit to ring 3, one block left behind | all hold |
| `paging` | 2 addresses to a page, 2 pages to a table, 8 frames, 5 of them inside the identity mapping | all hold, up to exhaustion and beyond it |
| `kernel` | 2 keys in the driver's buffer, 3 timer interrupts, 2 programs per stack | all hold |
| `kernel_data` | the same | `ProgramHasData` fails: `iretd` leaves ring 3 without data segments |
| `mktime` | every day from 1970 to 2037 | `SecondsSince1970` fails: on 1 March 1970 the result is a day ahead |

Why the bounds are enough.  The heap's arena holds five headers, so a block can
have a free and a used neighbour on either side, candidates can tie, blocks are
handed out whole with and without slack and memory runs out; the theorems remove
the bound, here and for the other components.  A ring of three slots is empty, partly full, full and wraps.  Two
directory entries and three blocks make either one the resource that runs out.
The editor's rows are longer than its screen is wide, so that it scrolls both
ways and a row runs on into the lines below; with 2 rows and the line after the
text it scrolls down too, and 2 rows of 4 outgrow the file.  A line of the shell
with its prompt crosses the end of a screen line, prompts come below the last
line, a table of one entry is grown by every token, and a line can have a token
in the middle of delimiters or two tokens.  The paging instance leaves the heap
fewer frames than it may ask for: on some paths they run out, with a table at frame 0,
on others a table lies too high; and a page the heap ended in is mapped anew while
the processor still remembers its old frame.  Two programs on a stack are enough to see that
a second visit costs what the first did, and the first `jiffies` of the three are
spent before `kbd_init`.

Deadlock is not checked where the system really stops: the keyboard after a
missed byte, the editor gone astray, the shell halted or switched off, the
machine after a fault, the end of the calendar.

Fairness.  In `KbdDriver` the processor executes the main program, takes raised
interrupts while they are enabled, and the controller presents bytes it has;
weak fairness of the three is what the hardware does.  Nobody has to type.  In
`Shell` the kernel goes on by itself while it parses a line and starts its command;
nobody has to enter a line or to quit the editor, and no user program has to exit,
so `LineIsRun` ends in the editor or in ring 3 as well as at the prompt.  In
`Kernel` the processor executes the kernel's code and takes the keyboard's interrupt when it is enabled;
no key has to be pressed and no program has to do anything.  The other
specifications have safety properties only.

## What the runs say about the code

* A byte that arrives between `idt_init` and `kbd_enable` is acknowledged and not
  read, and the keyboard is silent from then on.  The variable `missed` records
  that it happened and the properties of the driver are stated about the runs
  without it: none of them excludes the dead keyboard.  Keys pressed before
  `idt_init` are not modelled.
* `shift_held` is one flag for two keys: releasing one forgets the other.
  `ShiftTracked` says what is left: it is never stuck with both keys up.
* The editor can leave the text in one way: `p` on the line after the last row.
  `editorInsertRow` refuses the row, `editorPasteLine` moves the cursor anyway.
  `LeavesTextByPasteOnly` shows that no other key does that and `CursorInText`
  that it needs a yanked line.
* `kprintf` ignores the precision of `"%.*s"`, so a long row spills into the lines
  below it and a short one, scrolled out of sight, prints the memory behind it.
  `ScreenShowsText` holds all the same, because everything below is drawn later;
  it would not if the bars were drawn first.  The messages of a refused `:q` and
  of an unknown command are put into `cmdbuf` and never shown.
* A text that is not dirty need not be in its file.  `o`, `O` and `p` add rows
  without setting `dirty`, and a save clears it although it writes one block only.
  `CleanOrUnmarked` says that a clean text is in the file but for these rows and
  for what lies beyond the block.
* `:wq` leaves also when it could not save.  `LostOnlyWithoutRoom` bounds that:
  no room, or a name the directory has cut.  Such a name takes another entry at
  every save.
* A write of a block or more goes over the blocks of other files.  Bitmap and
  directory survive it (run `easyfs`), contents do not, which is why `easyfs_store`
  has smaller writes.
* `initEditor` drops the rows of the session before: every `edit` leaves them on the
  heap.  A visit to ring 3 costs it two blocks for good, plus what the program did
  not free.  `PromptHeap` says that nothing else stays behind.  And a visit costs
  the kernel's stack three frames (`StackCost`).  An
  editor started by a system call moves the kernel to the stack of the TSS, which
  the next system call uses from the top.
* `kbd_init` writes 0xFD to the mask that `kernel_main` has just unmasked the timer
  in: `uptime()` stands still from then on (`UptimeStandsStill`).
* `syscall_handler` returns with the kernel's data segments loaded and the
  processor clears them: a program cannot use DS or ES after its first system call,
  and a key pressed while it runs on takes the machine with it.  `SegmentsInPlace`
  says that this, and the `hlt` below, is the only way the machine is lost.
* When a loop that an exit has started ends, `hlt` waits for a key and the code
  runs on into `_start`, with paging on.
* `sbrk` from an end inside a page gives that page a new frame and does not tell
  the processor, which may use the old one for a while.  No other page ever gets
  that frame, so what is at stake is the page's own contents (`PagesTranslate`).
  When frames have run out everything is mapped onto frame 0; `FramesPrivate` says
  that no other frame is ever shared, then either.
* `kernel_mktime` takes 1970, 1974, ... for leap years and 1972, 1976, ... for common
  ones when it takes the leap day away after February: the former are a day ahead from
  March on and the latter a day behind.

## Proofs

Every component has a module of theorems.  Each proves `Spec => []IInv` for an
inductive invariant `IInv` and derives the properties from it.  The theorems hold
for every value of the constants that satisfies the named assumption of the
component's module (`KTimeProofs` states its own, `WalkBounded`, in the theorems);
TLC evaluates those assumptions on the instances of the runs
and has checked each `IInv` on them.

| module | properties proved | beyond what the run shows |
|---|---|---|
| `HeapProofs` | `TypeOK`, `ListTilesArena`, `Coalesced`, `UsedIsHeld`, `HeadersIntact`, `OutOfMemoryIsReal`, `ImplementsAllocator` | any arena, header size, requests and values |
| `KbdProofs` | `ByteHasInterrupt`, `ShiftTracked`, the safety part of `ImplementsKeyQueue` | any ring, any keys, any number of shift keys, any number of bytes held back |
| `FileClientsProofs` | `TypeOK`, `NoSharedBlock`, `BitmapMatchesDirectory`, `DuplicatesOnlyFromCutNames`, `CleanOrUnmarked`, `LostOnlyWithoutRoom`, `ImplementsFileStore` | any disk, directory, names and way of cutting them |
| `EditorProofs` | `TypeOK`, `CursorInText`, `CleanKeepsRows`, `LeavesTextByPasteOnly`, `SaveReadsBack`, `ScreenShowsText` | any text, file, block and screen; any contents of the screen before and of the memory behind a row |
| `ShellProofs` | `TypeOK`, `RoomForNext`, `PromptHeap`, `TokensAreWords`, `EchoShowsLine` | any line, buffer sizes, screen, number of visits and blocks left behind |
| `PagingProofs` | `TypeOK`, `FramesPrivate`, `PagesTranslate`, `HeapMapped`, `FullPagesStay` | any memory, page, table, boot mappings and increments |
| `KernelProofs` | `SegmentsInPlace`, `StackCost`, `UptimeStandsStill` | any number of ticks, keys and visits |
| `KTimeProofs` | none of a run's: `SecondsSince1970` fails | where `kernel_mktime` is exact (`KTimeExact`) and by how much it is off elsewhere (`KTimeOffByALeapDay`) |

**Assumptions.**  They are what the code fixes: sizes are not zero, the ring has
at least two slots, frames of the kernel lie below the end of memory, pages to be
mapped lie above the identity mapping, a cut name is cut no further, the value
`NoFile` is no file.  Six are less obvious.  `ClientsAssumption` says that a text the editor saves is not empty
as a file (a row is written with its `'\n'`).  `KbdAssumption` says that there are
shift keys and that no shift key is a character key, as in the maps of
`keyboard_map.h`.  `ShellAssumption` says that `'\n'` is none of the glyphs, and
`ScreenAssumption` that it is no key of a command line and none of the marks that
stand for characters when the editor's screen is drawn.
`WalkBounded`, which the theorems about time name themselves, ends at 2037, after which
a 32-bit `long` overflows.  And
`FilesRefineStore` is proved under `Fits`: names the directory keeps whole and
writes below a block.  Without it the file system does not implement `FileStore`:
`easyfs_names` shows two files of one name, and a write of more than a block
reads back short.

**Heap.**  None of the properties is inductive alone.  The split keeps the layout
only because the block it splits is free and lies in the arena; the merges keep
it only because successors begin where blocks end and point back; a store keeps
headers intact only because what a caller holds lies inside a block in use, which
is what `UsedIsHeld` adds; and `UsedIsHeld` survives `mem_free` only because a
merge swallows free blocks alone.  `IInv` is therefore the conjunction of types,
links, separation of blocks, absence of free neighbours, used = held and intact
headers.  `SplitWellFormed` and `AbsorbWellFormed` show that the two operations on
the list keep links and separation; `TakeProperties` and `ReleaseProperties` say
what `malloc` and `mem_free` do to any list; `MallocGood`, `FreeGood` and
`StoreGood` add held blocks and cells.  They are about functions of a list and not
about actions, so `realloc`, which does all three in one step, is their
composition.  `BestIsCandidate` shows that the search returns a block whenever one
is large enough: the smallest size has a greatest address.  `IInvOutOfMemory` uses
that free windows lie in one free block, since free neighbours do not exist.

The refinement of `Allocator` maps `live` to `Live(held, mem)`, the cells each
caller asked for.  `BlockApart` is its core: a cell of a held block lies in no
other block, header included, so a header written by a split or a merge and a
store through another pointer leave it alone.  One lemma per action follows, two
for `realloc`, in place and moved.

**Keyboard.**  `IInv` adds to the types what the reader knows between its steps
(after the test the buffer stays nonempty, after the fetch `c` is the code in the
slot) and where the shift state will end up: the last shift byte in the keyboard,
else the one at the port, else the flag itself agrees with the keys held.  The
handler may run between any two steps of `kbd_getchar`; the refinement holds
because a push writes a slot outside the part being read (`PushFacts`).
`ContentsFacts` computes the queue of a ring position by position.

**Files.**  `FSInv` is the file system alone, `ClientInv` what a session of the
editor relies on between the two steps of a save: a clean text without unmarked rows
is in the file then too, and after the first step the name is missing only if there was no room
or it was cut.  `BitmapMatchesDirectory` is split into the set of bits and the
count, since the count follows from the set by counting one bit at a time.

**Editor.**  `IInv` is the conjunction of the three invariants.  They need one
another: `x`, backspace and return cut rows at the cursor, so rows stay rows only
because the cursor is in its row, and `CleanKeepsRows` needs the types.  `Edited`
says what every key but `p` may do, `Pasted` what `p` may do, and each key has a
lemma that shows it: the text came out dirty, or it is the old one with at most
one row added.  `EmbeddedGrown` turns this into `CleanKeepsRows`, and
`LeavesTextByPasteOnly` is what `Edited` excludes.  `o` breaks a row without
setting `dirty` and still loses nothing, because it goes to the end of the row
first (`NewlineFacts`).  `LinesFacts` and `ImageFacts` say that what is read makes
rows without `'\n'` and what is saved makes a file.

`SaveReadsBack` says that reading inverts writing, and neither function mentions
the other: `Lines` looks for the n-th end of a line, `Image` concatenates.  The
proof numbers the ends.  A file that is written has its rows laid out one after
the other (`Laid`: where each row ends, and what every place holds), so these
places number its ends (`LaidEnds`); two ends with equally many before them are
one (`RankUnique`), so these are the ends `NthEnd` finds (`NumbersRank`).  `WrittenReadsBack` is one
direction, `LinesWriteBack` the other: a file that was read is
the beginning of its own rows written out, where at most the last `'\n'` is more.  A text too long for the block is the
case of `CutPrefix`.  `SavedInv` is what is invariant: a file the editor has
written is the image of `saved`, or `saved` was read from it.

`ScreenShowsText` follows the drawing in the order of the code.  Each primitive
of `Console` has a lemma that says which cells it may change; `KprintfFacts` says
that printing changes nothing before the cursor and shows what is printed from
there, and nothing of what follows, since too much may be printed.  Every line is
drawn from its first cell, so a line leaves the lines above it alone
(`DrawLineFacts`), and what it spills into the lines below is overwritten when
these are drawn, up to their end, since each clears its own rest
(`DrawRowsFacts`); the bars come last (`StatusBarFacts`).  With `RefreshShows`
this is about any screen before and any memory behind a row.  For the cursor one
needs `WindowInv`: it is in the window, since every key ends with `editorScroll`
(`ScrollShowsCursor`) and the commands move neither.

**Shell.**  `ScanInv` describes the line in the middle of `strtok`: everything
before the pointer has been cut as words demand, and the character before the
pointer is a delimiter.  `HeapInv` counts blocks by where the shell is, which
covers every failing allocation and a line that waits for the editor.  `ScreenInv`
says that the cells before the
cursor spell prompt and line, as far as they are on the screen.

**Paging.**  Frames are private because whatever was ever given to a page or a
table lies below `next_free_page` or is frame 0 (`AllocInv`), and translations stay
because tables are frames too (`WalkInv`).  What the processor remembers for a page
is a frame that page was given (`TlbInv`), for a page is touched only after it was mapped.
`HeapInv` follows an `sbrk` page by page: what is below the new end is mapped or on
the list.

**Kernel.**  `StackInv` gives the depth of the stack at every point where it is
used again, in the shell, in a system call and in `kernel_esp_save`; `BootInv`
says that `_start` is entered a second time only from the `hlt`.

**Time.**  The walk along the calendar never looks at the code, so `IInv` is the
closed form of the days walked, and `kernel_mktime` is compared with it:
`KTimeOffByALeapDay` gives the error at every date, and `KTimeExact` follows where there
is none.

Where a statement about data needs induction (a chain of concatenations, a fold, a
scan), it is proved by taking a least counterexample: a set of numbers that is not
empty has a least element (`LeastNat`).

Only model-checked: the liveness properties `ByteIsRead`, `LineIsRun`,
`KeyEndsWait` and the fairness of `ImplementsKeyQueue`, which are out of the
prover's reach.  Every invariant and every action property of a passing run is
stated by a theorem.

## Not modelled

* Graphics (`vga13.c`): stores to the frame buffer, no state and no decision.
* ACPI: table layouts and a checksum that nothing calls; the port write of
  `shutdown` is the step `shutdown` of `Shell`.
* The driver template, `map_kernel_page`, `kbd_disable`, `kbd_write` and
  `kprint_hex`: nothing calls them.
* Formatting: the digits of numbers, `ksprintf` beyond the text it makes, colours.
  The buffer of 80 bytes into which the editor formats an unknown command with a
  prefix of 23 characters is one of the listed hazards without a property.
* The rows of the editor as heap blocks: `Shell` counts what a session leaves, not
  what it allocates meanwhile.
* The processor's TLB beyond the user pages that were mapped and touched.
* The logic of the user programs: `user_shell.c` and `editor.c` read keys and
  repaint from their own data, which they no longer have after the first call.
* The layout of the GDT and of the page tables' access bits.

Hazards without a property, because the loss is what the code does and nothing in it
stands against it: the dead keyboard, a write of a block or more over other files,
stale entries in a table that was not cleared, the fault on a table beyond the
identity mapping.  The models reach the first, the second and the last of these and
start tables with any contents for the third.

## Plan

Done: all components modelled, every safety property of a passing run proved.
Left: the editor's rows on the heap while a session lasts.
