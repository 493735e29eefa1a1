# Raampjes: a verification development

Raampjes is a small operating system for one i386 CPU: a kernel of about 1600
lines of C and assembly (`kernel/`), a C library (`libc/`) and four programs on
an initial ramdisk (`initrd/`). It is loaded by a Multiboot 2 boot loader. This
directory holds TLA+ modules that model it, TLC configurations that check them
on small instances, and TLAPS proofs. Paths below are relative to `src/`.

## Inventory

| Part | State it keeps | Operations | Hard behaviour | What makes it correct |
|---|---|---|---|---|
| Scheduler, process table (`kernel/sched.c`, `switch_task.asm`) | `tasks[64]`, `current`; per task: `state`, `ppid`, `exit_status`, saved registers | `do_fork`, `do_exit`, `do_wait`, `do_pause`, `sched`, `wake_up_all` | blocking inside a system call, wake-ups by other processes and by the keyboard, slots used again | no lost wake-up, only live tasks run, a stopped child stays until its parent asks, ready tasks get the CPU |
| Terminal (`kernel/tty.c`) | two rings of 2048 characters: the line being typed, the input | `tty_input` (keyboard interrupt), `do_read`, `do_write` | index arithmetic at the ring's ends, full rings, editing against handing over | a first-in first-out line editor; the echo agrees with the line |
| Virtual memory (`kernel/mm.c`) | page directories and page tables, bits 9 and 10 for copy on write | `fork_mem`, `free_mem_usr`, `map_page`, `page_fault`, `alloc_page(s)` | sharing of page tables and of pages after a fork, faults in any order, memory running out | processes never see each other's writes |
| Page frames (`kernel/phys_mm.c`) | one reference count (a byte) per frame | `alloc_page_frame`, `free_page_frame`, `inc_phys_refs`, `init_phys_mm` | counts over long histories; the boot memory map | a count is the number of users; reserved memory is never handed out |
| Program loader (`kernel/ramdisk.c`, `elf.c`) | the archive's address | `do_execve`, `find_file`, `load_elf` | replaces the memory it runs in; steps over files by sizes it reads | the first file of that name is found; the new image replaces the old one, only for the caller |
| Interrupts, system calls (`interrupts.c`, `interrupts_handlers.asm`, `syscall.c`, `PIC.c`) | IDT, callbacks | entry, dispatch, acknowledgement | trap gates: interrupts stay enabled until `cli` | acknowledgements pair with handlers, stacks stay bounded, a fault is served with its own address |
| Keyboard (`keyboard.c`) | shift, control, alt, caps, numlock | `handle_keyboard_input` | two-byte codes, releases out of order | a key yields its character |
| Screen (`vga.c`, `itoa.c`) | cursor, 80 x 25 cells | `vga_putchar`, `scroll_down`, `kprintf` | the edges; keys echoed while `kmain()` writes | the screen shows the last lines written |
| Kernel start (`kmain.c`, `bootstrap.asm`, `gdt.c`) | what is set up, the table of callbacks | `kmain` | interrupts during the set-up, a `panic()` that returns | user mode only when everything is in place, and always when the machine is complete |
| C library heap (`libc/lib/stdlib`) | circular free list | `malloc`, `free` | merging and splitting | blocks never overlap, memory is never lost |
| C library streams (`libc/lib/stdio`) | buffer, pointer and count per stream, one copy per process | `getc`, `_fillbuf` | end of buffer, lines that are torn or typed ahead | a program reads what the kernel returned, once |
| C library strings (`libc/lib/string`, `atoi`) | `strtok`'s position | `strtok`, `strchr`, `strncmp`, `atoi`, bc's `itoa` | ends of strings, separators in a row, overflow | words and numbers are those of the line |
| Programs (`initrd/`) | the line, its words, the child waited for | init, idle, sh, bc, ps | fork, execve, wait; shells in shells; no room for a line | each command is carried out once, the shell comes back behind it |
| Boot loader (`boot/`) | - | FAT 12, A20, ELF | - | not in the image the Makefile builds |

Interaction: programs enter the kernel with `int 0x30`; the handler runs with
interrupts disabled until it returns or calls `sched()`. The timer interrupt
calls `sched()`. The keyboard interrupt passes characters to the terminal,
which echoes them to the screen and, at a newline, wakes every sleeping task.
`do_fork`, `do_exit`, `do_wait` and `do_execve` call virtual memory, which
calls page frames; page faults enter virtual memory directly.

The hazards that follow from this - what can go wrong in this code and a test
would hardly reach - are listed with their lines in `PROJECT.json`. The ones
that shaped the modules: a wake-up between a scan and a pause; slots of the
process table used again under a child that still names them; ring indices at
the wrap; page tables shared by a fork and changed afterwards; interrupts
between the entry of a handler and its `cli`; bytes of an extended key that are
read twice; blocks merged or handed out wrongly after many calls of `malloc`
and `free`; ends of memory regions that are not ends of pages.

## Modules and how they correspond to the code

Every definition that models code is listed with its lines in `PROJECT.json`
("map"). Operators marked `\* mutant` are no part of a specification: each is a
plausible bug, and replacing the definition behind it breaks a property.

**Sched** (abstract: **ProcLife**; proofs: **SchedProofs**). One CPU runs; a
system call or interrupt handler has interrupts disabled until it returns or
calls `sched()`, so one action is all the kernel does between two context
switches. `state`, `ppid`, `exit_status` are fields of `tasks[]`; `cont` stands
for the saved `eip`: user mode, or the loop of `do_wait`/`do_read` that called
`do_pause`. Actions: `Fork`, `Exit`, `Pause`, `Wait`/`WaitResumed` (one turn of
`do_wait`'s loop), `Read`/`ReadResumed` (one turn of `do_read`'s),
`WriteInput`, `Timer`, `Newline` (the keyboard interrupt that ends a line),
`Halted`. Process 0 and 1 run `initrd/init/main.c`; every other process makes
any system call at any time. `ReapsBeforeExit` restricts programs to what those
of `initrd/` do: they collect their children before they end. The terminal is
here only the number of characters in its input buffer. `parent` and `silent`
are history variables. ProcLife is the view of a program: `wait()` and `read()`
are single operations that take time, there is no CPU and no sleeping;
`ImplementsProcLife` says that preemption, spurious wake-ups and the order of
the tasks do not show.

**Tty** (abstract: **LineEditor**; proofs: **TtyProofs**). The two ring buffers with their unsigned
indices; `tty_input` (`Type`, `Erase`, `Enter`), `do_write` and the turn of
`do_read` that finds input. `shown` is what was echoed for the line. LineEditor
has a line and a queue; it allows that one character more than fits is refused
or that all that was there is lost (see *Disagreements*).

**AddrSpace** (abstract: **PrivateMemory**; proofs: **AddrSpaceProofs**). Page directories, page tables,
frames with their counts, the copy-on-write bits 9 and 10, `CR0.WP`. One action
per handler: `fork_mem`, `free_mem_usr`, the loader, `sbrk`, page faults on a
read or a write, the kernel's own stores into user buffers. The mappings above
`KERNEL_MEMORY` are not modelled: the task structure and the directory are two
frames (`self` and `page_directory`, which `free_task` frees), temporary mappings
live inside one handler. The first process has its program: there was memory
enough for it. PrivateMemory gives every process a memory of its own.

**PhysMem** (proofs: **MachineProofs**). `init_phys_mm`, one turn of its loops
a step, over any memory map. Adding an address to the map's pointer wraps to the
pointer itself (24 * 0xC0000000 = 0 modulo 2^32), so the conversion is left out.

**Heap** (abstract: **Allocator**; proofs: **HeapProofs**). `malloc` and `free`, one turn of a loop a
step; addresses are counted in headers. Programs free what they hold, once.
Requests are below 2^29 bytes, where `size * sizeof(Header)` would wrap.

**Trap** (proofs: **MachineProofs**). The entry of handlers: all descriptors are trap gates, so another
interrupt may come, and the timer may switch processes, before the handler's
`cli`. Interrupt controller (`irr`, `isr`), one kernel stack per process, one
CR2. From `cli` on a handler is one action. A process is its touches of pages.

**Keyboard** (proofs: **KeyboardProofs**). `handle_keyboard_input` with the controller it reads from. Bytes
take a millisecond; the handler reads the byte behind an 0xE0 prefix without an
interrupt of its own, and the interrupt of that byte may find it again
(`Arrive`) or be dropped (`Drop`): both are allowed. Characters that come from
an extended code whose prefix was lost are not counted.

**Screen** (abstract: **Teletype**; proofs: **ScreenProofs**). `vga_putchar` and `scroll_down`. Handlers
and system calls print with interrupts disabled: one action. `kmain()` prints
with interrupts enabled: its calls are modelled access by access, in the order
in which gcc without optimisation (the Makefile says `-o2`, not `-O2`) loads and
stores `VGA_x`, `VGA_y` and the cells, and `tty_input` may echo a key between any
two. The tests behind the switch (`Settled`) run for every character, backspaces
too: when an echo finds the cursor where `kmain()` is about to take it away from,
it is the echo that wraps or scrolls. The memory behind the screen is assumed to be cleared by the BIOS. `torn`
and `goal` are history variables.

**Boot**, composed with **PhysMem** (proofs: **MachineProofs**). `kmain()` from the boot loader's jump to
`iret` into `bin/init`; a call is a step, the loops of `init_phys_mm` are
PhysMem's actions, `find_file` makes a step per header of the archive. From `sti`
on the timer and the keyboard interrupt anywhere. `panic()` is one `hlt`: with
interrupts enabled the next one ends it and the kernel goes on behind it, with
interrupts disabled nothing runs any more. What a machine lacks (compliance, a
memory map, the module, a file in it, frames) is a choice of the initial state.
`getsize` and the step to the next header are computed modulo 2^32, because the
size 0 of the directory `bin/`, the first entry of every archive, wraps twice.
The sets `Files` and `Tags` say what tar and the boot loader make: a file's size
fits the digits of its header, and an archive ends before the addresses do.

**CString**. `strlen`, `strchr`, `strncmp`, `strtok`, `memcpy`, `atoi`, `itoa`,
`uitoa` and `kprintf` as operators on sequences, with an `int` that wraps.

**Shell** (abstract: **Dialogue**; proofs: **ShellProofs**; on top of ProcLife, which Sched implements).
The programs of `initrd/`: a step is a system call or one turn of a loop, so
other processes and the user come in between. `proc` holds what a process has in
memory: its stream, its line, the words found, `tok_next`, the child it waits
for; `fork` copies it and `execve` replaces it, streams and all. `Filled`,
`Buffered` and `Hand` are `_fillbuf` and the macro `getc`. `crt0.asm` drops the
result of `main`, so every exit status is 0. System calls take their function from
the kernel's table by the number in `unistd.h`. Words that bc's line
does not have are what lies in its uninitialised array: the ELF header at address
0, or an address that is not mapped. Prompts, the headings of ps and a failing
`malloc` are left out. `find_file` finds every entry of the archive, so each can be
typed: the programs, `bin/init`, which starts a second idle process and a second
shell and never ends, and the directory `bin/` (`initrd/Makefile:9`). For an entry
of size 0 `do_execve` frees the image, `load_bin` maps one page and copies nothing,
and the process executes what the page's frame held before: it runs on (`Strays`),
or makes a fault for which the kernel only has `panic()` (`Fault`); nothing says
"not found". The system calls that such bytes could happen to be are left out.
Dialogue knows neither processes nor streams nor `strtok`: a stack of programs from
init to the one in the foreground, the characters each has taken, and commands and
sums defined on whole lines.

Composition: Boot contains PhysMem; Shell stands on ProcLife and, through it, on
Sched; Sched holds the terminal's length and its wake-ups; Trap has the context
switch of Sched and the fault of AddrSpace in the small. The others are separate
because their handlers do not interleave with each other (interrupts are
disabled) and share only what is named above.

## Runs

| Run | Instance | What it checks |
|---|---|---|
| `sched` | 4 slots, 2 statuses, 2 characters, any programs | The CPU runs only live tasks; slot 1 is the idle task; no wake-up of a waiting parent or reader is lost; a stopped task stays until it is waited for; the idle task runs only when nobody is ready; implements ProcLife |
| `sched_reaping` | 5 slots, programs that collect their children, fairness | `ppid` names the process that forked; `wait()` reports own children; only a full table stops the kernel; ready tasks run and stopped children are freed |
| `tty` | rings of 4 slots, `unsigned` of 16 values | The echo is the line; the two rings, wherever the data lies in them, implement LineEditor |
| `memory_share` | 3 processes, 16 frames, a heap on the last page of the data | No page that two processes have is writable to one; implements PrivateMemory |
| `memory_grow` | 2 processes, 12 frames, two pages of heap | Reference counts are exact at every step; the break stays in range; the kernel stops only for want of frames |
| `heap` | 13 headers, requests of 1, 3 and 6 bytes | The heap is tiled by free and held blocks; the list is in order and merged; every call returns; implements Allocator |
| `trap` | 2 processes, 2 pages | Each interrupt in service is on one stack, once; a stack has at most three frames; keys are read, processes run, touched pages appear |
| `keyboard` | 6 keys, 3 bytes under way | Plain keys give their characters once and in order; modifiers are up or down when all of their keys are; the handler returns |
| `screen` | 2 x 4 cells, a character, 2 keys to a line | However keys and kmain()'s messages mix, the cursor comes back to the screen; as long as no key came inside a call, the screen implements Teletype |
| `boot` | pages of 4 bytes, 6 frames, blocks of 2 bytes; 9828 memory maps, 503 archives in 3 sizes of mapped memory, every sequence of up to 3 tags | User mode is entered only on a complete machine with all callbacks in place; `find_file` finds the first file of the name, or none if there is none; a frame is free exactly when it is not the kernel's and its last byte is usable; a complete machine gets to user mode |
| `shell` | 7 slots, an archive with all four programs and a directory, buffers of 6 to 10 characters, ints of 6 bits, 483 sessions of up to 3 lines | A shell that waits has its child; streams, `strtok`, `fork`, `execve` and `wait` implement Dialogue; whatever was typed, in the end a program reads the terminal, but for a kernel that stopped, an init whose shell ended, and a directory that was executed |
| `memory_heap` | as `memory_grow` | violation, see *Disagreements* |

Why the bounds are enough. Sched: four slots hold init, the idle task, a parent
and a child, and a full table; five add a second child or a grandchild, and are
the least in which the CPU can pass a ready task over for ever. What holds for
the smaller table in the safety run is proved for every size. Tty: four slots
have every relation of head, tail and the array's end, and hold a full line,
a full input and their overlap. AddrSpace: two directory entries of two slots
separate "same page", "same table" and "other table"; three processes are a
chain of forks; text, data, heap and stack occupy the four pages; with 12 and 16
frames memory runs out in the middle of operations. Heap: three sizes that
differ by a header each, `ALLOC_SIZE` smaller than the heap, so that `sbrk` is
called several times and refuses in the end; five or six blocks. Trap: two
processes whose heaps share a page, each with a fault under way. Keyboard: each
kind of key once, the bytes of one extended key and a half. Screen: an even
width and rows enough for a first, a middle and a last one; the line that is
typed while the kernel starts has at most `MAX_TYPED` characters, as many as
`VGA_HEIGTH - 3` rows hold (`ScreenAssumption`). Some bound of this kind is needed:
when it is two rows (`MAX_TYPED = 4` on 2 x 4 cells) TLC finds backspaces between
two accesses that take the cursor so high that `kmain()`'s own decrement makes
`VGA_y` -1. On 80 x 25 cells the bound is 1760 characters, fewer than the 2047 of a
line: somebody who types more than that during the start and erases it again is not
covered. Boot: ends of regions at all offsets in a page,
before, at and behind the kernel's frames and the table's end, and all overlaps
of up to three regions; files of no, one, part of a, and several blocks, in
every position, with data that looks like the sought header; memory that ends
inside the archive; tags in any order, repeated or missing. Shell: `BUFSIZ` is
neither a multiple of the lines' lengths nor longer than two of them, so lines
are torn between two reads and typed ahead over the start and the end of every
program; lines one shorter than, as long as and longer than each array, words
one fewer than and as many as their array; shells, one above the other or started by a second init, fill the table, also
between the two forks of an init; every entry of the archive first, last and in
between; sums
that overflow, divide by zero or by -1.

Bounds that the code does not have: `MaxInput` (in the code 2047),
`MaxBrk`, `Requests`, `Writes`, `LINE`, `Maps`, `Machines`, `Sessions`,
`MAX_TYPED` and the constants for sizes. They
are constants of the modules, and their values are in the `.cfg` files. TLC sees
the states of Tty and AddrSpace through a VIEW: unread cells of a ring and the
numbers of frames, which are only compared, do not distinguish states.
Deadlock is checked in every run; where the machine stops for good (`Halted`,
`Stopped`) that is a step which changes nothing.

### Fairness

Sched: the timer never stops, and a task in the kernel runs on; nothing is
assumed of programs. `ForksForever` is an exception the code has: `do_fork` gives
the CPU to the child and the scan goes on behind it, so programs that fork again
and again can pass a ready task over. Trap: the timer ticks, the CPU takes
interrupts and executes instructions; strong fairness for a process's handlers
and instructions and for the key, because the timer's period is many instructions
long and cannot hit the same instruction each time. Keyboard: bytes that are under
way arrive, and the handler's turns go on. Heap: a call that began goes on. Boot:
the CPU executes instructions, and the timer never stops. Shell: the CPU does not
stand still while a process can go on; this is less than `ReadyTaskRuns` of Sched
promises. Nobody has to type, and a directory that is executed need not make a
fault.

## Disagreements between the code and what it says

The run that TLC shows violated, listed under "findings":

- `memory_heap` (`kernel/mm.c:121`): a heap page touched after a fork makes
  `map_page` copy the shared page table, but neither the copy's entries are
  write protected nor is bit 10 kept. Pages still shared become writable, and a
  write is seen by the other process. `mm.c:142-143` describes bit 10 as what
  tells the fault handler. The run is the reason why the heap of `memory_share`
  has no page that was not loaded with the image (`NoHeap` in AddrSpaceProofs);
  `memory_grow` does not ask about privacy.

Kept as counterexample configurations, with which TLC also finds a violation
(one configuration, noted, passes):

| Configuration | Property | What it shows |
|---|---|---|
| `MCTtyFull.cfg` | `TypingKeepsTheLine` | `FULL` does not reduce `tail + 1`: one character too many empties the ring when `tail` is the last slot and `head` is 0 |
| `MCTrapStale.cfg` | `LegalTouchNeverPanics` | if the timer comes between a page fault and its handler's `cli`, and the next process faults too, CR2 is the other's when the handler reads it: `page_fault` may panic although the process touched its own heap |
| `MCBootPanic.cfg` | `PanicIsFinal` | with interrupts enabled `kernel_halt()` returns at the next one; a panic for a foreign module is passed and the machine starts |
| `MCScreenTorn.cfg` | `AlwaysTeletype` | a key echoed between two accesses of `kmain()` can be put behind the screen, and appears in the last line with each scroll |
| `MCAddrSpaceBuffers.cfg` | `ImplementsPrivateMemory` | `read()` and `wait()` into a buffer that is still shared since a fork, with `CR0.WP` clear, writes to both processes |
| `MCAddrSpaceCrossing.cfg` | `TouchedPageAppears` | the heap enters a directory entry without a page table: the page does not appear |
| `MCAddrSpaceStale.cfg` | `RefsExact` | counts of frames whose entries are no longer present |
| `MCPhysMemUnusable.cfg` | `UnusableNeverFree` | both ends of a region are rounded down, so a partly usable page is handed out |
| `MCPhysMem.cfg` | - | (no violation) PhysMem alone, as `boot` has it |
| `MCPhysMemBeyond.cfg` | `NothingWrittenBeyond` | `j > BITMAP_SIZE` lets `bitmap[BITMAP_SIZE]` be written |

## Proofs

TLAPS proves the following for every value of the constants, from the named
assumptions of the modules and, for Sched, Keyboard and AddrSpace, from hypotheses
on the constants that are stated in the theorem. Each component has one inductive
invariant (`IInv`; `BootInv` for the boot), a lemma for each kind of step that
preserves it, and below them lemmas on the operators of the model. The theorems
are listed in `PROJECT.json`.

**SchedProofs**, from `SchedAssumption` (more than two slots, at least one
status): `TypeOK`, `IdleIsPidOne`, `CpuRunsLiveTask`, `NoLostChild`,
`ReaderSleepsOnEmptyInput` as invariants, `StoppedKeptForWait` and
`IdleOnlyWhenNoneReady` as action properties. The inductive invariant is

    IInv == TypeOK /\ ProgramsInPlace /\ IdleIsPidOne /\ CpuRunsLiveTask /\ NoLostChild

None of the parts is inductive by itself. That the CPU runs a live task when
nobody is ready needs the idle task in slot 1; that it is there needs init to
make its forks in their order, in slot 0, with nobody else in the table
(`IdleIsPidOne`), and no step to free slots 0 and 1; that they are not freed needs
`ProgramsInPlace`: which program runs in which slot, hence which system calls it
makes and in which loop it may sleep. The lemmas below the steps are about the
scans: a set of slots has a least and a greatest member (well-founded induction on
`<`), turn `i` of `next_process` visits every slot (`SlotsCovered`, modular
arithmetic), so the scan yields a ready task or there is none (`NextProcessReady`).
`ReaderSleepsOnEmptyInput` is inductive relative to `IInv`, and the two action
properties follow from `IInv` step by step.

`ParentAlive`, `OnlyFullTablePanics` and `WaitReportsOwnChild` are about programs
that collect their children before they end (`ReapsBeforeExit`; the theorems
assume it). The first two need each other, so `Orderly` is inductive as their
conjunction: `do_exit` finds no null parent because parents are alive, and they
stay alive because a task with children does not exit. `ImplementsProcLife` is
proved by mapping every step to one of ProcLife's or to none, with the state of a
task and its `cont` mapped by `Phase`: a turn of a loop that pauses again, a
wake-up and a context switch are stutters.

**TtyProofs**, from `TtyAssumption` (the number of `unsigned` values is a multiple
of `BUF_SIZE`, which is what `(head - 1) % BUF_SIZE` needs): type correctness,
`EchoIsLine`, `FinishedLinesAreGone` (what the newline key handed over, no
backspace reaches) and `ImplementsLineEditor`. The invariant is that both rings
are well formed and that the echo is the line. `Distance` and `Around` say how
many characters lie from head to tail and where the k-th of them is, and
`Enqueue`, `Dequeue` what a ring holds after a character is added or removed,
also where the index goes below zero. The loops of `do_write`, `do_read` and the
newline key are functions of the turn; what they do is proved from the least turn
at which it would not hold (`UpTo`), without an induction theorem. A write
longer than the ring empties it at every turn that fills it; `FilledHolds` is the
closed form of what is left, which is `Kept` of LineEditor. Each action is then
`Type`, `Erase`, `Enter`, `Write` or `Read` of LineEditor or a stutter.

**AddrSpaceProofs**, from `AddrSpaceAssumption`: `TypeOK` whatever programs do;
`RefsExact` and `OnlyMemoryRunsOut` if `InReach`; `WritableIsPrivate` if also
`NoHeap`; `ImplementsPrivateMemory` if also no buffers are shared
(`~ SharedBuffers`) and `None`, which stands for "no page", is no value. The
hypotheses on programs are those without which TLC finds counterexamples:

| Hypothesis | Says | Holds in | Without it |
|---|---|---|---|
| `InReach` | programs stay in the directory entries in which every image has pages, or in those of the stack | `memory_grow`, `memory_share` | `RefsExact` fails in `MCAddrSpaceStale.cfg`; `MCAddrSpaceCrossing.cfg` leaves them too |
| `NoHeap` | all pages up to the break are loaded with the image | `memory_share` | `WritableIsPrivate` fails in the run `memory_heap` |
| `~ SharedBuffers` | `read` and `wait` get no buffer that is still shared | both | `ImplementsPrivateMemory` fails in `MCAddrSpaceBuffers.cfg` |

    IInv == panic = "no" => Fits /\ View (of each process)

`Fits` says of the frames: `Held` is the set of who has which frame for what (a
page table, a page, a task structure), each count is the number of those who have
the frame, a frame has one use, a table that is not marked as shared is one
process's, and what is free is junk. It has two parameters for the states inside a
handler: the frames that are counted but not yet entered, and the pages whose
entries are about to go. `View` says of a process what the handlers rely on and the counts do not
show. `fork_mem` counts whatever number an entry holds, present or not, so nothing
freed may leave its number behind (`Tidy`). An entry without a page table
would keep the number of a frame and count it for ever, so the tables are those of
`UsedDirs` (`Reached`). And `pf_ro_violation` panics at an entry that is neither
writable nor copied on a write, so there is none above the text (`Served`).

Each function of `mm.c` has a lemma that takes `Fits` to `Fits` and says what
becomes of the pages of the caller (`SamePages`, `Gone`) and of the others
(`OthersKept`); a handler is their composition. A count is the cardinality of one
set, `Holders`, in which an entry comes or goes; only at the end `CountUses` divides
it into the three sets that `RefsExact` counts. The loops of `free_mem_usr`,
`fork_mem` and `alloc_pages` are functions of the turn; what they do is proved from
the least turn at which it would not hold.
Privacy is `Apart`, inductive relative to `IInv`: a page that a process may
write to is nobody else's (`Alone`), and every page up to the break is there
(`Filled`), so that no `map_page` unshares a table after a fork. For the
refinement, `Memories` is what the processes find on their pages, and each handler
changes one of them or none (`PrivateStep`): copying on a write, taking and
freeing tables, and reaping do not show.

**ScreenProofs**, from `ScreenAssumption`: `CursorReturns`, however keys come
between the accesses of `kmain()`. `IInv` says for each place between two accesses
what has been loaded (`LoadedInPlace`) and where the cursor can be
(`CursorInPlace`), and that memory behind the line after the screen is blank
(`BlankBehind`). Going back is the hard part: between the access that finds the
cursor behind the screen and the one that moves it back, backspaces may take it
up, each by one cell (`RowByRow`, `ErasedEnds`), and a backspace that finds it in
the line behind scrolls and moves it up by a row more. `NotAbove` counts the cells:
from where the cursor is, all characters typed can still be erased without coming
more than `MAX_TYPED` cells before the last row, or before the row above it once
`kmain()` has cleared `VGA_x` (`Bound`). A call that reaches the end of the screen
leaves the cursor in the last row, where this holds (`LastLineIsHigh`,
`SettledStaysHigh`).

`ImplementsTeletype`, as long as no key was echoed inside a call: `RowsOf` is
what a screen shows, row by row, and `RowsEqual` says when rows are those of a
screen. Each call has a lemma that takes `RowsOf` of the screen before to `RowsOf`
of the one after (`PutRows`, `NextLineRows`, `BackspaceRows`; below them
`OpenedRows`, the end of a full row, with and without scrolling). They need
`Neat`: behind the cursor all is blank, up to the end of the memory, because
`scroll_down` copies its last line from there and a backspace over the end of a
row lays open what is behind. That the accesses of a call together make
the call's screen is `Foreseen`, inductive relative to `IInv`: the screen expected
when the call began is what the accesses still to come make of the present one
(`Ahead`, with the cells still to copy in `UpFrom`). So a call is one step of
Teletype when it begins, and its accesses are stutters.

**HeapProofs**, from `HeapAssumption`: `ListInOrder`, `HeapIsTiled` and
`ImplementsAllocator`. `IInv` says that the headers in use tile the heap
(`Tiling`), that the free ones form a ring in the order of addresses (`Ring`), that
no two of them touch (`Merged`), that held blocks keep their sizes where `free()`
reads them (`SizesKept`), and where a search is: what it passed is too small, and
what `free()` passed does not surround the block (`Searching`). `TilingSplit`,
`TilingMerge`, `TilingGrow`, `RingInsert` and `RingRemove` are the lemmas under
the steps of `malloc` and `free`; a request is refused only when no free run has
room (`AllTooSmall`, `NoRoom`), which is what Allocator allows.

**KeyboardProofs**, from `KeyboardAssumption`: `ModifiersFollowKeys` for every
keyboard, and `KeysTypedInOrder` for those with one key for shift and no lock key
behind a prefix (`OrdinaryKeys`): two shift keys have one flag, and the last event
decides about it, so a character may be of the wrong case. The handler's results
depend on bytes that are not yet read, some of which may be read twice. `Coming`
therefore speaks of them: there is a `Run` of the handler over the pending bytes,
from the present modifiers to those of the keys that are down, that gives the
characters still owed. `Reread` and `ReadOnce` say that a byte read again, without
the prefix, changes no modifier.

**ShellProofs**, from `ShellAssumption` (the entries of the archive, by any names,
are `sh`, `bc`, `ps`, `init` and directories, and one is the shell that init
executes): `ShellHasItsChild`. A shell's `wait()` takes any child, and its `child`
is a pid that may be used again. `Kin` is what excludes a confusion: children
belong to inits, which never end, and to shells in `wait`, and such a shell has the
one child it waits for; so the children of whoever ends are none, and a pid used
again brings its new owner none. `Images` says which program can be where in each
phase. The theorem inherits from Shell that an executed directory makes no system
calls: a stray `fork`, `_exit` or `wait` would be that of an unknown program, about
which Sched has what can be said.

**MachineProofs, Trap**, from `TrapAssumption`: `TypeOK`, `StackBounded` and
`InServiceIsOnStack`. The bound on stacks is not inductive; it follows from
the few shapes a stack has: a fault at the bottom, at most one key above it, and on
top of them a timer interrupt, or the `sched` of a process that was switched away
from. `IInv` says so (`StacksInShape`), and that the controller's registers are
those of the stacks (`InServiceInPlace`): the timer is in service exactly when it
is on top of the CPU's own stack, because its handler acknowledges before the
switch; the key exactly when it is on one stack, of whichever process.

**MachineProofs, Boot**, from `PhysMemAssumption` and `BootAssumption`:
`LastByteDecides` for PhysMem alone and inside the boot, `FindsFile`,
`UserModeIsReady`, for every memory map, archive, sequence of tags and interrupts.

    BootInv == SetUp /\ Callbacks /\ TagsRead /\ Table /\ Search

`SetUp` and `Callbacks` say what is in place at each call, `TagsRead` which map and
archive count at this tag (the last so far). `Table` contains the invariant of
PhysMem: `ReadSoFar` is what the entries read so far make of every frame in each
of the two passes, and between the tags the table is the one of the last map.
`RoundedDown` turns the divisions into a statement about the last byte. `Search`:
`find_file` is at the header of some file, and none before has the name. That the
next address is again a header needs `SizeIsRead` (`getsize` gives the size tar
wrote, digit by digit), `Layout` (where the headers are), `Skipped` (the step from
one to the next, modulo 2^32 and also for size 0) and `HeadersDiffer` (no two at
one address). At `iret`, `Search` has what the loader needed: the image is mapped
and there were frames enough.

TLC finds these invariants, `IInv`, `Orderly`, `Apart`, `Foreseen` and `BootInv`, to
hold on the instances of the runs; of `IInv` of KeyboardProofs only `Types`, `Reread` and
`ReadOnce`, because `Coming` quantifies over infinite sets.

Only model-checked:

- All liveness properties (fairness and ENABLED are beyond the prover).
- `ImplementsDialogue` of Shell: bc reads and writes its numbers digit by digit
  (`atoi`, `itoa`, and `Number` of Dialogue are folds), and that both sides agree for
  numbers of every length is an induction over data, which the provers cannot do.
- CString, for the same reason; Shell's run exercises it.

## Not modelled, and why

`boot/` is not in the image that the Makefile builds. The bits of descriptors,
the writes to ports (`move_cursor`, `disable_PIC`, `mask_IRQ`, the timer's rate)
and the registers a stub moves are hardware state that nothing reads back.
`putxy` and the query of the scan code set have no callers. Exceptions other than
the page fault only panic. `memset` only clears pages. In Shell: prompts,
`malloc` failing, programs other than those of `initrd/`, and the system calls that
stray bytes make when a directory is executed. Most lines that no
definition stands for are declarations that the kernel keeps from others:
`multiboot2.h`, `elf.h`, `stdint.h`, and the copies of all headers in `sysroot/`.
Missing for now: the mappings above `KERNEL_MEMORY`.

## Plan

Done, in this order: Sched with ProcLife, Tty with LineEditor, AddrSpace with
PrivateMemory, Heap with Allocator, Trap, PhysMem, Keyboard, Screen with Teletype
(then access by access), Boot with PhysMem, CString and Shell with Dialogue, and
the proofs about all of them but CString. Next, most important first:

1. **KernelMap**: the task structures and temporary mappings above
   `KERNEL_MEMORY` (`get_free_address`, `map_page`, `find_empty_task`), with the
   directory that every process shares there; composed with AddrSpace.
2. **Console**: Keyboard, Tty and Screen composed: what the user sees is the
   line that a program reads, across wraps of the screen and erasures.
