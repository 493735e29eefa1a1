------------------------------ MODULE AddrSpace ------------------------------
(***************************************************************************)
(* The address spaces of the processes: page directories, page tables and  *)
(* the reference counts of page frames (kernel/mm.c, kernel/phys_mm.c), as *)
(* fork, execve, _exit, wait, sbrk, page faults and the kernel's writes to *)
(* user buffers change them.                                               *)
(*                                                                         *)
(* Any process in user mode may be the current one; each handler runs with *)
(* interrupts disabled and is one action.  Addresses are pages: page v has *)
(* its entry in slot v % SLOTS of the page table of directory entry        *)
(* v \div SLOTS.  Kernel pages are not modelled: the task structure and    *)
(* the page directory of a process count as two frames, and the temporary  *)
(* mappings at KERNEL_MEMORY are taken and freed inside one handler.       *)
(***************************************************************************)
EXTENDS Integers, FiniteSetsExt

CONSTANTS
  TASKS,       (* the number of processes                                    *)
  DIRS,        (* directory entries below KERNEL_MEMORY (768)                *)
  SLOTS,       (* entries of a page table (1024)                             *)
  FRAMES,      (* the number of page frames for processes                    *)
  UINT8,       (* the number of values of a reference count (256)            *)
  Images,      (* the layouts of executable files: [code, data] with the     *)
               (* last page of the text and of the data segment              *)
  MaxBrk,      (* programs move their break up to this page                  *)
  Value,       (* what programs write                                        *)
  SharedBuffers  (* TRUE: programs pass buffers to read() and wait() that    *)
                 (* they have not written to since they forked               *)

ASSUME AddrSpaceAssumption ==
  /\ TASKS \in Nat \ {0} /\ DIRS \in Nat \ {0} /\ SLOTS \in Nat \ {0}
  /\ FRAMES \in Nat /\ UINT8 \in Nat /\ UINT8 > TASKS
  /\ Images \subseteq [code : Nat, data : Nat]
  /\ \A i \in Images : i.code < i.data /\ i.data < DIRS * SLOTS - 1
  /\ MaxBrk \in 0 .. DIRS * SLOTS - 2
  /\ SharedBuffers \in BOOLEAN

Task == 0 .. TASKS - 1
Dir == 0 .. DIRS - 1
Slot == 0 .. SLOTS - 1
Page == 0 .. DIRS * SLOTS - 1
Stack == DIRS * SLOTS - 1  \* the page below KERNEL_MEMORY
Frame == 1 .. FRAMES       \* frame 0 is the NULL of page_frame()

DirOf(v) == v \div SLOTS
SlotOf(v) == v % SLOTS

(* What a page holds: values written, the image's content, or anything. *)
Junk == "junk"
FromFile == "image"
None == "none"

VARIABLES
  m,     (* the memory: refs (the bitmap), dir (page directories by task),   *)
         (* tab and data (frames as page tables and as pages), panic         *)
  task   (* task structures: state, the frames of the structure itself and   *)
         (* of the page directory (0: they are the kernel's), code_end, brk  *)

vars == <<m, task>>

(* A page table entry: bits 0, 1 and 9.  A directory entry: bit 0, 1, 2,   *)
(* 10 (cow) and 9 (shared).                                                *)
NoEntry == [frame |-> 0, present |-> FALSE, rw |-> FALSE, cow |-> FALSE]
NoTable == [frame |-> 0, present |-> FALSE, rw |-> FALSE, user |-> FALSE,
            cow |-> FALSE, shared |-> FALSE]
Entry(f, rw) == [frame |-> f, present |-> TRUE, rw |-> rw, cow |-> FALSE]
Table(f, user) == [frame |-> f, present |-> TRUE, rw |-> TRUE, user |-> user,
                   cow |-> FALSE, shared |-> FALSE]
EmptyTable == [i \in Slot |-> NoEntry]
-----------------------------------------------------------------------------
(* Page frames.  The operators below map a memory s to the memory after a  *)
(* function of the kernel, and leave a memory alone in which it panicked.  *)

Panic(s, why) == [s EXCEPT !.panic = why]
FreeFrames(s) == {f \in Frame : s.refs[f] = 0}
NewFrame(s) == CHOOSE f \in FreeFrames(s) : \A g \in FreeFrames(s) : f <= g

(* alloc_page_frame(): after it, NewFrame(s) is in use. *)
Alloc(s) ==
  IF s.panic # "no" THEN s
  ELSE IF FreeFrames(s) = {} THEN Panic(s, "out_of_memory")
  ELSE [s EXCEPT !.refs[NewFrame(s)] = 1]

(* free_page_frame(); what a frame nobody counts holds is not kept.        *)
Drop(s, f) ==
  IF s.panic # "no" \/ s.refs[f] = 0 THEN s
  ELSE IF s.refs[f] = 1
         THEN [s EXCEPT !.refs[f] = 0, !.tab[f] = EmptyTable, !.data[f] = Junk]
         ELSE [s EXCEPT !.refs[f] = s.refs[f] - 1]

(* n more references to frame f, in a byte. *)
Count(s, f, n) == (s.refs[f] + n) % UINT8
-----------------------------------------------------------------------------
(* Page tables.                                                            *)

PDE(s, t, v) == s.dir[t][DirOf(v)]
PTE(s, t, v) == s.tab[PDE(s, t, v).frame][SlotOf(v)]
Present(s, t, v) == PDE(s, t, v).present /\ PTE(s, t, v).present

(* add_page_table() *)
AddTable(s, t, d, user) ==
  LET a == Alloc(s) IN
  IF a.panic # "no" THEN a
  ELSE [a EXCEPT !.dir[t][d] = Table(NewFrame(s), user),
                 !.tab[NewFrame(s)] = EmptyTable]

(* copy_page_table(): a private copy of the page table of entry d. *)
CopyTable(s, t, d) ==
  LET old == s.dir[t][d].frame
      a == Alloc(s)
  IN  IF a.panic # "no" THEN a
      ELSE Drop([a EXCEPT !.dir[t][d] = Table(NewFrame(s), TRUE),
                          !.tab[NewFrame(s)] = s.tab[old]], old)

(* map_page() *)
Map(s, t, v, entry) ==
  LET d == DirOf(v)
      a == IF PDE(s, t, v).present THEN s ELSE AddTable(s, t, d, TRUE)
      b == IF a.panic = "no" /\ PDE(a, t, v).shared THEN CopyTable(a, t, d) ELSE a
  IN  IF b.panic # "no" THEN b
      ELSE [b EXCEPT !.tab[PDE(b, t, v).frame][SlotOf(v)] = entry]

(* free_page(): the count goes down, then the entry is cleared. *)
FreePage(s, t, v) ==
  IF s.panic # "no" \/ ~ Present(s, t, v) THEN s
  ELSE LET a == Drop(s, PTE(s, t, v).frame)
           b == IF PDE(a, t, v).shared THEN CopyTable(a, t, DirOf(v)) ELSE a
       IN  IF b.panic # "no" THEN b
           ELSE [b EXCEPT !.tab[PDE(b, t, v).frame][SlotOf(v)].present = FALSE]

FreeTable(s, t, d) ==
  IF s.panic # "no" \/ ~ s.dir[t][d].present THEN s
  ELSE [Drop(s, s.dir[t][d].frame) EXCEPT !.dir[t][d].present = FALSE]

(* free_mem_usr(): all pages, then all page tables.  The mutant of         *)
(* FreeUser is FreeUserPages: the page tables are forgotten.               *)
FreeUserPages(s, t) ==
  LET after[n \in 0 .. DIRS * SLOTS] ==
        IF n = 0 THEN s ELSE FreePage(after[n - 1], t, n - 1)
  IN  after[DIRS * SLOTS]
FreeUser(s, t) ==
  LET after[n \in 0 .. DIRS] ==
        IF n = 0 THEN FreeUserPages(s, t) ELSE FreeTable(after[n - 1], t, n - 1)
  IN  after[DIRS]

(* alloc_pages() for the pages first .. last, filled with file content:    *)
(* a page that is there already keeps its entry.                           *)
AllocPage(s, t, v, rw) ==
  LET a == Alloc(s) IN
  IF s.panic # "no" \/ Present(s, t, v) THEN s
  ELSE IF a.panic # "no" THEN a
  ELSE Map([a EXCEPT !.data[NewFrame(s)] = FromFile], t, v, Entry(NewFrame(s), rw))

AllocPages(s, t, first, last, rw) ==
  LET after[n \in 0 .. last - first + 1] ==
        IF n = 0 THEN s ELSE AllocPage(after[n - 1], t, first + n - 1, rw)
  IN  after[last - first + 1]
-----------------------------------------------------------------------------
(* Handlers, as operators on the memory.                                   *)

(* do_execve(): the stack page, the text read-only, the data writable.     *)
Loaded(s, t, image) ==
  LET a == FreeUser(s, t)
      b == Map(Alloc(a), t, Stack, Entry(NewFrame(a), TRUE))
      c == IF Alloc(a).panic # "no" THEN Alloc(a) ELSE b
  IN  AllocPages(AllocPages(c, t, 0, image.code, FALSE), t,
                 image.code + 1, image.data, TRUE)

(* fork_mem(): directory d of parent and child after it.  The entries are  *)
(* marked whether present or not.                                          *)
MarkedWritable(dir) ==  \* mutant: bit 1 is not cleared
  [d \in Dir |-> [dir[d] EXCEPT !.cow = TRUE, !.shared = TRUE]]
Marked(dir) == [d \in Dir |-> [dir[d] EXCEPT !.rw = FALSE, !.cow = TRUE, !.shared = TRUE]]

(* inc_phys_refs() counts a reference for every entry with a frame number, *)
(* those of pages and tables that are no longer present included.          *)
NewRefs(s, t, f) ==
  Quantify(Page, LAMBDA v : PDE(s, t, v).present /\ PTE(s, t, v).frame = f)
    + Quantify(Dir, LAMBDA d : s.dir[t][d].frame = f)

Copied(s, t, c) ==
  [s EXCEPT !.dir[t] = Marked(s.dir[t]), !.dir[c] = Marked(s.dir[t]),
            !.refs = [f \in Frame |-> Count(s, f, NewRefs(s, t, f))]]

(* pf_non_present() of a legal access: alloc_page() puts the page where    *)
(* get_free_address() says: at v, or, if v has no page table yet, at the   *)
(* first page of a new table that user mode cannot reach.                  *)
Appeared(s, t, v) ==
  LET a == Alloc(s)
      b == IF a.panic # "no" \/ PDE(a, t, v).present THEN a
           ELSE AddTable(a, t, DirOf(v), FALSE)
      target == IF PDE(a, t, v).present THEN v ELSE DirOf(v) * SLOTS
  IN  IF b.panic # "no" THEN b ELSE Map(b, t, target, Entry(NewFrame(s), TRUE))

(* enable_CoW() *)
Unmarked(tab) == [i \in Slot |-> [tab[i] EXCEPT !.rw = FALSE]]  \* mutant: bit 9 is not set
Protected(tab) == [i \in Slot |-> [tab[i] EXCEPT !.rw = FALSE, !.cow = TRUE]]

(* The memcpy() of pf_ro_violation(). *)
PageNotCopied(s, from, to) == s  \* mutant: the new page is handed out as it is
PageCopied(s, from, to) == [s EXCEPT !.data[to] = s.data[from]]

(* pf_ro_violation(): the page table and then the page become private.     *)
Unshared(s, t, v) ==
  LET d == DirOf(v)
      old == PTE(s, t, v).frame
      a == IF PDE(s, t, v).cow THEN CopyTable(s, t, d) ELSE s
      b == IF PDE(s, t, v).cow /\ a.panic = "no"
             THEN [a EXCEPT !.tab[a.dir[t][d].frame] = Protected(@)] ELSE a
      c == Alloc(b)
  IN  IF ~ (PDE(s, t, v).cow \/ PTE(s, t, v).cow) THEN Panic(s, "read_only")
      ELSE IF c.panic # "no" THEN c
      ELSE Drop(Map(PageCopied(c, old, NewFrame(b)), t, v,
                    Entry(NewFrame(b), TRUE)), old)
-----------------------------------------------------------------------------
NoTask == [state |-> "none", self |-> 0, page_directory |-> 0, code_end |-> 0, brk |-> 0]

Nothing ==
  [refs |-> [f \in Frame |-> 0],
   dir |-> [t \in Task |-> [d \in Dir |-> NoTable]],
   tab |-> [f \in Frame |-> EmptyTable],
   data |-> [f \in Frame |-> Junk],
   panic |-> "no"]

(* Process 0 has executed its program, for which there was memory enough;  *)
(* its task structure and its page directory are part of the kernel.       *)
Init ==
  \E image \in Images :
    /\ m = Loaded(Nothing, 0, image)
    /\ m.panic = "no"
    /\ task = [t \in Task |-> IF t = 0
                 THEN [NoTask EXCEPT !.state = "alive", !.code_end = image.code,
                                     !.brk = image.data]
                 ELSE NoTask]

Runs(t) == m.panic = "no" /\ task[t].state = "alive"

(* The pages a correct program writes to: data, heap and stack. *)
Own(t, v) == v = Stack \/ (task[t].code_end < v /\ v <= task[t].brk)

(* The MMU in user mode, and in kernel mode: CR0.WP is never set. *)
CanWrite(t, v) ==
  Present(m, t, v) /\ PTE(m, t, v).rw /\ PDE(m, t, v).rw /\ PDE(m, t, v).user

Write(t, v, x) ==
  /\ Runs(t) /\ Own(t, v) /\ CanWrite(t, v)
  /\ m' = [m EXCEPT !.data[PTE(m, t, v).frame] = x]
  /\ UNCHANGED task

(* do_read() and do_wait() store into their caller's buffer. *)
KernelWrite(t, v, x) ==
  /\ Runs(t) /\ Own(t, v) /\ Present(m, t, v)
  /\ SharedBuffers \/ CanWrite(t, v)
  /\ m' = [m EXCEPT !.data[PTE(m, t, v).frame] = x]
  /\ UNCHANGED task

(* page_fault() of an access to a page that is not present, and of a write *)
(* that an entry forbids.                                                  *)
Touch(t, v) ==
  /\ Runs(t) /\ Own(t, v) /\ ~ Present(m, t, v)
  /\ m' = Appeared(m, t, v)
  /\ UNCHANGED task

WriteFault(t, v) ==
  /\ Runs(t) /\ Own(t, v) /\ Present(m, t, v) /\ ~ CanWrite(t, v)
  /\ m' = Unshared(m, t, v)
  /\ UNCHANGED task

(* do_sbrk() *)
SbrkBelowStack(t, b) ==  \* mutant: only the upper bound is tested
  /\ Runs(t)
  /\ b < Stack /\ b # task[t].brk
  /\ task' = [task EXCEPT ![t].brk = b]
  /\ UNCHANGED m
Sbrk(t, b) ==
  /\ Runs(t)
  /\ b > task[t].code_end /\ b < Stack /\ b # task[t].brk
  /\ task' = [task EXCEPT ![t].brk = b]
  /\ UNCHANGED m

(* do_fork() *)
Fork(t, c) ==
  LET a == Alloc(m)
      b == Alloc(a)
  IN  /\ Runs(t) /\ task[c].state = "none"
      /\ \A e \in Task : task[e].state = "none" => c <= e
      /\ IF b.panic # "no"
           THEN m' = b /\ UNCHANGED task
           ELSE /\ m' = Copied(b, t, c)
                /\ task' = [task EXCEPT ![c] =
                      [task[t] EXCEPT !.self = NewFrame(m), !.page_directory = NewFrame(a)]]

Execve(t, image) ==
  /\ Runs(t)
  /\ m' = Loaded(m, t, image)
  /\ task' = [task EXCEPT ![t].code_end = image.code, ![t].brk = image.data]

(* do_exit(), and free_task() in the do_wait() of the parent. *)
Exit(t) ==
  /\ Runs(t) /\ t # 0
  /\ m' = FreeUser(m, t)
  /\ task' = [task EXCEPT ![t].state = "stopped"]

Reap(t) ==
  /\ m.panic = "no" /\ task[t].state = "stopped"
  /\ m' = [Drop(Drop(m, task[t].page_directory), task[t].self)
             EXCEPT !.dir[t] = Nothing.dir[t]]
  /\ task' = [task EXCEPT ![t] = NoTask]

Halted == m.panic # "no" /\ UNCHANGED vars

Next ==
  \/ \E t \in Task, v \in Page :
       \/ \E x \in Value : Write(t, v, x) \/ KernelWrite(t, v, x)
       \/ Touch(t, v) \/ WriteFault(t, v)
  \/ \E t \in Task, b \in 0 .. MaxBrk : Sbrk(t, b)
  \/ \E t, c \in Task : Fork(t, c)
  \/ \E t \in Task, image \in Images : Execve(t, image)
  \/ \E t \in Task : Exit(t) \/ Reap(t)
  \/ Halted

Spec == Init /\ [][Next]_vars
-----------------------------------------------------------------------------
(* Type correctness of memory and task structures; the break stays between *)
(* the text and the stack.                                                 *)
TypeOK ==
  /\ m.refs \in [Frame -> 0 .. UINT8 - 1]
  /\ m.dir \in [Task -> [Dir -> [frame : Frame \cup {0}, present : BOOLEAN, rw : BOOLEAN,
                                user : BOOLEAN, cow : BOOLEAN, shared : BOOLEAN]]]
  /\ m.tab \in [Frame -> [Slot -> [frame : Frame \cup {0}, present : BOOLEAN,
                                  rw : BOOLEAN, cow : BOOLEAN]]]
  /\ m.data \in [Frame -> Value \cup {Junk, FromFile}]
  /\ m.panic \in {"no", "out_of_memory", "read_only"}
  /\ task \in [Task -> [state : {"none", "alive", "stopped"}, self : Frame \cup {0},
                        page_directory : Frame \cup {0}, code_end : Page, brk : Page]]
  /\ \A t \in Task : task[t].state # "none" =>
       task[t].code_end < task[t].brk /\ task[t].brk < Stack

(* How many mappings and owners a frame has. *)
Uses(f) ==
  Quantify(Task \X Dir, LAMBDA td : m.dir[td[1]][td[2]].present /\ m.dir[td[1]][td[2]].frame = f)
    + Quantify(Task \X Page, LAMBDA tv : Present(m, tv[1], tv[2]) /\ PTE(m, tv[1], tv[2]).frame = f)
    + Quantify(Task, LAMBDA t : f \in {task[t].self, task[t].page_directory})

(* The count of a page frame is the number of address spaces that have it, *)
(* as a page or as a page table, and of task structures: nothing in use is *)
(* handed out again, and nothing is leaked.                                *)
RefsExact == m.panic = "no" => \A f \in Frame : m.refs[f] = Uses(f)

(* A page that a process can write to in user mode is no one else's, and   *)
(* neither is the page table that says so.                                 *)
WritableIsPrivate ==
  m.panic = "no" =>
    \A t \in Task, v \in Page : (task[t].state = "alive" /\ CanWrite(t, v))
      => m.refs[PTE(m, t, v).frame] = 1 /\ m.refs[PDE(m, t, v).frame] = 1

(* A program that stays in its data, heap and stack never brings the       *)
(* kernel down, but for want of memory.                                    *)
OnlyMemoryRunsOut == m.panic # "read_only"

(* mm.c:50: alloc_page() puts a new page at the first free address from    *)
(* the target address on, here the page that was touched.                  *)
TouchedPageAppears ==
  [][\A t \in Task, v \in Page :
       (Touch(t, v) /\ m'.panic = "no") => Present(m', t, v)]_vars

Memory(t) ==
  [v \in Page |-> IF task[t].state = "alive" /\ Present(m, t, v)
                  THEN m.data[PTE(m, t, v).frame] ELSE None]

FileMemory(image) ==
  [v \in Page |-> IF v <= image.data THEN FromFile ELSE IF v = Stack THEN Junk ELSE None]

Private == INSTANCE PrivateMemory WITH
  Images <- {FileMemory(i) : i \in Images},
  memory <- [t \in Task |-> Memory(t)],
  up <- m.panic = "no"

(* The page tables implement private memories: sharing after a fork, page  *)
(* faults and frames that are used again never show in another process.    *)
ImplementsPrivateMemory == Private!Spec
=============================================================================
