-------------------------------- MODULE Boot --------------------------------
(***************************************************************************)
(* The start of the kernel (kernel/kmain.c): from the boot loader's jump   *)
(* to the first instruction of bin/init in user mode.  A step is a call in *)
(* kmain(), an entry of the memory map (PhysMem), or a header of the       *)
(* ramdisk; the timer and the keyboard come in between.                    *)
(***************************************************************************)
EXTENDS PhysMem, Integers, FiniteSets

CONSTANTS
  Machines,  (* what the boot loader leaves: [compliant, tags], see Tag     *)
  Path,      (* the file that is started: "bin/init"                        *)
  BLOCK,     (* the bytes of a block of an archive (512)                    *)
  DIGITS,    (* the octal digits of a size (11)                             *)
  UINT       (* 2^32                                                        *)

VARIABLES
  machine,
  at,         (* where kmain() is                                          *)
  tag,        (* the number of the tag that it looks at                    *)
  cpu,        (* "runs", "hlt": in panic(); "user": in bin/init; "dead":   *)
              (* nothing runs any more; "lost": anything can happen        *)
  enabled,    (* the CPU takes interrupts                                  *)
  ready,      (* what was set up: "idt", "PIC", "gdt", "init_task", "tss"  *)
  callbacks,  (* the callback for each interrupt                           *)
  rd,         (* first_header: the tag of the ramdisk                      *)
  address     (* where find_file() looks                                   *)

kernel == <<at, tag, cpu, enabled, ready, callbacks, rd, address>>
bootVars == <<vars, machine, kernel>>

NULL == [type |-> "none"]
Interrupts == {8, 9, 14, 32, 33}  \* 8 and 9: timer and keyboard as the BIOS left the PIC

BootInit ==
  /\ machine \in Machines
  /\ at = "magic" /\ tag = 1 /\ cpu = "runs" /\ enabled = FALSE
  /\ ready = {} /\ callbacks = [n \in Interrupts |-> "none"]
  /\ rd = NULL /\ address = 0
  /\ map = <<>> /\ bitmap = [j \in Cells |-> FALSE] /\ pass = "none" /\ i = 1

(* The calls of kmain() and, from "prepare_init_task" on, of init_sched(). *)
OrderEarly ==  \* mutant: interrupts enabled before the PIC is set up
  <<"magic", "init_interrupts", "keyboard_init", "enable_interrupts", "PIC_init",
    "init_gdt", "tags", "prepare_init_task", "install_tss", "set_timer", "execve">>
OrderReset ==  \* mutant: init_interrupts() takes the keyboard's callback away
  <<"magic", "keyboard_init", "init_interrupts", "PIC_init", "init_gdt",
    "enable_interrupts", "tags", "prepare_init_task", "install_tss", "set_timer", "execve">>
Order ==
  <<"magic", "init_interrupts", "keyboard_init", "PIC_init", "init_gdt",
    "enable_interrupts", "tags", "prepare_init_task", "install_tss", "set_timer", "execve">>

Calls(call) == cpu = "runs" /\ at = call
Following == Order[1 + CHOOSE n \in DOMAIN Order : Order[n] = at]
Returns == at' = Following /\ UNCHANGED cpu
(* panic() is one hlt: the next interrupt, if there is one, ends it.       *)
Panic == cpu' = "hlt"

CheckMagic ==
  /\ Calls("magic")
  /\ at' = Following
  /\ IF machine.compliant THEN UNCHANGED cpu ELSE Panic
  /\ UNCHANGED <<vars, machine, tag, enabled, ready, callbacks, rd, address>>

init_interrupts ==
  /\ Calls("init_interrupts")
  /\ callbacks' = [n \in Interrupts |-> IF n \in 32 .. 47 THEN "main_irq_handler" ELSE "none"]
  /\ enabled' = FALSE
  /\ ready' = ready \cup {"idt"}
  /\ Returns
  /\ UNCHANGED <<vars, machine, tag, rd, address>>

keyboard_init ==
  /\ Calls("keyboard_init")
  /\ callbacks' = [callbacks EXCEPT ![33] = "handle_keyboard_input"]
  /\ Returns
  /\ UNCHANGED <<vars, machine, tag, enabled, ready, rd, address>>

PIC_init ==
  /\ Calls("PIC_init")
  /\ ready' = ready \cup {"PIC"}
  /\ Returns
  /\ UNCHANGED <<vars, machine, tag, enabled, callbacks, rd, address>>

init_gdt ==
  /\ Calls("init_gdt")
  /\ ready' = ready \cup {"gdt"}
  /\ Returns
  /\ UNCHANGED <<vars, machine, tag, enabled, callbacks, rd, address>>

enable_interrupts ==
  /\ Calls("enable_interrupts")
  /\ enabled' = TRUE
  /\ Returns
  /\ UNCHANGED <<vars, machine, tag, ready, callbacks, rd, address>>
-----------------------------------------------------------------------------
(* The loop over the tags.  A tag is [type |-> "mmap", map],               *)
(* [type |-> "module", ours, start, files, mapped]: a file that the boot   *)
(* loader put at start, ours if it is /boot/initrd.tar, mapped the blocks  *)
(* of it in the 4 MiB that the kernel can reach; or one that is skipped.   *)
Tag == machine.tags[tag]
IsTag(type) == Calls("tags") /\ tag <= Len(machine.tags) /\ Tag.type = type

EndOfTags ==
  /\ Calls("tags") /\ tag > Len(machine.tags)
  /\ Returns
  /\ UNCHANGED <<vars, machine, tag, enabled, ready, callbacks, rd, address>>

SkipTag ==
  /\ IsTag("other")
  /\ tag' = tag + 1
  /\ UNCHANGED <<vars, machine, at, cpu, enabled, ready, callbacks, rd, address>>

init_rd ==
  /\ IsTag("module")
  /\ tag' = tag + 1
  /\ IF Tag.ours THEN rd' = Tag /\ UNCHANGED cpu ELSE Panic /\ UNCHANGED rd
  /\ UNCHANGED <<vars, machine, at, enabled, ready, callbacks, address>>

(* init_mm() calls init_phys_mm(), whose loops are PhysMem's. *)
CallInitPhysMM ==
  /\ IsTag("mmap")
  /\ at' = "init_phys_mm"
  /\ map' = Tag.map
  /\ bitmap' = [j \in Cells |-> j \in Entries \/ bitmap[j]]
  /\ pass' = "usable" /\ i' = 1
  /\ UNCHANGED <<machine, tag, cpu, enabled, ready, callbacks, rd, address>>

InPhysMM == Calls("init_phys_mm") /\ Next /\ UNCHANGED <<machine, kernel>>

init_mm ==
  /\ Calls("init_phys_mm") /\ pass = "done"
  /\ pass' = "none" /\ at' = "tags" /\ tag' = tag + 1
  /\ callbacks' = [callbacks EXCEPT ![14] = "page_fault"]
  /\ UNCHANGED <<map, bitmap, i, machine, cpu, enabled, ready, rd, address>>

prepare_init_task ==
  /\ Calls("prepare_init_task")
  /\ ready' = ready \cup {"init_task"}
  /\ Returns
  /\ UNCHANGED <<vars, machine, tag, enabled, callbacks, rd, address>>

install_tss ==
  /\ Calls("install_tss")
  /\ ready' = ready \cup {"tss"}
  /\ Returns
  /\ UNCHANGED <<vars, machine, tag, enabled, callbacks, rd, address>>

SetTimer ==
  /\ Calls("set_timer")
  /\ callbacks' = [callbacks EXCEPT ![32] = "sched"]
  /\ Returns
  /\ UNCHANGED <<vars, machine, tag, enabled, ready, rd, address>>
-----------------------------------------------------------------------------
(* The archive: a header for each file, with the digits of its size less   *)
(* '0', its data, and a block of zeros at the end.  Data looks like the    *)
(* header of the sought file here: the worst there can be.                 *)
Rest(n) ==  \* n without its last digit, without its last two, ...
  LET rest[k \in 0 .. DIGITS] == IF k = 0 THEN n ELSE rest[k - 1] \div 8 IN rest
Octal(n) == [k \in 1 .. DIGITS |-> Rest(n)[DIGITS - k] % 8]
DataBlocks(file) == (file.size + BLOCK - 1) \div BLOCK
Header(file) == [name |-> file.name, size |-> Octal(file.size)]
Zeros == [name |-> "", size |-> [k \in 1 .. DIGITS |-> - 48]]
Blocks(files) ==
  LET upTo[n \in 0 .. Len(files)] ==
        IF n = 0 THEN <<>>
        ELSE upTo[n - 1] \o <<Header(files[n])>>
             \o [k \in 1 .. DataBlocks(files[n]) |-> [name |-> Path, size |-> Octal(0)]]
  IN  upTo[Len(files)] \o <<Zeros>>

(* The blocks before the header of each file, counted file by file. *)
Sizes(files) ==
  LET sum[n \in 0 .. Len(files)] ==
        IF n = 0 THEN 0 ELSE sum[n - 1] + 1 + DataBlocks(files[n])
  IN  sum
BlocksBefore(files, n) == Sizes(files)[n - 1]

getsize(in) ==
  LET size[k \in 0 .. DIGITS] == IF k = 0 THEN 0 ELSE (size[k - 1] * 8 + in[k]) % UINT
  IN  size[DIGITS]

(* What tar and the boot loader make: files have names, a size has room in *)
(* its digits, and the archive ends before the addresses do.               *)
Files == [name : STRING \ {""}, size : Nat, pages : Nat,
          kind : {"directory", "ELF", "binary", "empty ELF"}]
MapEntries == [addr : Nat, len : Nat, usable : BOOLEAN]
Tags ==
  [type : {"other"}]
  \cup [type : {"mmap"}, map : Seq(MapEntries)]
  \cup {t \in [type : {"module"}, ours : BOOLEAN, start : Nat, files : Seq(Files), mapped : Nat] :
          /\ \A n \in DOMAIN t.files :
               t.files[n].size < UINT /\ Rest(t.files[n].size)[DIGITS] = 0
          /\ t.start + Len(Blocks(t.files)) * BLOCK <= UINT}

ASSUME BootAssumption ==
  /\ BLOCK \in Nat /\ BLOCK > 1
  /\ UINT \in Nat /\ UINT % BLOCK = 0
  /\ DIGITS \in Nat
  /\ Path # ""
  /\ \A a \in Machines : a.compliant \in BOOLEAN /\ a.tags \in Seq(Tags)

(* How far the next header is.  For size 0 the subtraction wraps, and the  *)
(* multiplication wraps back.                                              *)
SkipOneMore(size) == ((size \div BLOCK + 2) * BLOCK) % UINT  \* mutant: size for size - 1
Skip(size) == ((((size - 1) % UINT) \div BLOCK + 2) * BLOCK) % UINT

Execve ==
  /\ Calls("execve")
  /\ at' = "find_file"
  /\ IF rd = NULL THEN UNCHANGED address ELSE address' = rd.start
  /\ UNCHANGED <<vars, machine, tag, cpu, enabled, ready, callbacks, rd>>

(* A page fault, with no callback or with one that finds no such page:     *)
(* panic() with interrupts disabled.                                       *)
Faults == cpu' = "dead" /\ UNCHANGED at

FindFile ==
  LET block == (address - rd.start) \div BLOCK + 1
      header == Blocks(rd.files)[block]
  IN
  /\ Calls("find_file") /\ rd # NULL
  /\ IF block > rd.mapped THEN Faults /\ UNCHANGED address
     ELSE IF block > Len(Blocks(rd.files))
       THEN cpu' = "lost" /\ UNCHANGED <<at, address>>
     ELSE IF header.name = Path
       THEN at' = "load" /\ UNCHANGED <<cpu, address>>
     ELSE /\ address' = (address + Skip(getsize(header.size))) % UINT
          /\ at' = IF header.name = "" THEN "while" ELSE "find_file"
          /\ UNCHANGED cpu
  /\ UNCHANGED <<vars, machine, tag, enabled, ready, callbacks, rd>>

(* first_header is NULL.  What lies at address 0 is the BIOS's, as long as *)
(* init_mm() has not removed the page.                                     *)
FindFileAtNull ==
  /\ Calls("find_file") /\ rd = NULL
  /\ \/ Faults
     \/ callbacks[14] = "none" /\ at' = "while" /\ UNCHANGED cpu
  /\ UNCHANGED <<vars, machine, tag, enabled, ready, callbacks, rd, address>>

(* The file that the header belongs to, and the frames for its pages, its  *)
(* stack and their page tables.                                            *)
Found == rd.files[CHOOSE n \in DOMAIN rd.files :
                    rd.start + BlocksBefore(rd.files, n) * BLOCK = address]
Frames(file) == file.pages + 3
FreeFrames == {f \in Entries : Free(f)}
Lowest(n) == {f \in FreeFrames : Cardinality({g \in FreeFrames : g < f}) < n}

(* do_execve() behind find_file(): free_mem_usr() needs init_mm()'s map of *)
(* the page tables; without a frame panic() returns, and frame 0 is used.  *)
Reaches(file) == (address - rd.start) \div BLOCK + 1 + DataBlocks(file) <= rd.mapped
Load ==
  /\ Calls("load")
  /\ IF callbacks[14] = "none" THEN Faults /\ UNCHANGED bitmap
     ELSE IF Cardinality(FreeFrames) < Frames(Found)
       THEN cpu' = "lost" /\ UNCHANGED <<at, bitmap>>
     ELSE IF ~ Reaches(Found) THEN Faults /\ UNCHANGED bitmap
     ELSE /\ bitmap' = [j \in Cells |-> bitmap[j] \/ j \in Lowest(Frames(Found))]
          /\ at' = "iret"
          /\ IF Found.kind = "empty ELF" THEN Panic ELSE UNCHANGED cpu
  /\ UNCHANGED <<map, pass, i, machine, tag, enabled, ready, callbacks, rd, address>>

(* switch_to_userspace(), with interrupts enabled in eflags; a file        *)
(* without segments has no first instruction.                              *)
SwitchToUserspace ==
  /\ Calls("iret")
  /\ cpu' = IF Found.kind = "empty ELF" THEN "dead" ELSE "user"
  /\ enabled' = TRUE
  /\ UNCHANGED <<vars, machine, at, tag, ready, callbacks, rd, address>>
-----------------------------------------------------------------------------
(* main_intr_handler() for the timer or the keyboard.  The only task there *)
(* is goes on; without its callback an interrupt ends in panic().          *)
Vector(irq) == IF "PIC" \in ready THEN 32 + irq ELSE 8 + irq
Interrupt ==
  /\ enabled /\ cpu \in {"runs", "hlt"}
  /\ \E irq \in {0, 1} :
       LET callback == callbacks[Vector(irq)] IN
       cpu' = IF \/ "idt" \notin ready
                 \/ callback = "none"
                 \/ callback = "sched" /\ "init_task" \notin ready
              THEN "dead" ELSE "runs"
  /\ UNCHANGED <<vars, machine, at, tag, enabled, ready, callbacks, rd, address>>

Stopped ==
  /\ cpu \in {"dead", "lost", "user"} \/ (cpu = "hlt" /\ ~ enabled) \/ at = "while"
  /\ UNCHANGED bootVars

Kernel ==
  \/ CheckMagic \/ init_interrupts \/ keyboard_init \/ PIC_init \/ init_gdt
  \/ enable_interrupts
  \/ EndOfTags \/ SkipTag \/ init_rd \/ CallInitPhysMM \/ InPhysMM \/ init_mm
  \/ prepare_init_task \/ install_tss \/ SetTimer
  \/ Execve \/ FindFile \/ FindFileAtNull \/ Load \/ SwitchToUserspace

BootNext == Kernel \/ Interrupt \/ Stopped

(* The CPU runs, and the timer never stops. *)
BootSpec ==
  BootInit /\ [][BootNext]_bootVars /\ WF_bootVars(Kernel) /\ WF_bootVars(Interrupt)
-----------------------------------------------------------------------------
(* The archive that counts is the last of that name.  (panic() for another *)
(* module is over with the next interrupt.)                                *)
OurModules == {n \in DOMAIN machine.tags : machine.tags[n].type = "module" /\ machine.tags[n].ours}
Ramdisk == machine.tags[CHOOSE n \in OurModules : \A m \in OurModules : m <= n]
Named(files) == {n \in DOMAIN files : files[n].name = Path}
FirstNamed(files) == CHOOSE n \in Named(files) : \A m \in Named(files) : n <= m

(* find_file() finds the first file of that name, whatever the sizes of    *)
(* the files before it and whatever their data looks like, and finds none  *)
(* only if there is none.                                                  *)
FindsFile ==
  rd # NULL =>
    /\ at = "load" =>
         /\ Named(rd.files) # {}
         /\ address = rd.start + BlocksBefore(rd.files, FirstNamed(rd.files)) * BLOCK
    /\ at = "while" => Named(rd.files) = {}

(* What the machine must have for bin/init to run. *)
LastByteFree(m, f) ==
  LET byte == (f + 1) * PAGE_SIZE - 1 IN
  /\ f >= KERNEL
  /\ \E n \in DOMAIN m : m[n].usable /\ In(byte, m[n])
  /\ \A n \in DOMAIN m : ~ m[n].usable => ~ In(byte, m[n])
MemoryMaps == {n \in DOMAIN machine.tags : machine.tags[n].type = "mmap"}
MemoryMap == machine.tags[CHOOSE n \in MemoryMaps : \A m \in MemoryMaps : m <= n].map
Complete ==
  /\ machine.compliant
  /\ MemoryMaps # {}
  /\ OurModules # {} /\ Named(Ramdisk.files) # {}
  /\ LET n == FirstNamed(Ramdisk.files)
         file == Ramdisk.files[n]
     IN  /\ file.kind # "empty ELF"
         /\ BlocksBefore(Ramdisk.files, n) + 1 + DataBlocks(file) <= Ramdisk.mapped
         /\ Cardinality({f \in Entries : LastByteFree(MemoryMap, f)}) >= Frames(file)

(* User mode is entered only when everything is in place for it, whatever  *)
(* interrupts came, and whatever panics were passed.                       *)
UserModeIsReady ==
  cpu = "user" =>
    /\ Complete /\ enabled
    /\ ready = {"idt", "PIC", "gdt", "init_task", "tss"}
    /\ callbacks = [n \in Interrupts |->
                      CASE n = 14 -> "page_fault"
                        [] n = 32 -> "sched"
                        [] n = 33 -> "handle_keyboard_input"
                        [] OTHER  -> "none"]

(* A complete machine gets to bin/init. *)
Boots == Complete ~> cpu = "user"

(* "panic": it is the end.  kernel_halt() returns with the next interrupt. *)
PanicIsFinal == [][cpu = "hlt" => cpu' = "hlt"]_bootVars
=============================================================================
