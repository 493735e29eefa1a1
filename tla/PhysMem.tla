-------------------------------- MODULE PhysMem -------------------------------
(***************************************************************************)
(* init_phys_mm(): what the boot loader's memory map makes of the table of *)
(* page frames (kernel/phys_mm.c).  A step is one turn of one of the two   *)
(* loops over the map.                                                     *)
(***************************************************************************)
EXTENDS Naturals, Sequences

CONSTANTS
  PAGE_SIZE,    (* the bytes of a page (4096)                               *)
  BITMAP_SIZE,  (* the entries of the table (2^20)                          *)
  KERNEL,       (* the frames that are kept for the kernel (1024)           *)
  Maps          (* memory maps: sequences of [addr, len, usable]            *)

ASSUME PhysMemAssumption ==
  /\ PAGE_SIZE \in Nat \ {0}
  /\ BITMAP_SIZE \in Nat
  /\ KERNEL \in 0 .. BITMAP_SIZE
  /\ Maps \subseteq Seq([addr : Nat, len : Nat, usable : BOOLEAN])

(* The table, and the byte behind it in memory. *)
Entries == 0 .. BITMAP_SIZE - 1
Cells == Entries \cup {BITMAP_SIZE}

VARIABLES
  map,    (* the entries of the memory map                         *)
  bitmap, (* bitmap[f]: frame f is in use, or no memory            *)
  pass,   (* the loop that runs                                    *)
  i       (* its counter                                           *)

vars == <<map, bitmap, pass, i>>

(* set_bitmap_area() up to the last cell that its test lets through. *)
SetArea(value, first, last) ==
  [j \in Cells |-> IF first <= j /\ j < last THEN value ELSE bitmap[j]]

(* The entry of the map, and the first and the last page of it. *)
Region == map[i]
FirstPage == Region.addr \div PAGE_SIZE
LastRoundedUp == (Region.len + Region.addr) \div PAGE_SIZE + 1  \* mutant: one page too many
LastPage == (Region.len + Region.addr) \div PAGE_SIZE

(* The whole table was just marked as used; the byte behind it has a value *)
(* that is not 0.                                                          *)
Init ==
  /\ map \in Maps
  /\ bitmap = [j \in Cells |-> TRUE]
  /\ pass = "usable"
  /\ i = 1

NextEntry(following) ==
  IF i < Len(map) THEN i' = i + 1 /\ UNCHANGED pass ELSE i' = 1 /\ pass' = following

ReadUsable ==
  /\ pass = "usable"
  /\ bitmap' = IF i <= Len(map) /\ Region.usable THEN SetArea(FALSE, FirstPage, LastPage) ELSE bitmap
  /\ NextEntry("unusable")
  /\ UNCHANGED map

ReadUnusable ==
  /\ pass = "unusable"
  /\ bitmap' = IF i <= Len(map) /\ ~ Region.usable THEN SetArea(TRUE, FirstPage, LastPage) ELSE bitmap
  /\ NextEntry("kernel")
  /\ UNCHANGED map

KeepKernel ==
  /\ pass = "kernel"
  /\ bitmap' = SetArea(TRUE, 0, KERNEL)
  /\ pass' = "done"
  /\ UNCHANGED <<map, i>>

Next == ReadUsable \/ ReadUnusable \/ KeepKernel

Spec == Init /\ [][Next]_vars
-----------------------------------------------------------------------------
In(byte, r) == r.addr <= byte /\ byte < r.addr + r.len

(* An address that the map says is memory, and that no entry says is not. *)
Usable(byte) ==
  /\ \E n \in DOMAIN map : map[n].usable /\ In(byte, map[n])
  /\ \A n \in DOMAIN map : ~ map[n].usable => ~ In(byte, map[n])

Done == pass = "done"
Free(f) == ~ bitmap[f]

(* Both ends of every region are rounded down: whatever the map, it is the *)
(* last byte of a frame that decides.                                      *)
LastByteDecides ==
  Done => \A f \in Entries :
            Free(f) <=> f >= KERNEL /\ Usable((f + 1) * PAGE_SIZE - 1)

(* phys_mm.c:19-21: the table is brought up "to the current situation",    *)
(* and it is made sure that "unusable parts of the memory won't be used".  *)
UnusableNeverFree ==
  Done => \A f \in Entries :
            Free(f) => \A b \in f * PAGE_SIZE .. (f + 1) * PAGE_SIZE - 1 : Usable(b)

(* phys_mm.c:112-113: a frame number beyond the table is passed over.      *)
NothingWrittenBeyond == bitmap[BITMAP_SIZE]
=============================================================================
