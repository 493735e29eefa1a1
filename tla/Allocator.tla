------------------------------ MODULE Allocator ------------------------------
(***************************************************************************)
(* What malloc() and free() promise to a program.  Memory is counted in    *)
(* headers; a block is a header and the bytes behind it.  Heap is shown to *)
(* implement this.                                                         *)
(***************************************************************************)
EXTENDS Naturals

CONSTANTS HEAP, HEADER, Requests

VARIABLES
  held,  (* the blocks a program has been given: [at, len]  *)
  brk,   (* the end of the memory the allocator got         *)
  want   (* the size last asked for, in bytes               *)

vars == <<held, brk, want>>

Room(at, len) ==
  /\ at + len <= brk
  /\ \A b \in held : at + len <= b.at \/ b.at + b.len <= at

Enough(len) == (len - 1) * HEADER >= want

Init ==
  /\ held = {}
  /\ brk = 1
  /\ want = 1

Ask(n) == want' = n /\ UNCHANGED <<held, brk>>

Give ==
  /\ \E at, len \in 1 .. HEAP :
       Enough(len) /\ Room(at, len) /\ held' = held \cup {[at |-> at, len |-> len]}
  /\ UNCHANGED <<brk, want>>

Grow ==
  /\ \A at, len \in 1 .. HEAP : Enough(len) => ~ Room(at, len)
  /\ brk' \in brk + 1 .. HEAP + 1
  /\ UNCHANGED <<held, want>>

TakeBack(b) == held' = held \ {b} /\ UNCHANGED <<brk, want>>

Next ==
  \/ \E n \in Requests : Ask(n)
  \/ Give
  \/ Grow
  \/ \E b \in held : TakeBack(b)

Spec == Init /\ [][Next]_vars
=============================================================================
