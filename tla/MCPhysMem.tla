------------------------------- MODULE MCPhysMem ------------------------------
(* Instances of PhysMem for TLC: pages of four bytes, and all maps of two  *)
(* or three regions whose ends lie at the given addresses.                 *)
EXTENDS PhysMem

RegionsBetween(ends) ==
  {[addr |-> e[1], len |-> e[2] - e[1], usable |-> u] :
     e \in {e \in ends \X ends : e[1] < e[2]}, u \in BOOLEAN}

(* Every alignment of the ends, up to the end of the table. *)
MCAnywhere ==
  LET R == RegionsBetween({0, 4, 5, 7, 10, 12, 15, 20, 23, 24}) IN
  [1 .. 2 -> R] \cup [1 .. 3 -> {r \in R : r.addr \in {4, 7} /\ r.addr + r.len \in {10, 12, 23}}]

(* A second region above what 32-bit addresses reach. *)
MCHighMemory == [1 .. 2 -> RegionsBetween({0, 20, 24, 28})]
=============================================================================
