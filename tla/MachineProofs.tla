---------------------------- MODULE MachineProofs ----------------------------
(***************************************************************************)
(* Theorems about the kernel and the machine: about PhysMem and Boot for   *)
(* every memory map, every machine and every archive; and about Trap for   *)
(* every number of processes and of pages, and every layout of the heaps.  *)
(***************************************************************************)
EXTENDS Boot, Trap, FiniteSetTheorems, SequenceTheorems, WellFoundedInduction, TLAPS

-----------------------------------------------------------------------------
(* Induction over the calls of a recursion: a set of natural numbers with  *)
(* a member has a least one.                                               *)

LEMMA LeastOf ==
  ASSUME NEW S, S \subseteq Nat, S # {}
  PROVE  \E x \in S : \A y \in S : x <= y
<1>1. PICK x \in S : \A y \in S : ~ (<<y, x>> \in OpToRel(<, Nat))
  BY NatLessThanWellFounded, WFMin, Zenon
<1>2. \A y \in S : x <= y
  <2>1. TAKE y \in S
  <2>2. ~ (<<y, x>> \in OpToRel(<, Nat))
    BY <1>1
  <2>3. ~ (y < x)
    BY <2>2 DEF OpToRel
  <2>4. QED
    BY <2>3
<1>3. QED
  BY <1>2

(* A set of numbers up to n that has 0, and of each number the next, has n. *)
LEMMA UpTo ==
  ASSUME NEW n \in Nat, NEW S, 0 \in S, \A j \in 0 .. n - 1 : j \in S => j + 1 \in S
  PROVE  \A j \in 0 .. n : j \in S
<1> DEFINE T == {j \in 0 .. n : j \notin S}
<1>1. ASSUME T # {}
      PROVE  FALSE
  <2>1. PICK x \in T : \A y \in T : x <= y
    <3>1. T \subseteq Nat
      OBVIOUS
    <3> HIDE DEF T
    <3>2. QED
      BY <1>1, <3>1, LeastOf
  <2>2. x \in 0 .. n /\ x \notin S /\ x # 0
    BY <2>1
  <2>3. x - 1 \in 0 .. n /\ x - 1 \in 0 .. n - 1 /\ ~ (x <= x - 1) /\ (x - 1) + 1 = x
    BY <2>2
  <2>4. x - 1 \in S
    BY <2>1, <2>3
  <2>5. QED
    BY <2>2, <2>3, <2>4
<1>2. QED
  BY <1>1
(* The states that a loop of n turns passes through: turn j applies F[j].  *)
LEMMA Turns ==
  ASSUME NEW D, NEW x \in D, NEW n \in Nat, NEW F \in [1 .. n -> [D -> D]]
  PROVE  \E g \in [0 .. n -> D] : g[0] = x /\ \A j \in 1 .. n : g[j] = F[j][g[j - 1]]
<1> DEFINE Run(m, g) == g[0] = x /\ \A j \in 1 .. m : g[j] = F[j][g[j - 1]]
           S == {m \in 0 .. n : \E g \in [0 .. m -> D] : Run(m, g)}
<1>1. 0 \in S
  <2> DEFINE g == [j \in 0 .. 0 |-> x]
  <2>1. g \in [0 .. 0 -> D] /\ g[0] = x
    OBVIOUS
  <2>2. Run(0, g)
    BY <2>1
  <2> HIDE DEF g
  <2>3. \E k \in [0 .. 0 -> D] : Run(0, k)
    BY <2>1, <2>2
  <2>4. QED
    BY <2>3
<1>2. ASSUME NEW m \in 0 .. n - 1, m \in S
      PROVE  m + 1 \in S
  <2>1. PICK g \in [0 .. m -> D] : Run(m, g)
    BY <1>2
  <2> DEFINE h == [j \in 0 .. m + 1 |-> IF j = m + 1 THEN F[m + 1][g[m]] ELSE g[j]]
  <2>2. m + 1 \in 1 .. n /\ F[m + 1][g[m]] \in D
    OBVIOUS
  <2>3. h \in [0 .. m + 1 -> D]
    BY <2>2
  <2>4. \A j \in 0 .. m : h[j] = g[j]
    OBVIOUS
  <2>5. h[m + 1] = F[m + 1][g[m]] /\ h[m] = g[m]
    OBVIOUS
  <2> HIDE DEF h
  <2>6. \A j \in 1 .. m : h[j] = F[j][h[j - 1]]
    BY <2>1, <2>4
  <2>7. Run(m + 1, h)
    <3>1. \A j \in 1 .. m + 1 : j \in 1 .. m \/ (j = m + 1 /\ j - 1 = m)
      OBVIOUS
    <3>2. h[0] = x
      BY <2>1, <2>4
    <3>3. QED
      BY <2>5, <2>6, <3>1, <3>2
  <2>8. QED
    BY <2>2, <2>3, <2>7
<1> HIDE DEF S
<1>3. n \in S
  <2>1. \A j \in 0 .. n : j \in S
    BY <1>1, <1>2, UpTo
  <2>2. QED
    BY <2>1
<1>4. QED
  BY <1>3 DEF S
-----------------------------------------------------------------------------
(* The table of page frames.                                              *)

LastByte(f) == (f + 1) * PAGE_SIZE - 1

(* What the first n entries of the map say of the last byte of frame f.    *)
SomeUsable(f, n) == \E k \in DOMAIN map : k <= n /\ map[k].usable /\ In(LastByte(f), map[k])
NoneUnusable(f, n) == \A k \in DOMAIN map : k <= n /\ ~ map[k].usable => ~ In(LastByte(f), map[k])

TableType ==
  /\ map \in Seq(MapEntries)
  /\ bitmap \in [Cells -> BOOLEAN]
  /\ pass \in {"usable", "unusable", "kernel", "done", "none"}
  /\ i \in 1 .. Len(map) + 1

(* The table, while the loops run: what they have read of the map so far.  *)
ReadSoFar ==
  \A f \in Entries :
    /\ pass = "usable" => (Free(f) <=> SomeUsable(f, i - 1))
    /\ pass = "unusable" => (Free(f) <=> SomeUsable(f, Len(map)) /\ NoneUnusable(f, i - 1))
    /\ pass = "kernel" => (Free(f) <=> SomeUsable(f, Len(map)) /\ NoneUnusable(f, Len(map)))
    /\ pass = "done" =>
         (Free(f) <=> f >= KERNEL /\ SomeUsable(f, Len(map)) /\ NoneUnusable(f, Len(map)))

TableInv == TableType /\ ReadSoFar
-----------------------------------------------------------------------------
(* Rounding down: a page number is compared with the end of the page.      *)
LEMMA RoundedDown ==
  ASSUME NEW a \in Nat, NEW f \in Nat, NEW p \in Nat \ {0}
  PROVE  /\ a \div p <= f <=> a < (f + 1) * p
         /\ f < a \div p <=> (f + 1) * p <= a
<1>1. PICK q \in Nat, r \in 0 .. p - 1 : q = a \div p /\ a = q * p + r
  BY Z3
<1>2. q * p \in Nat /\ (f + 1) * p \in Nat
  BY Z3
<1>3. CASE q <= f
  <2> DEFINE d == f - q
  <2>1. d \in Nat /\ f + 1 = q + d + 1
    BY <1>1, <1>3
  <2>2. (q + d + 1) * p = q * p + d * p + p /\ d * p \in Nat
    BY <2>1, Z3
  <2> HIDE DEF d
  <2>3. a < (f + 1) * p
    BY <1>1, <1>2, <2>1, <2>2
  <2>4. QED
    BY <1>1, <1>2, <1>3, <2>3
<1>4. CASE f < q
  <2> DEFINE d == q - (f + 1)
  <2>1. d \in Nat /\ q = f + 1 + d
    BY <1>1, <1>4
  <2>2. (f + 1 + d) * p = (f + 1) * p + d * p /\ d * p \in Nat
    BY <2>1, Z3
  <2> HIDE DEF d
  <2>3. (f + 1) * p <= a
    BY <1>1, <1>2, <2>1, <2>2
  <2>4. QED
    BY <1>1, <1>2, <1>4, <2>3
<1>5. QED
  BY <1>1, <1>3, <1>4

LEMMA EntryType ==
  ASSUME TableType, NEW k \in DOMAIN map
  PROVE  /\ map[k].addr \in Nat /\ map[k].len \in Nat /\ map[k].usable \in BOOLEAN
         /\ k \in 1 .. Len(map)
<1>1. map[k] \in MapEntries /\ k \in 1 .. Len(map)
  BY DEF TableType
<1>2. QED
  BY <1>1 DEF MapEntries

(* A loop sets what its entry of the map says of the last byte of a frame. *)
LEMMA EntrySets ==
  ASSUME TableType, i \in DOMAIN map, NEW v \in BOOLEAN, NEW f \in Entries
  PROVE  SetArea(v, FirstPage, LastPage)[f] = IF In(LastByte(f), Region) THEN v ELSE bitmap[f]
<1> DEFINE a == Region.addr
           b == Region.len + Region.addr
<1>1. Region.addr \in Nat /\ Region.len \in Nat
  BY EntryType DEF Region
<1>2. a \in Nat /\ b \in Nat /\ b = a + Region.len
  BY <1>1
<1>3. f \in Nat /\ f \in Cells
  BY PhysMemAssumption DEF Entries, Cells
<1>4. PAGE_SIZE \in Nat \ {0} /\ (f + 1) * PAGE_SIZE \in Nat
  BY <1>3, PhysMemAssumption
<1>5. FirstPage <= f <=> a < (f + 1) * PAGE_SIZE
  BY <1>2, <1>3, <1>4, RoundedDown DEF FirstPage
<1>6. f < LastPage <=> (f + 1) * PAGE_SIZE <= b
  BY <1>2, <1>3, <1>4, RoundedDown DEF LastPage
<1>7. In(LastByte(f), Region) <=> FirstPage <= f /\ f < LastPage
  BY <1>2, <1>4, <1>5, <1>6 DEF In, LastByte
<1>8. QED
  BY <1>3, <1>7 DEF SetArea

LEMMA InitTable == Init => TableInv
<1> SUFFICES ASSUME Init PROVE TableInv
  OBVIOUS
<1>1. TableType
  <2>1. map \in Seq(MapEntries)
    BY PhysMemAssumption DEF Init, MapEntries
  <2>2. Len(map) \in Nat
    BY <2>1
  <2>3. QED
    BY <2>1, <2>2 DEF Init, TableType
<1>2. ASSUME NEW f \in Entries PROVE ~ Free(f) /\ ~ SomeUsable(f, i - 1)
  BY <1>1, EntryType DEF Init, Free, SomeUsable, Entries, Cells
<1>3. QED
  BY <1>1, <1>2 DEF TableInv, Init, ReadSoFar

(* The loops' counter goes on to the next entry, or the next loop begins.  *)
LEMMA CounterMoves ==
  ASSUME TableType, NEW following \in {"unusable", "kernel"}, NextEntry(following)
  PROVE  /\ i' \in 1 .. Len(map) + 1
         /\ \/ i < Len(map) /\ i' - 1 = i /\ pass' = pass
            \/ i >= Len(map) /\ i' = 1 /\ pass' = following
<1>1. Len(map) \in Nat
  BY DEF TableType
<1>2. QED
  BY <1>1 DEF TableType, NextEntry

(* What holds for the entries up to i holds for all when i was the last.   *)
LEMMA UpToEnd ==
  ASSUME TableType, NEW f \in Entries, i >= Len(map)
  PROVE  /\ SomeUsable(f, i) <=> SomeUsable(f, Len(map))
         /\ NoneUnusable(f, i) <=> NoneUnusable(f, Len(map))
<1>1. Len(map) \in Nat /\ i \in Nat
  BY DEF TableType
<1>2. QED
  BY <1>1, EntryType DEF SomeUsable, NoneUnusable

(* Entry i adds what it says itself to what the entries before it say.     *)
LEMMA OneMore ==
  ASSUME TableType, NEW f \in Entries
  PROVE  /\ SomeUsable(f, i) <=>
              \/ SomeUsable(f, i - 1)
              \/ i <= Len(map) /\ Region.usable /\ In(LastByte(f), Region)
         /\ NoneUnusable(f, i) <=>
              /\ NoneUnusable(f, i - 1)
              /\ ~ (i <= Len(map) /\ ~ Region.usable /\ In(LastByte(f), Region))
<1>1. Len(map) \in Nat /\ i \in Nat \ {0} /\ DOMAIN map = 1 .. Len(map)
  BY DEF TableType
<1>2. \A k \in DOMAIN map : k <= i <=> k <= i - 1 \/ k = i
  BY <1>1
<1>3. i <= Len(map) <=> i \in DOMAIN map
  BY <1>1
<1>4. ~ (i <= i - 1) /\ i <= i
  BY <1>1
<1>5. QED
  BY <1>2, <1>3, <1>4 DEF SomeUsable, NoneUnusable, Region

LEMMA ReadUsableStep ==
  ASSUME TableInv, ReadUsable
  PROVE  TableInv'
<1>1. TableType /\ ReadSoFar /\ pass = "usable" /\ map' = map
  BY DEF TableInv, ReadUsable
<1>2. Len(map) \in Nat /\ i \in Nat \ {0}
  BY <1>1 DEF TableType
<1>3. bitmap' \in [Cells -> BOOLEAN]
  BY <1>1 DEF ReadUsable, TableType, SetArea
<1>4. /\ i' \in 1 .. Len(map) + 1
      /\ \/ i < Len(map) /\ i' - 1 = i /\ pass' = "usable"
         \/ i >= Len(map) /\ i' = 1 /\ pass' = "unusable"
  BY <1>1, CounterMoves DEF ReadUsable
<1>5. TableType'
  BY <1>1, <1>3, <1>4 DEF TableType
<1>6. ASSUME NEW f \in Entries
      PROVE  ~ bitmap'[f] <=> SomeUsable(f, i)
  <2>1. ~ bitmap[f] <=> SomeUsable(f, i - 1)
    BY <1>1 DEF ReadSoFar, Free
  <2>2. CASE i <= Len(map) /\ Region.usable
    <3>1. i \in DOMAIN map
      BY <1>1, <1>2, <2>2 DEF TableType
    <3>2. SetArea(FALSE, FirstPage, LastPage)[f] = IF In(LastByte(f), Region) THEN FALSE ELSE bitmap[f]
      BY <1>1, <3>1, EntrySets
    <3>3. bitmap' = SetArea(FALSE, FirstPage, LastPage)
      BY <2>2 DEF ReadUsable
    <3>4. QED
      BY <1>1, <2>1, <2>2, <3>2, <3>3, OneMore
  <2>3. CASE ~ (i <= Len(map) /\ Region.usable)
    <3>1. bitmap' = bitmap
      BY <2>3 DEF ReadUsable
    <3>2. QED
      BY <1>1, <2>1, <2>3, <3>1, OneMore
  <2>4. QED
    BY <2>2, <2>3
<1>7. ASSUME NEW f \in Entries, pass' = "usable"
      PROVE  (Free(f) <=> SomeUsable(f, i - 1))'
  BY <1>1, <1>4, <1>6, <1>7 DEF Free, SomeUsable, In, LastByte
<1>8. ASSUME NEW f \in Entries, pass' = "unusable"
      PROVE  (Free(f) <=> SomeUsable(f, Len(map)) /\ NoneUnusable(f, i - 1))'
  <2>1. i >= Len(map) /\ i' = 1
    BY <1>2, <1>4, <1>8
  <2>2. SomeUsable(f, i) <=> SomeUsable(f, Len(map))
    BY <1>1, <2>1, UpToEnd
  <2>3. NoneUnusable(f, i - 1)'
    BY <1>5, <2>1 DEF NoneUnusable, TableType
  <2>4. QED
    BY <1>1, <1>6, <2>2, <2>3 DEF Free, SomeUsable, In, LastByte
<1>9. pass' \in {"usable", "unusable"}
  BY <1>4
<1>10. ReadSoFar'
  BY <1>7, <1>8, <1>9 DEF ReadSoFar
<1>11. QED
  BY <1>5, <1>10 DEF TableInv

LEMMA ReadUnusableStep ==
  ASSUME TableInv, ReadUnusable
  PROVE  TableInv'
<1>1. TableType /\ ReadSoFar /\ pass = "unusable" /\ map' = map
  BY DEF TableInv, ReadUnusable
<1>2. Len(map) \in Nat /\ i \in Nat \ {0}
  BY <1>1 DEF TableType
<1>3. bitmap' \in [Cells -> BOOLEAN]
  BY <1>1 DEF ReadUnusable, TableType, SetArea
<1>4. /\ i' \in 1 .. Len(map) + 1
      /\ \/ i < Len(map) /\ i' - 1 = i /\ pass' = "unusable"
         \/ i >= Len(map) /\ i' = 1 /\ pass' = "kernel"
  BY <1>1, CounterMoves DEF ReadUnusable
<1>5. TableType'
  BY <1>1, <1>3, <1>4 DEF TableType
<1>6. ASSUME NEW f \in Entries
      PROVE  ~ bitmap'[f] <=> SomeUsable(f, Len(map)) /\ NoneUnusable(f, i)
  <2>1. ~ bitmap[f] <=> SomeUsable(f, Len(map)) /\ NoneUnusable(f, i - 1)
    BY <1>1 DEF ReadSoFar, Free
  <2>2. CASE i <= Len(map) /\ ~ Region.usable
    <3>1. i \in DOMAIN map
      BY <1>1, <1>2, <2>2 DEF TableType
    <3>2. SetArea(TRUE, FirstPage, LastPage)[f] = IF In(LastByte(f), Region) THEN TRUE ELSE bitmap[f]
      BY <1>1, <3>1, EntrySets
    <3>3. bitmap' = SetArea(TRUE, FirstPage, LastPage)
      BY <2>2 DEF ReadUnusable
    <3>4. QED
      BY <1>1, <2>1, <2>2, <3>2, <3>3, OneMore
  <2>3. CASE ~ (i <= Len(map) /\ ~ Region.usable)
    <3>1. bitmap' = bitmap
      BY <2>3 DEF ReadUnusable
    <3>2. QED
      BY <1>1, <2>1, <2>3, <3>1, OneMore
  <2>4. QED
    BY <2>2, <2>3
<1>7. ASSUME NEW f \in Entries, pass' = "unusable"
      PROVE  (Free(f) <=> SomeUsable(f, Len(map)) /\ NoneUnusable(f, i - 1))'
  BY <1>1, <1>4, <1>6, <1>7 DEF Free, SomeUsable, NoneUnusable, In, LastByte
<1>8. ASSUME NEW f \in Entries, pass' = "kernel"
      PROVE  (Free(f) <=> SomeUsable(f, Len(map)) /\ NoneUnusable(f, Len(map)))'
  <2>1. i >= Len(map)
    BY <1>2, <1>4, <1>8
  <2>2. NoneUnusable(f, i) <=> NoneUnusable(f, Len(map))
    BY <1>1, <2>1, UpToEnd
  <2>3. QED
    BY <1>1, <1>6, <2>2 DEF Free, SomeUsable, NoneUnusable, In, LastByte
<1>9. pass' \in {"unusable", "kernel"}
  BY <1>4
<1>10. ReadSoFar'
  BY <1>7, <1>8, <1>9 DEF ReadSoFar
<1>11. QED
  BY <1>5, <1>10 DEF TableInv

LEMMA KeepKernelStep ==
  ASSUME TableInv, KeepKernel
  PROVE  TableInv'
<1>1. TableType /\ ReadSoFar /\ pass = "kernel" /\ pass' = "done" /\ map' = map /\ i' = i
  BY DEF TableInv, KeepKernel
<1>2. TableType'
  BY <1>1 DEF TableType, KeepKernel, SetArea
<1>3. ASSUME NEW f \in Entries
      PROVE  ~ bitmap'[f] <=> f >= KERNEL /\ ~ bitmap[f]
  <2>1. f \in Nat /\ f \in Cells /\ KERNEL \in Nat
    BY PhysMemAssumption DEF Entries, Cells
  <2>2. bitmap'[f] = IF f < KERNEL THEN TRUE ELSE bitmap[f]
    BY <2>1 DEF KeepKernel, SetArea
  <2>3. QED
    BY <2>1, <2>2
<1>4. ASSUME NEW f \in Entries
      PROVE  (Free(f) <=> f >= KERNEL /\ SomeUsable(f, Len(map)) /\ NoneUnusable(f, Len(map)))'
  <2>1. ~ bitmap[f] <=> SomeUsable(f, Len(map)) /\ NoneUnusable(f, Len(map))
    BY <1>1 DEF ReadSoFar, Free
  <2>2. QED
    BY <1>1, <1>3, <2>1 DEF Free, SomeUsable, NoneUnusable, In, LastByte
<1>5. ReadSoFar'
  BY <1>1, <1>4 DEF ReadSoFar
<1>6. QED
  BY <1>2, <1>5 DEF TableInv

LEMMA NextTable == TableInv /\ [Next]_vars => TableInv'
<1> SUFFICES ASSUME TableInv, [Next]_vars PROVE TableInv'
  OBVIOUS
<1>1. CASE ReadUsable
  BY <1>1, ReadUsableStep
<1>2. CASE ReadUnusable
  BY <1>2, ReadUnusableStep
<1>3. CASE KeepKernel
  BY <1>3, KeepKernelStep
<1>4. CASE UNCHANGED vars
  BY <1>4 DEF vars, TableInv, TableType, ReadSoFar, Free, SomeUsable, NoneUnusable, In, LastByte
<1>5. QED
  BY <1>1, <1>2, <1>3, <1>4 DEF Next

(* The end of the loops. *)
LEMMA TableDecides == TableInv => LastByteDecides
<1> SUFFICES ASSUME TableInv, pass = "done", NEW f \in Entries
             PROVE  Free(f) <=> f >= KERNEL /\ Usable((f + 1) * PAGE_SIZE - 1)
  BY DEF LastByteDecides, Done
<1>1. Free(f) <=> f >= KERNEL /\ SomeUsable(f, Len(map)) /\ NoneUnusable(f, Len(map))
  BY DEF TableInv, ReadSoFar
<1>2. \A k \in DOMAIN map : k <= Len(map)
  BY DEF TableInv, TableType
<1>3. SomeUsable(f, Len(map)) /\ NoneUnusable(f, Len(map)) <=> Usable(LastByte(f))
  BY <1>2 DEF SomeUsable, NoneUnusable, Usable
<1>4. QED
  BY <1>1, <1>3 DEF LastByte

(* What init_phys_mm() makes of a memory map: a frame is free exactly when *)
(* it is not the kernel's and its last byte is usable.                     *)
THEOREM FreeFramesEndInMemory == Spec => []LastByteDecides
BY InitTable, NextTable, TableDecides, PTL DEF Spec
-----------------------------------------------------------------------------
(* The digits of a size, and what getsize() makes of them.                 *)

LEMMA Constants ==
  /\ BLOCK \in Nat /\ BLOCK > 1
  /\ UINT \in Nat /\ UINT % BLOCK = 0
  /\ DIGITS \in Nat
  BY BootAssumption

LEMMA Digits ==
  ASSUME NEW n \in Nat
  PROVE  /\ Rest(n) \in [0 .. DIGITS -> Nat]
         /\ Rest(n)[0] = n
         /\ \A k \in 1 .. DIGITS : Rest(n)[k] = Rest(n)[k - 1] \div 8
<1> DEFINE Def(g) == g = [k \in 0 .. DIGITS |-> IF k = 0 THEN n ELSE g[k - 1] \div 8]
           rest == CHOOSE g : Def(g)
           F == [k \in 1 .. DIGITS |-> [d \in Nat |-> d \div 8]]
<1>1. \A k \in 1 .. DIGITS : \A d \in Nat : F[k][d] = d \div 8
  OBVIOUS
<1>2. F \in [1 .. DIGITS -> [Nat -> Nat]]
  <2>1. \A d \in Nat : d \div 8 \in Nat
    OBVIOUS
  <2>2. QED
    BY <2>1
<1> HIDE DEF F
<1>3. PICK g \in [0 .. DIGITS -> Nat] : g[0] = n /\ \A k \in 1 .. DIGITS : g[k] = F[k][g[k - 1]]
  <2> DEFINE D == Nat
             x == n
  <2>1. DIGITS \in Nat /\ x \in D /\ F \in [1 .. DIGITS -> [D -> D]]
    BY <1>2, Constants
  <2> HIDE DEF D, x
  <2>2. \E g \in [0 .. DIGITS -> D] : g[0] = x /\ \A k \in 1 .. DIGITS : g[k] = F[k][g[k - 1]]
    BY <2>1, Turns
  <2>3. QED
    BY <2>2 DEF D, x
<1>4. \A k \in 1 .. DIGITS : g[k] = g[k - 1] \div 8
  <2>1. \A k \in 1 .. DIGITS : g[k - 1] \in Nat
    BY Constants
  <2>2. QED
    BY <1>1, <1>3, <2>1
<1>5. Def(g)
  <2>1. \A k \in 0 .. DIGITS : k = 0 \/ k \in 1 .. DIGITS
    BY Constants
  <2>2. QED
    BY <1>3, <1>4, <2>1
<1>6. Def(rest)
  BY <1>5
<1>7. Rest(n) = rest
  BY DEF Rest
<1> HIDE DEF rest
<1>8. rest[0] = n /\ \A k \in 1 .. DIGITS : rest[k] = rest[k - 1] \div 8
  BY <1>6, Constants
<1>9. \A k \in 0 .. DIGITS : rest[k] \in Nat
  <2> DEFINE S == {k \in 0 .. DIGITS : rest[k] \in Nat}
  <2>1. 0 \in S
    BY <1>8, Constants
  <2>2. ASSUME NEW k \in 0 .. DIGITS - 1, k \in S
        PROVE  k + 1 \in S
    <3>1. k + 1 \in 1 .. DIGITS /\ (k + 1) - 1 = k
      BY Constants
    <3>2. rest[k + 1] = rest[k] \div 8 /\ rest[k] \in Nat
      BY <1>8, <2>2, <3>1
    <3>3. \A d \in Nat : d \div 8 \in Nat
      OBVIOUS
    <3>4. QED
      BY <3>1, <3>2, <3>3
  <2> HIDE DEF S
  <2>3. \A k \in 0 .. DIGITS : k \in S
    BY <2>1, <2>2, Constants, UpTo
  <2>4. QED
    BY <2>3 DEF S
<1>10. QED
  BY <1>6, <1>7, <1>8, <1>9

LEMMA OctalType ==
  ASSUME NEW n \in Nat
  PROVE  /\ Octal(n) \in [1 .. DIGITS -> 0 .. 7]
         /\ \A k \in 1 .. DIGITS : Octal(n)[k] = Rest(n)[DIGITS - k] % 8
<1>1. \A k \in 1 .. DIGITS : Rest(n)[DIGITS - k] \in Nat
  BY Digits, Constants
<1>2. \A d \in Nat : d % 8 \in 0 .. 7
  OBVIOUS
<1>3. QED
  BY <1>1, <1>2 DEF Octal

(* The turns of getsize()'s loop. *)
LEMMA Turn ==
  ASSUME NEW in \in [1 .. DIGITS -> 0 .. 7], UINT # 0
  PROVE  \E g \in [0 .. DIGITS -> Nat] :
           /\ g[0] = 0
           /\ \A k \in 1 .. DIGITS : g[k] = (g[k - 1] * 8 + in[k]) % UINT
           /\ getsize(in) = g[DIGITS]
<1> DEFINE Def(g) == g = [k \in 0 .. DIGITS |-> IF k = 0 THEN 0 ELSE (g[k - 1] * 8 + in[k]) % UINT]
           size == CHOOSE g : Def(g)
           F == [k \in 1 .. DIGITS |-> [d \in Nat |-> (d * 8 + in[k]) % UINT]]
<1>0. \A k \in 1 .. DIGITS : \A d \in Nat : (d * 8 + in[k]) % UINT \in Nat
  <2>1. \A a \in Nat, b \in Nat \ {0} : a % b \in Nat
    OBVIOUS
  <2>2. ASSUME NEW k \in 1 .. DIGITS, NEW d \in Nat
        PROVE  d * 8 + in[k] \in Nat
    <3>1. in[k] \in 0 .. 7
      OBVIOUS
    <3>2. QED
      BY <3>1
  <2>3. UINT \in Nat \ {0}
    BY Constants
  <2>4. QED
    BY <2>1, <2>2, <2>3
<1>1. \A k \in 1 .. DIGITS : \A d \in Nat : F[k][d] = (d * 8 + in[k]) % UINT
  OBVIOUS
<1>2. F \in [1 .. DIGITS -> [Nat -> Nat]]
  BY <1>0
<1> HIDE DEF F
<1>3. PICK g \in [0 .. DIGITS -> Nat] : g[0] = 0 /\ \A k \in 1 .. DIGITS : g[k] = F[k][g[k - 1]]
  <2> DEFINE D == Nat
             x == 0
  <2>1. DIGITS \in Nat /\ x \in D /\ F \in [1 .. DIGITS -> [D -> D]]
    BY <1>2, Constants
  <2> HIDE DEF D, x
  <2>2. \E g \in [0 .. DIGITS -> D] : g[0] = x /\ \A k \in 1 .. DIGITS : g[k] = F[k][g[k - 1]]
    BY <2>1, Turns
  <2>3. QED
    BY <2>2 DEF D, x
<1>4. \A k \in 1 .. DIGITS : g[k] = (g[k - 1] * 8 + in[k]) % UINT
  <2>1. \A k \in 1 .. DIGITS : g[k - 1] \in Nat
    BY Constants
  <2>2. QED
    BY <1>1, <1>3, <2>1
<1>5. Def(g)
  <2>1. \A k \in 0 .. DIGITS : k = 0 \/ k \in 1 .. DIGITS
    BY Constants
  <2>2. QED
    BY <1>3, <1>4, <2>1
<1>6. Def(size)
  BY <1>5
<1>7. getsize(in) = size[DIGITS]
  BY DEF getsize
<1> HIDE DEF size
<1>8. size[0] = 0 /\ \A k \in 1 .. DIGITS : size[k] = (size[k - 1] * 8 + in[k]) % UINT
  BY <1>6, Constants
<1>9. \A k \in 0 .. DIGITS : size[k] \in Nat
  <2> DEFINE S == {k \in 0 .. DIGITS : size[k] \in Nat}
  <2>1. 0 \in S
    BY <1>8, Constants
  <2>2. ASSUME NEW k \in 0 .. DIGITS - 1, k \in S
        PROVE  k + 1 \in S
    <3>1. k + 1 \in 1 .. DIGITS /\ (k + 1) - 1 = k
      BY Constants
    <3>2. size[k + 1] = (size[k] * 8 + in[k + 1]) % UINT /\ size[k] \in Nat
      BY <1>8, <2>2, <3>1
    <3>3. size[k + 1] \in Nat
      BY <1>0, <3>1, <3>2
    <3>4. QED
      BY <3>1, <3>3
  <2> HIDE DEF S
  <2>3. \A k \in 0 .. DIGITS : k \in S
    BY <2>1, <2>2, Constants, UpTo
  <2>4. QED
    BY <2>3 DEF S
<1>10. QED
  BY <1>6, <1>7, <1>8, <1>9

(* What tar writes as a size, getsize() reads.                             *)
LEMMA SizeIsRead ==
  ASSUME NEW n \in Nat, n < UINT, Rest(n)[DIGITS] = 0
  PROVE  getsize(Octal(n)) = n
<1>0. UINT \in Nat \ {0}
  BY Constants
<1>1. PICK g \in [0 .. DIGITS -> Nat] :
        /\ g[0] = 0
        /\ \A k \in 1 .. DIGITS : g[k] = (g[k - 1] * 8 + Octal(n)[k]) % UINT
        /\ getsize(Octal(n)) = g[DIGITS]
  BY <1>0, OctalType, Turn
<1> DEFINE r == Rest(n)
<1>2. r[0] = n /\ \A k \in 1 .. DIGITS : r[k] = r[k - 1] \div 8
  BY Digits
<1>3. \A k \in 0 .. DIGITS : r[k] \in Nat
  BY Digits
<1>4. \A k \in 1 .. DIGITS : Octal(n)[k] = r[DIGITS - k] % 8
  BY OctalType
<1> HIDE DEF r
<1>5. \A k \in 0 .. DIGITS : r[k] <= n
  <2> DEFINE S == {k \in 0 .. DIGITS : r[k] <= n}
  <2>1. 0 \in S
    BY <1>2, Constants
  <2>2. ASSUME NEW k \in 0 .. DIGITS - 1, k \in S
        PROVE  k + 1 \in S
    <3>1. k + 1 \in 1 .. DIGITS /\ (k + 1) - 1 = k /\ k \in 0 .. DIGITS
      BY Constants
    <3>2. r[k + 1] = r[k] \div 8 /\ r[k] \in Nat /\ r[k + 1] \in Nat /\ r[k] <= n
      BY <1>2, <1>3, <2>2, <3>1
    <3>3. \A d \in Nat : d \div 8 <= d
      OBVIOUS
    <3>4. r[k + 1] <= r[k]
      BY <3>2, <3>3
    <3>5. r[k + 1] <= n
      BY <3>2, <3>4
    <3>6. QED
      BY <3>1, <3>5
  <2> HIDE DEF S
  <2>3. \A k \in 0 .. DIGITS : k \in S
    BY <2>1, <2>2, Constants, UpTo
  <2>4. QED
    BY <2>3 DEF S
<1>6. \A k \in 0 .. DIGITS : g[k] = r[DIGITS - k]
  <2> DEFINE S == {k \in 0 .. DIGITS : g[k] = r[DIGITS - k]}
  <2>1. 0 \in S
    <3>1. DIGITS - 0 = DIGITS /\ 0 \in 0 .. DIGITS
      BY Constants
    <3>2. QED
      BY <1>1, <3>1 DEF r
  <2>2. ASSUME NEW k \in 0 .. DIGITS - 1, k \in S
        PROVE  k + 1 \in S
    <3>1. /\ k + 1 \in 1 .. DIGITS /\ (k + 1) - 1 = k /\ k + 1 \in 0 .. DIGITS
          /\ DIGITS - k \in 1 .. DIGITS /\ DIGITS - (k + 1) \in 0 .. DIGITS
          /\ DIGITS - (k + 1) = (DIGITS - k) - 1
      BY Constants
    <3>2. PICK d \in Nat : d = r[DIGITS - (k + 1)] /\ d <= n
      BY <1>3, <1>5, <3>1
    <3>3. r[DIGITS - k] = d \div 8
      BY <1>2, <3>1, <3>2
    <3>4. g[k] = r[DIGITS - k]
      BY <2>2
    <3>5. Octal(n)[k + 1] = d % 8
      BY <1>4, <3>1, <3>2
    <3>6. g[k + 1] = (g[k] * 8 + Octal(n)[k + 1]) % UINT
      BY <1>1, <3>1
    <3>7. (d \div 8) * 8 + (d % 8) = d
      OBVIOUS
    <3>8. \A b \in Nat \ {0} : d < b => d % b = d
      OBVIOUS
    <3>9. g[k + 1] = d
      BY <1>0, <3>2, <3>3, <3>4, <3>5, <3>6, <3>7, <3>8
    <3>10. QED
      BY <3>1, <3>2, <3>9
  <2> HIDE DEF S
  <2>3. \A k \in 0 .. DIGITS : k \in S
    BY <2>1, <2>2, Constants, UpTo
  <2>4. QED
    BY <2>3 DEF S
<1>7. DIGITS - DIGITS = 0 /\ DIGITS \in 0 .. DIGITS
  BY Constants
<1>8. QED
  BY <1>1, <1>2, <1>6, <1>7
-----------------------------------------------------------------------------
(* Where the headers are in an archive.                                    *)

LEMMA FileType ==
  ASSUME NEW files \in Seq(Files), NEW n \in 1 .. Len(files)
  PROVE  /\ files[n] \in Files
         /\ files[n].size \in Nat /\ files[n].name # ""
         /\ DataBlocks(files[n]) \in Nat
<1>1. files[n] \in Files
  OBVIOUS
<1>2. files[n].size \in Nat /\ files[n].name # ""
  BY <1>1 DEF Files
<1>3. \A a \in Nat : (a + BLOCK - 1) \div BLOCK \in Nat
  BY Constants
<1>4. QED
  BY <1>1, <1>2, <1>3 DEF DataBlocks

LEMMA Counted ==
  ASSUME NEW files \in Seq(Files)
  PROVE  /\ Sizes(files) \in [0 .. Len(files) -> Nat]
         /\ Sizes(files)[0] = 0
         /\ \A n \in 1 .. Len(files) :
              Sizes(files)[n] = Sizes(files)[n - 1] + 1 + DataBlocks(files[n])
<1> DEFINE L == Len(files)
           C == [n \in 1 .. L |-> DataBlocks(files[n])]
<1>0. L \in Nat
  OBVIOUS
<1>1. \A n \in 1 .. L : C[n] \in Nat
  <2>1. TAKE n \in 1 .. L
  <2>2. DataBlocks(files[n]) \in Nat
    BY FileType
  <2>3. QED
    BY <2>2
<1> DEFINE Def(g) == g = [n \in 0 .. L |-> IF n = 0 THEN 0 ELSE g[n - 1] + 1 + DataBlocks(files[n])]
           sum == CHOOSE g : Def(g)
           F == [n \in 1 .. L |-> [d \in Nat |-> d + 1 + C[n]]]
<1>2. \A n \in 1 .. L : C[n] = DataBlocks(files[n])
  OBVIOUS
<1>3. Sizes(files) = sum
  BY DEF Sizes
<1> HIDE DEF L, C
<1>4. \A n \in 1 .. L : \A d \in Nat : F[n][d] = d + 1 + C[n]
  OBVIOUS
<1>5. F \in [1 .. L -> [Nat -> Nat]]
  BY <1>0, <1>1
<1> HIDE DEF F
<1>6. PICK g \in [0 .. L -> Nat] : g[0] = 0 /\ \A n \in 1 .. L : g[n] = F[n][g[n - 1]]
  <2> DEFINE D == Nat
             x == 0
  <2>1. x \in D /\ F \in [1 .. L -> [D -> D]]
    BY <1>5
  <2> HIDE DEF D, x
  <2>2. \E g \in [0 .. L -> D] : g[0] = x /\ \A n \in 1 .. L : g[n] = F[n][g[n - 1]]
    BY <1>0, <2>1, Turns
  <2>3. QED
    BY <2>2 DEF D, x
<1>7. \A n \in 1 .. L : g[n] = g[n - 1] + 1 + C[n]
  <2>1. \A n \in 1 .. L : g[n - 1] \in Nat
    BY <1>0, <1>1
  <2>2. QED
    BY <1>4, <1>6, <2>1
<1>8. Def(g)
  <2>1. \A n \in 0 .. L : n = 0 \/ n \in 1 .. L
    BY <1>0, <1>1
  <2>2. QED
    BY <1>2, <1>6, <1>7, <2>1
<1>9. Def(sum)
  BY <1>8
<1> HIDE DEF sum
<1>10. sum[0] = 0 /\ \A n \in 1 .. L : sum[n] = sum[n - 1] + 1 + C[n]
  BY <1>0, <1>1, <1>2, <1>9
<1>11. \A n \in 0 .. L : sum[n] \in Nat
  <2> DEFINE S == {n \in 0 .. L : sum[n] \in Nat}
  <2>1. 0 \in S
    BY <1>0, <1>1, <1>10
  <2>2. ASSUME NEW n \in 0 .. L - 1, n \in S
        PROVE  n + 1 \in S
    <3>1. n + 1 \in 1 .. L /\ (n + 1) - 1 = n /\ n + 1 \in 0 .. L
      BY <1>0, <1>1
    <3>2. sum[n + 1] = sum[n] + 1 + C[n + 1] /\ sum[n] \in Nat /\ C[n + 1] \in Nat
      BY <1>0, <1>1, <1>10, <2>2, <3>1
    <3>3. sum[n + 1] \in Nat
      BY <3>2
    <3>4. QED
      BY <3>1, <3>3
  <2> HIDE DEF S
  <2>3. \A n \in 0 .. L : n \in S
    BY <1>0, <1>1, <2>1, <2>2, UpTo
  <2>4. QED
    BY <2>3 DEF S
<1>12. sum \in [0 .. L -> Nat]
  BY <1>9, <1>11
<1>13. \A n \in 1 .. L : sum[n] = sum[n - 1] + 1 + DataBlocks(files[n])
  BY <1>2, <1>10
<1>14. QED
  BY <1>3, <1>10, <1>12, <1>13 DEF L

LEMMA Before ==
  ASSUME NEW files \in Seq(Files)
  PROVE  /\ \A n \in 1 .. Len(files) + 1 : BlocksBefore(files, n) \in Nat
         /\ BlocksBefore(files, 1) = 0
         /\ \A n \in 1 .. Len(files) :
              BlocksBefore(files, n + 1) = BlocksBefore(files, n) + 1 + DataBlocks(files[n])
         /\ \A m, n \in 1 .. Len(files) + 1 :
              m < n => BlocksBefore(files, m) < BlocksBefore(files, n)
<1> DEFINE L == Len(files)
           B(n) == BlocksBefore(files, n)
<1>1. L \in Nat
  OBVIOUS
<1>2. \A n \in 1 .. L + 1 : B(n) \in Nat
  <2>1. TAKE n \in 1 .. L + 1
  <2>2. n - 1 \in 0 .. L
    BY <1>1
  <2>3. Sizes(files)[n - 1] \in Nat
    BY <2>2, Counted
  <2>4. QED
    BY <2>3 DEF BlocksBefore
<1>3. B(1) = 0
  BY Counted DEF BlocksBefore
<1>4. ASSUME NEW n \in 1 .. L
      PROVE  B(n + 1) = B(n) + 1 + DataBlocks(files[n])
  <2>1. (n + 1) - 1 = n
    BY <1>1
  <2>2. Sizes(files)[n] = Sizes(files)[n - 1] + 1 + DataBlocks(files[n])
    BY Counted
  <2>3. QED
    BY <2>1, <2>2 DEF BlocksBefore
<1>5. \A n \in 1 .. L : B(n) < B(n + 1)
  <2>1. TAKE n \in 1 .. L
  <2>2. B(n) \in Nat /\ DataBlocks(files[n]) \in Nat /\ B(n + 1) = B(n) + 1 + DataBlocks(files[n])
    <3>1. n \in 1 .. L + 1 /\ B(n + 1) = B(n) + 1 + DataBlocks(files[n])
      BY <1>1, <1>4
    <3>2. B(n) \in Nat
      BY <1>2, <3>1
    <3>3. DataBlocks(files[n]) \in Nat
      BY FileType
    <3>4. QED
      BY <3>1, <3>2, <3>3
  <2> HIDE DEF B
  <2>3. QED
    BY <2>2
<1> HIDE DEF B
<1>6. ASSUME NEW m \in 1 .. L + 1, NEW n \in 1 .. L + 1, m < n
      PROVE  B(m) < B(n)
  <2> DEFINE S == {d \in Nat : m + d + 1 <= L + 1 => B(m) < B(m + d + 1)}
  <2> DEFINE e == n - m - 1
  <2>1. e \in Nat /\ m + e + 1 = n
    BY <1>1, <1>6
  <2>2. 0 \in S
    <3>1. SUFFICES ASSUME m + 0 + 1 <= L + 1 PROVE B(m) < B(m + 0 + 1)
      OBVIOUS
    <3>2. m \in 1 .. L /\ m + 0 + 1 = m + 1
      BY <1>1, <3>1
    <3>3. QED
      BY <1>5, <3>2
  <2>3. ASSUME NEW d \in 0 .. e - 1, d \in S
        PROVE  d + 1 \in S
    <3>1. d \in Nat /\ m + (d + 1) + 1 = (m + d + 1) + 1 /\ m + d + 1 \in 1 .. L /\ m + d + 1 <= L + 1
          /\ m + d + 1 \in 1 .. L + 1 /\ (m + d + 1) + 1 \in 1 .. L + 1
      BY <1>1, <2>1
    <3>2. B(m) < B(m + d + 1)
      BY <2>3, <3>1
    <3>3. B(m + d + 1) < B((m + d + 1) + 1)
      BY <1>5, <3>1
    <3>4. B(m) \in Nat /\ B(m + d + 1) \in Nat /\ B((m + d + 1) + 1) \in Nat
      BY <1>2, <3>1
    <3>5. B(m) < B(m + (d + 1) + 1)
      BY <3>1, <3>2, <3>3, <3>4
    <3>6. QED
      BY <3>1, <3>5
  <2> HIDE DEF S, e
  <2>4. e \in S
    <3>1. \A d \in 0 .. e : d \in S
      BY <2>1, <2>2, <2>3, UpTo
    <3>2. QED
      BY <2>1, <3>1
  <2>5. QED
    BY <1>1, <2>1, <2>4 DEF S
<1>7. QED
  BY <1>2, <1>3, <1>4, <1>6 DEF B

(* The archive, file by file: its header, then its data; zeros at the end. *)
LEMMA Layout ==
  ASSUME NEW files \in Seq(Files)
  PROVE  /\ Len(Blocks(files)) = BlocksBefore(files, Len(files) + 1) + 1
         /\ \A n \in 1 .. Len(files) :
              Blocks(files)[BlocksBefore(files, n) + 1] = Header(files[n])
         /\ Blocks(files)[BlocksBefore(files, Len(files) + 1) + 1] = Zeros
<1> DEFINE L == Len(files)
           H == {Header(f) : f \in Files} \cup {Zeros, [name |-> Path, size |-> Octal(0)]}
           Data(n) == [k \in 1 .. DataBlocks(files[n]) |-> [name |-> Path, size |-> Octal(0)]]
           Part(n) == <<Header(files[n])>> \o Data(n)
           Def(g) == g = [n \in 0 .. L |->
                            IF n = 0 THEN <<>> ELSE g[n - 1] \o <<Header(files[n])>> \o Data(n)]
           upTo == CHOOSE g : Def(g)
           F == [n \in 1 .. L |-> [s \in Seq(H) |-> s \o <<Header(files[n])>> \o Data(n)]]
           Size(n) == Sizes(files)[n]
<1>0. L \in Nat
  OBVIOUS
<1>1. ASSUME NEW n \in 1 .. L
      PROVE  /\ Header(files[n]) \in H
             /\ Data(n) \in Seq(H) /\ Len(Data(n)) = DataBlocks(files[n])
  <2>1. files[n] \in Files /\ DataBlocks(files[n]) \in Nat
    BY FileType
  <2>2. Header(files[n]) \in H /\ [name |-> Path, size |-> Octal(0)] \in H
    BY <2>1
  <2> HIDE DEF H
  <2>3. PICK m \in Nat, h \in H : m = DataBlocks(files[n]) /\ h = [name |-> Path, size |-> Octal(0)]
    BY <2>1, <2>2
  <2>4. [k \in 1 .. m |-> h] \in Seq(H) /\ Len([k \in 1 .. m |-> h]) = m
    OBVIOUS
  <2>5. QED
    BY <2>2, <2>3, <2>4
<1>2. Zeros \in H
  OBVIOUS
<1>3. Blocks(files) = upTo[L] \o <<Zeros>>
  BY DEF Blocks
<1> HIDE DEF H, Data, upTo, L
<1>4. ASSUME NEW n \in 1 .. L, NEW s \in Seq(H)
      PROVE  /\ s \o <<Header(files[n])>> \o Data(n) \in Seq(H)
             /\ Len(s \o <<Header(files[n])>> \o Data(n)) = Len(s) + 1 + DataBlocks(files[n])
             /\ (s \o <<Header(files[n])>> \o Data(n))[Len(s) + 1] = Header(files[n])
             /\ \A k \in 1 .. Len(s) : (s \o <<Header(files[n])>> \o Data(n))[k] = s[k]
  <2>1. PICK h \in H, d \in Seq(H) : h = Header(files[n]) /\ d = Data(n) /\ Len(d) = DataBlocks(files[n])
    BY <1>1
  <2>2. /\ s \o <<h>> \in Seq(H) /\ Len(s \o <<h>>) = Len(s) + 1
        /\ (s \o <<h>>)[Len(s) + 1] = h /\ \A k \in 1 .. Len(s) : (s \o <<h>>)[k] = s[k]
    OBVIOUS
  <2>3. PICK q \in Seq(H) : q = s \o <<h>>
    BY <2>2
  <2>4. /\ q \o d \in Seq(H) /\ Len(q \o d) = Len(q) + Len(d)
        /\ \A k \in 1 .. Len(q) : (q \o d)[k] = q[k]
    OBVIOUS
  <2>5. Len(s) \in Nat /\ Len(q) = Len(s) + 1
    BY <2>2, <2>3
  <2>6. (q \o d)[Len(s) + 1] = h /\ \A k \in 1 .. Len(s) : (q \o d)[k] = s[k]
    BY <2>2, <2>3, <2>4, <2>5
  <2>7. QED
    BY <2>1, <2>3, <2>4, <2>5, <2>6
<1>5. \A n \in 1 .. L : \A s \in Seq(H) : F[n][s] = s \o <<Header(files[n])>> \o Data(n)
  OBVIOUS
<1>6. F \in [1 .. L -> [Seq(H) -> Seq(H)]]
  BY <1>4
<1> HIDE DEF F
<1>7. PICK g \in [0 .. L -> Seq(H)] : g[0] = <<>> /\ \A n \in 1 .. L : g[n] = F[n][g[n - 1]]
  <2> DEFINE D == Seq(H)
             x == <<>>
  <2>1. x \in D /\ F \in [1 .. L -> [D -> D]]
    BY <1>6
  <2> HIDE DEF D, x
  <2>2. \E g \in [0 .. L -> D] : g[0] = x /\ \A n \in 1 .. L : g[n] = F[n][g[n - 1]]
    BY <1>0, <2>1, Turns
  <2>3. QED
    BY <2>2 DEF D, x
<1>8. \A n \in 1 .. L : g[n] = g[n - 1] \o <<Header(files[n])>> \o Data(n)
  <2>1. \A n \in 1 .. L : g[n - 1] \in Seq(H)
    BY <1>0
  <2>2. QED
    BY <1>5, <1>7, <2>1
<1>9. Def(g)
  <2>1. \A n \in 0 .. L : n = 0 \/ n \in 1 .. L
    BY <1>0
  <2>2. QED
    BY <1>7, <1>8, <2>1
<1>10. Def(upTo)
  BY <1>9 DEF upTo
<1>11. upTo[0] = <<>> /\ \A n \in 1 .. L : upTo[n] = upTo[n - 1] \o <<Header(files[n])>> \o Data(n)
  <2> DEFINE Add(n, s) == s \o <<Header(files[n])>> \o Data(n)
  <2>1. upTo = [n \in 0 .. L |-> IF n = 0 THEN <<>> ELSE Add(n, upTo[n - 1])]
    BY <1>10
  <2> HIDE DEF Add
  <2>2. upTo[0] = <<>> /\ \A n \in 1 .. L : upTo[n] = Add(n, upTo[n - 1])
    BY <1>0, <2>1
  <2>3. QED
    BY <2>2 DEF Add
<1> HIDE DEF Def
<1>12. Size(0) = 0 /\ \A n \in 1 .. L : Size(n) = Size(n - 1) + 1 + DataBlocks(files[n])
  BY Counted DEF L
<1>13. \A n \in 0 .. L : Size(n) \in Nat
  BY Counted DEF L
<1> DEFINE Good(n) == /\ upTo[n] \in Seq(H) /\ Len(upTo[n]) = Size(n)
                      /\ \A m \in 1 .. n : Size(m - 1) + 1 \in 1 .. Size(n) /\ upTo[n][Size(m - 1) + 1] = Header(files[m])
<1> HIDE DEF Size
<1>14. \A n \in 0 .. L : Good(n)
  <2> DEFINE S == {n \in 0 .. L : Good(n)}
  <2>1. 0 \in S
    <3>1. Good(0)
      BY <1>11, <1>12
    <3>2. QED
      BY <1>0, <3>1
  <2>2. ASSUME NEW n \in 0 .. L - 1, n \in S
        PROVE  n + 1 \in S
    <3>1. n + 1 \in 1 .. L /\ (n + 1) - 1 = n /\ n + 1 \in 0 .. L /\ n \in 0 .. L
      BY <1>0
    <3>2. PICK s \in Seq(H) : s = upTo[n] /\ Len(s) = Size(n)
      BY <2>2
    <3>3. upTo[n + 1] = s \o <<Header(files[n + 1])>> \o Data(n + 1)
      BY <1>11, <3>1, <3>2
    <3>4. Size(n + 1) = Size(n) + 1 + DataBlocks(files[n + 1]) /\ Size(n) \in Nat /\ DataBlocks(files[n + 1]) \in Nat
      BY <1>12, <1>13, <3>1, FileType DEF L
    <3>5. upTo[n + 1] \in Seq(H) /\ Len(upTo[n + 1]) = Size(n + 1)
      BY <1>4, <3>1, <3>2, <3>3, <3>4
    <3>6. ASSUME NEW m \in 1 .. n + 1
          PROVE  Size(m - 1) + 1 \in 1 .. Size(n + 1) /\ upTo[n + 1][Size(m - 1) + 1] = Header(files[m])
      <4>1. CASE m = n + 1
        <5>1. m - 1 = n
          BY <4>1
        <5>2. (s \o <<Header(files[n + 1])>> \o Data(n + 1))[Len(s) + 1] = Header(files[n + 1])
          BY <1>4, <3>1
        <5>3. upTo[n + 1][Size(n) + 1] = Header(files[n + 1])
          BY <3>2, <3>3, <5>2
        <5>4. Size(n) + 1 \in 1 .. Size(n + 1)
          BY <3>4
        <5>5. QED
          BY <4>1, <5>1, <5>3, <5>4
      <4>2. CASE m # n + 1
        <5>1. m \in 1 .. n
          BY <4>2
        <5>2. PICK k \in Nat : k = Size(m - 1) + 1 /\ k \in 1 .. Size(n) /\ upTo[n][k] = Header(files[m])
          <6>1. Size(m - 1) + 1 \in 1 .. Size(n) /\ upTo[n][Size(m - 1) + 1] = Header(files[m])
            BY <2>2, <5>1
          <6>2. QED
            BY <3>4, <6>1
        <5>3. upTo[n + 1][k] = s[k]
          <6>1. k \in 1 .. Len(s)
            BY <3>2, <5>2
          <6>2. (s \o <<Header(files[n + 1])>> \o Data(n + 1))[k] = s[k]
            BY <1>4, <3>1, <6>1
          <6>3. QED
            BY <3>3, <6>2
        <5>4. k \in 1 .. Size(n + 1)
          BY <3>4, <5>2
        <5>5. QED
          BY <3>2, <5>2, <5>3, <5>4
      <4>3. QED
        BY <4>1, <4>2
    <3>7. QED
      BY <3>1, <3>5, <3>6
  <2> HIDE DEF S
  <2>3. \A n \in 0 .. L : n \in S
    BY <1>0, <2>1, <2>2, UpTo
  <2>4. QED
    BY <2>3 DEF S
<1>15. L \in 0 .. L
  BY <1>0
<1>16. PICK s \in Seq(H) : s = upTo[L] /\ Len(s) = Size(L)
  BY <1>14, <1>15
<1>17. /\ Len(s \o <<Zeros>>) = Size(L) + 1
       /\ (s \o <<Zeros>>)[Size(L) + 1] = Zeros
       /\ \A k \in 1 .. Size(L) : (s \o <<Zeros>>)[k] = s[k]
  BY <1>2, <1>16
<1>18. ASSUME NEW n \in 1 .. L
       PROVE  Blocks(files)[Size(n - 1) + 1] = Header(files[n])
  <2>1. PICK k \in Nat : k = Size(n - 1) + 1 /\ k \in 1 .. Size(L) /\ upTo[L][k] = Header(files[n])
    <3>1. Size(n - 1) + 1 \in 1 .. Size(L) /\ upTo[L][Size(n - 1) + 1] = Header(files[n])
      BY <1>14, <1>15
    <3>2. Size(L) \in Nat
      BY <1>13, <1>15
    <3>3. QED
      BY <3>1, <3>2
  <2>2. QED
    BY <1>3, <1>16, <1>17, <2>1
<1>19. (L + 1) - 1 = L
  BY <1>0
<1>20. QED
  BY <1>3, <1>16, <1>17, <1>18, <1>19 DEF L, Size, BlocksBefore
-----------------------------------------------------------------------------
(* What find_file() adds to the address of a header.                       *)

LEMMA Division ==
  ASSUME NEW b \in Nat \ {0}
  PROVE  /\ \A q \in Int, r \in 0 .. b - 1 : (q * b + r) \div b = q
         /\ \A a \in Int : a \div b \in Int /\ a % b \in 0 .. b - 1 /\ a = (a \div b) * b + (a % b)
         /\ \A a \in 0 .. b - 1 : a % b = a /\ (b + a) % b = a
         /\ (-1) % b = b - 1
<1>1. \A q \in Int, r \in 0 .. b - 1 : (b * q + r) \div b = q
  OBVIOUS
<1>2. \A q \in Int : q * b = b * q
  OBVIOUS
<1>3. \A a \in Int : a \div b \in Int /\ a % b \in 0 .. b - 1 /\ a = b * (a \div b) + (a % b)
  OBVIOUS
<1>4. \A a \in 0 .. b - 1 : a % b = a /\ (b + a) % b = a
  OBVIOUS
<1>5. (-1) % b = b - 1
  OBVIOUS
<1>6. QED
  BY <1>1, <1>2, <1>3, <1>4, <1>5

LEMMA Skipped ==
  ASSUME NEW size \in Nat, size < UINT,
         NEW data \in Nat, data = (size + BLOCK - 1) \div BLOCK,
         (1 + data) * BLOCK < UINT
  PROVE  Skip(size) = (1 + data) * BLOCK
<1>1. BLOCK \in Nat \ {0} /\ BLOCK > 1 /\ UINT \in Nat \ {0} /\ UINT % BLOCK = 0
  BY Constants
<1>2. (1 + data) * BLOCK \in Nat
  BY <1>1
<1>3. ((1 + data) * BLOCK) % UINT = (1 + data) * BLOCK
  <2>1. PICK a \in Nat : a = (1 + data) * BLOCK /\ a < UINT
    BY <1>2
  <2>2. a \in 0 .. UINT - 1
    BY <1>1, <2>1
  <2>3. a % UINT = a
    BY <1>1, <2>2, Division
  <2>4. QED
    BY <2>1, <2>3
<1>4. CASE size = 0
  <2>1. data = 0
    <3>1. (0 * BLOCK + (BLOCK - 1)) \div BLOCK = 0
      BY <1>1, Division
    <3>2. 0 + BLOCK - 1 = 0 * BLOCK + (BLOCK - 1)
      BY <1>1
    <3>3. QED
      BY <1>4, <3>1, <3>2
  <2>2. (size - 1) % UINT = UINT - 1
    BY <1>1, <1>4, Division
  <2>3. PICK q \in Int : UINT = q * BLOCK
    <3>1. UINT = (UINT \div BLOCK) * BLOCK + 0 /\ UINT \div BLOCK \in Int
      <4>1. \A b \in Nat \ {0}, a \in Nat : a % b = 0 => a = (a \div b) * b + 0 /\ a \div b \in Int
        BY Division
      <4>2. QED
        BY <1>1, <4>1
    <3>2. PICK k \in Int : UINT = k * BLOCK + 0
      BY <3>1
    <3>3. k * BLOCK \in Int
      BY <1>1
    <3>4. UINT = k * BLOCK
      BY <3>2, <3>3
    <3>5. QED
      BY <3>4
  <2>4. (UINT - 1) \div BLOCK = q - 1
    <3>1. UINT - 1 = (q - 1) * BLOCK + (BLOCK - 1)
      BY <1>1, <2>3
    <3>2. q - 1 \in Int /\ BLOCK - 1 \in 0 .. BLOCK - 1
      BY <1>1
    <3>3. ((q - 1) * BLOCK + (BLOCK - 1)) \div BLOCK = q - 1
      BY <1>1, <3>2, Division
    <3>4. QED
      BY <3>1, <3>3
  <2>5. (q - 1 + 2) * BLOCK = UINT + BLOCK
    BY <1>1, <2>3
  <2>6. (1 + data) * BLOCK = BLOCK
    BY <1>1, <2>1
  <2>7. (UINT + BLOCK) % UINT = BLOCK
    <3>1. BLOCK \in 0 .. UINT - 1
      BY <1>1, <2>6
    <3>2. QED
      BY <1>1, <3>1, Division
  <2>8. QED
    BY <2>2, <2>4, <2>5, <2>6, <2>7 DEF Skip
<1>5. CASE size # 0
  <2>1. (size - 1) % UINT = size - 1
    <3>1. size - 1 \in 0 .. UINT - 1
      BY <1>1, <1>5
    <3>2. QED
      BY <1>1, <3>1, Division
  <2>2. PICK q \in Int, r \in 0 .. BLOCK - 1 : size - 1 = q * BLOCK + r /\ (size - 1) \div BLOCK = q
    <3>1. size - 1 \in Int
      OBVIOUS
    <3>2. QED
      BY <1>1, <3>1, Division
  <2>3. size + BLOCK - 1 = (q + 1) * BLOCK + r /\ q + 1 \in Int
    BY <1>1, <2>2
  <2>4. data = q + 1
    <3>1. PICK k \in Int : k = q + 1
      BY <2>3
    <3>2. (k * BLOCK + r) \div BLOCK = k
      BY <1>1, Division
    <3>3. QED
      BY <2>3, <3>1, <3>2
  <2>5. q + 2 = 1 + data
    BY <2>4
  <2>6. QED
    BY <1>3, <2>1, <2>2, <2>5 DEF Skip
<1>6. QED
  BY <1>4, <1>5

(* The modules that boot loaders leave: their sizes and addresses fit.     *)
Archive(start, files) ==
  /\ start \in Nat /\ files \in Seq(Files)
  /\ \A n \in 1 .. Len(files) : files[n].size < UINT /\ Rest(files[n].size)[DIGITS] = 0
  /\ start + Len(Blocks(files)) * BLOCK <= UINT

HeaderAt(start, files, n) == start + BlocksBefore(files, n) * BLOCK

LEMMA BlockOf ==
  ASSUME NEW start \in Nat, NEW files \in Seq(Files), NEW n \in 1 .. Len(files) + 1
  PROVE  /\ (HeaderAt(start, files, n) - start) \div BLOCK = BlocksBefore(files, n)
         /\ HeaderAt(start, files, n) \in Nat
<1>1. PICK b \in Nat : b = BlocksBefore(files, n)
  BY Before
<1>2. BLOCK \in Nat \ {0} /\ 0 \in 0 .. BLOCK - 1 /\ b \in Int /\ b * BLOCK \in Nat
  BY Constants
<1>3. (b * BLOCK + 0) \div BLOCK = b
  BY <1>2, Division
<1>4. (start + b * BLOCK) - start = b * BLOCK + 0
  BY <1>2
<1>5. QED
  BY <1>1, <1>2, <1>3, <1>4 DEF HeaderAt

LEMMA HeadersDiffer ==
  ASSUME NEW start \in Nat, NEW files \in Seq(Files),
         NEW m \in 1 .. Len(files) + 1, NEW n \in 1 .. Len(files) + 1,
         HeaderAt(start, files, m) = HeaderAt(start, files, n)
  PROVE  m = n
<1>1. BlocksBefore(files, m) = BlocksBefore(files, n)
  BY BlockOf
<1>2. BlocksBefore(files, m) \in Nat /\ BlocksBefore(files, n) \in Nat
  BY Before
<1>3. ~ (BlocksBefore(files, m) < BlocksBefore(files, n)) /\ ~ (BlocksBefore(files, n) < BlocksBefore(files, m))
  BY <1>1, <1>2
<1>4. ~ (m < n) /\ ~ (n < m)
  BY <1>3, Before
<1>5. m \in Nat /\ n \in Nat
  OBVIOUS
<1>6. QED
  BY <1>4, <1>5

LEMMA NextHeader ==
  ASSUME NEW start, NEW files, Archive(start, files), NEW n \in 1 .. Len(files)
  PROVE  (HeaderAt(start, files, n) + Skip(getsize(Octal(files[n].size)))) % UINT
           = HeaderAt(start, files, n + 1)
<1>1. start \in Nat /\ files \in Seq(Files)
  BY DEF Archive
<1>2. PICK size \in Nat : size = files[n].size /\ size < UINT /\ Rest(size)[DIGITS] = 0
  BY <1>1, FileType DEF Archive
<1>3. getsize(Octal(size)) = size
  BY <1>2, SizeIsRead
<1>4. PICK data \in Nat : data = DataBlocks(files[n]) /\ data = (size + BLOCK - 1) \div BLOCK
  BY <1>1, <1>2, FileType DEF DataBlocks
<1>5. PICK b \in Nat : b = BlocksBefore(files, n) /\ BlocksBefore(files, n + 1) = b + 1 + data
  <2>1. n \in 1 .. Len(files) + 1
    BY <1>1
  <2>2. QED
    BY <1>1, <1>4, <2>1, Before
<1>6. PICK last \in Nat : last = BlocksBefore(files, Len(files) + 1) /\ b + 1 + data <= last
  <2>1. Len(files) + 1 \in 1 .. Len(files) + 1 /\ n + 1 \in 1 .. Len(files) + 1
        /\ (n + 1 = Len(files) + 1 \/ n + 1 < Len(files) + 1)
    BY <1>1
  <2>2. BlocksBefore(files, Len(files) + 1) \in Nat
    BY <1>1, <2>1, Before
  <2>3. CASE n + 1 = Len(files) + 1
    BY <1>5, <2>2, <2>3
  <2>4. CASE n + 1 < Len(files) + 1
    <3>1. BlocksBefore(files, n + 1) < BlocksBefore(files, Len(files) + 1)
      BY <1>1, <2>1, <2>4, Before
    <3>2. QED
      BY <1>5, <2>2, <3>1
  <2>5. QED
    BY <2>1, <2>3, <2>4
<1>7. start + (last + 1) * BLOCK <= UINT
  BY <1>1, <1>6, Layout DEF Archive
<1>8. BLOCK \in Nat \ {0} /\ UINT \in Nat \ {0}
  BY <1>2, Constants
<1>9. /\ (b + 1 + data) * BLOCK = b * BLOCK + (1 + data) * BLOCK
      /\ (last + 1) * BLOCK = last * BLOCK + BLOCK
      /\ b * BLOCK \in Nat /\ (1 + data) * BLOCK \in Nat /\ last * BLOCK \in Nat
  BY <1>8
<1>10. (b + 1 + data) * BLOCK <= last * BLOCK
  <2>1. PICK d \in Nat : last = (b + 1 + data) + d
    <3>1. last - (b + 1 + data) \in Nat /\ last = (b + 1 + data) + (last - (b + 1 + data))
      BY <1>6
    <3>2. QED
      BY <3>1
  <2>2. last * BLOCK = (b + 1 + data) * BLOCK + d * BLOCK /\ d * BLOCK \in Nat
    BY <1>8, <2>1
  <2>3. QED
    BY <1>9, <2>2
<1>11. (1 + data) * BLOCK < UINT /\ start + b * BLOCK + (1 + data) * BLOCK < UINT
  BY <1>1, <1>7, <1>8, <1>9, <1>10
<1>12. Skip(size) = (1 + data) * BLOCK
  BY <1>2, <1>4, <1>11, Skipped
<1>13. (start + b * BLOCK + (1 + data) * BLOCK) % UINT = start + b * BLOCK + (1 + data) * BLOCK
  <2>1. PICK a \in Nat : a = start + b * BLOCK + (1 + data) * BLOCK /\ a < UINT
    BY <1>1, <1>9, <1>11
  <2>2. a \in 0 .. UINT - 1
    BY <1>8, <2>1
  <2>3. a % UINT = a
    BY <1>8, <2>2, Division
  <2>4. QED
    BY <2>1, <2>3
<1>14. start + b * BLOCK + (1 + data) * BLOCK = start + (b + 1 + data) * BLOCK
  BY <1>1, <1>9
<1>15. QED
  BY <1>2, <1>3, <1>5, <1>12, <1>13, <1>14 DEF HeaderAt
-----------------------------------------------------------------------------
(* How far kmain() is, by the places where it can be.                      *)
Place ==
  [magic |-> 1, init_interrupts |-> 2, keyboard_init |-> 3, PIC_init |-> 4, init_gdt |-> 5,
   enable_interrupts |-> 6, tags |-> 7, init_phys_mm |-> 7, prepare_init_task |-> 8,
   install_tss |-> 9, set_timer |-> 10, execve |-> 11,
   find_file |-> 12, load |-> 12, iret |-> 12, while |-> 12]

MapsRead == {n \in MemoryMaps : n < tag}
ModulesRead == {n \in OurModules : n < tag}
Greatest(S, n) == n \in S /\ \A k \in S : k <= n

(* What is set up at each place. *)
SetUp ==
  /\ at \in DOMAIN Place
  /\ enabled \in BOOLEAN /\ (enabled <=> Place[at] > 6)
  /\ ready \subseteq {"idt", "PIC", "gdt", "init_task", "tss"}
  /\ "idt" \in ready <=> Place[at] > 2
  /\ "PIC" \in ready <=> Place[at] > 4
  /\ "gdt" \in ready <=> Place[at] > 5
  /\ "init_task" \in ready <=> Place[at] > 8
  /\ "tss" \in ready <=> Place[at] > 9
  /\ \/ machine.compliant
     \/ at = "magic" /\ cpu = "runs"
     \/ at = "init_interrupts" /\ cpu = "hlt"

Callbacks ==
  /\ callbacks \in [Interrupts -> {"none", "main_irq_handler", "page_fault", "sched", "handle_keyboard_input"}]
  /\ callbacks[8] = "none" /\ callbacks[9] = "none"
  /\ callbacks[14] = IF MapsRead = {} THEN "none" ELSE "page_fault"
  /\ callbacks[32] = IF Place[at] > 10 THEN "sched"
                     ELSE IF Place[at] > 2 THEN "main_irq_handler" ELSE "none"
  /\ callbacks[33] = IF Place[at] > 3 THEN "handle_keyboard_input"
                     ELSE IF Place[at] > 2 THEN "main_irq_handler" ELSE "none"

(* What was read of the tags: the archive that counts is the last one so   *)
(* far, and init_phys_mm() reads the map of its tag.                       *)
TagsRead ==
  /\ machine \in Machines
  /\ tag \in 1 .. Len(machine.tags) + 1
  /\ Place[at] < 7 => tag = 1
  /\ Place[at] > 7 => tag = Len(machine.tags) + 1
  /\ rd = NULL => ModulesRead = {}
  /\ rd # NULL => \E n : Greatest(ModulesRead, n) /\ rd = machine.tags[n]
  /\ at = "init_phys_mm" =>
       tag <= Len(machine.tags) /\ Tag.type = "mmap" /\ map = Tag.map

(* The table of frames, in and behind the loops of init_phys_mm().         *)
Table ==
  /\ TableInv
  /\ at = "init_phys_mm" <=> pass # "none"
  /\ at \notin {"init_phys_mm", "iret"} =>
       \A n : Greatest(MapsRead, n) => \A f \in Entries : Free(f) <=> LastByteFree(machine.tags[n].map, f)

(* find_file() is at the header of file n, and none before has the name.   *)
AtFile(n) ==
  /\ address = HeaderAt(rd.start, rd.files, n)
  /\ \A k \in 1 .. n - 1 : rd.files[k].name # Path

Search ==
  /\ at = "find_file" /\ rd # NULL => \E n \in 1 .. Len(rd.files) + 1 : AtFile(n)
  /\ at \in {"load", "iret"} =>
       rd # NULL /\ \E n \in 1 .. Len(rd.files) : AtFile(n) /\ rd.files[n].name = Path
  /\ at = "while" /\ rd # NULL => Named(rd.files) = {}
  /\ at = "iret" =>
       /\ MapsRead # {}
       /\ Reaches(Found)
       /\ Cardinality({f \in Entries : LastByteFree(MemoryMap, f)}) >= Frames(Found)
  /\ cpu = "user" => at = "iret" /\ Found.kind # "empty ELF"

BootInv == SetUp /\ Callbacks /\ TagsRead /\ Table /\ Search

LEMMA PlaceOf ==
  /\ Place["magic"] = 1 /\ Place["init_interrupts"] = 2 /\ Place["keyboard_init"] = 3
  /\ Place["PIC_init"] = 4 /\ Place["init_gdt"] = 5 /\ Place["enable_interrupts"] = 6
  /\ Place["tags"] = 7 /\ Place["init_phys_mm"] = 7 /\ Place["prepare_init_task"] = 8
  /\ Place["install_tss"] = 9 /\ Place["set_timer"] = 10 /\ Place["execve"] = 11
  /\ Place["find_file"] = 12 /\ Place["load"] = 12 /\ Place["iret"] = 12 /\ Place["while"] = 12
  /\ DOMAIN Place =
       {"magic", "init_interrupts", "keyboard_init", "PIC_init", "init_gdt", "enable_interrupts",
        "tags", "init_phys_mm", "prepare_init_task", "install_tss", "set_timer", "execve",
        "find_file", "load", "iret", "while"}
BY DEF Place

LEMMA Calling ==
  /\ at = "magic" => Following = "init_interrupts"
  /\ at = "init_interrupts" => Following = "keyboard_init"
  /\ at = "keyboard_init" => Following = "PIC_init"
  /\ at = "PIC_init" => Following = "init_gdt"
  /\ at = "init_gdt" => Following = "enable_interrupts"
  /\ at = "enable_interrupts" => Following = "tags"
  /\ at = "tags" => Following = "prepare_init_task"
  /\ at = "prepare_init_task" => Following = "install_tss"
  /\ at = "install_tss" => Following = "set_timer"
  /\ at = "set_timer" => Following = "execve"
<1>1. DOMAIN Order = 1 .. 11
  BY DEF Order
<1>2. /\ Order[1] = "magic" /\ Order[2] = "init_interrupts" /\ Order[3] = "keyboard_init"
      /\ Order[4] = "PIC_init" /\ Order[5] = "init_gdt" /\ Order[6] = "enable_interrupts"
      /\ Order[7] = "tags" /\ Order[8] = "prepare_init_task" /\ Order[9] = "install_tss"
      /\ Order[10] = "set_timer" /\ Order[11] = "execve"
  BY DEF Order
<1>3. \A n \in 1 .. 11 : n = 1 \/ n = 2 \/ n = 3 \/ n = 4 \/ n = 5 \/ n = 6 \/ n = 7 \/ n = 8
                          \/ n = 9 \/ n = 10 \/ n = 11
  OBVIOUS
<1>4. ASSUME NEW n \in 1 .. 10, at = Order[n]
      PROVE  Following = Order[n + 1]
  <2>1. \A k \in DOMAIN Order : Order[k] = at => k = n
    BY <1>1, <1>2, <1>3, <1>4
  <2>2. (CHOOSE k \in DOMAIN Order : Order[k] = at) = n
    BY <1>1, <1>4, <2>1
  <2>3. 1 + n = n + 1
    OBVIOUS
  <2>4. QED
    BY <2>2, <2>3 DEF Following
<1>5. 1 + 1 = 2 /\ 2 + 1 = 3 /\ 3 + 1 = 4 /\ 4 + 1 = 5 /\ 5 + 1 = 6 /\ 6 + 1 = 7 /\ 7 + 1 = 8
      /\ 8 + 1 = 9 /\ 9 + 1 = 10 /\ 10 + 1 = 11
  OBVIOUS
<1>6. QED
  BY <1>2, <1>4, <1>5

LEMMA TagType ==
  ASSUME NEW t \in Tags
  PROVE  /\ t.type \in {"other", "mmap", "module"}
         /\ t.type = "mmap" => t.map \in Seq(MapEntries)
         /\ t.type = "module" => t.ours \in BOOLEAN /\ Archive(t.start, t.files)
         /\ t # NULL
<1> DEFINE O == [type : {"other"}]
           M == [type : {"mmap"}, map : Seq(MapEntries)]
           R == [type : {"module"}, ours : BOOLEAN, start : Nat, files : Seq(Files), mapped : Nat]
<1>1. CASE t \in O
  BY <1>1 DEF NULL
<1>2. CASE t \in M
  BY <1>2 DEF NULL
<1>3. CASE t \in R /\ (\A n \in DOMAIN t.files : t.files[n].size < UINT /\ Rest(t.files[n].size)[DIGITS] = 0)
               /\ t.start + Len(Blocks(t.files)) * BLOCK <= UINT
  <2>1. t.type = "module" /\ t.ours \in BOOLEAN /\ t.start \in Nat /\ t.files \in Seq(Files)
    BY <1>3
  <2>2. DOMAIN t.files = 1 .. Len(t.files)
    BY <2>1
  <2>3. Archive(t.start, t.files)
    BY <1>3, <2>1, <2>2 DEF Archive
  <2>4. QED
    BY <2>1, <2>3 DEF NULL
<1>4. QED
  BY <1>1, <1>2, <1>3 DEF Tags

LEMMA MachineType ==
  ASSUME NEW m \in Machines
  PROVE  /\ m.compliant \in BOOLEAN
         /\ m.tags \in Seq(Tags)
         /\ Len(m.tags) \in Nat
         /\ DOMAIN m.tags = 1 .. Len(m.tags)
         /\ \A n \in 1 .. Len(m.tags) : m.tags[n] \in Tags
<1>1. m.compliant \in BOOLEAN /\ m.tags \in Seq(Tags)
  BY BootAssumption
<1>2. QED
  BY <1>1

LEMMA InitBoot == BootInit => BootInv
<1> SUFFICES ASSUME BootInit PROVE BootInv
  OBVIOUS
<1>1. at = "magic" /\ tag = 1 /\ cpu = "runs" /\ ready = {} /\ rd = NULL /\ enabled = FALSE
  BY DEF BootInit
<1>2. Len(machine.tags) \in Nat /\ machine \in Machines
  BY MachineType DEF BootInit
<1>3. MapsRead = {} /\ ModulesRead = {}
  <2>1. \A n \in 1 .. Len(machine.tags) : ~ (n < tag)
    BY <1>1, <1>2
  <2>2. \A n \in DOMAIN machine.tags : ~ (n < tag)
    BY <1>2, <2>1, MachineType
  <2>3. QED
    BY <2>2 DEF MapsRead, ModulesRead, MemoryMaps, OurModules
<1>4. SetUp
  <2>1. Place[at] = 1 /\ at \in DOMAIN Place
    BY <1>1, PlaceOf
  <2>2. ~ (1 > 6) /\ ~ (1 > 2) /\ ~ (1 > 4) /\ ~ (1 > 5) /\ ~ (1 > 8) /\ ~ (1 > 9)
    OBVIOUS
  <2>3. QED
    BY <1>1, <2>1, <2>2, Zenon DEF SetUp
<1>5. Callbacks
  <2>1. callbacks = [n \in Interrupts |-> "none"]
    BY DEF BootInit
  <2>2. QED
    BY <1>1, <1>3, <2>1, PlaceOf DEF Callbacks, Interrupts
<1>6. TagsRead
  BY <1>1, <1>2, <1>3, PlaceOf DEF TagsRead
<1>7. Table
  <2>1. map = <<>> /\ pass = "none" /\ i = 1
    BY DEF BootInit
  <2>2. bitmap \in [Cells -> BOOLEAN]
    BY DEF BootInit
  <2>3. TableInv
    BY <2>1, <2>2 DEF TableInv, TableType, ReadSoFar
  <2>4. QED
    BY <1>1, <1>3, <2>1, <2>3 DEF Table, Greatest
<1>8. Search
  BY <1>1 DEF Search
<1>9. QED
  BY <1>4, <1>5, <1>6, <1>7, <1>8 DEF BootInv

(* The archive that find_file() reads is one of the boot loader's.         *)
LEMMA RamdiskType ==
  ASSUME TagsRead, rd # NULL
  PROVE  /\ Archive(rd.start, rd.files)
         /\ rd.start \in Nat /\ rd.files \in Seq(Files) /\ Len(rd.files) \in Nat
         /\ DOMAIN rd.files = 1 .. Len(rd.files)
<1>1. PICK n : n \in OurModules /\ rd = machine.tags[n]
  BY DEF TagsRead, Greatest, ModulesRead
<1>2. n \in DOMAIN machine.tags /\ machine.tags[n].type = "module"
  BY <1>1 DEF OurModules
<1>3. machine.tags[n] \in Tags
  BY <1>2, MachineType DEF TagsRead
<1>4. Archive(rd.start, rd.files)
  BY <1>1, <1>2, <1>3, TagType
<1>5. rd.start \in Nat /\ rd.files \in Seq(Files)
  BY <1>4 DEF Archive
<1>6. QED
  BY <1>4, <1>5

LEMMA SameTags ==
  ASSUME UNCHANGED <<machine, tag>>
  PROVE  /\ MapsRead' = MapsRead /\ ModulesRead' = ModulesRead
         /\ MemoryMaps' = MemoryMaps /\ OurModules' = OurModules
BY DEF MapsRead, ModulesRead, MemoryMaps, OurModules

LEMMA SameTable ==
  ASSUME TableInv, UNCHANGED vars
  PROVE  /\ TableInv'
         /\ \A f : Free(f)' <=> Free(f)
<1>1. TableInv'
  BY NextTable
<1>2. QED
  BY <1>1 DEF vars, Free

(* A call of kmain() that does nothing but to set up its part.             *)
LEMMA CallReturns ==
  ASSUME TagsRead, Table, Search, UNCHANGED <<vars, machine, tag, rd, address>>,
         at \in DOMAIN Place \ {"init_phys_mm", "find_file", "load", "iret", "while"},
         at' \in DOMAIN Place \ {"init_phys_mm", "find_file", "load", "iret", "while"},
         Place[at] < Place[at'],
         Place[at'] > 7 => tag = Len(machine.tags) + 1,
         cpu' \in {"runs", "hlt"}
  PROVE  TagsRead' /\ Table' /\ Search'
<1>1. Place[at] \in Nat /\ Place[at'] \in Nat
  BY PlaceOf
<1>2. TagsRead'
  <2>1. Place[at'] < 7 => Place[at] < 7
    BY <1>1
  <2>2. QED
    BY <2>1, SameTags DEF TagsRead, Greatest, Tag
<1>3. Table'
  <2>1. TableInv' /\ \A f : Free(f)' <=> Free(f)
    BY SameTable DEF Table
  <2>2. pass' = pass
    BY DEF vars
  <2>3. ASSUME NEW n, Greatest(MapsRead', n), NEW f \in Entries
        PROVE  Free(f)' <=> LastByteFree(machine'.tags[n].map, f)
    <3>1. Greatest(MapsRead, n)
      BY <2>3, SameTags
    <3>2. Free(f) <=> LastByteFree(machine.tags[n].map, f)
      BY <3>1 DEF Table
    <3>3. machine' = machine
      OBVIOUS
    <3>4. QED
      BY <2>1, <3>2, <3>3
  <2>4. QED
    BY <2>1, <2>2, <2>3 DEF Table, Greatest, LastByteFree, In
<1>4. Search'
  BY DEF Search
<1>5. QED
  BY <1>2, <1>3, <1>4

(* The calls of kmain() and init_sched(), one by one.                      *)

LEMMA CheckMagicStep ==
  ASSUME BootInv, CheckMagic
  PROVE  BootInv'
<1>1. at = "magic" /\ at' = "init_interrupts" /\ cpu = "runs" /\ cpu' \in {"runs", "hlt"}
  BY Calling DEF CheckMagic, Calls, Panic
<1>2. ~ (Place[at'] > 7)
  BY <1>1, PlaceOf
<1>3. TagsRead' /\ Table' /\ Search'
  BY <1>1, <1>2, PlaceOf, CallReturns DEF BootInv, CheckMagic
<1>4. Place[at] = 1 /\ Place[at'] = 2 /\ at' \in DOMAIN Place
  BY <1>1, PlaceOf
<1>5. SetUp'
  BY <1>1, <1>4 DEF BootInv, SetUp, CheckMagic, Panic
<1>6. Callbacks'
  BY <1>1, <1>4, SameTags DEF BootInv, Callbacks, Interrupts, CheckMagic
<1>7. QED
  BY <1>3, <1>5, <1>6 DEF BootInv

LEMMA Init_interruptsStep ==
  ASSUME BootInv, init_interrupts
  PROVE  BootInv'
<1>1. at = "init_interrupts" /\ at' = "keyboard_init" /\ cpu = "runs" /\ cpu' \in {"runs", "hlt"}
  BY Calling DEF init_interrupts, Calls, Returns
<1>2. ~ (Place[at'] > 7)
  BY <1>1, PlaceOf
<1>3. TagsRead' /\ Table' /\ Search'
  BY <1>1, <1>2, PlaceOf, CallReturns DEF BootInv, init_interrupts
<1>4. Place[at] = 2 /\ Place[at'] = 3 /\ at' \in DOMAIN Place
  BY <1>1, PlaceOf
<1>5. SetUp'
  <2>1. machine'.compliant /\ enabled' = FALSE /\ ready' = ready \cup {"idt"}
    BY <1>1 DEF BootInv, SetUp, init_interrupts
  <2>2. enabled' \in BOOLEAN /\ ~ (Place[at'] > 6) /\ (enabled' <=> Place[at'] > 6)
    <3>1. enabled' \in BOOLEAN /\ ~ enabled'
      BY <2>1, Zenon
    <3>2. ~ (3 > 6)
      OBVIOUS
    <3>3. QED
      BY <1>4, <3>1, <3>2, Zenon
  <2>3. /\ ready' \subseteq {"idt", "PIC", "gdt", "init_task", "tss"}
        /\ "idt" \in ready' <=> Place[at'] > 2
        /\ "PIC" \in ready' <=> Place[at'] > 4
        /\ "gdt" \in ready' <=> Place[at'] > 5
        /\ "init_task" \in ready' <=> Place[at'] > 8
        /\ "tss" \in ready' <=> Place[at'] > 9
    BY <1>4, <2>1 DEF BootInv, SetUp
  <2>4. QED
    BY <1>4, <2>1, <2>2, <2>3 DEF SetUp
<1>6. Callbacks'
  <2>1. 32 \in 32 .. 47 /\ 33 \in 32 .. 47 /\ 8 \notin 32 .. 47 /\ 9 \notin 32 .. 47 /\ 14 \notin 32 .. 47
    OBVIOUS
  <2>2. /\ callbacks' \in [Interrupts -> {"none", "main_irq_handler", "page_fault", "sched", "handle_keyboard_input"}]
        /\ callbacks'[8] = "none" /\ callbacks'[9] = "none" /\ callbacks'[14] = "none"
        /\ callbacks'[32] = "main_irq_handler" /\ callbacks'[33] = "main_irq_handler"
    BY <2>1 DEF Interrupts, init_interrupts
  <2>3. MapsRead' = {}
    <3>1. tag = 1 /\ machine \in Machines
      BY <1>4 DEF BootInv, TagsRead
    <3>2. MapsRead = {}
      BY <3>1, MachineType DEF MapsRead, MemoryMaps
    <3>3. QED
      BY <3>2, SameTags DEF init_interrupts
  <2>4. QED
    BY <1>4, <2>2, <2>3 DEF Callbacks
<1>7. QED
  BY <1>3, <1>5, <1>6 DEF BootInv

LEMMA Keyboard_initStep ==
  ASSUME BootInv, keyboard_init
  PROVE  BootInv'
<1>1. at = "keyboard_init" /\ at' = "PIC_init" /\ cpu = "runs" /\ cpu' \in {"runs", "hlt"}
  BY Calling DEF keyboard_init, Calls, Returns
<1>2. ~ (Place[at'] > 7)
  BY <1>1, PlaceOf
<1>3. TagsRead' /\ Table' /\ Search'
  BY <1>1, <1>2, PlaceOf, CallReturns DEF BootInv, keyboard_init
<1>4. Place[at] = 3 /\ Place[at'] = 4 /\ at' \in DOMAIN Place
  BY <1>1, PlaceOf
<1>5. SetUp'
  BY <1>1, <1>4 DEF BootInv, SetUp, keyboard_init, Returns
<1>6. Callbacks'
  BY <1>1, <1>4, SameTags DEF BootInv, Callbacks, Interrupts, keyboard_init
<1>7. QED
  BY <1>3, <1>5, <1>6 DEF BootInv

LEMMA PIC_initStep ==
  ASSUME BootInv, PIC_init
  PROVE  BootInv'
<1>1. at = "PIC_init" /\ at' = "init_gdt" /\ cpu = "runs" /\ cpu' \in {"runs", "hlt"}
  BY Calling DEF PIC_init, Calls, Returns
<1>2. ~ (Place[at'] > 7)
  BY <1>1, PlaceOf
<1>3. TagsRead' /\ Table' /\ Search'
  BY <1>1, <1>2, PlaceOf, CallReturns DEF BootInv, PIC_init
<1>4. Place[at] = 4 /\ Place[at'] = 5 /\ at' \in DOMAIN Place
  BY <1>1, PlaceOf
<1>5. SetUp'
  BY <1>1, <1>4 DEF BootInv, SetUp, PIC_init, Returns
<1>6. Callbacks'
  BY <1>1, <1>4, SameTags DEF BootInv, Callbacks, Interrupts, PIC_init
<1>7. QED
  BY <1>3, <1>5, <1>6 DEF BootInv

LEMMA Init_gdtStep ==
  ASSUME BootInv, init_gdt
  PROVE  BootInv'
<1>1. at = "init_gdt" /\ at' = "enable_interrupts" /\ cpu = "runs" /\ cpu' \in {"runs", "hlt"}
  BY Calling DEF init_gdt, Calls, Returns
<1>2. ~ (Place[at'] > 7)
  BY <1>1, PlaceOf
<1>3. TagsRead' /\ Table' /\ Search'
  BY <1>1, <1>2, PlaceOf, CallReturns DEF BootInv, init_gdt
<1>4. Place[at] = 5 /\ Place[at'] = 6 /\ at' \in DOMAIN Place
  BY <1>1, PlaceOf
<1>5. SetUp'
  BY <1>1, <1>4 DEF BootInv, SetUp, init_gdt, Returns
<1>6. Callbacks'
  BY <1>1, <1>4, SameTags DEF BootInv, Callbacks, Interrupts, init_gdt
<1>7. QED
  BY <1>3, <1>5, <1>6 DEF BootInv

LEMMA Enable_interruptsStep ==
  ASSUME BootInv, enable_interrupts
  PROVE  BootInv'
<1>1. at = "enable_interrupts" /\ at' = "tags" /\ cpu = "runs" /\ cpu' \in {"runs", "hlt"}
  BY Calling DEF enable_interrupts, Calls, Returns
<1>2. ~ (Place[at'] > 7)
  BY <1>1, PlaceOf
<1>3. TagsRead' /\ Table' /\ Search'
  BY <1>1, <1>2, PlaceOf, CallReturns DEF BootInv, enable_interrupts
<1>4. Place[at] = 6 /\ Place[at'] = 7 /\ at' \in DOMAIN Place
  BY <1>1, PlaceOf
<1>5. SetUp'
  BY <1>1, <1>4 DEF BootInv, SetUp, enable_interrupts, Returns
<1>6. Callbacks'
  BY <1>1, <1>4, SameTags DEF BootInv, Callbacks, Interrupts, enable_interrupts
<1>7. QED
  BY <1>3, <1>5, <1>6 DEF BootInv

LEMMA EndOfTagsStep ==
  ASSUME BootInv, EndOfTags
  PROVE  BootInv'
<1>1. at = "tags" /\ at' = "prepare_init_task" /\ cpu = "runs" /\ cpu' \in {"runs", "hlt"}
  BY Calling DEF EndOfTags, Calls, Returns
<1>2. tag = Len(machine.tags) + 1
  <2>1. Len(machine.tags) \in Nat /\ tag \in 1 .. Len(machine.tags) + 1 /\ tag > Len(machine.tags)
    BY MachineType DEF EndOfTags, BootInv, TagsRead
  <2>2. QED
    BY <2>1
<1>3. TagsRead' /\ Table' /\ Search'
  BY <1>1, <1>2, PlaceOf, CallReturns DEF BootInv, EndOfTags
<1>4. Place[at] = 7 /\ Place[at'] = 8 /\ at' \in DOMAIN Place
  BY <1>1, PlaceOf
<1>5. SetUp'
  BY <1>1, <1>4 DEF BootInv, SetUp, EndOfTags, Returns
<1>6. Callbacks'
  BY <1>1, <1>4, SameTags DEF BootInv, Callbacks, Interrupts, EndOfTags
<1>7. QED
  BY <1>3, <1>5, <1>6 DEF BootInv

LEMMA Prepare_init_taskStep ==
  ASSUME BootInv, prepare_init_task
  PROVE  BootInv'
<1>1. at = "prepare_init_task" /\ at' = "install_tss" /\ cpu = "runs" /\ cpu' \in {"runs", "hlt"}
  BY Calling DEF prepare_init_task, Calls, Returns
<1>2. tag = Len(machine.tags) + 1
  BY <1>1, PlaceOf DEF BootInv, TagsRead
<1>3. TagsRead' /\ Table' /\ Search'
  BY <1>1, <1>2, PlaceOf, CallReturns DEF BootInv, prepare_init_task
<1>4. Place[at] = 8 /\ Place[at'] = 9 /\ at' \in DOMAIN Place
  BY <1>1, PlaceOf
<1>5. SetUp'
  BY <1>1, <1>4 DEF BootInv, SetUp, prepare_init_task, Returns
<1>6. Callbacks'
  BY <1>1, <1>4, SameTags DEF BootInv, Callbacks, Interrupts, prepare_init_task
<1>7. QED
  BY <1>3, <1>5, <1>6 DEF BootInv

LEMMA Install_tssStep ==
  ASSUME BootInv, install_tss
  PROVE  BootInv'
<1>1. at = "install_tss" /\ at' = "set_timer" /\ cpu = "runs" /\ cpu' \in {"runs", "hlt"}
  BY Calling DEF install_tss, Calls, Returns
<1>2. tag = Len(machine.tags) + 1
  BY <1>1, PlaceOf DEF BootInv, TagsRead
<1>3. TagsRead' /\ Table' /\ Search'
  BY <1>1, <1>2, PlaceOf, CallReturns DEF BootInv, install_tss
<1>4. Place[at] = 9 /\ Place[at'] = 10 /\ at' \in DOMAIN Place
  BY <1>1, PlaceOf
<1>5. SetUp'
  BY <1>1, <1>4 DEF BootInv, SetUp, install_tss, Returns
<1>6. Callbacks'
  BY <1>1, <1>4, SameTags DEF BootInv, Callbacks, Interrupts, install_tss
<1>7. QED
  BY <1>3, <1>5, <1>6 DEF BootInv

LEMMA SetTimerStep ==
  ASSUME BootInv, SetTimer
  PROVE  BootInv'
<1>1. at = "set_timer" /\ at' = "execve" /\ cpu = "runs" /\ cpu' \in {"runs", "hlt"}
  BY Calling DEF SetTimer, Calls, Returns
<1>2. tag = Len(machine.tags) + 1
  BY <1>1, PlaceOf DEF BootInv, TagsRead
<1>3. TagsRead' /\ Table' /\ Search'
  BY <1>1, <1>2, PlaceOf, CallReturns DEF BootInv, SetTimer
<1>4. Place[at] = 10 /\ Place[at'] = 11 /\ at' \in DOMAIN Place
  BY <1>1, PlaceOf
<1>5. SetUp'
  BY <1>1, <1>4 DEF BootInv, SetUp, SetTimer, Returns
<1>6. Callbacks'
  BY <1>1, <1>4, SameTags DEF BootInv, Callbacks, Interrupts, SetTimer
<1>7. QED
  BY <1>3, <1>5, <1>6 DEF BootInv

(* The loop over the tags.                                                 *)

LEMMA NextTag ==
  ASSUME TagsRead, tag <= Len(machine.tags), tag' = tag + 1, machine' = machine
  PROVE  /\ tag \in 1 .. Len(machine.tags) /\ Tag \in Tags
         /\ tag' \in 1 .. Len(machine'.tags) + 1
         /\ \A n \in MapsRead \cup ModulesRead : n \in Nat /\ n < tag
         /\ MapsRead' = MapsRead \cup (IF Tag.type = "mmap" THEN {tag} ELSE {})
         /\ ModulesRead' = ModulesRead \cup (IF Tag.type = "module" /\ Tag.ours THEN {tag} ELSE {})
<1>1. Len(machine.tags) \in Nat /\ tag \in 1 .. Len(machine.tags) + 1 /\ machine \in Machines
  BY MachineType DEF TagsRead
<1>2. tag \in 1 .. Len(machine.tags) /\ tag' \in 1 .. Len(machine'.tags) + 1
  BY <1>1
<1>3. Tag \in Tags
  BY <1>1, <1>2, MachineType DEF Tag
<1>4. DOMAIN machine.tags = 1 .. Len(machine.tags)
  BY <1>1, MachineType
<1>5. \A n \in 1 .. Len(machine.tags) : n < tag' <=> n < tag \/ n = tag
  BY <1>1
<1>6. MapsRead' = MapsRead \cup (IF Tag.type = "mmap" THEN {tag} ELSE {})
  BY <1>2, <1>4, <1>5 DEF MapsRead, MemoryMaps, Tag
<1>7. ModulesRead' = ModulesRead \cup (IF Tag.type = "module" /\ Tag.ours THEN {tag} ELSE {})
  BY <1>2, <1>4, <1>5 DEF ModulesRead, OurModules, Tag
<1>8. \A n \in MapsRead \cup ModulesRead : n \in Nat /\ n < tag
  BY <1>1, <1>4 DEF MapsRead, ModulesRead, MemoryMaps, OurModules
<1>9. QED
  BY <1>2, <1>3, <1>6, <1>7, <1>8

LEMMA NewLast ==
  ASSUME NEW S, NEW t \in Nat, \A n \in S : n \in Nat /\ n < t
  PROVE  \A n : Greatest(S \cup {t}, n) <=> n = t
<1>1. Greatest(S \cup {t}, t)
  BY DEF Greatest
<1>2. ASSUME NEW n, Greatest(S \cup {t}, n)
      PROVE  n = t
  BY <1>2 DEF Greatest
<1>3. QED
  BY <1>1, <1>2

(* The table of frames, while tags without a memory map are read.          *)
LEMMA TableKept ==
  ASSUME Table, UNCHANGED <<vars, machine, at>>, MapsRead' = MapsRead
  PROVE  Table'
<1>1. TableInv' /\ \A f : Free(f)' <=> Free(f)
  BY SameTable DEF Table
<1>2. pass' = pass
  BY DEF vars
<1>3. ASSUME NEW n, Greatest(MapsRead', n), NEW f \in Entries, at' \notin {"init_phys_mm", "iret"}
      PROVE  Free(f)' <=> LastByteFree(machine'.tags[n].map, f)
  <2>1. Greatest(MapsRead, n)
    BY <1>3
  <2>2. Free(f) <=> LastByteFree(machine.tags[n].map, f)
    BY <1>3, <2>1 DEF Table
  <2>3. machine' = machine
    OBVIOUS
  <2>4. QED
    BY <1>1, <2>2, <2>3
<1>4. QED
  BY <1>1, <1>2, <1>3 DEF Table, Greatest, LastByteFree, In

LEMMA TableMoves ==
  ASSUME Table, UNCHANGED <<vars, machine>>, MapsRead' = MapsRead,
         at \notin {"init_phys_mm", "iret"}, at' \notin {"init_phys_mm", "iret"}
  PROVE  Table'
<1>1. TableInv' /\ \A f : Free(f)' <=> Free(f)
  BY SameTable DEF Table
<1>2. pass' = pass
  BY DEF vars
<1>3. ASSUME NEW n, Greatest(MapsRead', n), NEW f \in Entries
      PROVE  Free(f)' <=> LastByteFree(machine'.tags[n].map, f)
  <2>1. Greatest(MapsRead, n)
    BY <1>3
  <2>2. Free(f) <=> LastByteFree(machine.tags[n].map, f)
    BY <2>1 DEF Table
  <2>3. machine' = machine
    OBVIOUS
  <2>4. QED
    BY <1>1, <2>2, <2>3
<1>4. QED
  BY <1>1, <1>2, <1>3 DEF Table, Greatest, LastByteFree, In

LEMMA SetUpKept ==
  ASSUME SetUp, UNCHANGED <<machine, at, enabled, ready>>, at \notin {"magic", "init_interrupts"}
  PROVE  SetUp'
BY DEF SetUp

LEMMA CallbacksKept ==
  ASSUME Callbacks, UNCHANGED <<callbacks>>, MapsRead' = MapsRead,
         \/ at' = at
         \/ at \in DOMAIN Place /\ at' \in DOMAIN Place /\ Place[at] = Place[at']
         \/ Place[at] > 10 /\ Place[at'] > 10 /\ at \in DOMAIN Place /\ at' \in DOMAIN Place
  PROVE  Callbacks'
<1>1. (Place[at'] > 10 <=> Place[at] > 10) /\ (Place[at'] > 2 <=> Place[at] > 2)
      /\ (Place[at'] > 3 <=> Place[at] > 3)
  BY PlaceOf
<1>2. QED
  BY <1>1 DEF Callbacks

LEMMA SkipTagStep ==
  ASSUME BootInv, SkipTag
  PROVE  BootInv'
<1>1. at = "tags" /\ at' = at /\ tag <= Len(machine.tags) /\ Tag.type = "other" /\ cpu = "runs" /\ cpu' = cpu
      /\ tag' = tag + 1 /\ machine' = machine /\ rd' = rd /\ address' = address
  BY DEF SkipTag, IsTag, Calls
<1>2. MapsRead' = MapsRead /\ ModulesRead' = ModulesRead /\ tag' \in 1 .. Len(machine'.tags) + 1
  BY <1>1, NextTag DEF BootInv
<1>3. SetUp' /\ Callbacks' /\ Table'
  BY <1>1, <1>2, SetUpKept, CallbacksKept, TableKept DEF BootInv, SkipTag
<1>4. TagsRead'
  BY <1>1, <1>2, PlaceOf DEF BootInv, TagsRead, Greatest
<1>5. Search'
  BY <1>1 DEF Search
<1>6. QED
  BY <1>3, <1>4, <1>5 DEF BootInv

LEMMA Init_rdStep ==
  ASSUME BootInv, init_rd
  PROVE  BootInv'
<1>1. at = "tags" /\ at' = at /\ tag <= Len(machine.tags) /\ Tag.type = "module" /\ cpu = "runs"
      /\ tag' = tag + 1 /\ machine' = machine
  BY DEF init_rd, IsTag, Calls
<1>2. /\ MapsRead' = MapsRead /\ tag' \in 1 .. Len(machine'.tags) + 1 /\ Tag \in Tags
      /\ ModulesRead' = ModulesRead \cup (IF Tag.ours THEN {tag} ELSE {})
      /\ tag \in Nat /\ \A n \in ModulesRead : n \in Nat /\ n < tag
  BY <1>1, NextTag DEF BootInv
<1>3. SetUp' /\ Callbacks' /\ Table'
  BY <1>1, <1>2, SetUpKept, CallbacksKept, TableKept DEF BootInv, init_rd
<1>4. TagsRead'
  <2>1. CASE Tag.ours
    <3>1. rd' = Tag /\ Tag # NULL
      BY <1>2, <2>1, TagType DEF init_rd
    <3>2. Greatest(ModulesRead', tag)
      BY <1>2, <2>1, NewLast
    <3>3. QED
      BY <1>1, <1>2, <3>1, <3>2, PlaceOf DEF BootInv, TagsRead, Tag, Greatest
  <2>2. CASE ~ Tag.ours
    <3>1. rd' = rd /\ ModulesRead' = ModulesRead
      BY <1>2, <2>2 DEF init_rd
    <3>2. /\ rd' = NULL => ModulesRead' = {}
          /\ rd' # NULL => \E n : Greatest(ModulesRead', n) /\ rd' = machine'.tags[n]
      BY <1>1, <3>1 DEF BootInv, TagsRead
    <3>3. Place[at'] = 7 /\ machine' \in Machines
      BY <1>1, PlaceOf DEF BootInv, TagsRead
    <3>4. QED
      BY <1>1, <1>2, <3>2, <3>3 DEF TagsRead, Greatest
  <2>3. QED
    BY <2>1, <2>2
<1>5. Search'
  <2>1. cpu' \in {"runs", "hlt"}
    BY <1>1 DEF init_rd, Panic
  <2>2. QED
    BY <1>1, <2>1 DEF Search
<1>6. QED
  BY <1>3, <1>4, <1>5 DEF BootInv

LEMMA CallInitPhysMMStep ==
  ASSUME BootInv, CallInitPhysMM
  PROVE  BootInv'
<1>1. at = "tags" /\ at' = "init_phys_mm" /\ tag <= Len(machine.tags) /\ Tag.type = "mmap" /\ cpu = "runs"
      /\ cpu' = cpu /\ tag' = tag /\ machine' = machine /\ rd' = rd /\ address' = address
      /\ map' = Tag.map /\ pass' = "usable" /\ i' = 1
  BY DEF CallInitPhysMM, IsTag, Calls
<1>2. Tag \in Tags /\ Tag' = Tag
  <2>1. machine \in Machines /\ Len(machine.tags) \in Nat /\ tag \in 1 .. Len(machine.tags)
    BY <1>1, MachineType DEF BootInv, TagsRead
  <2>2. QED
    BY <1>1, <2>1, MachineType DEF Tag
<1>3. map' \in Seq(MapEntries) /\ Len(map') \in Nat
  BY <1>1, <1>2, TagType
<1>4. Place[at'] = Place[at] /\ at' \in DOMAIN Place /\ at \in DOMAIN Place /\ Place[at] = 7
  BY <1>1, PlaceOf
<1>5. SetUp'
  BY <1>1, <1>4 DEF BootInv, SetUp, CallInitPhysMM
<1>6. Callbacks'
  BY <1>1, <1>4, SameTags, CallbacksKept DEF BootInv, CallInitPhysMM
<1>7. TagsRead'
  BY <1>1, <1>2, <1>4, SameTags DEF BootInv, TagsRead, Greatest
<1>8. bitmap' = [j \in Cells |-> j \in Entries \/ bitmap[j]] /\ bitmap \in [Cells -> BOOLEAN]
  BY DEF CallInitPhysMM, BootInv, Table, TableInv, TableType
<1>9. bitmap' \in [Cells -> BOOLEAN] /\ \A f \in Entries : bitmap'[f] = TRUE
  BY <1>8, Zenon DEF Entries, Cells
<1>10. TableType'
  BY <1>1, <1>3, <1>9 DEF TableType
<1>11. ASSUME NEW f \in Entries
       PROVE  ~ Free(f)' /\ ~ SomeUsable(f, i - 1)'
  <2>1. ~ Free(f)'
    BY <1>9 DEF Free
  <2>2. \A k \in 1 .. Len(map') : ~ (k <= i' - 1)
    BY <1>1, <1>3
  <2>3. DOMAIN map' = 1 .. Len(map')
    BY <1>3
  <2>4. QED
    BY <2>1, <2>2, <2>3 DEF SomeUsable
<1>12. Table'
  BY <1>1, <1>10, <1>11 DEF Table, TableInv, ReadSoFar
<1>13. Search'
  BY <1>1 DEF Search
<1>14. QED
  BY <1>5, <1>6, <1>7, <1>12, <1>13 DEF BootInv

LEMMA InPhysMMStep ==
  ASSUME BootInv, InPhysMM
  PROVE  BootInv'
<1>1. at = "init_phys_mm" /\ UNCHANGED <<machine, kernel>> /\ Next /\ cpu = "runs"
  BY DEF InPhysMM, Calls
<1>2. TableInv'
  BY <1>1, NextTable DEF BootInv, Table
<1>3. pass' # "none" /\ map' = map
  BY <1>1 DEF Next, ReadUsable, ReadUnusable, KeepKernel, NextEntry
<1>4. MapsRead' = MapsRead /\ ModulesRead' = ModulesRead
  BY <1>1, SameTags DEF kernel
<1>5. SetUp' /\ Callbacks'
  BY <1>1, <1>4, SetUpKept, CallbacksKept DEF BootInv, kernel
<1>6. TagsRead'
  BY <1>1, <1>3, <1>4 DEF BootInv, TagsRead, kernel, Tag, Greatest
<1>7. Table'
  BY <1>1, <1>2, <1>3 DEF Table, kernel
<1>8. Search'
  BY <1>1 DEF Search, kernel
<1>9. QED
  BY <1>5, <1>6, <1>7, <1>8 DEF BootInv

LEMMA Init_mmStep ==
  ASSUME BootInv, init_mm
  PROVE  BootInv'
<1>1. at = "init_phys_mm" /\ at' = "tags" /\ pass = "done" /\ pass' = "none" /\ tag' = tag + 1
      /\ callbacks' = [callbacks EXCEPT ![14] = "page_fault"]
      /\ UNCHANGED <<map, bitmap, i, machine, cpu, enabled, ready, rd, address>> /\ cpu = "runs"
  BY DEF init_mm, Calls
<1>2. tag <= Len(machine.tags) /\ Tag.type = "mmap" /\ map = Tag.map
  BY <1>1 DEF BootInv, TagsRead
<1>3. /\ MapsRead' = MapsRead \cup {tag} /\ ModulesRead' = ModulesRead
      /\ tag \in Nat /\ tag' \in 1 .. Len(machine'.tags) + 1
      /\ \A n \in MapsRead : n \in Nat /\ n < tag
  BY <1>1, <1>2, NextTag DEF BootInv
<1>4. Place[at'] = 7 /\ Place[at] = 7 /\ at' \in DOMAIN Place
  BY <1>1, PlaceOf
<1>5. SetUp'
  BY <1>1, <1>4 DEF BootInv, SetUp
<1>6. Callbacks'
  <2>1. MapsRead' # {}
    BY <1>3
  <2>2. QED
    BY <1>1, <1>4, <2>1 DEF BootInv, Callbacks, Interrupts
<1>7. TagsRead'
  BY <1>1, <1>3, <1>4 DEF BootInv, TagsRead, Greatest
<1>8. TableInv'
  BY <1>1 DEF BootInv, Table, TableInv, TableType, ReadSoFar
<1>9. ASSUME NEW n, Greatest(MapsRead', n), NEW f \in Entries
      PROVE  Free(f)' <=> LastByteFree(machine'.tags[n].map, f)
  <2>1. n = tag
    BY <1>3, <1>9, NewLast
  <2>2. machine'.tags[n].map = map
    BY <1>1, <1>2, <2>1 DEF Tag
  <2>3. Free(f) <=> f >= KERNEL /\ Usable((f + 1) * PAGE_SIZE - 1)
    BY <1>1, TableDecides DEF BootInv, Table, LastByteDecides, Done
  <2>4. Free(f) <=> LastByteFree(map, f)
    BY <2>3 DEF LastByteFree, Usable
  <2>5. Free(f)' <=> Free(f)
    BY <1>1 DEF Free
  <2>6. QED
    BY <2>2, <2>4, <2>5
<1>10. Table'
  BY <1>1, <1>8, <1>9 DEF Table, Greatest, LastByteFree, In
<1>11. Search'
  BY <1>1 DEF Search
<1>12. QED
  BY <1>5, <1>6, <1>7, <1>10, <1>11 DEF BootInv

(* find_file(), do_execve() and bin/init.                                  *)

LEMMA StartsLooking ==
  ASSUME BootInv, Execve
  PROVE  BootInv'
<1>1. at = "execve" /\ at' = "find_file" /\ cpu = "runs" /\ cpu' = cpu
      /\ UNCHANGED <<vars, machine, tag, enabled, ready, callbacks, rd>>
  BY DEF Execve, Calls
<1>2. Place[at] = 11 /\ Place[at'] = 12 /\ at' \in DOMAIN Place /\ at \in DOMAIN Place
  BY <1>1, PlaceOf
<1>3. MapsRead' = MapsRead /\ ModulesRead' = ModulesRead
  BY <1>1, SameTags
<1>4. SetUp' /\ Callbacks'
  BY <1>1, <1>2, <1>3, CallbacksKept DEF BootInv, SetUp
<1>5. TagsRead'
  BY <1>1, <1>2, <1>3 DEF BootInv, TagsRead, Greatest
<1>6. Table'
  BY <1>1, <1>3, TableMoves DEF BootInv
<1>7. Search'
  <2>1. ASSUME rd # NULL
        PROVE  \E n \in 1 .. Len(rd.files) + 1 : AtFile(n)'
    <3>1. rd.start \in Nat /\ rd.files \in Seq(Files) /\ Len(rd.files) \in Nat
      BY <2>1, RamdiskType DEF BootInv
    <3>2. address' = rd.start
      BY <2>1 DEF Execve
    <3>3. HeaderAt(rd.start, rd.files, 1) = rd.start
      <4>1. BlocksBefore(rd.files, 1) = 0
        BY <3>1, Before
      <4>2. 0 * BLOCK = 0 /\ rd.start + 0 = rd.start
        BY <3>1, Constants
      <4>3. QED
        BY <4>1, <4>2 DEF HeaderAt
    <3>4. 1 \in 1 .. Len(rd.files) + 1 /\ \A k \in 1 .. 1 - 1 : FALSE
      BY <3>1
    <3>5. AtFile(1)'
      BY <1>1, <3>2, <3>3, <3>4 DEF AtFile, HeaderAt
    <3>6. QED
      BY <3>4, <3>5
  <2>2. QED
    BY <1>1, <2>1 DEF Search
<1>8. QED
  BY <1>4, <1>5, <1>6, <1>7 DEF BootInv

(* What stays as it is while find_file() goes through the archive.         *)
LEMMA WhileLooking ==
  ASSUME BootInv, at = "find_file", at' \in {"find_file", "load", "while"},
         UNCHANGED <<vars, machine, tag, enabled, ready, callbacks, rd>>
  PROVE  SetUp' /\ Callbacks' /\ TagsRead' /\ Table'
<1>1. Place[at] = 12 /\ Place[at'] = 12 /\ at' \in DOMAIN Place /\ at \in DOMAIN Place
  BY PlaceOf
<1>2. MapsRead' = MapsRead /\ ModulesRead' = ModulesRead
  BY SameTags
<1>3. SetUp' /\ Callbacks'
  BY <1>1, <1>2, CallbacksKept DEF BootInv, SetUp
<1>4. TagsRead'
  BY <1>1, <1>2 DEF BootInv, TagsRead, Greatest
<1>5. Table'
  BY <1>2, TableMoves DEF BootInv
<1>6. QED
  BY <1>3, <1>4, <1>5

(* The header that find_file() is at.                                      *)
LEMMA AtHeader ==
  ASSUME TagsRead, rd # NULL, NEW n \in 1 .. Len(rd.files) + 1, AtFile(n)
  PROVE  /\ (address - rd.start) \div BLOCK = BlocksBefore(rd.files, n)
         /\ n = Len(rd.files) + 1 =>
              Blocks(rd.files)[(address - rd.start) \div BLOCK + 1].name = ""
         /\ n # Len(rd.files) + 1 =>
              /\ n \in 1 .. Len(rd.files)
              /\ Blocks(rd.files)[(address - rd.start) \div BLOCK + 1] = Header(rd.files[n])
<1>1. rd.start \in Nat /\ rd.files \in Seq(Files) /\ Len(rd.files) \in Nat
  BY RamdiskType
<1>2. PICK start \in Nat, files \in Seq(Files) : start = rd.start /\ files = rd.files
  BY <1>1
<1>3. (address - rd.start) \div BLOCK = BlocksBefore(rd.files, n)
  BY <1>2, BlockOf DEF AtFile
<1>4. CASE n = Len(rd.files) + 1
  <2>1. Blocks(files)[BlocksBefore(files, Len(files) + 1) + 1] = Zeros
    BY Layout
  <2>2. Zeros.name = ""
    BY DEF Zeros
  <2>3. QED
    BY <1>2, <1>3, <1>4, <2>1, <2>2
<1>5. CASE n # Len(rd.files) + 1
  <2>1. n \in 1 .. Len(rd.files)
    BY <1>1, <1>5
  <2>2. \A k \in 1 .. Len(files) : Blocks(files)[BlocksBefore(files, k) + 1] = Header(files[k])
    BY Layout
  <2>3. QED
    BY <1>2, <1>3, <1>5, <2>1, <2>2
<1>6. QED
  BY <1>3, <1>4, <1>5

LEMMA FindFileStep ==
  ASSUME BootInv, FindFile
  PROVE  BootInv'
<1> DEFINE block == (address - rd.start) \div BLOCK + 1
           header == Blocks(rd.files)[block]
<1>1. /\ at = "find_file" /\ rd # NULL /\ cpu = "runs"
      /\ UNCHANGED <<vars, machine, tag, enabled, ready, callbacks, rd>>
      /\ \/ at' = at /\ address' = address /\ cpu' \in {"dead", "lost"}
         \/ header.name = Path /\ at' = "load" /\ address' = address /\ cpu' = cpu
         \/ /\ header.name # Path /\ cpu' = cpu
            /\ address' = (address + Skip(getsize(header.size))) % UINT
            /\ at' = IF header.name = "" THEN "while" ELSE "find_file"
  BY DEF FindFile, Calls, Faults
<1>2. PICK n \in 1 .. Len(rd.files) + 1 : AtFile(n)
  BY <1>1 DEF BootInv, Search
<1>3. /\ n = Len(rd.files) + 1 => header.name = ""
      /\ n # Len(rd.files) + 1 => n \in 1 .. Len(rd.files) /\ header = Header(rd.files[n])
  BY <1>1, <1>2, AtHeader DEF BootInv
<1> HIDE DEF block, header
<1>4. at' \in {"find_file", "load", "while"}
  BY <1>1
<1>5. SetUp' /\ Callbacks' /\ TagsRead' /\ Table'
  BY <1>1, <1>4, WhileLooking
<1> SUFFICES Search'
  BY <1>5 DEF BootInv
<1>6. /\ rd.start \in Nat /\ rd.files \in Seq(Files) /\ Len(rd.files) \in Nat
      /\ Archive(rd.start, rd.files) /\ DOMAIN rd.files = 1 .. Len(rd.files)
  BY <1>1, RamdiskType DEF BootInv
<1>7. ASSUME n \in 1 .. Len(rd.files)
      PROVE  header.name = rd.files[n].name /\ header.size = Octal(rd.files[n].size)
             /\ rd.files[n].name # "" /\ n + 1 \in 1 .. Len(rd.files) + 1
  <2>0. n # Len(rd.files) + 1
    BY <1>6, <1>7
  <2>1. header = Header(rd.files[n])
    BY <1>3, <2>0
  <2>2. rd.files[n].name # ""
    BY <1>6, <1>7, FileType
  <2>3. n + 1 \in 1 .. Len(rd.files) + 1
    BY <1>6, <1>7
  <2>4. QED
    BY <2>1, <2>2, <2>3 DEF Header
<1>8. CASE at' = at /\ address' = address /\ cpu' \in {"dead", "lost"}
  BY <1>1, <1>2, <1>8 DEF Search, AtFile
<1>9. CASE header.name = Path /\ at' = "load" /\ address' = address /\ cpu' = cpu
  <2>1. n # Len(rd.files) + 1
    BY <1>3, <1>9, BootAssumption
  <2>2. n \in 1 .. Len(rd.files) /\ rd.files[n].name = Path
    BY <1>3, <1>7, <1>9, <2>1
  <2>3. AtFile(n)'
    BY <1>1, <1>2, <1>9 DEF AtFile
  <2>4. QED
    BY <1>1, <1>9, <2>2, <2>3 DEF Search
<1>10. CASE /\ header.name # Path /\ cpu' = cpu
            /\ address' = (address + Skip(getsize(header.size))) % UINT
            /\ at' = IF header.name = "" THEN "while" ELSE "find_file"
  <2>1. CASE n = Len(rd.files) + 1
    <3>1. at' = "while"
      BY <1>3, <1>10, <2>1
    <3>2. Named(rd.files) = {}
      <4>1. \A k \in 1 .. Len(rd.files) : k \in 1 .. n - 1
        BY <1>6, <2>1
      <4>2. QED
        BY <1>2, <1>6, <4>1 DEF Named, AtFile
    <3>3. QED
      BY <1>1, <1>10, <3>1, <3>2 DEF Search, Named
  <2>2. CASE n # Len(rd.files) + 1
    <3>1. n \in 1 .. Len(rd.files)
      BY <1>3, <2>2
    <3>2. at' = "find_file"
      BY <1>7, <1>10, <3>1
    <3>3. address' = HeaderAt(rd.start, rd.files, n + 1)
      <4>1. address = HeaderAt(rd.start, rd.files, n)
        BY <1>2 DEF AtFile
      <4>2. (HeaderAt(rd.start, rd.files, n) + Skip(getsize(Octal(rd.files[n].size)))) % UINT
              = HeaderAt(rd.start, rd.files, n + 1)
        BY <1>6, <3>1, NextHeader
      <4>3. QED
        BY <1>7, <1>10, <3>1, <4>1, <4>2
    <3>4. \A k \in 1 .. (n + 1) - 1 : rd.files[k].name # Path
      <4>1. \A k \in 1 .. (n + 1) - 1 : k \in 1 .. n - 1 \/ k = n
        BY <3>1
      <4>2. rd.files[n].name # Path
        BY <1>7, <1>10, <3>1
      <4>3. QED
        BY <1>2, <4>1, <4>2 DEF AtFile
    <3>5. AtFile(n + 1)'
      BY <1>1, <3>3, <3>4 DEF AtFile, HeaderAt
    <3>6. QED
      BY <1>1, <1>7, <1>10, <3>1, <3>2, <3>5 DEF Search
  <2>3. QED
    BY <2>1, <2>2
<1>11. QED
  BY <1>1, <1>8, <1>9, <1>10

LEMMA FindFileAtNullStep ==
  ASSUME BootInv, FindFileAtNull
  PROVE  BootInv'
<1>1. at = "find_file" /\ rd = NULL /\ cpu = "runs" /\ at' \in {"find_file", "while"}
      /\ UNCHANGED <<vars, machine, tag, enabled, ready, callbacks, rd>> /\ cpu' \in {"dead", "runs"}
  BY DEF FindFileAtNull, Calls, Faults
<1>2. SetUp' /\ Callbacks' /\ TagsRead' /\ Table'
  BY <1>1, WhileLooking
<1>3. Search'
  BY <1>1 DEF Search
<1>4. QED
  BY <1>2, <1>3 DEF BootInv

(* The file that was found, and the first of that name.                    *)
LEMMA FoundIs ==
  ASSUME TagsRead, rd # NULL, NEW n \in 1 .. Len(rd.files), AtFile(n)
  PROVE  Found = rd.files[n]
<1>1. /\ rd.start \in Nat /\ rd.files \in Seq(Files) /\ Len(rd.files) \in Nat
      /\ DOMAIN rd.files = 1 .. Len(rd.files)
  BY RamdiskType
<1>2. n \in DOMAIN rd.files /\ HeaderAt(rd.start, rd.files, n) = address
  BY <1>1 DEF AtFile
<1>3. ASSUME NEW m \in DOMAIN rd.files, HeaderAt(rd.start, rd.files, m) = address
      PROVE  m = n
  <2>1. PICK start \in Nat, files \in Seq(Files) : start = rd.start /\ files = rd.files
    BY <1>1
  <2>2. m \in 1 .. Len(files) + 1 /\ n \in 1 .. Len(files) + 1
    BY <1>1, <2>1
  <2>3. HeaderAt(start, files, m) = HeaderAt(start, files, n)
    BY <1>2, <1>3, <2>1
  <2>4. QED
    BY <2>2, <2>3, HeadersDiffer
<1>4. (CHOOSE m \in DOMAIN rd.files : HeaderAt(rd.start, rd.files, m) = address) = n
  BY <1>2, <1>3
<1>5. QED
  BY <1>4 DEF Found, HeaderAt

LEMMA FirstIs ==
  ASSUME TagsRead, rd # NULL, NEW n \in 1 .. Len(rd.files), AtFile(n), rd.files[n].name = Path
  PROVE  Named(rd.files) # {} /\ FirstNamed(rd.files) = n
<1>1. DOMAIN rd.files = 1 .. Len(rd.files) /\ Len(rd.files) \in Nat
  BY RamdiskType
<1>2. n \in Named(rd.files)
  BY <1>1 DEF Named
<1>3. \A m \in Named(rd.files) : m \in Nat /\ n <= m
  <2>1. TAKE m \in Named(rd.files)
  <2>2. m \in 1 .. Len(rd.files) /\ rd.files[m].name = Path
    BY <1>1 DEF Named
  <2>3. m \notin 1 .. n - 1
    BY <2>2 DEF AtFile
  <2>4. QED
    BY <1>1, <2>2, <2>3
<1>4. \A m \in Named(rd.files) : (\A k \in Named(rd.files) : m <= k) => m = n
  BY <1>2, <1>3
<1>5. QED
  BY <1>2, <1>3, <1>4 DEF FirstNamed

LEMMA LastOf ==
  ASSUME NEW L \in Nat, NEW S, S \subseteq 1 .. L, S # {}
  PROVE  \E n : Greatest(S, n)
<1> DEFINE T == {L - k : k \in S}
<1>1. T \subseteq Nat /\ T # {}
  <2>1. \A k \in S : k \in 1 .. L /\ L - k \in Nat
    OBVIOUS
  <2>2. QED
    BY <2>1
<1>2. PICK x \in T : \A y \in T : x <= y
  <2> HIDE DEF T
  <2> QED
    BY <1>1, LeastOf
<1>3. PICK n \in S : x = L - n
  BY <1>2
<1>4. \A k \in S : k <= n
  <2>1. TAKE k \in S
  <2>2. L - k \in T
    OBVIOUS
  <2>3. L - n <= L - k
    BY <1>2, <1>3, <2>2
  <2>4. k \in Nat /\ n \in Nat
    OBVIOUS
  <2>5. QED
    BY <2>3, <2>4
<1>5. QED
  BY <1>4 DEF Greatest

LEMMA LastIs ==
  ASSUME NEW S, S \subseteq Nat, NEW n, Greatest(S, n)
  PROVE  (CHOOSE k \in S : \A m \in S : m <= k) = n
<1>1. n \in S /\ \A k \in S : (\A m \in S : m <= k) => k = n
  BY DEF Greatest
<1>2. QED
  BY <1>1 DEF Greatest

(* Behind the loop over the tags, all of them were read.                   *)
LEMMA AllRead ==
  ASSUME TagsRead, Place[at] > 7
  PROVE  /\ MapsRead = MemoryMaps /\ ModulesRead = OurModules
         /\ MemoryMaps \subseteq 1 .. Len(machine.tags) /\ OurModules \subseteq 1 .. Len(machine.tags)
         /\ Len(machine.tags) \in Nat
<1>1. tag = Len(machine.tags) + 1 /\ Len(machine.tags) \in Nat /\ DOMAIN machine.tags = 1 .. Len(machine.tags)
  BY MachineType DEF TagsRead
<1>2. \A n \in 1 .. Len(machine.tags) : n < tag
  BY <1>1
<1>3. QED
  BY <1>1, <1>2 DEF MapsRead, ModulesRead, MemoryMaps, OurModules

LEMMA SetUpAtEnd ==
  ASSUME SetUp, Place[at] = 12
  PROVE  /\ enabled = TRUE /\ enabled
         /\ machine.compliant
         /\ ready = {"idt", "PIC", "gdt", "init_task", "tss"}
<1>1. 12 > 6 /\ 12 > 2 /\ 12 > 4 /\ 12 > 5 /\ 12 > 8 /\ 12 > 9
  OBVIOUS
<1>2. at # "magic" /\ at # "init_interrupts"
  BY PlaceOf
<1>3. machine.compliant
  BY <1>2, Zenon DEF SetUp
<1>4. enabled = TRUE /\ enabled
  BY <1>1, Zenon DEF SetUp
<1>5. /\ "idt" \in ready /\ "PIC" \in ready /\ "gdt" \in ready
      /\ "init_task" \in ready /\ "tss" \in ready
      /\ ready \subseteq {"idt", "PIC", "gdt", "init_task", "tss"}
  BY <1>1, Zenon DEF SetUp
<1>6. ready = {"idt", "PIC", "gdt", "init_task", "tss"}
  BY <1>5
<1>7. QED
  BY <1>3, <1>4, <1>6

LEMMA OnlyCpu ==
  ASSUME BootInv, UNCHANGED <<vars, machine, at, tag, enabled, ready, callbacks, rd, address>>,
         at \notin {"magic", "init_interrupts"}, cpu' # "user"
  PROVE  BootInv'
<1>1. MapsRead' = MapsRead /\ ModulesRead' = ModulesRead
  BY SameTags
<1>2. SetUp' /\ Callbacks' /\ Table'
  BY <1>1, SetUpKept, CallbacksKept, TableKept DEF BootInv
<1>3. TagsRead'
  BY <1>1 DEF BootInv, TagsRead, Greatest, vars, Tag
<1>4. Search'
  <2>1. Found' = Found /\ Frames(Found)' = Frames(Found) /\ (Reaches(Found))' = Reaches(Found)
        /\ {f \in Entries : LastByteFree(MemoryMap, f)}' = {f \in Entries : LastByteFree(MemoryMap, f)}
    BY DEF Found, Frames, Reaches, LastByteFree, MemoryMap, MemoryMaps, In
  <2>2. \A n : AtFile(n)' <=> AtFile(n)
    BY DEF AtFile
  <2>3. QED
    BY <1>1, <2>1, <2>2 DEF BootInv, Search
<1>5. QED
  BY <1>2, <1>3, <1>4 DEF BootInv

LEMMA LoadStep ==
  ASSUME BootInv, Load
  PROVE  BootInv'
<1>1. /\ at = "load" /\ cpu = "runs"
      /\ UNCHANGED <<map, pass, i, machine, tag, enabled, ready, callbacks, rd, address>>
      /\ \/ at' = at /\ bitmap' = bitmap /\ cpu' \in {"dead", "lost"}
         \/ /\ callbacks[14] # "none" /\ ~ (Cardinality(FreeFrames) < Frames(Found)) /\ Reaches(Found)
            /\ bitmap' = [j \in Cells |-> bitmap[j] \/ j \in Lowest(Frames(Found))]
            /\ at' = "iret" /\ cpu' \in {"runs", "hlt"}
  BY DEF Load, Calls, Faults, Panic
<1>2. CASE at' = at /\ bitmap' = bitmap /\ cpu' \in {"dead", "lost"}
  BY <1>1, <1>2, OnlyCpu DEF vars
<1>3. CASE /\ callbacks[14] # "none" /\ ~ (Cardinality(FreeFrames) < Frames(Found)) /\ Reaches(Found)
           /\ bitmap' = [j \in Cells |-> bitmap[j] \/ j \in Lowest(Frames(Found))]
           /\ at' = "iret" /\ cpu' \in {"runs", "hlt"}
  <2>1. Place[at] = 12 /\ Place[at'] = 12 /\ at \in DOMAIN Place /\ at' \in DOMAIN Place
    BY <1>1, <1>3, PlaceOf
  <2>2. MapsRead' = MapsRead /\ ModulesRead' = ModulesRead
    BY <1>1, SameTags
  <2>3. SetUp' /\ Callbacks'
    BY <1>1, <1>3, <2>1, <2>2, CallbacksKept DEF BootInv, SetUp
  <2>4. TagsRead'
    BY <1>1, <1>3, <2>1, <2>2 DEF BootInv, TagsRead, Greatest
  <2>5. Table'
    <3>1. bitmap' \in [Cells -> BOOLEAN]
      BY <1>3, Zenon
    <3>2. pass = "none" /\ TableType
      BY <1>1 DEF BootInv, Table, TableInv
    <3>3. TableInv'
      BY <1>1, <3>1, <3>2 DEF TableInv, TableType, ReadSoFar
    <3>4. QED
      BY <1>1, <1>3, <3>2, <3>3 DEF Table
  <2>6. PICK n \in 1 .. Len(rd.files) : AtFile(n) /\ rd.files[n].name = Path /\ rd # NULL
    BY <1>1 DEF BootInv, Search
  <2>7. MapsRead # {}
    BY <1>3 DEF BootInv, Callbacks
  <2>8. Cardinality({f \in Entries : LastByteFree(MemoryMap, f)}) >= Frames(Found)
    <3>1. MapsRead = MemoryMaps /\ MemoryMaps \subseteq 1 .. Len(machine.tags) /\ Len(machine.tags) \in Nat
      BY <2>1, AllRead DEF BootInv
    <3>2. PICK k : Greatest(MemoryMaps, k)
      BY <2>7, <3>1, LastOf
    <3>3. MemoryMap = machine.tags[k].map
      <4>1. MemoryMaps \subseteq Nat
        BY <3>1
      <4>2. (CHOOSE n_1 \in MemoryMaps : \A m \in MemoryMaps : m <= n_1) = k
        BY <3>2, <4>1, LastIs
      <4>3. QED
        BY <4>2 DEF MemoryMap
    <3>4. FreeFrames = {f \in Entries : LastByteFree(MemoryMap, f)}
      BY <1>1, <3>1, <3>2, <3>3 DEF BootInv, Table, FreeFrames
    <3>5. Cardinality(FreeFrames) \in Nat
      <4>1. IsFiniteSet(Entries)
        BY PhysMemAssumption, FS_Interval DEF Entries
      <4>2. FreeFrames \subseteq Entries
        BY DEF FreeFrames
      <4>3. QED
        BY <4>1, <4>2, FS_Subset, FS_CardinalityType
    <3>6. Frames(Found) \in Nat
      <4>1. Found \in Files
        BY <2>6, FoundIs, RamdiskType, FileType DEF BootInv
      <4>2. Found.pages \in Nat
        BY <4>1 DEF Files
      <4>3. QED
        BY <4>2 DEF Frames
    <3>7. QED
      BY <1>3, <3>4, <3>5, <3>6
  <2>9. Found' = Found /\ Frames(Found)' = Frames(Found) /\ (Reaches(Found))' = Reaches(Found)
        /\ {f \in Entries : LastByteFree(MemoryMap, f)}' = {f \in Entries : LastByteFree(MemoryMap, f)}
    BY <1>1 DEF Found, Frames, Reaches, LastByteFree, MemoryMap, MemoryMaps, In
  <2>10. AtFile(n)'
    BY <1>1, <2>6 DEF AtFile
  <2>11. Search'
    BY <1>1, <1>3, <2>2, <2>6, <2>7, <2>8, <2>9, <2>10 DEF Search
  <2>12. QED
    BY <2>3, <2>4, <2>5, <2>11 DEF BootInv
<1>4. QED
  BY <1>1, <1>2, <1>3

LEMMA SwitchToUserspaceStep ==
  ASSUME BootInv, SwitchToUserspace
  PROVE  BootInv'
<1>1. /\ at = "iret" /\ at' = at /\ enabled' = TRUE
      /\ UNCHANGED <<vars, machine, tag, ready, callbacks, rd, address>>
      /\ cpu' = IF Found.kind = "empty ELF" THEN "dead" ELSE "user"
  BY DEF SwitchToUserspace, Calls
<1>2. Place[at] = 12
  BY <1>1, PlaceOf
<1>3. MapsRead' = MapsRead /\ ModulesRead' = ModulesRead
  BY <1>1, SameTags
<1>4. SetUp'
  <2>1. enabled = TRUE
    BY <1>2, SetUpAtEnd DEF BootInv
  <2>2. enabled' = enabled
    BY <1>1, <2>1, Zenon
  <2>3. QED
    BY <1>1, <2>2, SetUpKept DEF BootInv
<1>5. Callbacks' /\ Table'
  BY <1>1, <1>3, CallbacksKept, TableKept DEF BootInv
<1>6. TagsRead'
  BY <1>1, <1>3 DEF BootInv, TagsRead, Greatest
<1>7. Search'
  <2>1. Found' = Found /\ Frames(Found)' = Frames(Found) /\ (Reaches(Found))' = Reaches(Found)
        /\ {f \in Entries : LastByteFree(MemoryMap, f)}' = {f \in Entries : LastByteFree(MemoryMap, f)}
    BY <1>1 DEF Found, Frames, Reaches, LastByteFree, MemoryMap, MemoryMaps, In
  <2>2. \A n : AtFile(n)' <=> AtFile(n)
    BY <1>1 DEF AtFile
  <2>3. QED
    BY <1>1, <1>3, <2>1, <2>2 DEF BootInv, Search
<1>8. QED
  BY <1>4, <1>5, <1>6, <1>7 DEF BootInv

LEMMA InterruptStep ==
  ASSUME BootInv, Interrupt
  PROVE  BootInv'
<1>1. enabled /\ UNCHANGED <<vars, machine, at, tag, enabled, ready, callbacks, rd, address>>
      /\ cpu' \in {"dead", "runs"}
  BY DEF Interrupt
<1>2. at \notin {"magic", "init_interrupts"}
  BY <1>1, PlaceOf DEF BootInv, SetUp
<1>3. QED
  BY <1>1, <1>2, OnlyCpu

LEMMA NextBoot == BootInv /\ [BootNext]_bootVars => BootInv'
<1> SUFFICES ASSUME BootInv, [BootNext]_bootVars PROVE BootInv'
  OBVIOUS
<1>1. CASE CheckMagic
  BY <1>1, CheckMagicStep
<1>2. CASE init_interrupts
  BY <1>2, Init_interruptsStep
<1>3. CASE keyboard_init
  BY <1>3, Keyboard_initStep
<1>4. CASE PIC_init
  BY <1>4, PIC_initStep
<1>5. CASE init_gdt
  BY <1>5, Init_gdtStep
<1>6. CASE enable_interrupts
  BY <1>6, Enable_interruptsStep
<1>7. CASE EndOfTags
  BY <1>7, EndOfTagsStep
<1>8. CASE SkipTag
  BY <1>8, SkipTagStep
<1>9. CASE init_rd
  BY <1>9, Init_rdStep
<1>10. CASE CallInitPhysMM
  BY <1>10, CallInitPhysMMStep
<1>11. CASE InPhysMM
  BY <1>11, InPhysMMStep
<1>12. CASE init_mm
  BY <1>12, Init_mmStep
<1>13. CASE prepare_init_task
  BY <1>13, Prepare_init_taskStep
<1>14. CASE install_tss
  BY <1>14, Install_tssStep
<1>15. CASE SetTimer
  BY <1>15, SetTimerStep
<1>16. CASE Execve
  BY <1>16, StartsLooking
<1>17. CASE FindFile
  BY <1>17, FindFileStep
<1>18. CASE FindFileAtNull
  BY <1>18, FindFileAtNullStep
<1>19. CASE Load
  BY <1>19, LoadStep
<1>20. CASE SwitchToUserspace
  BY <1>20, SwitchToUserspaceStep
<1>21. CASE Interrupt
  BY <1>21, InterruptStep
<1>22. CASE UNCHANGED bootVars
  <2>1. UNCHANGED <<vars, machine, at, tag, cpu, enabled, ready, callbacks, rd, address>>
    BY <1>22 DEF bootVars, kernel
  <2>2. MapsRead' = MapsRead /\ ModulesRead' = ModulesRead
    BY <2>1, SameTags
  <2>3. SetUp' /\ Callbacks' /\ Table'
    BY <2>1, <2>2, CallbacksKept, TableKept DEF BootInv, SetUp
  <2>4. TagsRead'
    BY <2>1, <2>2 DEF BootInv, TagsRead, Greatest, vars, Tag
  <2>5. Search'
    <3>1. Found' = Found /\ Frames(Found)' = Frames(Found) /\ (Reaches(Found))' = Reaches(Found)
          /\ {f \in Entries : LastByteFree(MemoryMap, f)}' = {f \in Entries : LastByteFree(MemoryMap, f)}
      BY <2>1 DEF Found, Frames, Reaches, LastByteFree, MemoryMap, MemoryMaps, In
    <3>2. \A n : AtFile(n)' <=> AtFile(n)
      BY <2>1 DEF AtFile
    <3>3. QED
      BY <2>1, <2>2, <3>1, <3>2 DEF BootInv, Search
  <2>6. QED
    BY <2>3, <2>4, <2>5 DEF BootInv
<1>23. QED
  BY <1>1, <1>2, <1>3, <1>4, <1>5, <1>6, <1>7, <1>8, <1>9, <1>10, <1>11, <1>12, <1>13, <1>14,
     <1>15, <1>16, <1>17, <1>18, <1>19, <1>20, <1>21, <1>22 DEF BootNext, Kernel, Stopped

LEMMA BootInvariant == BootSpec => []BootInv
BY InitBoot, NextBoot, PTL DEF BootSpec
-----------------------------------------------------------------------------
(* In the boot of the kernel, too, the table of frames is what the memory  *)
(* map makes of it when the loops of init_phys_mm() end.                   *)
THEOREM BootFramesEndInMemory == BootSpec => []LastByteDecides
<1>1. BootInv => LastByteDecides
  BY TableDecides DEF BootInv, Table
<1>2. QED
  BY <1>1, BootInvariant, PTL

(* find_file() finds the first file of its name, and misses none: for      *)
(* every archive that fits in the addresses, whatever the data looks like. *)
THEOREM FileIsFound == BootSpec => []FindsFile
<1>1. BootInv => FindsFile
  <2> SUFFICES ASSUME BootInv, rd # NULL PROVE /\ at = "load" =>
                                                    /\ Named(rd.files) # {}
                                                    /\ address = rd.start + BlocksBefore(rd.files, FirstNamed(rd.files)) * BLOCK
                                               /\ at = "while" => Named(rd.files) = {}
    BY DEF FindsFile
  <2>1. at = "while" => Named(rd.files) = {}
    BY DEF BootInv, Search
  <2>2. ASSUME at = "load"
        PROVE  /\ Named(rd.files) # {}
               /\ address = rd.start + BlocksBefore(rd.files, FirstNamed(rd.files)) * BLOCK
    <3>1. PICK n \in 1 .. Len(rd.files) : AtFile(n) /\ rd.files[n].name = Path
      BY <2>2 DEF BootInv, Search
    <3>2. Named(rd.files) # {} /\ FirstNamed(rd.files) = n
      BY <3>1, FirstIs DEF BootInv
    <3>3. address = rd.start + BlocksBefore(rd.files, n) * BLOCK
      BY <3>1 DEF AtFile, HeaderAt
    <3>4. QED
      BY <3>2, <3>3
  <2>3. QED
    BY <2>1, <2>2
<1>2. QED
  BY <1>1, BootInvariant, PTL

(* User mode is entered only on a machine that has everything that         *)
(* bin/init needs, with every part of the kernel set up, whatever          *)
(* interrupts came on the way and whatever panics were passed.             *)
THEOREM UserModeIsEnteredReady == BootSpec => []UserModeIsReady
<1>1. BootInv => UserModeIsReady
  <2> SUFFICES ASSUME BootInv, cpu = "user"
               PROVE  /\ Complete /\ enabled
                      /\ ready = {"idt", "PIC", "gdt", "init_task", "tss"}
                      /\ callbacks = [n \in Interrupts |->
                                        CASE n = 14 -> "page_fault"
                                          [] n = 32 -> "sched"
                                          [] n = 33 -> "handle_keyboard_input"
                                          [] OTHER  -> "none"]
    BY DEF UserModeIsReady
  <2>1. at = "iret" /\ Found.kind # "empty ELF"
    BY DEF BootInv, Search
  <2>2. Place[at] = 12
    BY <2>1, PlaceOf
  <2>3. enabled /\ ready = {"idt", "PIC", "gdt", "init_task", "tss"} /\ machine.compliant
    BY <2>2, SetUpAtEnd DEF BootInv
  <2>4. PICK n \in 1 .. Len(rd.files) : AtFile(n) /\ rd.files[n].name = Path /\ rd # NULL
    BY <2>1 DEF BootInv, Search
  <2>5. Found = rd.files[n] /\ Named(rd.files) # {} /\ FirstNamed(rd.files) = n
    BY <2>4, FoundIs, FirstIs DEF BootInv
  <2>6. /\ MapsRead = MemoryMaps /\ ModulesRead = OurModules /\ OurModules \subseteq Nat
        /\ MapsRead # {}
    <3>1. OurModules \subseteq 1 .. Len(machine.tags) /\ MapsRead = MemoryMaps /\ ModulesRead = OurModules
      BY <2>2, AllRead DEF BootInv
    <3>2. MapsRead # {}
      BY <2>1 DEF BootInv, Search
    <3>3. QED
      BY <3>1, <3>2
  <2>7. OurModules # {} /\ Ramdisk = rd
    <3>1. PICK k : Greatest(OurModules, k) /\ rd = machine.tags[k]
      BY <2>4, <2>6 DEF BootInv, TagsRead
    <3>2. (CHOOSE n_1 \in OurModules : \A m \in OurModules : m <= n_1) = k
      BY <2>6, <3>1, LastIs
    <3>3. QED
      BY <3>1, <3>2 DEF Ramdisk, Greatest
  <2>8. /\ Cardinality({f \in Entries : LastByteFree(MemoryMap, f)}) >= Frames(rd.files[n])
        /\ BlocksBefore(rd.files, n) + 1 + DataBlocks(rd.files[n]) <= rd.mapped
    <3>1. Reaches(rd.files[n]) /\ Cardinality({f \in Entries : LastByteFree(MemoryMap, f)}) >= Frames(rd.files[n])
      BY <2>1, <2>5 DEF BootInv, Search
    <3>2. n \in 1 .. Len(rd.files) + 1
      BY RamdiskType, <2>4 DEF BootInv
    <3>3. (address - rd.start) \div BLOCK = BlocksBefore(rd.files, n)
      BY <2>4, <3>2, AtHeader DEF BootInv
    <3>4. QED
      BY <3>1, <3>3 DEF Reaches
  <2>9. Complete
    BY <2>1, <2>3, <2>5, <2>6, <2>7, <2>8 DEF Complete
  <2>10. callbacks = [k \in Interrupts |->
                        CASE k = 14 -> "page_fault"
                          [] k = 32 -> "sched"
                          [] k = 33 -> "handle_keyboard_input"
                          [] OTHER  -> "none"]
    BY <2>2, <2>6 DEF BootInv, Callbacks, Interrupts
  <2>11. QED
    BY <2>3, <2>9, <2>10
<1>2. QED
  BY <1>1, BootInvariant, PTL
-----------------------------------------------------------------------------
(* The inductive invariant.  InServiceIsOnStack speaks of all the stacks:  *)
(* it holds because a stack has one of few shapes.  A fault comes only     *)
(* from user mode, so it lies at the bottom; the key comes on top of it,   *)
(* once, as long as none is in service; and the timer, which nothing       *)
(* interrupts, ends in a switch that leaves "sched" in its place.          *)

(* What the timer can interrupt: user mode or handlers before their cli.   *)
Bare == {<<>>, <<"fault">>, <<"key">>, <<"fault", "key">>}

HasKey(s) == \E n \in 1 .. 3 : n <= Len(s) /\ s[n] = "key"

TimerRuns == \E e \in Bare : stack[current] = Append(e, "timer")

(* The CPU's stack, and those of processes that sched() switched away from. *)
StacksInShape ==
  /\ stack[current] \in Bare \/ TimerRuns
  /\ \A t \in Task \ {current} : \E e \in Bare : stack[t] = Append(e, "sched")

(* The controller's registers are those of the stacks. *)
InServiceInPlace ==
  /\ "timer" \in isr <=> TimerRuns
  /\ "key" \in isr <=> \E t \in Task : HasKey(stack[t])
  /\ \A t, u \in Task : HasKey(stack[t]) /\ HasKey(stack[u]) => t = u

IInv ==
  /\ TypeOK
  /\ StacksInShape
  /\ InServiceInPlace
-----------------------------------------------------------------------------
(* Stacks.                                                                 *)

(* The entry of a handler and its iret: what is pushed is popped.          *)
LEMMA PushPop ==
  ASSUME NEW s \in Seq(Frame), NEW f \in Frame
  PROVE  /\ Append(s, f) \in Seq(Frame)
         /\ Len(Append(s, f)) = Len(s) + 1
         /\ \A n \in 1 .. Len(s) : Append(s, f)[n] = s[n]
         /\ Append(s, f)[Len(s) + 1] = f
         /\ Last(Append(s, f)) = f
         /\ Front(Append(s, f)) = s
<1>1. /\ Append(s, f) \in Seq(Frame)
      /\ Len(Append(s, f)) = Len(s) + 1
      /\ \A n \in 1 .. Len(s) : Append(s, f)[n] = s[n]
      /\ Append(s, f)[Len(s) + 1] = f
  BY AppendProperties
<1>2. Len(s) \in Nat
  BY LenProperties
<1>3. Last(Append(s, f)) = f
  BY <1>1, <1>2 DEF Last
<1>4. Front(Append(s, f)) = s
  <2>1. Front(Append(s, f)) = SubSeq(Append(s, f), 1, Len(s))
    BY <1>1, <1>2 DEF Front
  <2>2. /\ SubSeq(Append(s, f), 1, Len(s)) \in Seq(Frame)
        /\ Len(SubSeq(Append(s, f), 1, Len(s))) = Len(s)
        /\ \A n \in 1 .. Len(s) : SubSeq(Append(s, f), 1, Len(s))[n] = Append(s, f)[n]
    BY <1>1, <1>2, SubSeqProperties
  <2>3. QED
    BY <1>1, <2>1, <2>2, SeqEqual
<1>5. QED
  BY <1>1, <1>3, <1>4

(* The shapes of a stack that the timer can interrupt.                     *)
LEMMA BareStacks ==
  /\ Bare \subseteq Seq(Frame)
  /\ \A e \in Bare : /\ Len(e) \in 0 .. 2
                     /\ \A n \in 1 .. Len(e) : e[n] \in {"fault", "key"}
                     /\ \A n, k \in 1 .. Len(e) : e[n] = "key" /\ e[k] = "key" => n = k
                     /\ HasKey(e) <=> e \in {<<"key">>, <<"fault", "key">>}
                     /\ e # <<>> => Last(e) \in {"fault", "key"}
                     /\ e # <<>> /\ Last(e) = "key" <=> HasKey(e)
                     /\ e # <<>> /\ Last(e) = "fault" <=> e = <<"fault">>
BY DEF Bare, Frame, Entry, IRQ, HasKey, Last

LEMMA PushOnBare ==
  /\ Append(<<>>, "fault") = <<"fault">>
  /\ Append(<<>>, "key") = <<"key">>
  /\ Append(<<"fault">>, "key") = <<"fault", "key">>
<1>1. /\ {<<>>, <<"fault">>, <<"key">>, <<"fault", "key">>} \subseteq Seq(Frame)
      /\ Len(<<>>) = 0 /\ Len(<<"fault">>) = 1 /\ Len(<<"key">>) = 1
      /\ Len(<<"fault", "key">>) = 2
  BY BareStacks DEF Bare
<1>2. {"fault", "key"} \subseteq Frame
  BY DEF Frame, Entry, IRQ
<1>3. \A f \in {"fault", "key"} : Append(<<>>, f) = <<f>>
  <2>1. TAKE f \in {"fault", "key"}
  <2>2. <<f>> \in Seq(Frame) /\ Len(<<f>>) = 1 /\ <<f>>[1] = f
    BY <1>2
  <2>3. Append(<<>>, f) \in Seq(Frame) /\ Len(Append(<<>>, f)) = 1 /\ Append(<<>>, f)[1] = f
    BY <1>1, <1>2, PushPop
  <2>4. QED
    BY <2>2, <2>3, SeqEqual
<1>4. Append(<<"fault">>, "key") = <<"fault", "key">>
  <2> DEFINE s == Append(<<"fault">>, "key")
             u == <<"fault", "key">>
  <2>1. s \in Seq(Frame) /\ Len(s) = 2 /\ s[1] = "fault" /\ s[2] = "key"
    BY <1>1, <1>2, PushPop
  <2>2. u \in Seq(Frame) /\ Len(u) = 2 /\ u[1] = "fault" /\ u[2] = "key"
    BY <1>1
  <2> HIDE DEF s, u
  <2>3. s = u
    BY <2>1, <2>2, SeqEqual
  <2>4. QED
    BY <2>3 DEF s, u
<1>5. QED
  BY <1>3, <1>4

LEMMA PopOfBare ==
  /\ Front(<<"fault">>) = <<>>
  /\ Front(<<"key">>) = <<>>
  /\ Front(<<"fault", "key">>) = <<"fault">>
<1>1. <<>> \in Seq(Frame) /\ <<"fault">> \in Seq(Frame) /\ {"fault", "key"} \subseteq Frame
  BY BareStacks DEF Bare, Frame, Entry, IRQ
<1>2. /\ Front(Append(<<>>, "fault")) = <<>>
      /\ Front(Append(<<>>, "key")) = <<>>
      /\ Front(Append(<<"fault">>, "key")) = <<"fault">>
  BY <1>1, PushPop
<1>3. QED
  BY <1>2, PushOnBare

(* The timer on top of a stack hides nothing below.                        *)
LEMMA CoveredBare ==
  ASSUME NEW e \in Bare, NEW f \in {"timer", "sched"}
  PROVE  /\ Append(e, f) \in Seq(Frame)
         /\ Append(e, f) # <<>> /\ Append(e, f) \notin Bare
         /\ Last(Append(e, f)) = f
         /\ Front(Append(e, f)) = e
         /\ HasKey(Append(e, f)) <=> HasKey(e)
<1>1. f \in Frame /\ e \in Seq(Frame) /\ Len(e) \in 0 .. 2
  BY BareStacks DEF Frame, Entry, IRQ
<1>2. /\ Append(e, f) \in Seq(Frame)
      /\ Len(Append(e, f)) = Len(e) + 1
      /\ \A n \in 1 .. Len(e) : Append(e, f)[n] = e[n]
      /\ Append(e, f)[Len(e) + 1] = f
      /\ Last(Append(e, f)) = f /\ Front(Append(e, f)) = e
  BY <1>1, PushPop
<1>3. Append(e, f) # <<>>
  BY <1>1, <1>2
<1>4. Append(e, f) \notin Bare
  BY <1>2, <1>3, BareStacks
<1>5. HasKey(Append(e, f)) <=> HasKey(e)
  BY <1>1, <1>2 DEF HasKey
<1>6. QED
  BY <1>2, <1>3, <1>4, <1>5
-----------------------------------------------------------------------------
(* The steps.                                                              *)

LEMMA InitIInv == TrapInit => IInv
<1> SUFFICES ASSUME TrapInit PROVE IInv
  OBVIOUS
<1>1. 0 \in Task
  BY TrapAssumption DEF Task
<1>2. <<"sched">> = Append(<<>>, "sched") /\ <<"sched">> \in Seq(Frame)
  <2> DEFINE s == Append(<<>>, "sched")
             u == <<"sched">>
  <2>1. s \in Seq(Frame) /\ Len(s) = 1 /\ s[1] = "sched"
    BY PushPop, BareStacks DEF Bare, Frame
  <2>2. u \in Seq(Frame) /\ Len(u) = 1 /\ u[1] = "sched"
    BY DEF Frame
  <2> HIDE DEF s, u
  <2>3. s = u
    BY <2>1, <2>2, SeqEqual
  <2>4. QED
    BY <2>2, <2>3 DEF s, u
<1>3. TypeOK
  <2>1. stack \in [Task -> Seq(Frame)]
    BY <1>2, BareStacks DEF TrapInit, Bare
  <2>2. QED
    BY <1>1, <2>1 DEF TrapInit, TypeOK
<1>4. StacksInShape
  BY <1>1, <1>2 DEF TrapInit, StacksInShape, Bare
<1>5. InServiceInPlace
  <2>1. ~ TimerRuns
    BY <1>1, CoveredBare DEF TrapInit, TimerRuns
  <2>2. \A t \in Task : ~ HasKey(stack[t])
    <3>1. ~ HasKey(<<>>) /\ ~ HasKey(<<"sched">>)
      BY DEF HasKey
    <3>2. QED
      BY <3>1 DEF TrapInit
  <2>3. QED
    BY <2>1, <2>2 DEF TrapInit, InServiceInPlace
<1>6. QED
  BY <1>3, <1>4, <1>5 DEF IInv

(* A process in user mode or at the entry of a handler other than the      *)
(* timer's has a bare stack, and the timer is not in service.              *)
LEMMA TimerOnTop ==
  ASSUME IInv
  PROVE  /\ current \in Task
         /\ TimerRuns <=> (stack[current] # <<>> /\ Last(stack[current]) = "timer")
         /\ ~ TimerRuns => stack[current] \in Bare /\ isr \subseteq {"key"}
<1>1. current \in Task /\ isr \subseteq IRQ
  BY DEF IInv, TypeOK
<1>2. stack[current] \in Bare => ~ (stack[current] # <<>> /\ Last(stack[current]) = "timer")
  BY BareStacks
<1>3. TimerRuns => stack[current] # <<>> /\ Last(stack[current]) = "timer"
  BY CoveredBare DEF TimerRuns
<1>4. stack[current] \in Bare \/ TimerRuns
  BY DEF IInv, StacksInShape
<1>5. "timer" \in isr <=> TimerRuns
  BY DEF IInv, InServiceInPlace
<1>6. QED
  BY <1>1, <1>2, <1>3, <1>4, <1>5 DEF IRQ

(* The CPU's stack becomes another bare one, and only that changes.        *)
LEMMA BareStep ==
  ASSUME IInv, ~ TimerRuns, UNCHANGED current, TypeOK',
         NEW e \in Bare, stack' = [stack EXCEPT ![current] = e],
         isr' = IF HasKey(e) THEN {"key"}
                ELSE IF HasKey(stack[current]) THEN {} ELSE isr,
         HasKey(e) /\ ~ HasKey(stack[current]) => isr = {}
  PROVE  IInv'
<1>1. current \in Task /\ isr \subseteq {"key"}
  BY TimerOnTop
<1>2. stack'[current] = e /\ \A t \in Task : t # current => stack'[t] = stack[t]
  BY <1>1 DEF IInv, TypeOK
<1>3. ~ TimerRuns'
  BY <1>2, CoveredBare DEF TimerRuns
<1>4. StacksInShape'
  BY <1>2 DEF IInv, StacksInShape
<1>5. InServiceInPlace'
  <2>1. \A t, u \in Task : HasKey(stack[t]) /\ HasKey(stack[u]) => t = u
    BY DEF IInv, InServiceInPlace
  <2>2. \A t \in Task : HasKey(stack'[t]) <=> IF t = current THEN HasKey(e) ELSE HasKey(stack[t])
    BY <1>2
  <2>3. "key" \in isr <=> \E t \in Task : HasKey(stack[t])
    BY DEF IInv, InServiceInPlace
  <2>4. "timer" \notin isr'
    BY <1>1
  <2>5. \A t, u \in Task : HasKey(stack'[t]) /\ HasKey(stack'[u]) => t = u
    BY <1>1, <2>1, <2>2, <2>3
  <2>6. "key" \in isr' <=> \E t \in Task : HasKey(stack'[t])
    BY <1>1, <2>1, <2>2, <2>3
  <2>7. QED
    BY <1>3, <2>4, <2>5, <2>6 DEF InServiceInPlace, HasKey
<1>6. QED
  BY <1>4, <1>5 DEF IInv

(* Interrupts: the timer comes on top of any bare stack, the key only when *)
(* nothing is in service.                                                  *)
LEMMA AcceptIInv ==
  ASSUME IInv, NEW irq \in IRQ, Accept(irq)
  PROVE  IInv'
<1> DEFINE s == stack[current]
<1>1. current \in Task
  BY DEF IInv, TypeOK
<1>2. /\ ~ panic
      /\ isr \subseteq (IF irq = "timer" THEN {"key"} ELSE {})
      /\ isr' = isr \cup {irq} /\ irr' = irr \ {irq}
      /\ stack' = [stack EXCEPT ![current] = Append(s, irq)]
      /\ UNCHANGED <<current, touches, pages, cr2, key, panic>>
  BY DEF Accept, Passes, InUser, AtEntry, Push
<1>3. ~ TimerRuns /\ s \in Bare
  BY <1>2, TimerOnTop DEF IInv, InServiceInPlace
<1>4. Append(s, irq) \in Seq(Frame)
  BY <1>3, BareStacks, PushPop DEF Frame, Entry
<1>5. TypeOK'
  BY <1>1, <1>2, <1>4 DEF IInv, TypeOK
<1>6. CASE irq = "timer"
  <2>1. stack'[current] = Append(s, "timer") /\ \A t \in Task : t # current => stack'[t] = stack[t]
    BY <1>1, <1>2, <1>6 DEF IInv, TypeOK
  <2>2. TimerRuns'
    BY <1>2, <1>3, <2>1 DEF TimerRuns
  <2>3. StacksInShape'
    BY <1>2, <2>1, <2>2 DEF IInv, StacksInShape
  <2>4. \A t \in Task : HasKey(stack'[t]) <=> HasKey(stack[t])
    BY <1>3, <2>1, CoveredBare
  <2>5. InServiceInPlace'
    <3>1. \A t, u \in Task : HasKey(stack'[t]) /\ HasKey(stack'[u]) => t = u
      BY <2>4 DEF IInv, InServiceInPlace
    <3>2. "key" \in isr' <=> \E t \in Task : HasKey(stack'[t])
      BY <1>2, <1>6, <2>4 DEF IInv, InServiceInPlace
    <3>3. QED
      BY <1>2, <1>6, <2>2, <3>1, <3>2 DEF InServiceInPlace, HasKey
  <2>6. QED
    BY <1>5, <2>3, <2>5 DEF IInv
<1>7. CASE irq = "key"
  <2>1. isr = {} /\ isr' = {"key"}
    BY <1>2, <1>7
  <2>2. ~ HasKey(s)
    BY <1>1, <2>1 DEF IInv, InServiceInPlace
  <2>3. s \in {<<>>, <<"fault">>}
    BY <1>3, <2>2, BareStacks DEF Bare
  <2>4. Append(s, "key") \in Bare /\ HasKey(Append(s, "key"))
    BY <2>3, PushOnBare, BareStacks DEF Bare
  <2>5. QED
    BY <1>2, <1>3, <1>5, <1>7, <2>1, <2>4, BareStep
<1>8. QED
  BY <1>6, <1>7 DEF IRQ

(* A fault comes from user mode only: handlers touch no page that is not   *)
(* present.                                                                *)
LEMMA ExecuteIInv == IInv /\ Execute => IInv'
<1> SUFFICES ASSUME IInv, Execute PROVE IInv'
  OBVIOUS
<1>1. /\ stack[current] = <<>> /\ ~ panic /\ current \in Task
      /\ touches[current] \in Page
      /\ UNCHANGED <<current, pages, irr, isr, key, panic>>
  BY DEF Execute, InUser, IInv, TypeOK
<1>2. CASE touches[current] \in pages[current]
  <2>1. touches' = [touches EXCEPT ![current] = Nowhere] /\ UNCHANGED <<stack, cr2>>
    BY <1>2 DEF Execute
  <2>2. TypeOK'
    BY <1>1, <2>1 DEF IInv, TypeOK
  <2>3. StacksInShape' /\ InServiceInPlace'
    BY <1>1, <2>1 DEF IInv, StacksInShape, InServiceInPlace, TimerRuns, HasKey
  <2>4. QED
    BY <2>2, <2>3 DEF IInv
<1>3. CASE touches[current] \notin pages[current]
  <2>1. /\ cr2' = touches[current] /\ UNCHANGED touches
        /\ stack' = [stack EXCEPT ![current] = <<"fault">>]
    BY <1>1, <1>3, PushOnBare DEF Execute, Push
  <2>2. <<>> \in Bare /\ <<"fault">> \in Bare /\ ~ HasKey(<<>>) /\ ~ HasKey(<<"fault">>)
    BY BareStacks DEF Bare
  <2>3. ~ TimerRuns
    BY <1>1, TimerOnTop
  <2>4. <<"fault">> \in Seq(Frame)
    BY <2>2, BareStacks
  <2>5. TypeOK'
    BY <1>1, <2>1, <2>4 DEF IInv, TypeOK
  <2>6. QED
    BY <1>1, <2>1, <2>2, <2>3, <2>5, BareStep
<1>4. QED
  BY <1>2, <1>3

(* The end of the timer's interrupt and the switch: one process leaves     *)
(* "sched" behind, another takes its own away.                             *)
LEMMA HandleTimerIInv == IInv /\ HandleTimer => IInv'
<1> SUFFICES ASSUME IInv, HandleTimer PROVE IInv'
  OBVIOUS
<1>1. TimerRuns /\ current \in Task
  BY TimerOnTop DEF HandleTimer, AtEntry, Top
<1>2. PICK e \in Bare : stack[current] = Append(e, "timer")
  BY <1>1 DEF TimerRuns
<1>3. PICK next \in Task : next = NextTask
  <2>1. NextTask \in Task
    BY <1>1, TrapAssumption DEF NextTask, Task
  <2>2. QED
    BY <2>1
<1> DEFINE left == [stack EXCEPT ![current] = Append(e, "sched")]
<1>4. /\ isr' = EOI(isr) /\ current' = next
      /\ stack' = [left EXCEPT ![next] = Front(left[next])]
      /\ UNCHANGED <<touches, pages, cr2, irr, key, panic>>
  BY <1>2, <1>3, CoveredBare DEF HandleTimer
<1>5. \A t \in Task : \E b \in Bare : /\ left[t] = Append(b, "sched")
                                      /\ HasKey(b) <=> HasKey(stack[t])
  <2>1. TAKE t \in Task
  <2>2. CASE t = current
    BY <1>1, <1>2, <2>2, CoveredBare DEF IInv, TypeOK
  <2>3. CASE t # current
    <3>1. PICK b \in Bare : stack[t] = Append(b, "sched")
      BY <2>3 DEF IInv, StacksInShape
    <3>2. HasKey(b) <=> HasKey(stack[t])
      BY <3>1, CoveredBare
    <3>3. left[t] = stack[t]
      BY <2>3 DEF IInv, TypeOK
    <3>4. QED
      BY <3>1, <3>2, <3>3
  <2>4. QED
    BY <2>2, <2>3
<1>6. PICK b \in Bare : left[next] = Append(b, "sched") /\ (HasKey(b) <=> HasKey(stack[next]))
  BY <1>5
<1>7. /\ stack'[next] = b
      /\ \A t \in Task : t # next => stack'[t] = left[t]
  BY <1>4, <1>6, CoveredBare DEF IInv, TypeOK
<1>8. isr' = isr \ {"timer"} /\ "timer" \notin isr'
  BY <1>1, <1>4 DEF EOI, IInv, InServiceInPlace
<1>9. TypeOK'
  <2>1. \A t \in Task : left[t] \in Seq(Frame)
    <3>1. TAKE t \in Task
    <3>2. PICK c \in Bare : left[t] = Append(c, "sched")
      BY <1>5
    <3>3. QED
      BY <3>2, CoveredBare
  <2>2. b \in Seq(Frame)
    BY BareStacks
  <2>3. stack' \in [Task -> Seq(Frame)]
    <3>1. stack' = [t \in Task |-> IF t = next THEN b ELSE left[t]]
      BY <1>4, <1>7 DEF IInv, TypeOK
    <3> HIDE DEF left
    <3>2. QED
      BY <2>1, <2>2, <3>1
  <2>4. QED
    BY <1>4, <1>8, <2>3 DEF IInv, TypeOK
<1>10. StacksInShape' /\ ~ TimerRuns'
  <2>1. stack'[current'] = b /\ \A t \in Task \ {current'} : stack'[t] = left[t]
    BY <1>4, <1>7
  <2>2. ~ TimerRuns'
    BY <2>1, CoveredBare DEF TimerRuns
  <2>3. QED
    BY <1>5, <2>1, <2>2 DEF StacksInShape
<1>11. \A t \in Task : HasKey(stack'[t]) <=> HasKey(stack[t])
  <2>1. TAKE t \in Task
  <2>2. CASE t = next
    BY <1>6, <1>7, <2>2
  <2>3. CASE t # next
    <3>1. PICK c \in Bare : left[t] = Append(c, "sched") /\ (HasKey(c) <=> HasKey(stack[t]))
      BY <1>5
    <3>2. HasKey(left[t]) <=> HasKey(stack[t])
      BY <3>1, CoveredBare
    <3>3. stack'[t] = left[t]
      BY <1>7, <2>3
    <3>4. QED
      BY <3>2, <3>3
  <2>4. QED
    BY <2>2, <2>3
<1>12. InServiceInPlace'
  <2>1. \A t, u \in Task : HasKey(stack'[t]) /\ HasKey(stack'[u]) => t = u
    BY <1>11 DEF IInv, InServiceInPlace
  <2>2. "key" \in isr' <=> \E t \in Task : HasKey(stack'[t])
    BY <1>8, <1>11 DEF IInv, InServiceInPlace
  <2>3. QED
    BY <1>8, <1>10, <2>1, <2>2 DEF InServiceInPlace, HasKey
<1>13. QED
  BY <1>9, <1>10, <1>12 DEF IInv

(* The end of the keyboard's interrupt: the timer is not in service, so    *)
(* the EOI is the key's.                                                   *)
LEMMA HandleKeyIInv == IInv /\ HandleKey => IInv'
<1> SUFFICES ASSUME IInv, HandleKey PROVE IInv'
  OBVIOUS
<1>1. /\ isr' = EOI(isr) /\ key' = FALSE
      /\ stack[current] # <<>> /\ Last(stack[current]) = "key"
      /\ stack' = [stack EXCEPT ![current] = Front(stack[current])]
      /\ UNCHANGED <<current, touches, pages, cr2, irr, panic>>
  BY DEF HandleKey, AtEntry, Top, Pop
<1>2. ~ TimerRuns /\ current \in Task /\ stack[current] \in Bare /\ isr \subseteq {"key"}
  BY <1>1, TimerOnTop
<1>3. HasKey(stack[current]) /\ stack[current] \in {<<"key">>, <<"fault", "key">>}
  BY <1>1, <1>2, BareStacks
<1>4. isr' = {}
  BY <1>1, <1>2 DEF EOI
<1>5. /\ Front(stack[current]) \in Bare /\ ~ HasKey(Front(stack[current]))
      /\ Front(stack[current]) \in Seq(Frame)
  <2>1. Front(stack[current]) \in {<<>>, <<"fault">>}
    BY <1>3, PopOfBare
  <2>2. /\ {<<>>, <<"fault">>} \subseteq Bare \cap Seq(Frame)
        /\ ~ HasKey(<<>>) /\ ~ HasKey(<<"fault">>)
    BY BareStacks DEF Bare
  <2>3. QED
    BY <2>1, <2>2
<1>6. TypeOK'
  BY <1>1, <1>2, <1>4, <1>5 DEF IInv, TypeOK
<1>7. QED
  BY <1>1, <1>2, <1>3, <1>4, <1>5, <1>6, BareStep

LEMMA HandleFaultIInv == IInv /\ HandleFault => IInv'
<1> SUFFICES ASSUME IInv, HandleFault PROVE IInv'
  OBVIOUS
<1>1. /\ stack[current] # <<>> /\ Last(stack[current]) = "fault" /\ current \in Task
      /\ UNCHANGED <<current, touches, cr2, irr, isr, key>>
  BY DEF HandleFault, AtEntry, Top, IInv, TypeOK
<1>2. ~ TimerRuns /\ stack[current] = <<"fault">>
  BY <1>1, TimerOnTop, BareStacks
<1>3. CASE cr2 \in Heap(current)
  <2>1. /\ pages' = [pages EXCEPT ![current] = pages[current] \cup Added(cr2)]
        /\ stack' = [stack EXCEPT ![current] = <<>>]
        /\ UNCHANGED panic
    BY <1>2, <1>3, PopOfBare DEF HandleFault, Pop
  <2>2. Added(cr2) \subseteq Page
    BY DEF Added, Above
  <2>3. <<>> \in Bare /\ <<>> \in Seq(Frame) /\ ~ HasKey(<<>>) /\ ~ HasKey(<<"fault">>)
    BY BareStacks DEF Bare
  <2>4. TypeOK'
    BY <1>1, <2>1, <2>2, <2>3 DEF IInv, TypeOK
  <2>5. QED
    BY <1>1, <1>2, <2>1, <2>3, <2>4, BareStep
<1>4. CASE cr2 \notin Heap(current)
  <2>1. panic' = TRUE /\ UNCHANGED <<stack, pages>>
    BY <1>4 DEF HandleFault
  <2>2. TypeOK'
    BY <1>1, <2>1 DEF IInv, TypeOK
  <2>3. StacksInShape' /\ InServiceInPlace'
    BY <1>1, <2>1 DEF IInv, StacksInShape, InServiceInPlace, TimerRuns, HasKey
  <2>4. QED
    BY <2>2, <2>3 DEF IInv
<1>5. QED
  BY <1>3, <1>4

LEMMA NextIInv == IInv /\ [TrapNext]_trapVars => IInv'
<1> SUFFICES ASSUME IInv, [TrapNext]_trapVars PROVE IInv'
  OBVIOUS
<1>1. CASE \E irq \in IRQ : Accept(irq)
  BY <1>1, AcceptIInv
<1>2. CASE Execute
  BY <1>2, ExecuteIInv
<1>3. CASE HandleTimer
  BY <1>3, HandleTimerIInv
<1>4. CASE HandleKey
  BY <1>4, HandleKeyIInv
<1>5. CASE HandleFault
  BY <1>5, HandleFaultIInv
<1>6. CASE Tick \/ PressKey \/ (\E a \in Page : Touch(a)) \/ Halted \/ UNCHANGED trapVars
  <2>1. UNCHANGED <<stack, current, isr>>
    BY <1>6 DEF Tick, PressKey, Touch, Halted, trapVars
  <2>2. TypeOK'
    BY <1>6 DEF Tick, PressKey, Touch, Halted, trapVars, IInv, TypeOK, IRQ
  <2>3. StacksInShape' /\ InServiceInPlace'
    BY <2>1 DEF IInv, StacksInShape, InServiceInPlace, TimerRuns, HasKey
  <2>4. QED
    BY <2>2, <2>3 DEF IInv
<1>7. QED
  BY <1>1, <1>2, <1>3, <1>4, <1>5, <1>6 DEF TrapNext

LEMMA InductiveInvariant == TrapSpec => []IInv
<1>1. QED
  BY InitIInv, NextIInv, PTL DEF TrapSpec
-----------------------------------------------------------------------------
(* For every number of processes, stacks hold nothing but what handlers    *)
(* pushed, and no action leads out of the types.                           *)
THEOREM TypeCorrect == TrapSpec => []TypeOK
<1>1. IInv => TypeOK
  BY DEF IInv
<1>2. QED
  BY <1>1, InductiveInvariant, PTL

(* How high a stack in shape is, and where it holds what.                  *)
LEMMA StackInShape ==
  ASSUME IInv, NEW t \in Task
  PROVE  /\ Len(stack[t]) \in 0 .. 3
         /\ \A n, k \in 1 .. Len(stack[t]) :
              stack[t][n] = "key" /\ stack[t][k] = "key" => n = k
         /\ \A n \in 1 .. Len(stack[t]) : stack[t][n] = "timer" =>
              t = current /\ TimerRuns /\ n = Len(stack[t])
<1>1. CASE stack[t] \in Bare
  BY <1>1, BareStacks
<1>2. ASSUME NEW e \in Bare, NEW f \in {"timer", "sched"}, stack[t] = Append(e, f)
      PROVE  /\ Len(stack[t]) \in 0 .. 3
             /\ \A n, k \in 1 .. Len(stack[t]) :
                  stack[t][n] = "key" /\ stack[t][k] = "key" => n = k
             /\ \A n \in 1 .. Len(stack[t]) : stack[t][n] = "timer" =>
                  f = "timer" /\ n = Len(stack[t])
  <2>1. e \in Seq(Frame) /\ f \in Frame /\ Len(e) \in 0 .. 2
    BY BareStacks DEF Frame, Entry, IRQ
  <2>2. /\ Len(stack[t]) = Len(e) + 1
        /\ \A n \in 1 .. Len(e) : stack[t][n] = e[n]
        /\ stack[t][Len(e) + 1] = f
    BY <1>2, <2>1, PushPop
  <2>3. \A n \in 1 .. Len(stack[t]) : n \in 1 .. Len(e) \/ n = Len(e) + 1
    BY <2>1, <2>2
  <2>4. \A n, k \in 1 .. Len(e) : e[n] = "key" /\ e[k] = "key" => n = k
    BY BareStacks
  <2>5. \A n \in 1 .. Len(e) : e[n] # "timer"
    BY BareStacks
  <2>6. \A n, k \in 1 .. Len(stack[t]) :
          stack[t][n] = "key" /\ stack[t][k] = "key" => n = k
    BY <2>2, <2>3, <2>4
  <2>7. \A n \in 1 .. Len(stack[t]) : stack[t][n] = "timer" =>
          f = "timer" /\ n = Len(stack[t])
    BY <2>2, <2>3, <2>5
  <2>8. QED
    BY <2>1, <2>2, <2>6, <2>7
<1>3. CASE t = current /\ TimerRuns
  BY <1>2, <1>3 DEF TimerRuns
<1>4. CASE t # current
  <2>1. PICK e \in Bare : stack[t] = Append(e, "sched")
    BY <1>4 DEF IInv, StacksInShape
  <2>2. QED
    BY <1>2, <2>1
<1>5. QED
  BY <1>1, <1>3, <1>4 DEF IInv, StacksInShape

(* For every number of processes, no kernel stack ever holds more than a   *)
(* fault, a key and a timer interrupt.                                     *)
THEOREM KernelStacksAreBounded == TrapSpec => []StackBounded
<1>1. IInv => StackBounded
  BY StackInShape DEF StackBounded
<1>2. QED
  BY <1>1, InductiveInvariant, PTL

(* For every number of processes, an interrupt is in service exactly while *)
(* one handler for it, on whichever stack, has not come to its EOI.        *)
THEOREM EveryEOIEndsItsOwn == TrapSpec => []InServiceIsOnStack
<1>1. ASSUME IInv PROVE InServiceIsOnStack
  <2> DEFINE At(irq) == {tn \in Task \X (1 .. 4) :
                              tn[2] <= Len(stack[tn[1]]) /\ stack[tn[1]][tn[2]] = irq}
  <2>1. \A irq \in IRQ, t \in Task, n \in 1 .. 3 :
          n <= Len(stack[t]) /\ stack[t][n] = irq => <<t, n>> \in At(irq)
    BY <1>1, StackInShape
  <2>2. \A irq \in IRQ : \A x \in At(irq) : \E t \in Task, n \in 1 .. 3 :
          x = <<t, n>> /\ n <= Len(stack[t]) /\ stack[t][n] = irq
    BY <1>1, StackInShape
  <2>3. \A x, y \in At("key") : x = y
    <3>1. SUFFICES ASSUME NEW x \in At("key"), NEW y \in At("key") PROVE x = y
      OBVIOUS
    <3>2. PICK t \in Task, n \in 1 .. 3 :
              x = <<t, n>> /\ n <= Len(stack[t]) /\ stack[t][n] = "key"
      BY <2>2, <3>1 DEF IRQ
    <3>3. PICK u \in Task, k \in 1 .. 3 :
              y = <<u, k>> /\ k <= Len(stack[u]) /\ stack[u][k] = "key"
      BY <2>2, <3>1 DEF IRQ
    <3>4. HasKey(stack[t]) /\ HasKey(stack[u])
      BY <1>1, <3>2, <3>3, StackInShape DEF HasKey
    <3>5. t = u
      BY <1>1, <3>4 DEF IInv, InServiceInPlace
    <3>6. QED
      BY <1>1, <3>2, <3>3, <3>5, StackInShape
  <2>4. "key" \in isr <=> At("key") # {}
    <3>1. (\E t \in Task : HasKey(stack[t])) <=> At("key") # {}
      <4>1. ASSUME NEW t \in Task, HasKey(stack[t]) PROVE At("key") # {}
        BY <1>1, <2>1, <4>1, StackInShape DEF HasKey, IRQ
      <4>2. ASSUME NEW x \in At("key") PROVE \E t \in Task : HasKey(stack[t])
        <5>1. PICK t \in Task, n \in 1 .. 3 :
                  x = <<t, n>> /\ n <= Len(stack[t]) /\ stack[t][n] = "key"
          BY <2>2 DEF IRQ
        <5>2. QED
          BY <1>1, <5>1, StackInShape DEF HasKey
      <4>3. QED
        BY <4>1, <4>2
    <3>2. QED
      BY <1>1, <3>1 DEF IInv, InServiceInPlace
  <2>5. \A x, y \in At("timer") : x = y
    <3>1. SUFFICES ASSUME NEW x \in At("timer"), NEW y \in At("timer") PROVE x = y
      OBVIOUS
    <3>2. PICK t \in Task, n \in 1 .. 3 :
              x = <<t, n>> /\ n <= Len(stack[t]) /\ stack[t][n] = "timer"
      BY <2>2, <3>1 DEF IRQ
    <3>3. PICK u \in Task, k \in 1 .. 3 :
              y = <<u, k>> /\ k <= Len(stack[u]) /\ stack[u][k] = "timer"
      BY <2>2, <3>1 DEF IRQ
    <3>4. QED
      BY <1>1, <3>2, <3>3, StackInShape
  <2>6. "timer" \in isr <=> At("timer") # {}
    <3>1. ASSUME TimerRuns PROVE At("timer") # {}
      <4>1. PICK e \in Bare : stack[current] = Append(e, "timer")
        BY <3>1 DEF TimerRuns
      <4>2. PICK m \in 0 .. 2 : m = Len(e)
        BY BareStacks
      <4>3. Len(stack[current]) = m + 1 /\ stack[current][m + 1] = "timer"
        BY <4>1, <4>2, BareStacks, PushPop DEF Frame, Entry, IRQ
      <4>4. current \in Task /\ "timer" \in IRQ /\ m + 1 \in 1 .. 3
        BY <1>1 DEF IInv, TypeOK, IRQ
      <4>5. <<current, m + 1>> \in At("timer")
        BY <2>1, <4>3, <4>4
      <4>6. QED
        BY <4>5
    <3>2. ASSUME NEW x \in At("timer") PROVE TimerRuns
      <4>1. PICK t \in Task, n \in 1 .. 3 :
                x = <<t, n>> /\ n <= Len(stack[t]) /\ stack[t][n] = "timer"
        BY <2>2 DEF IRQ
      <4>2. QED
        BY <1>1, <4>1, StackInShape
    <3>3. QED
      BY <1>1, <3>1, <3>2 DEF IInv, InServiceInPlace
  <2> HIDE DEF At
  <2>7. \A irq \in IRQ : IF irq \in isr THEN \E e \in At(irq) : At(irq) = {e}
                       ELSE At(irq) = {}
    BY <2>3, <2>4, <2>5, <2>6 DEF IRQ
  <2>8. QED
    BY <2>7 DEF InServiceIsOnStack, At
<1>2. QED
  BY <1>1, InductiveInvariant, PTL
=============================================================================
