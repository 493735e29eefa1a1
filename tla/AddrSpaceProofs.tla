--------------------------- MODULE AddrSpaceProofs ---------------------------
(***************************************************************************)
(* Theorems about AddrSpace for any number of processes, page frames, page *)
(* directory entries and slots of a page table, and any program images.    *)
(* Page directories and page tables are well formed whatever programs do.  *)
(* As long as programs stay in the directory entries that every image has, *)
(* reference counts are exact and page faults are served; and where the    *)
(* image has all pages that programs use, a page that a process can write  *)
(* to is its own, and the processes have private memories.                 *)
(***************************************************************************)
EXTENDS AddrSpace, FiniteSetTheorems, WellFoundedInduction, TLAPS

-----------------------------------------------------------------------------
(* What programs do.                                                       *)

(* The pages that some program may come to use. *)
Reach == {Stack} \cup 0 .. MaxBrk \cup UNION {0 .. i.data : i \in Images}
UsedDirs == {DirOf(v) : v \in Reach}

(* Every image has pages in each directory entry that programs come to     *)
(* use: the break stays in the 4 MiB where the data of every image end, or *)
(* in those of the stack.                                                  *)
InReach ==
  \A i \in Images : \A d \in UsedDirs : d = DirOf(Stack) \/ \E v \in 0 .. i.data : DirOf(v) = d

(* All pages up to the break are loaded with the image. *)
NoHeap == \A i \in Images : MaxBrk <= i.data
-----------------------------------------------------------------------------
(* Constants and numbers.                                                  *)

LEMMA LeastOf ==
  ASSUME NEW S, S \subseteq Nat, S # {}
  PROVE  \E x \in S : \A y \in S : x <= y
<1>1. PICK x \in S : \A y \in S : ~ (<<y, x>> \in OpToRel(<, Nat))
  BY NatLessThanWellFounded, WFMin, Zenon
<1>2. \A y \in S : x <= y
  <2>1. TAKE y \in S
  <2>2. ~ (<<y, x>> \in OpToRel(<, Nat))
    BY <1>1
  <2>3. ~ (y < x)
    BY <2>2 DEF OpToRel
  <2>4. QED
    BY <2>3
<1>3. QED
  BY <1>2

(* A set of numbers up to n that has 0, and of each number the next, has n. *)
LEMMA UpTo ==
  ASSUME NEW n \in Nat, NEW S, 0 \in S, \A j \in 0 .. n - 1 : j \in S => j + 1 \in S
  PROVE  \A j \in 0 .. n : j \in S
<1> DEFINE T == {j \in 0 .. n : j \notin S}
<1>1. ASSUME T # {}
      PROVE  FALSE
  <2>1. PICK x \in T : \A y \in T : x <= y
    <3>1. T \subseteq Nat
      OBVIOUS
    <3> HIDE DEF T
    <3>2. QED
      BY <1>1, <3>1, LeastOf
  <2>2. x \in 0 .. n /\ x \notin S /\ x # 0
    BY <2>1
  <2>3. x - 1 \in 0 .. n /\ x - 1 \in 0 .. n - 1 /\ ~ (x <= x - 1) /\ (x - 1) + 1 = x
    BY <2>2
  <2>4. x - 1 \in S
    BY <2>1, <2>3
  <2>5. QED
    BY <2>2, <2>3, <2>4
<1>2. QED
  BY <1>1

(* Pages and their places in the page tables. *)
LEMMA Division ==
  ASSUME NEW b \in Nat \ {0}, NEW a \in Nat
  PROVE  /\ a \div b \in Nat /\ a % b \in 0 .. b - 1
         /\ a = (a \div b) * b + (a % b)
  OBVIOUS

LEMMA Sizes ==
  /\ TASKS \in Nat \ {0} /\ DIRS \in Nat \ {0} /\ SLOTS \in Nat \ {0}
  /\ FRAMES \in Nat /\ UINT8 \in Nat /\ UINT8 > TASKS
  /\ DIRS * SLOTS \in Nat \ {0} /\ Stack \in Page /\ 0 \in Page /\ 0 \in Task
  /\ 0 \notin Frame /\ Task \subseteq Nat /\ Page \subseteq Nat /\ Frame \subseteq Nat
  /\ \A v \in Page : v <= Stack
<1>1. /\ TASKS \in Nat \ {0} /\ DIRS \in Nat \ {0} /\ SLOTS \in Nat \ {0}
      /\ FRAMES \in Nat /\ UINT8 \in Nat /\ UINT8 > TASKS
  BY AddrSpaceAssumption
<1>2. DIRS * SLOTS \in Nat \ {0}
  BY <1>1
<1> DEFINE P == DIRS * SLOTS
<1>3. P \in Nat \ {0}
  BY <1>2
<1>4. Stack = P - 1 /\ Page = 0 .. P - 1
  BY DEF Stack, Page
<1> HIDE DEF P
<1>5. Stack \in Page /\ 0 \in Page /\ Page \subseteq Nat /\ \A v \in Page : v <= Stack
  BY <1>3, <1>4
<1>6. QED
  BY <1>1, <1>2, <1>5 DEF Task, Frame

LEMMA PagePlace ==
  /\ \A v \in Page : DirOf(v) \in Dir /\ SlotOf(v) \in Slot
  /\ \A v, w \in Page : DirOf(v) = DirOf(w) /\ SlotOf(v) = SlotOf(w) => v = w
  /\ \A d \in Dir, i \in Slot : \E v \in Page : DirOf(v) = d /\ SlotOf(v) = i
  /\ \A d \in Dir : d * SLOTS \in Page /\ DirOf(d * SLOTS) = d
<1>1. SLOTS \in Nat \ {0} /\ DIRS \in Nat \ {0}
  BY Sizes
<1> DEFINE S == SLOTS
           N == DIRS
<1>2. S \in Nat \ {0} /\ N \in Nat \ {0}
  BY <1>1
<1>3. /\ Page = 0 .. N * S - 1 /\ Dir = 0 .. N - 1 /\ Slot = 0 .. S - 1
      /\ \A v : DirOf(v) = v \div S /\ SlotOf(v) = v % S
  BY DEF Page, Dir, Slot, DirOf, SlotOf
<1>4. \A d \in Dir : d * S \in Page
  BY <1>1 DEF Dir, Page
<1> HIDE DEF S, N
<1>5. N * S \in Nat
  BY <1>2
<1>6. ASSUME NEW v \in Page
      PROVE  /\ v \in Nat /\ DirOf(v) \in Dir /\ SlotOf(v) \in Slot
             /\ v = DirOf(v) * S + SlotOf(v)
  <2>1. v \in Nat /\ v < N * S
    BY <1>3, <1>5
  <2> DEFINE q == v \div S
             r == v % S
  <2>2. q \in Nat /\ r \in 0 .. S - 1 /\ v = q * S + r
    BY <1>2, <2>1, Division
  <2> HIDE DEF q, r
  <2>3. q < N
    <3>1. ASSUME q >= N
          PROVE  FALSE
      <4>1. q * S >= N * S
        BY <1>2, <2>2, <3>1
      <4>2. q * S \in Nat
        BY <1>2, <2>2
      <4>3. QED
        BY <1>5, <2>1, <2>2, <4>1, <4>2
    <3>2. QED
      BY <1>2, <2>2, <3>1
  <2>4. q \in Dir /\ r \in Slot
    BY <1>2, <1>3, <2>2, <2>3
  <2>5. QED
    BY <1>3, <2>1, <2>2, <2>4 DEF q, r
<1>7. ASSUME NEW d \in Dir, NEW i \in Slot
      PROVE  d * S + i \in Page /\ DirOf(d * S + i) = d /\ SlotOf(d * S + i) = i
  <2>1. d \in Nat /\ d <= N - 1 /\ i \in Nat /\ i < S
    BY <1>2, <1>3
  <2>2. d * S \in Nat /\ d * S + S <= N * S
    <3>1. d * S \in Nat /\ (d + 1) * S <= N * S /\ (d + 1) * S = d * S + S
      BY <1>2, <2>1
    <3>2. QED
      BY <3>1
  <2>3. d * S + i \in Page
    BY <1>2, <1>3, <1>5, <2>1, <2>2
  <2>4. (d * S + i) \div S = d /\ (d * S + i) % S = i
    <3> DEFINE v == d * S + i
               q == v \div S
               r == v % S
    <3>1. v \in Nat
      BY <2>1, <2>2
    <3>2. q \in Nat /\ r \in 0 .. S - 1 /\ v = q * S + r
      BY <1>2, <3>1, Division
    <3> HIDE DEF q, r
    <3>3. q * S + r = d * S + i
      BY <3>2
    <3>4. q = d
      <4>1. q * S \in Nat /\ d * S \in Nat
        BY <1>2, <2>1, <3>2
      <4>2. ASSUME q > d
            PROVE  FALSE
        <5>1. (d + 1) * S <= q * S /\ (d + 1) * S = d * S + S
          BY <1>2, <2>1, <3>2, <4>2
        <5>2. QED
          BY <1>2, <2>1, <3>2, <3>3, <4>1, <5>1
      <4>3. ASSUME q < d
            PROVE  FALSE
        <5>1. (q + 1) * S <= d * S /\ (q + 1) * S = q * S + S
          BY <1>2, <2>1, <3>2, <4>3
        <5>2. QED
          BY <1>2, <2>1, <3>2, <3>3, <4>1, <5>1
      <4>4. QED
        BY <2>1, <3>2, <4>2, <4>3
    <3>5. r = i
      <4>1. q * S \in Nat
        BY <1>2, <3>2
      <4>2. QED
        BY <2>1, <3>2, <3>3, <3>4, <4>1
    <3>6. QED
      BY <3>4, <3>5 DEF q, r
  <2>5. QED
    BY <1>3, <2>3, <2>4
<1>8. \A v, w \in Page : DirOf(v) = DirOf(w) /\ SlotOf(v) = SlotOf(w) => v = w
  BY <1>6
<1>9. \A d \in Dir, i \in Slot : \E v \in Page : DirOf(v) = d /\ SlotOf(v) = i
  BY <1>7
<1>10. ASSUME NEW d \in Dir
       PROVE  DirOf(d * S) = d
  <2>1. 0 \in Slot /\ d * S + 0 = d * S
    BY <1>2, <1>3
  <2>2. DirOf(d * S + 0) = d
    BY <1>7, <2>1
  <2>3. QED
    BY <2>1, <2>2
<1>11. \A d \in Dir : d * S \in Page /\ DirOf(d * S) = d
  BY <1>4, <1>10
<1>12. QED
  BY <1>6, <1>8, <1>9, <1>11 DEF S
-----------------------------------------------------------------------------
(* Well-formed memories: what is present has a frame.                      *)

Content == Value \cup {Junk, FromFile}
DirEntry ==
  {e \in [frame : Frame \cup {0}, present : BOOLEAN, rw : BOOLEAN, user : BOOLEAN,
          cow : BOOLEAN, shared : BOOLEAN] : e.present => e.frame \in Frame}
TabEntry ==
  {e \in [frame : Frame \cup {0}, present : BOOLEAN, rw : BOOLEAN, cow : BOOLEAN] :
     e.present => e.frame \in Frame}

Mem == [refs : [Frame -> 0 .. UINT8 - 1],
        dir : [Task -> [Dir -> DirEntry]],
        tab : [Frame -> [Slot -> TabEntry]],
        data : [Frame -> Content],
        panic : {"no", "out_of_memory", "read_only"}]

(* Entries are what they are made. *)
LEMMA Entries ==
  /\ NoEntry \in TabEntry /\ EmptyTable \in [Slot -> TabEntry]
  /\ \A i \in Slot : EmptyTable[i] = NoEntry
  /\ ~ NoEntry.present /\ NoEntry.frame = 0
  /\ NoTable \in DirEntry /\ ~ NoTable.present /\ NoTable.frame = 0
  /\ \A f \in Frame, b \in BOOLEAN :
       /\ Entry(f, b) \in TabEntry
       /\ Entry(f, b).frame = f /\ Entry(f, b).present /\ Entry(f, b).rw = b
       /\ Table(f, b) \in DirEntry
       /\ Table(f, b).frame = f /\ Table(f, b).present /\ Table(f, b).rw
       /\ Table(f, b).user = b /\ ~ Table(f, b).shared /\ ~ Table(f, b).cow
  /\ \A e \in TabEntry : [e EXCEPT !.present = FALSE] \in TabEntry
  /\ \A e \in DirEntry : [e EXCEPT !.present = FALSE] \in DirEntry
<1>1. NoEntry \in TabEntry /\ NoTable \in DirEntry
  BY DEF NoEntry, NoTable, TabEntry, DirEntry
<1>2. EmptyTable \in [Slot -> TabEntry] /\ \A i \in Slot : EmptyTable[i] = NoEntry
  BY <1>1 DEF EmptyTable
<1>3. ~ NoEntry.present /\ NoEntry.frame = 0 /\ ~ NoTable.present /\ NoTable.frame = 0
  BY DEF NoEntry, NoTable
<1>4. \A f \in Frame, b \in BOOLEAN :
       /\ Entry(f, b) \in TabEntry
       /\ Entry(f, b).frame = f /\ Entry(f, b).present /\ Entry(f, b).rw = b
  BY DEF Entry, TabEntry
<1>5. \A f \in Frame, b \in BOOLEAN :
       /\ Table(f, b) \in DirEntry
       /\ Table(f, b).frame = f /\ Table(f, b).present /\ Table(f, b).rw
       /\ Table(f, b).user = b /\ ~ Table(f, b).shared /\ ~ Table(f, b).cow
  BY DEF Table, DirEntry
<1>6. \A e \in TabEntry : [e EXCEPT !.present = FALSE] \in TabEntry
  BY DEF TabEntry
<1>7. \A e \in DirEntry : [e EXCEPT !.present = FALSE] \in DirEntry
  BY DEF DirEntry
<1>8. QED
  BY <1>1, <1>2, <1>3, <1>4, <1>5, <1>6, <1>7

(* What is present has a frame, and its page table is one. *)
LEMMA PresentType ==
  ASSUME NEW s \in Mem, NEW t \in Task, NEW v \in Page
  PROVE  /\ PDE(s, t, v) \in DirEntry /\ PDE(s, t, v) = s.dir[t][DirOf(v)]
         /\ PDE(s, t, v).present => PDE(s, t, v).frame \in Frame /\ PTE(s, t, v) \in TabEntry
         /\ Present(s, t, v) => PTE(s, t, v).frame \in Frame
<1>1. DirOf(v) \in Dir /\ SlotOf(v) \in Slot
  BY PagePlace
<1>2. s.dir \in [Task -> [Dir -> DirEntry]] /\ s.tab \in [Frame -> [Slot -> TabEntry]]
  BY DEF Mem
<1>3. s.dir[t][DirOf(v)] \in DirEntry
  BY <1>1, <1>2
<1>4. PDE(s, t, v) = s.dir[t][DirOf(v)]
  BY DEF PDE
<1>5. PDE(s, t, v).present => PDE(s, t, v).frame \in Frame
  BY <1>3, <1>4 DEF DirEntry
<1>6. PDE(s, t, v).present => PTE(s, t, v) \in TabEntry
  BY <1>1, <1>2, <1>5 DEF PTE
<1>7. Present(s, t, v) => PTE(s, t, v).frame \in Frame
  BY <1>6 DEF Present, TabEntry
<1>8. QED
  BY <1>3, <1>4, <1>5, <1>6, <1>7

LEMMA PanicType ==
  ASSUME NEW s \in Mem
  PROVE  /\ Panic(s, "out_of_memory") \in Mem /\ Panic(s, "out_of_memory").panic = "out_of_memory"
         /\ Panic(s, "read_only") \in Mem /\ Panic(s, "read_only").panic = "read_only"
  BY DEF Mem, Panic

(* alloc_page_frame() *)
LEMMA AllocIs ==
  ASSUME NEW s \in Mem
  PROVE  /\ Alloc(s) \in Mem
         /\ Alloc(s).panic = "read_only" => s.panic = "read_only"
         /\ s.panic # "no" => Alloc(s) = s
         /\ Alloc(s).panic = "no" =>
              /\ s.panic = "no" /\ NewFrame(s) \in Frame /\ s.refs[NewFrame(s)] = 0
              /\ Alloc(s) = [s EXCEPT !.refs[NewFrame(s)] = 1]
              /\ Alloc(s).refs = [s.refs EXCEPT ![NewFrame(s)] = 1]
              /\ Alloc(s).dir = s.dir /\ Alloc(s).tab = s.tab /\ Alloc(s).data = s.data
<1>1. CASE s.panic # "no"
  BY <1>1 DEF Alloc
<1>2. CASE s.panic = "no" /\ FreeFrames(s) = {}
  <2>1. Alloc(s) = Panic(s, "out_of_memory")
    BY <1>2 DEF Alloc
  <2>2. QED
    BY <1>2, <2>1, PanicType
<1>3. CASE s.panic = "no" /\ FreeFrames(s) # {}
  <2>1. FreeFrames(s) \subseteq Nat
    BY Sizes DEF FreeFrames
  <2>2. \E f \in FreeFrames(s) : \A g \in FreeFrames(s) : f <= g
    BY <1>3, <2>1, LeastOf
  <2>3. NewFrame(s) \in FreeFrames(s)
    BY <2>2 DEF NewFrame
  <2>4. NewFrame(s) \in Frame /\ s.refs[NewFrame(s)] = 0
    BY <2>3 DEF FreeFrames
  <2>5. Alloc(s) = [s EXCEPT !.refs[NewFrame(s)] = 1]
    BY <1>3 DEF Alloc
  <2> DEFINE n == NewFrame(s)
  <2>6. 1 \in 0 .. UINT8 - 1
    BY Sizes
  <2> HIDE DEF n
  <2>7. /\ [s EXCEPT !.refs[n] = 1] \in Mem
        /\ [s EXCEPT !.refs[n] = 1].refs = [s.refs EXCEPT ![n] = 1]
        /\ [s EXCEPT !.refs[n] = 1].dir = s.dir /\ [s EXCEPT !.refs[n] = 1].tab = s.tab
        /\ [s EXCEPT !.refs[n] = 1].data = s.data /\ [s EXCEPT !.refs[n] = 1].panic = s.panic
    BY <2>4, <2>6 DEF n, Mem
  <2>8. QED
    BY <1>3, <2>4, <2>5, <2>7 DEF n
<1>4. QED
  BY <1>1, <1>2, <1>3

(* free_page_frame() *)
LEMMA DropIs ==
  ASSUME NEW s \in Mem, NEW f \in Frame
  PROVE  /\ Drop(s, f) \in Mem
         /\ Drop(s, f).panic = s.panic /\ Drop(s, f).dir = s.dir
         /\ s.panic # "no" \/ s.refs[f] = 0 => Drop(s, f) = s
         /\ s.panic = "no" /\ s.refs[f] # 0 =>
              Drop(s, f).refs = [s.refs EXCEPT ![f] = s.refs[f] - 1]
         /\ s.panic = "no" /\ s.refs[f] = 1 =>
              /\ Drop(s, f).tab = [s.tab EXCEPT ![f] = EmptyTable]
              /\ Drop(s, f).data = [s.data EXCEPT ![f] = Junk]
         /\ s.refs[f] # 1 => Drop(s, f).tab = s.tab /\ Drop(s, f).data = s.data
<1>1. s.refs[f] \in Nat /\ s.refs[f] < UINT8
  BY Sizes DEF Mem
<1>2. CASE s.panic # "no" \/ s.refs[f] = 0
  BY <1>2 DEF Drop
<1>3. CASE s.panic = "no" /\ s.refs[f] = 1
  <2>1. Drop(s, f) = [s EXCEPT !.refs[f] = 0, !.tab[f] = EmptyTable, !.data[f] = Junk]
    BY <1>3 DEF Drop
  <2>2. 0 \in 0 .. UINT8 - 1 /\ Junk \in Content /\ EmptyTable \in [Slot -> TabEntry] /\ 1 - 1 = 0
    BY Sizes, Entries DEF Content
  <2>3. /\ [s.refs EXCEPT ![f] = 0] \in [Frame -> 0 .. UINT8 - 1]
        /\ [s.tab EXCEPT ![f] = EmptyTable] \in [Frame -> [Slot -> TabEntry]]
        /\ [s.data EXCEPT ![f] = Junk] \in [Frame -> Content]
    BY <2>2 DEF Mem
  <2>4. /\ Drop(s, f).refs = [s.refs EXCEPT ![f] = 0]
        /\ Drop(s, f).tab = [s.tab EXCEPT ![f] = EmptyTable]
        /\ Drop(s, f).data = [s.data EXCEPT ![f] = Junk]
        /\ Drop(s, f).dir = s.dir /\ Drop(s, f).panic = s.panic
    BY <2>1 DEF Mem
  <2>5. Drop(s, f) \in Mem
    BY <2>1, <2>3 DEF Mem
  <2>6. [s.refs EXCEPT ![f] = 0] = [s.refs EXCEPT ![f] = s.refs[f] - 1]
    BY <1>3, <2>2
  <2>7. QED
    BY <1>3, <2>4, <2>5, <2>6
<1>4. CASE s.panic = "no" /\ s.refs[f] # 0 /\ s.refs[f] # 1
  <2>1. Drop(s, f) = [s EXCEPT !.refs[f] = s.refs[f] - 1]
    BY <1>4 DEF Drop
  <2>2. s.refs[f] - 1 \in 0 .. UINT8 - 1
    BY <1>1, <1>4, Sizes
  <2>3. [s.refs EXCEPT ![f] = s.refs[f] - 1] \in [Frame -> 0 .. UINT8 - 1]
    BY <2>2 DEF Mem
  <2>4. /\ Drop(s, f).refs = [s.refs EXCEPT ![f] = s.refs[f] - 1]
        /\ Drop(s, f).tab = s.tab /\ Drop(s, f).data = s.data
        /\ Drop(s, f).dir = s.dir /\ Drop(s, f).panic = s.panic
    BY <2>1 DEF Mem
  <2>5. Drop(s, f) \in Mem
    BY <2>1, <2>3 DEF Mem
  <2>6. QED
    BY <1>4, <2>4, <2>5
<1>5. QED
  BY <1>2, <1>3, <1>4
-----------------------------------------------------------------------------
(* Single stores to page directories, page tables and pages.               *)

SetTable(s, t, d, e, n, T) == [s EXCEPT !.dir[t][d] = e, !.tab[n] = T]
SetEntry(s, f, i, e) == [s EXCEPT !.tab[f][i] = e]
SetTab(s, f, T) == [s EXCEPT !.tab[f] = T]
SetData(s, f, x) == [s EXCEPT !.data[f] = x]
ClearDir(s, t, d) == [s EXCEPT !.dir[t][d].present = FALSE]

LEMMA SetTableIs ==
  ASSUME NEW s \in Mem, NEW t \in Task, NEW d \in Dir, NEW e \in DirEntry, NEW n \in Frame,
         NEW T \in [Slot -> TabEntry]
  PROVE  /\ SetTable(s, t, d, e, n, T) \in Mem
         /\ SetTable(s, t, d, e, n, T).refs = s.refs
         /\ SetTable(s, t, d, e, n, T).data = s.data
         /\ SetTable(s, t, d, e, n, T).panic = s.panic
         /\ SetTable(s, t, d, e, n, T).tab[n] = T
         /\ \A g \in Frame : g # n => SetTable(s, t, d, e, n, T).tab[g] = s.tab[g]
         /\ SetTable(s, t, d, e, n, T).dir[t][d] = e
         /\ \A u \in Task, c \in Dir : u # t \/ c # d => SetTable(s, t, d, e, n, T).dir[u][c] = s.dir[u][c]
         /\ \A u \in Task : u # t => SetTable(s, t, d, e, n, T).dir[u] = s.dir[u]
<1>1. SetTable(s, t, d, e, n, T).dir = [s.dir EXCEPT ![t][d] = e]
  BY DEF SetTable, Mem
<1>2. [s.dir EXCEPT ![t][d] = e] \in [Task -> [Dir -> DirEntry]]
  BY DEF Mem
<1>3. [s.tab EXCEPT ![n] = T] \in [Frame -> [Slot -> TabEntry]]
  BY DEF Mem
<1>4. /\ SetTable(s, t, d, e, n, T).refs = s.refs
      /\ SetTable(s, t, d, e, n, T).data = s.data
      /\ SetTable(s, t, d, e, n, T).panic = s.panic
      /\ SetTable(s, t, d, e, n, T).tab = [s.tab EXCEPT ![n] = T]
  BY DEF SetTable, Mem
<1>5. SetTable(s, t, d, e, n, T) \in Mem
  BY <1>2, <1>3 DEF SetTable, Mem
<1>6. /\ [s.dir EXCEPT ![t][d] = e][t][d] = e
      /\ \A u \in Task, c \in Dir : u # t \/ c # d => [s.dir EXCEPT ![t][d] = e][u][c] = s.dir[u][c]
      /\ \A u \in Task : u # t => [s.dir EXCEPT ![t][d] = e][u] = s.dir[u]
  BY DEF Mem
<1>7. /\ [s.tab EXCEPT ![n] = T][n] = T
      /\ \A g \in Frame : g # n => [s.tab EXCEPT ![n] = T][g] = s.tab[g]
  BY DEF Mem
<1>8. QED
  BY <1>1, <1>4, <1>5, <1>6, <1>7

LEMMA SetEntryIs ==
  ASSUME NEW s \in Mem, NEW f \in Frame, NEW i \in Slot, NEW e \in TabEntry
  PROVE  /\ SetEntry(s, f, i, e) \in Mem
         /\ SetEntry(s, f, i, e).refs = s.refs
         /\ SetEntry(s, f, i, e).dir = s.dir
         /\ SetEntry(s, f, i, e).data = s.data
         /\ SetEntry(s, f, i, e).panic = s.panic
         /\ SetEntry(s, f, i, e).tab[f][i] = e
         /\ \A g \in Frame, j \in Slot : g # f \/ j # i => SetEntry(s, f, i, e).tab[g][j] = s.tab[g][j]
         /\ \A g \in Frame : g # f => SetEntry(s, f, i, e).tab[g] = s.tab[g]
<1>1. SetEntry(s, f, i, e).tab = [s.tab EXCEPT ![f][i] = e]
  BY DEF SetEntry, Mem
<1>2. [s.tab EXCEPT ![f][i] = e] \in [Frame -> [Slot -> TabEntry]]
  BY DEF Mem
<1>3. /\ SetEntry(s, f, i, e).refs = s.refs
      /\ SetEntry(s, f, i, e).dir = s.dir
      /\ SetEntry(s, f, i, e).data = s.data
      /\ SetEntry(s, f, i, e).panic = s.panic
  BY DEF SetEntry, Mem
<1>4. SetEntry(s, f, i, e) \in Mem
  BY <1>2 DEF SetEntry, Mem
<1>5. /\ [s.tab EXCEPT ![f][i] = e][f][i] = e
      /\ \A g \in Frame, j \in Slot : g # f \/ j # i => [s.tab EXCEPT ![f][i] = e][g][j] = s.tab[g][j]
      /\ \A g \in Frame : g # f => [s.tab EXCEPT ![f][i] = e][g] = s.tab[g]
  BY DEF Mem
<1>6. QED
  BY <1>1, <1>3, <1>4, <1>5

LEMMA SetTabIs ==
  ASSUME NEW s \in Mem, NEW f \in Frame, NEW T \in [Slot -> TabEntry]
  PROVE  /\ SetTab(s, f, T) \in Mem
         /\ SetTab(s, f, T).refs = s.refs /\ SetTab(s, f, T).dir = s.dir
         /\ SetTab(s, f, T).data = s.data /\ SetTab(s, f, T).panic = s.panic
         /\ SetTab(s, f, T).tab[f] = T
         /\ \A g \in Frame : g # f => SetTab(s, f, T).tab[g] = s.tab[g]
<1>1. [s.tab EXCEPT ![f] = T] \in [Frame -> [Slot -> TabEntry]]
  BY DEF Mem
<1>2. /\ [s.tab EXCEPT ![f] = T][f] = T
      /\ \A g \in Frame : g # f => [s.tab EXCEPT ![f] = T][g] = s.tab[g]
  BY DEF Mem
<1>3. /\ SetTab(s, f, T).refs = s.refs /\ SetTab(s, f, T).dir = s.dir
      /\ SetTab(s, f, T).data = s.data /\ SetTab(s, f, T).panic = s.panic
      /\ SetTab(s, f, T).tab = [s.tab EXCEPT ![f] = T]
  BY DEF SetTab, Mem
<1>4. SetTab(s, f, T) \in Mem
  BY <1>1 DEF SetTab, Mem
<1>5. QED
  BY <1>2, <1>3, <1>4

LEMMA SetDataIs ==
  ASSUME NEW s \in Mem, NEW f \in Frame, NEW x \in Content
  PROVE  /\ SetData(s, f, x) \in Mem
         /\ SetData(s, f, x).refs = s.refs /\ SetData(s, f, x).dir = s.dir
         /\ SetData(s, f, x).tab = s.tab /\ SetData(s, f, x).panic = s.panic
         /\ SetData(s, f, x).data = [s.data EXCEPT ![f] = x]
<1>1. [s.data EXCEPT ![f] = x] \in [Frame -> Content]
  BY DEF Mem
<1>2. QED
  BY <1>1 DEF SetData, Mem

LEMMA ClearDirIs ==
  ASSUME NEW s \in Mem, NEW t \in Task, NEW d \in Dir
  PROVE  /\ ClearDir(s, t, d) \in Mem
         /\ ClearDir(s, t, d).refs = s.refs /\ ClearDir(s, t, d).tab = s.tab
         /\ ClearDir(s, t, d).data = s.data /\ ClearDir(s, t, d).panic = s.panic
         /\ ClearDir(s, t, d).dir[t][d] = [s.dir[t][d] EXCEPT !.present = FALSE]
         /\ \A u \in Task, c \in Dir : u # t \/ c # d => ClearDir(s, t, d).dir[u][c] = s.dir[u][c]
         /\ \A u \in Task : u # t => ClearDir(s, t, d).dir[u] = s.dir[u]
<1> DEFINE e == [s.dir[t][d] EXCEPT !.present = FALSE]
<1>1. e \in DirEntry
  <2>1. s.dir[t][d] \in DirEntry
    BY DEF Mem
  <2>2. QED
    BY <2>1, Entries
<1>2. ClearDir(s, t, d).dir = [s.dir EXCEPT ![t][d] = e]
  BY DEF ClearDir, Mem
<1>3. ClearDir(s, t, d) = [s EXCEPT !.dir[t][d] = e]
  BY DEF ClearDir, Mem
<1> HIDE DEF e
<1>4. [s.dir EXCEPT ![t][d] = e] \in [Task -> [Dir -> DirEntry]]
  BY <1>1 DEF Mem
<1>5. /\ ClearDir(s, t, d).refs = s.refs /\ ClearDir(s, t, d).tab = s.tab
      /\ ClearDir(s, t, d).data = s.data /\ ClearDir(s, t, d).panic = s.panic
  BY <1>3 DEF Mem
<1>6. ClearDir(s, t, d) \in Mem
  BY <1>3, <1>4 DEF Mem
<1>7. /\ [s.dir EXCEPT ![t][d] = e][t][d] = e
      /\ \A u \in Task, c \in Dir : u # t \/ c # d => [s.dir EXCEPT ![t][d] = e][u][c] = s.dir[u][c]
      /\ \A u \in Task : u # t => [s.dir EXCEPT ![t][d] = e][u] = s.dir[u]
  BY DEF Mem
<1>8. QED
  BY <1>2, <1>5, <1>6, <1>7 DEF e
-----------------------------------------------------------------------------
(* The functions of the kernel keep memories well formed, and stop the     *)
(* kernel only for want of memory.                                         *)

Kept(s, r) == r \in Mem /\ (r.panic = "read_only" => s.panic = "read_only")

LEMMA AddTableKeeps ==
  ASSUME NEW s \in Mem, NEW t \in Task, NEW d \in Dir, NEW user \in BOOLEAN
  PROVE  /\ Kept(s, AddTable(s, t, d, user))
         /\ AddTable(s, t, d, user).panic = "no" =>
              /\ Alloc(s).panic = "no"
              /\ AddTable(s, t, d, user) =
                   SetTable(Alloc(s), t, d, Table(NewFrame(s), user), NewFrame(s), EmptyTable)
         /\ AddTable(s, t, d, user).panic = "no" => AddTable(s, t, d, user).dir[t][d].present
<1>1. CASE Alloc(s).panic # "no"
  BY <1>1, AllocIs DEF AddTable, Kept
<1>2. CASE Alloc(s).panic = "no"
  <2>1. NewFrame(s) \in Frame /\ Alloc(s) \in Mem /\ s.panic = "no"
    BY <1>2, AllocIs
  <2>2. Table(NewFrame(s), user) \in DirEntry /\ Table(NewFrame(s), user).present
    BY <2>1, Entries
  <2>3. AddTable(s, t, d, user) =
          SetTable(Alloc(s), t, d, Table(NewFrame(s), user), NewFrame(s), EmptyTable)
    BY <1>2 DEF AddTable, SetTable
  <2> DEFINE N == NewFrame(s)
             A == Alloc(s)
             E == Table(N, user)
             R == SetTable(A, t, d, E, N, EmptyTable)
  <2> HIDE DEF N, A, E
  <2>4. R \in Mem /\ R.panic = A.panic /\ R.dir[t][d] = E
    <3>1. N \in Frame /\ A \in Mem /\ E \in DirEntry /\ EmptyTable \in [Slot -> TabEntry]
      BY <2>1, <2>2, Entries DEF N, A, E
    <3>2. QED
      BY <3>1, SetTableIs
  <2>5. /\ AddTable(s, t, d, user) \in Mem
        /\ AddTable(s, t, d, user).panic = Alloc(s).panic
        /\ AddTable(s, t, d, user).dir[t][d] = Table(NewFrame(s), user)
    BY <2>3, <2>4 DEF N, A, E
  <2>6. QED
    BY <1>2, <2>2, <2>3, <2>5 DEF Kept
<1>3. QED
  BY <1>1, <1>2

CopyIn(s, t, d) ==
  SetTable(Alloc(s), t, d, Table(NewFrame(s), TRUE), NewFrame(s), s.tab[s.dir[t][d].frame])

LEMMA CopyTableKeeps ==
  ASSUME NEW s \in Mem, NEW t \in Task, NEW d \in Dir, s.dir[t][d].present
  PROVE  /\ Kept(s, CopyTable(s, t, d))
         /\ CopyTable(s, t, d).panic = "no" =>
              /\ Alloc(s).panic = "no" /\ CopyIn(s, t, d) \in Mem
              /\ CopyTable(s, t, d) = Drop(CopyIn(s, t, d), s.dir[t][d].frame)
              /\ CopyTable(s, t, d).dir[t][d] = Table(NewFrame(s), TRUE)
<1> DEFINE old == s.dir[t][d].frame
<1>1. old \in Frame
  <2>1. s.dir[t][d] \in DirEntry
    BY DEF Mem
  <2>2. QED
    BY <2>1 DEF DirEntry
<1>2. CASE Alloc(s).panic # "no"
  BY <1>2, AllocIs DEF CopyTable, Kept
<1>3. CASE Alloc(s).panic = "no"
  <2>1. NewFrame(s) \in Frame /\ Alloc(s) \in Mem /\ s.panic = "no"
    BY <1>3, AllocIs
  <2>2. Table(NewFrame(s), TRUE) \in DirEntry
    BY <2>1, Entries
  <2>3. s.tab[old] \in [Slot -> TabEntry]
    BY <1>1 DEF Mem
  <2>4. CopyTable(s, t, d) = Drop(CopyIn(s, t, d), old)
    BY <1>3 DEF CopyTable, CopyIn, SetTable
  <2>5. /\ CopyIn(s, t, d) \in Mem /\ CopyIn(s, t, d).panic = Alloc(s).panic
        /\ CopyIn(s, t, d).dir[t][d] = Table(NewFrame(s), TRUE)
    <3> DEFINE N == NewFrame(s)
               A == Alloc(s)
               E == Table(N, TRUE)
               Old == s.tab[old]
    <3>1. CopyIn(s, t, d) = SetTable(A, t, d, E, N, Old)
      BY DEF CopyIn
    <3>2. N \in Frame /\ A \in Mem /\ E \in DirEntry /\ Old \in [Slot -> TabEntry]
      BY <2>1, <2>2, <2>3
    <3> HIDE DEF N, A, E, Old
    <3>3. /\ SetTable(A, t, d, E, N, Old) \in Mem /\ SetTable(A, t, d, E, N, Old).panic = A.panic
          /\ SetTable(A, t, d, E, N, Old).dir[t][d] = E
      BY <3>2, SetTableIs
    <3>4. QED
      BY <3>1, <3>3 DEF N, A, E
  <2>6. /\ Drop(CopyIn(s, t, d), old) \in Mem
        /\ Drop(CopyIn(s, t, d), old).panic = CopyIn(s, t, d).panic
        /\ Drop(CopyIn(s, t, d), old).dir = CopyIn(s, t, d).dir
    BY <1>1, <2>5, DropIs
  <2>7. QED
    BY <1>3, <2>4, <2>5, <2>6 DEF Kept
<1>4. QED
  BY <1>2, <1>3

(* map_page(), step by step. *)
Mapped1(s, t, v) == IF PDE(s, t, v).present THEN s ELSE AddTable(s, t, DirOf(v), TRUE)
Mapped2(s, t, v) ==
  LET a == Mapped1(s, t, v)
  IN  IF a.panic = "no" /\ PDE(a, t, v).shared THEN CopyTable(a, t, DirOf(v)) ELSE a

LEMMA MapKeeps ==
  ASSUME NEW s \in Mem, NEW t \in Task, NEW v \in Page, NEW e \in TabEntry
  PROVE  /\ Kept(s, Map(s, t, v, e))
         /\ s.panic # "no" => Map(s, t, v, e).panic = s.panic
         /\ Map(s, t, v, e).panic = "no" =>
              /\ s.panic = "no" /\ Mapped1(s, t, v).panic = "no" /\ Mapped2(s, t, v).panic = "no"
              /\ Mapped1(s, t, v) \in Mem /\ PDE(Mapped1(s, t, v), t, v).present
              /\ Mapped2(s, t, v) \in Mem /\ PDE(Mapped2(s, t, v), t, v).present
              /\ PDE(Mapped2(s, t, v), t, v).frame \in Frame
              /\ Map(s, t, v, e) =
                   SetEntry(Mapped2(s, t, v), PDE(Mapped2(s, t, v), t, v).frame, SlotOf(v), e)
<1> DEFINE D == DirOf(v)
           a == Mapped1(s, t, v)
           b == Mapped2(s, t, v)
<1>1. D \in Dir /\ SlotOf(v) \in Slot
  BY PagePlace
<1>2. \A r : PDE(r, t, v) = r.dir[t][D]
  BY DEF PDE
<1>3. Kept(s, a) /\ (a.panic = "no" => PDE(a, t, v).present /\ s.panic = "no")
      /\ (s.panic # "no" => a.panic = s.panic)
  <2>1. CASE PDE(s, t, v).present
    <3>1. a = s
      BY <2>1 DEF Mapped1
    <3>2. QED
      BY <2>1, <3>1 DEF Kept
  <2>2. CASE ~ PDE(s, t, v).present
    <3>1. a = AddTable(s, t, D, TRUE)
      BY <2>2 DEF Mapped1
    <3>2. /\ Kept(s, a)
          /\ a.panic = "no" => a.dir[t][D].present /\ Alloc(s).panic = "no"
      BY <1>1, <3>1, AddTableKeeps
    <3>3. s.panic # "no" => a = s
      BY <3>1, AllocIs DEF AddTable
    <3>4. QED
      BY <1>2, <3>2, <3>3, AllocIs
  <2>3. QED
    BY <2>1, <2>2
<1> HIDE DEF a, D
<1>4. Kept(s, b) /\ (b.panic = "no" => a.panic = "no" /\ PDE(b, t, v).present)
      /\ (a.panic # "no" => b.panic = a.panic)
  <2>1. CASE a.panic = "no" /\ PDE(a, t, v).shared
    <3>1. b = CopyTable(a, t, D)
      BY <2>1 DEF Mapped2, a, D
    <3>2. a \in Mem /\ a.dir[t][D].present
      BY <1>2, <1>3, <2>1 DEF Kept
    <3> HIDE DEF b
    <3>3. Kept(a, b) /\ (b.panic = "no" => Alloc(a).panic = "no" /\ b.dir[t][D] = Table(NewFrame(a), TRUE))
      BY <1>1, <3>1, <3>2, CopyTableKeeps
    <3>4. b.panic = "no" => Table(NewFrame(a), TRUE).present
      BY <3>2, <3>3, AllocIs, Entries
    <3>5. QED
      BY <1>2, <1>3, <2>1, <3>3, <3>4 DEF Kept
  <2>2. CASE ~ (a.panic = "no" /\ PDE(a, t, v).shared)
    <3>1. b = a
      BY <2>2 DEF Mapped2, a
    <3>2. QED
      BY <1>3, <3>1
  <2>3. QED
    BY <2>1, <2>2
<1>5. Map(s, t, v, e) = IF b.panic # "no" THEN b
                        ELSE SetEntry(b, PDE(b, t, v).frame, SlotOf(v), e)
  BY DEF Map, Mapped2, Mapped1, SetEntry
<1> HIDE DEF b
<1>6. CASE b.panic # "no"
  <2>1. Map(s, t, v, e) = b
    BY <1>5, <1>6
  <2>2. QED
    BY <1>3, <1>4, <1>6, <2>1
<1>7. CASE b.panic = "no"
  <2>1. b \in Mem /\ PDE(b, t, v).frame \in Frame
    BY <1>4, <1>7, PresentType DEF Kept
  <2>2. Map(s, t, v, e) = SetEntry(b, PDE(b, t, v).frame, SlotOf(v), e)
    BY <1>5, <1>7
  <2>3. Map(s, t, v, e) \in Mem /\ Map(s, t, v, e).panic = b.panic
    BY <1>1, <2>1, <2>2, SetEntryIs
  <2>4. QED
    BY <1>3, <1>4, <1>7, <2>1, <2>2, <2>3 DEF a, b, Kept
<1>8. QED
  BY <1>6, <1>7

(* free_page(), step by step. *)
Freed(s, t, v) == Drop(s, PTE(s, t, v).frame)
Freed2(s, t, v) ==
  LET a == Freed(s, t, v) IN IF PDE(a, t, v).shared THEN CopyTable(a, t, DirOf(v)) ELSE a

LEMMA FreePageKeeps ==
  ASSUME NEW s \in Mem, NEW t \in Task, NEW v \in Page
  PROVE  /\ Kept(s, FreePage(s, t, v))
         /\ s.panic # "no" \/ ~ Present(s, t, v) => FreePage(s, t, v) = s
         /\ s.panic = "no" /\ Present(s, t, v) /\ FreePage(s, t, v).panic = "no" =>
              LET b == Freed2(s, t, v)
                  F == PDE(b, t, v).frame
                  i == SlotOf(v)
              IN  /\ Freed(s, t, v) \in Mem /\ PDE(Freed(s, t, v), t, v) = PDE(s, t, v)
                  /\ b \in Mem /\ b.panic = "no" /\ PDE(b, t, v).present /\ F \in Frame
                  /\ FreePage(s, t, v) = SetEntry(b, F, i, [b.tab[F][i] EXCEPT !.present = FALSE])
<1>1. CASE s.panic # "no" \/ ~ Present(s, t, v)
  BY <1>1 DEF FreePage, Kept
<1>2. CASE s.panic = "no" /\ Present(s, t, v)
  <2> DEFINE D == DirOf(v)
             i == SlotOf(v)
             f == PTE(s, t, v).frame
             a == Freed(s, t, v)
             b == Freed2(s, t, v)
             F == PDE(b, t, v).frame
             E == [b.tab[F][i] EXCEPT !.present = FALSE]
  <2>1. D \in Dir /\ i \in Slot /\ \A r : PDE(r, t, v) = r.dir[t][D]
    BY PagePlace DEF PDE
  <2>2. f \in Frame /\ PDE(s, t, v).present
    BY <1>2, PresentType DEF Present
  <2>3. a \in Mem /\ a.panic = "no" /\ a.dir = s.dir
    BY <1>2, <2>2, DropIs DEF Freed
  <2>4. PDE(a, t, v) = PDE(s, t, v)
    BY <2>1, <2>3
  <2> HIDE DEF a, D
  <2>5. Kept(a, b) /\ (b.panic = "no" => PDE(b, t, v).present)
    <3>1. CASE PDE(a, t, v).shared
      <4>1. b = CopyTable(a, t, D)
        BY <3>1 DEF Freed2, a, D
      <4>2. a.dir[t][D].present
        BY <2>1, <2>2, <2>4
      <4> HIDE DEF b, i, f, F, E
      <4>3. Kept(a, b) /\ (b.panic = "no" => Alloc(a).panic = "no" /\ b.dir[t][D] = Table(NewFrame(a), TRUE))
        BY <2>1, <2>3, <4>1, <4>2, CopyTableKeeps, ZenonT(60)
      <4>4. b.panic = "no" => Table(NewFrame(a), TRUE).present
        BY <2>3, <4>3, AllocIs, Entries
      <4>5. QED
        BY <2>1, <4>3, <4>4
    <3>2. CASE ~ PDE(a, t, v).shared
      <4>1. b = a
        BY <3>2 DEF Freed2, a
      <4>2. QED
        BY <2>2, <2>3, <2>4, <4>1 DEF Kept
    <3>3. QED
      BY <3>1, <3>2
  <2>6. FreePage(s, t, v) = IF b.panic # "no" THEN b
                            ELSE [b EXCEPT !.tab[F][i].present = FALSE]
    BY <1>2 DEF FreePage, Freed2, Freed
  <2> HIDE DEF b
  <2>7. CASE b.panic # "no"
    BY <1>2, <2>3, <2>5, <2>6, <2>7 DEF Kept
  <2>8. CASE b.panic = "no"
    <3>1. b \in Mem /\ F \in Frame
      BY <2>5, <2>8, PresentType DEF Kept
    <3>2. b.tab[F][i] \in TabEntry
      BY <2>1, <3>1 DEF Mem
    <3>3. E \in TabEntry
      BY <3>2, Entries
    <3>4. FreePage(s, t, v) = SetEntry(b, F, i, E)
      BY <2>6, <2>8 DEF SetEntry
    <3> HIDE DEF E, F
    <3>5. FreePage(s, t, v) \in Mem /\ FreePage(s, t, v).panic = b.panic
      BY <2>1, <3>1, <3>3, <3>4, SetEntryIs
    <3>6. QED
      BY <1>2, <2>3, <2>4, <2>5, <2>8, <3>1, <3>4, <3>5 DEF Kept, E, F, a, b
  <2>9. QED
    BY <2>7, <2>8
<1>3. QED
  BY <1>1, <1>2

LEMMA FreeTableKeeps ==
  ASSUME NEW s \in Mem, NEW t \in Task, NEW d \in Dir
  PROVE  /\ Kept(s, FreeTable(s, t, d))
         /\ FreeTable(s, t, d).panic = s.panic
         /\ s.panic # "no" \/ ~ s.dir[t][d].present => FreeTable(s, t, d) = s
         /\ s.panic = "no" /\ s.dir[t][d].present =>
              s.dir[t][d].frame \in Frame /\ FreeTable(s, t, d) = Drop(ClearDir(s, t, d), s.dir[t][d].frame)
<1>1. CASE s.panic # "no" \/ ~ s.dir[t][d].present
  BY <1>1 DEF FreeTable, Kept
<1>2. CASE s.panic = "no" /\ s.dir[t][d].present
  <2> DEFINE f == s.dir[t][d].frame
  <2>1. f \in Frame
    <3>1. s.dir[t][d] \in DirEntry
      BY DEF Mem
    <3>2. QED
      BY <1>2, <3>1 DEF DirEntry
  <2> HIDE DEF f
  <2>2. FreeTable(s, t, d) = ClearDir(Drop(s, f), t, d)
    BY <1>2 DEF FreeTable, ClearDir, f
  <2>3. ClearDir(Drop(s, f), t, d) = Drop(ClearDir(s, t, d), f)
    <3>1. s.refs[f] \in Nat
      BY <2>1, Sizes DEF Mem
    <3>2. ClearDir(s, t, d).refs = s.refs /\ ClearDir(s, t, d).panic = s.panic
      BY ClearDirIs, ZenonT(60)
    <3>3. CASE s.refs[f] = 0
      BY <3>2, <3>3 DEF Drop
    <3>4. CASE s.refs[f] = 1
      <4>1. Drop(s, f) = [s EXCEPT !.refs[f] = 0, !.tab[f] = EmptyTable, !.data[f] = Junk]
        BY <1>2, <3>4 DEF Drop
      <4>2. Drop(ClearDir(s, t, d), f) =
              [ClearDir(s, t, d) EXCEPT !.refs[f] = 0, !.tab[f] = EmptyTable, !.data[f] = Junk]
        BY <1>2, <3>2, <3>4 DEF Drop
      <4>3. QED
        BY <4>1, <4>2 DEF ClearDir, Mem
    <3>5. CASE s.refs[f] # 0 /\ s.refs[f] # 1
      <4>1. Drop(s, f) = [s EXCEPT !.refs[f] = s.refs[f] - 1]
        BY <1>2, <3>5 DEF Drop
      <4>2. Drop(ClearDir(s, t, d), f) = [ClearDir(s, t, d) EXCEPT !.refs[f] = s.refs[f] - 1]
        BY <1>2, <3>2, <3>5 DEF Drop
      <4>3. QED
        BY <4>1, <4>2 DEF ClearDir, Mem
    <3>6. QED
      BY <3>3, <3>4, <3>5
  <2>4. ClearDir(s, t, d) \in Mem /\ ClearDir(s, t, d).panic = s.panic
    BY ClearDirIs
  <2>5. Drop(ClearDir(s, t, d), f) \in Mem /\ Drop(ClearDir(s, t, d), f).panic = s.panic
    BY <2>1, <2>4, DropIs
  <2>6. QED
    BY <1>2, <2>1, <2>2, <2>3, <2>5 DEF Kept, f
<1>3. QED
  BY <1>1, <1>2
-----------------------------------------------------------------------------
(* Loops over pages and page tables. *)

(* The states that a loop of n turns passes through: turn j applies F[j].  *)
LEMMA Turns ==
  ASSUME NEW x \in Mem, NEW n \in Nat, NEW F \in [1 .. n -> [Mem -> Mem]]
  PROVE  \E g \in [0 .. n -> Mem] : g[0] = x /\ \A j \in 1 .. n : g[j] = F[j][g[j - 1]]
<1> DEFINE Run(p, g) == g[0] = x /\ \A j \in 1 .. p : g[j] = F[j][g[j - 1]]
           S == {p \in 0 .. n : \E g \in [0 .. p -> Mem] : Run(p, g)}
<1>1. 0 \in S
  <2> DEFINE g == [j \in 0 .. 0 |-> x]
  <2>1. g \in [0 .. 0 -> Mem] /\ g[0] = x
    OBVIOUS
  <2>2. Run(0, g)
    BY <2>1
  <2> HIDE DEF g
  <2>3. \E k \in [0 .. 0 -> Mem] : Run(0, k)
    BY <2>1, <2>2
  <2>4. QED
    BY <2>3
<1>2. ASSUME NEW p \in 0 .. n - 1, p \in S
      PROVE  p + 1 \in S
  <2>1. PICK g \in [0 .. p -> Mem] : Run(p, g)
    BY <1>2
  <2> DEFINE h == [j \in 0 .. p + 1 |-> IF j = p + 1 THEN F[p + 1][g[p]] ELSE g[j]]
  <2>2. p + 1 \in 1 .. n /\ F[p + 1][g[p]] \in Mem
    OBVIOUS
  <2>3. h \in [0 .. p + 1 -> Mem]
    BY <2>2
  <2>4. \A j \in 0 .. p : h[j] = g[j]
    OBVIOUS
  <2>5. h[p + 1] = F[p + 1][g[p]] /\ h[p] = g[p]
    OBVIOUS
  <2> HIDE DEF h
  <2>6. \A j \in 1 .. p : h[j] = F[j][h[j - 1]]
    BY <2>1, <2>4
  <2>7. Run(p + 1, h)
    <3>1. \A j \in 1 .. p + 1 : j \in 1 .. p \/ (j = p + 1 /\ j - 1 = p)
      OBVIOUS
    <3>2. h[0] = x
      BY <2>1, <2>4
    <3>3. QED
      BY <2>5, <2>6, <3>1, <3>2
  <2>8. \E k \in [0 .. p + 1 -> Mem] : Run(p + 1, k)
    BY <2>3, <2>7
  <2>9. p + 1 \in 0 .. n
    BY <2>2
  <2>10. QED
    BY <2>8, <2>9
<1> HIDE DEF S
<1>3. n \in S
  <2>1. \A j \in 0 .. n : j \in S
    BY <1>1, <1>2, UpTo
  <2>2. QED
    BY <2>1
<1>4. QED
  BY <1>3 DEF S

LEMMA FreeUserPagesRun ==
  ASSUME NEW s \in Mem, NEW t \in Task
  PROVE  \E g \in [0 .. DIRS * SLOTS -> Mem] :
           /\ g[0] = s
           /\ \A n \in 1 .. DIRS * SLOTS : g[n] = FreePage(g[n - 1], t, n - 1)
           /\ FreeUserPages(s, t) = g[DIRS * SLOTS]
<1> DEFINE L == DIRS * SLOTS
           x == s
           Def(g) == g = [n \in 0 .. L |-> IF n = 0 THEN x ELSE FreePage(g[n - 1], t, n - 1)]
           after == CHOOSE g : Def(g)
           F == [n \in 1 .. L |-> [r \in Mem |-> FreePage(r, t, n - 1)]]
<1>1. L \in Nat /\ x \in Mem
  BY Sizes
<1>2. FreeUserPages(s, t) = after[L]
  BY DEF FreeUserPages
<1>3. ASSUME NEW n \in 1 .. L, NEW r \in Mem
      PROVE  FreePage(r, t, n - 1) \in Mem
  <2>1. n - 1 \in Page
    <3>1. DIRS * SLOTS \in Nat
      BY Sizes
    <3> DEFINE P == DIRS * SLOTS
    <3>2. P \in Nat /\ n \in 1 .. P /\ Page = 0 .. P - 1
      BY <1>3, <3>1 DEF Page
    <3> HIDE DEF P
    <3>3. QED
      BY <3>2
  <2>2. QED
    BY <2>1, FreePageKeeps DEF Kept
<1> HIDE DEF L, x
<1>4. \A n \in 1 .. L : \A r \in Mem : F[n][r] = FreePage(r, t, n - 1)
  OBVIOUS
<1>5. F \in [1 .. L -> [Mem -> Mem]]
  BY <1>3
<1> HIDE DEF F
<1>6. PICK g \in [0 .. L -> Mem] : g[0] = x /\ \A n \in 1 .. L : g[n] = F[n][g[n - 1]]
  BY <1>1, <1>5, Turns
<1>7. \A n \in 1 .. L : g[n] = FreePage(g[n - 1], t, n - 1)
  <2>1. \A n \in 1 .. L : g[n - 1] \in Mem
    BY <1>1
  <2>2. QED
    BY <1>4, <1>6, <2>1
<1>8. Def(g)
  <2>1. \A n \in 0 .. L : n = 0 \/ n \in 1 .. L
    BY <1>1
  <2>2. QED
    BY <1>6, <1>7, <2>1
<1>9. Def(after)
  BY <1>8
<1> HIDE DEF after
<1>10. after[0] = x /\ \A n \in 1 .. L : after[n] = FreePage(after[n - 1], t, n - 1)
  BY <1>1, <1>9
<1>11. \A n \in 0 .. L : after[n] \in Mem
  <2> DEFINE S == {n \in 0 .. L : after[n] \in Mem}
  <2>1. 0 \in S
    BY <1>1, <1>10
  <2>2. ASSUME NEW n \in 0 .. L - 1, n \in S
        PROVE  n + 1 \in S
    <3>1. n + 1 \in 1 .. L /\ (n + 1) - 1 = n /\ n + 1 \in 0 .. L
      BY <1>1
    <3>2. after[n] \in Mem
      BY <2>2
    <3>3. after[n + 1] = FreePage(after[n], t, n)
      BY <1>10, <3>1
    <3>4. FreePage(after[n], t, n) \in Mem
      <4> DEFINE k == n + 1
                 r == after[n]
      <4>1. k \in 1 .. L /\ r \in Mem /\ k - 1 = n
        BY <3>1, <3>2
      <4> HIDE DEF k, r
      <4>2. FreePage(r, t, k - 1) \in Mem
        BY <1>3, <4>1
      <4>3. QED
        BY <4>1, <4>2 DEF k, r
    <3>5. QED
      BY <3>1, <3>3, <3>4
  <2> HIDE DEF S
  <2>3. \A n \in 0 .. L : n \in S
    BY <1>1, <2>1, <2>2, UpTo
  <2>4. QED
    BY <2>3 DEF S
<1>12. after \in [0 .. L -> Mem]
  <2>1. after = [n \in 0 .. L |-> IF n = 0 THEN x ELSE FreePage(after[n - 1], t, n - 1)]
    BY <1>9
  <2>2. after = [n \in 0 .. L |-> after[n]]
    BY <2>1, <1>10
  <2>3. QED
    BY <1>11, <2>2
<1>13. QED
  BY <1>2, <1>10, <1>12 DEF L, x

LEMMA FreeUserPagesKeeps ==
  ASSUME NEW s \in Mem, NEW t \in Task
  PROVE  Kept(s, FreeUserPages(s, t))
<1>1. PICK g \in [0 .. DIRS * SLOTS -> Mem] :
        /\ g[0] = s
        /\ \A n \in 1 .. DIRS * SLOTS : g[n] = FreePage(g[n - 1], t, n - 1)
        /\ FreeUserPages(s, t) = g[DIRS * SLOTS]
  BY FreeUserPagesRun
<1> DEFINE L == DIRS * SLOTS
           S == {n \in 0 .. L : Kept(s, g[n])}
<1>2. L \in Nat
  BY Sizes
<1>3. 0 \in S
  BY <1>1, <1>2 DEF Kept
<1>4. ASSUME NEW n \in 0 .. L - 1, n \in S
      PROVE  n + 1 \in S
  <2>1. n + 1 \in 1 .. L /\ (n + 1) - 1 = n /\ n + 1 \in 0 .. L
    BY <1>2
  <2>2. g[n] \in Mem /\ Kept(s, g[n])
    BY <1>4 DEF Kept
  <2>3. n \in Page
    <3>1. DIRS * SLOTS \in Nat
      BY Sizes
    <3> DEFINE P == DIRS * SLOTS
    <3>2. P \in Nat /\ n \in 0 .. P - 1 /\ Page = 0 .. P - 1
      BY <1>4, <3>1 DEF Page
    <3> HIDE DEF P
    <3>3. QED
      BY <3>2
  <2>4. g[n + 1] = FreePage(g[n], t, n)
    BY <1>1, <2>1
  <2>5. Kept(g[n], g[n + 1])
    BY <2>2, <2>3, <2>4, FreePageKeeps
  <2>6. QED
    BY <2>1, <2>2, <2>5 DEF Kept
<1> HIDE DEF S
<1>5. \A n \in 0 .. L : n \in S
  BY <1>2, <1>3, <1>4, UpTo
<1>6. QED
  BY <1>1, <1>2, <1>5 DEF S

LEMMA FreeUserRun ==
  ASSUME NEW s \in Mem, NEW t \in Task
  PROVE  \E g \in [0 .. DIRS -> Mem] :
           /\ g[0] = FreeUserPages(s, t)
           /\ \A n \in 1 .. DIRS : g[n] = FreeTable(g[n - 1], t, n - 1)
           /\ FreeUser(s, t) = g[DIRS]
<1> DEFINE L == DIRS
           x == FreeUserPages(s, t)
           Def(g) == g = [n \in 0 .. L |-> IF n = 0 THEN x ELSE FreeTable(g[n - 1], t, n - 1)]
           after == CHOOSE g : Def(g)
           F == [n \in 1 .. L |-> [r \in Mem |-> FreeTable(r, t, n - 1)]]
<1>1. L \in Nat /\ x \in Mem
  BY Sizes, FreeUserPagesKeeps DEF Kept
<1>2. FreeUser(s, t) = after[L]
  BY DEF FreeUser
<1>3. ASSUME NEW n \in 1 .. L, NEW r \in Mem
      PROVE  FreeTable(r, t, n - 1) \in Mem
  <2>1. n - 1 \in Dir
    BY <1>3, Sizes DEF Dir
  <2>2. QED
    BY <2>1, FreeTableKeeps DEF Kept
<1> HIDE DEF L, x
<1>4. \A n \in 1 .. L : \A r \in Mem : F[n][r] = FreeTable(r, t, n - 1)
  OBVIOUS
<1>5. F \in [1 .. L -> [Mem -> Mem]]
  BY <1>3
<1> HIDE DEF F
<1>6. PICK g \in [0 .. L -> Mem] : g[0] = x /\ \A n \in 1 .. L : g[n] = F[n][g[n - 1]]
  BY <1>1, <1>5, Turns
<1>7. \A n \in 1 .. L : g[n] = FreeTable(g[n - 1], t, n - 1)
  <2>1. \A n \in 1 .. L : g[n - 1] \in Mem
    BY <1>1
  <2>2. QED
    BY <1>4, <1>6, <2>1
<1>8. Def(g)
  <2>1. \A n \in 0 .. L : n = 0 \/ n \in 1 .. L
    BY <1>1
  <2>2. QED
    BY <1>6, <1>7, <2>1
<1>9. Def(after)
  BY <1>8
<1> HIDE DEF after
<1>10. after[0] = x /\ \A n \in 1 .. L : after[n] = FreeTable(after[n - 1], t, n - 1)
  BY <1>1, <1>9
<1>11. \A n \in 0 .. L : after[n] \in Mem
  <2> DEFINE S == {n \in 0 .. L : after[n] \in Mem}
  <2>1. 0 \in S
    BY <1>1, <1>10
  <2>2. ASSUME NEW n \in 0 .. L - 1, n \in S
        PROVE  n + 1 \in S
    <3>1. n + 1 \in 1 .. L /\ (n + 1) - 1 = n /\ n + 1 \in 0 .. L
      BY <1>1
    <3>2. after[n] \in Mem
      BY <2>2
    <3>3. after[n + 1] = FreeTable(after[n], t, n)
      BY <1>10, <3>1
    <3>4. FreeTable(after[n], t, n) \in Mem
      <4> DEFINE k == n + 1
                 r == after[n]
      <4>1. k \in 1 .. L /\ r \in Mem /\ k - 1 = n
        BY <3>1, <3>2
      <4> HIDE DEF k, r
      <4>2. FreeTable(r, t, k - 1) \in Mem
        BY <1>3, <4>1
      <4>3. QED
        BY <4>1, <4>2 DEF k, r
    <3>5. QED
      BY <3>1, <3>3, <3>4
  <2> HIDE DEF S
  <2>3. \A n \in 0 .. L : n \in S
    BY <1>1, <2>1, <2>2, UpTo
  <2>4. QED
    BY <2>3 DEF S
<1>12. after \in [0 .. L -> Mem]
  <2>1. after = [n \in 0 .. L |-> IF n = 0 THEN x ELSE FreeTable(after[n - 1], t, n - 1)]
    BY <1>9
  <2>2. after = [n \in 0 .. L |-> after[n]]
    BY <2>1, <1>10
  <2>3. QED
    BY <1>11, <2>2
<1>13. QED
  BY <1>2, <1>10, <1>12 DEF L, x

LEMMA FreeUserKeeps ==
  ASSUME NEW s \in Mem, NEW t \in Task
  PROVE  Kept(s, FreeUser(s, t))
<1>1. PICK g \in [0 .. DIRS -> Mem] :
        /\ g[0] = FreeUserPages(s, t)
        /\ \A n \in 1 .. DIRS : g[n] = FreeTable(g[n - 1], t, n - 1)
        /\ FreeUser(s, t) = g[DIRS]
  BY FreeUserRun
<1> DEFINE L == DIRS
           S == {n \in 0 .. L : Kept(s, g[n])}
<1>2. L \in Nat
  BY Sizes
<1>3. 0 \in S
  BY <1>1, <1>2, FreeUserPagesKeeps DEF Kept
<1>4. ASSUME NEW n \in 0 .. L - 1, n \in S
      PROVE  n + 1 \in S
  <2>1. n + 1 \in 1 .. L /\ (n + 1) - 1 = n /\ n + 1 \in 0 .. L
    BY <1>2
  <2>2. g[n] \in Mem /\ Kept(s, g[n])
    BY <1>4 DEF Kept
  <2>3. n \in Dir
    BY <1>2 DEF Dir
  <2>4. g[n + 1] = FreeTable(g[n], t, n)
    BY <1>1, <2>1
  <2>5. Kept(g[n], g[n + 1])
    BY <2>2, <2>3, <2>4, FreeTableKeeps
  <2>6. QED
    BY <2>1, <2>2, <2>5 DEF Kept
<1> HIDE DEF S
<1>5. \A n \in 0 .. L : n \in S
  BY <1>2, <1>3, <1>4, UpTo
<1>6. QED
  BY <1>1, <1>2, <1>5 DEF S

(* alloc_pages(), one page of it. *)
LEMMA AllocPageKeeps ==
  ASSUME NEW s \in Mem, NEW t \in Task, NEW v \in Page, NEW rw \in BOOLEAN
  PROVE  /\ Kept(s, AllocPage(s, t, v, rw))
         /\ s.panic # "no" => AllocPage(s, t, v, rw).panic # "no"
         /\ AllocPage(s, t, v, rw).panic = "no" /\ ~ Present(s, t, v) =>
              /\ Alloc(s).panic = "no" /\ NewFrame(s) \in Frame
              /\ SetData(Alloc(s), NewFrame(s), FromFile) \in Mem
              /\ AllocPage(s, t, v, rw) =
                   Map(SetData(Alloc(s), NewFrame(s), FromFile), t, v, Entry(NewFrame(s), rw))
<1>1. CASE s.panic # "no" \/ Present(s, t, v)
  <2>1. AllocPage(s, t, v, rw) = s
    BY <1>1 DEF AllocPage
  <2>2. QED
    BY <1>1, <2>1 DEF Kept
<1>2. CASE s.panic = "no" /\ ~ Present(s, t, v) /\ Alloc(s).panic # "no"
  <2>1. AllocPage(s, t, v, rw) = Alloc(s)
    BY <1>2 DEF AllocPage
  <2>2. QED
    BY <1>2, <2>1, AllocIs DEF Kept
<1>3. CASE s.panic = "no" /\ ~ Present(s, t, v) /\ Alloc(s).panic = "no"
  <2>1. Alloc(s) \in Mem /\ NewFrame(s) \in Frame /\ FromFile \in Content
    BY <1>3, AllocIs DEF Content
  <2>2. AllocPage(s, t, v, rw) =
          Map(SetData(Alloc(s), NewFrame(s), FromFile), t, v, Entry(NewFrame(s), rw))
    BY <1>3 DEF AllocPage, SetData
  <2>3. /\ SetData(Alloc(s), NewFrame(s), FromFile) \in Mem
        /\ SetData(Alloc(s), NewFrame(s), FromFile).panic = Alloc(s).panic
    BY <2>1, SetDataIs
  <2>4. Entry(NewFrame(s), rw) \in TabEntry
    BY <2>1, Entries
  <2> DEFINE N == SetData(Alloc(s), NewFrame(s), FromFile)
             E == Entry(NewFrame(s), rw)
  <2>5. N \in Mem /\ E \in TabEntry /\ N.panic = "no"
    BY <1>3, <2>3, <2>4
  <2> HIDE DEF N, E
  <2>6. Kept(N, Map(N, t, v, E))
    BY <2>5, MapKeeps
  <2>7. Kept(s, Map(N, t, v, E))
    BY <2>5, <2>6 DEF Kept
  <2>8. QED
    BY <1>3, <2>1, <2>2, <2>3, <2>7 DEF N, E
<1>4. QED
  BY <1>1, <1>2, <1>3

(* Pages are numbers without a gap. *)
LEMMA PageRange ==
  ASSUME NEW first \in Page, NEW last \in Page, first <= last
  PROVE  /\ first \in Nat /\ last \in Nat /\ last - first + 1 \in Nat
         /\ \A v : v \in Int /\ first <= v /\ v <= last => v \in Page
         /\ \A n \in 1 .. last - first + 1 : first + n - 1 \in Page
<1>1. DIRS * SLOTS \in Nat
  BY Sizes
<1> DEFINE P == DIRS * SLOTS
<1>2. P \in Nat /\ Page = 0 .. P - 1
  BY <1>1 DEF Page
<1> HIDE DEF P
<1>3. QED
  BY <1>2

LEMMA AllocPagesRun ==
  ASSUME NEW s \in Mem, NEW t \in Task, NEW rw \in BOOLEAN,
         NEW first \in Page, NEW last \in Page, first <= last
  PROVE  \E g \in [0 .. last - first + 1 -> Mem] :
           /\ g[0] = s
           /\ \A n \in 1 .. last - first + 1 : g[n] = AllocPage(g[n - 1], t, first + n - 1, rw)
           /\ AllocPages(s, t, first, last, rw) = g[last - first + 1]
<1> DEFINE L == last - first + 1
           x == s
           Def(g) == g = [n \in 0 .. L |-> IF n = 0 THEN x ELSE AllocPage(g[n - 1], t, first + n - 1, rw)]
           after == CHOOSE g : Def(g)
           F == [n \in 1 .. L |-> [r \in Mem |-> AllocPage(r, t, first + n - 1, rw)]]
<1>1. L \in Nat /\ x \in Mem
  BY PageRange
<1>2. AllocPages(s, t, first, last, rw) = after[L]
  BY DEF AllocPages
<1>3. ASSUME NEW n \in 1 .. L, NEW r \in Mem
      PROVE  AllocPage(r, t, first + n - 1, rw) \in Mem
  <2>1. first + n - 1 \in Page
    BY <1>3, PageRange
  <2>2. QED
    BY <2>1, AllocPageKeeps DEF Kept
<1> HIDE DEF L, x
<1>4. \A n \in 1 .. L : \A r \in Mem : F[n][r] = AllocPage(r, t, first + n - 1, rw)
  OBVIOUS
<1>5. F \in [1 .. L -> [Mem -> Mem]]
  BY <1>3
<1> HIDE DEF F
<1>6. PICK g \in [0 .. L -> Mem] : g[0] = x /\ \A n \in 1 .. L : g[n] = F[n][g[n - 1]]
  BY <1>1, <1>5, Turns
<1>7. \A n \in 1 .. L : g[n] = AllocPage(g[n - 1], t, first + n - 1, rw)
  <2>1. \A n \in 1 .. L : g[n - 1] \in Mem
    BY <1>1
  <2>2. QED
    BY <1>4, <1>6, <2>1
<1>8. Def(g)
  <2>1. \A n \in 0 .. L : n = 0 \/ n \in 1 .. L
    BY <1>1
  <2>2. QED
    BY <1>6, <1>7, <2>1
<1>9. Def(after)
  BY <1>8
<1> HIDE DEF after
<1>10. after[0] = x /\ \A n \in 1 .. L : after[n] = AllocPage(after[n - 1], t, first + n - 1, rw)
  BY <1>1, <1>9
<1>11. \A n \in 0 .. L : after[n] \in Mem
  <2> DEFINE S == {n \in 0 .. L : after[n] \in Mem}
  <2>1. 0 \in S
    BY <1>1, <1>10
  <2>2. ASSUME NEW n \in 0 .. L - 1, n \in S
        PROVE  n + 1 \in S
    <3>1. n + 1 \in 1 .. L /\ (n + 1) - 1 = n /\ n + 1 \in 0 .. L
      BY <1>1
    <3>2. after[n] \in Mem
      BY <2>2
    <3>3. after[n + 1] = AllocPage(after[n], t, first + (n + 1) - 1, rw)
      BY <1>10, <3>1
    <3>4. AllocPage(after[n], t, first + (n + 1) - 1, rw) \in Mem
      <4> DEFINE k == n + 1
                 r == after[n]
      <4>1. k \in 1 .. L /\ r \in Mem /\ k - 1 = n
        BY <3>1, <3>2
      <4> HIDE DEF k, r
      <4>2. AllocPage(r, t, first + k - 1, rw) \in Mem
        BY <1>3, <4>1
      <4>3. QED
        BY <4>1, <4>2 DEF k, r
    <3>5. QED
      BY <3>1, <3>3, <3>4
  <2> HIDE DEF S
  <2>3. \A n \in 0 .. L : n \in S
    BY <1>1, <2>1, <2>2, UpTo
  <2>4. QED
    BY <2>3 DEF S
<1>12. after \in [0 .. L -> Mem]
  <2>1. after = [n \in 0 .. L |-> IF n = 0 THEN x ELSE AllocPage(after[n - 1], t, first + n - 1, rw)]
    BY <1>9
  <2>2. after = [n \in 0 .. L |-> after[n]]
    BY <2>1, <1>10
  <2>3. QED
    BY <1>11, <2>2
<1>13. QED
  BY <1>2, <1>10, <1>12 DEF L, x

LEMMA AllocPagesKeeps ==
  ASSUME NEW s \in Mem, NEW t \in Task, NEW rw \in BOOLEAN,
         NEW first \in Page, NEW last \in Page, first <= last
  PROVE  Kept(s, AllocPages(s, t, first, last, rw))
<1>1. PICK g \in [0 .. last - first + 1 -> Mem] :
        /\ g[0] = s
        /\ \A n \in 1 .. last - first + 1 : g[n] = AllocPage(g[n - 1], t, first + n - 1, rw)
        /\ AllocPages(s, t, first, last, rw) = g[last - first + 1]
  BY AllocPagesRun
<1> DEFINE L == last - first + 1
           S == {n \in 0 .. L : Kept(s, g[n])}
<1>2. L \in Nat
  BY PageRange
<1>3. 0 \in S
  BY <1>1, <1>2 DEF Kept
<1>4. ASSUME NEW n \in 0 .. L - 1, n \in S
      PROVE  n + 1 \in S
  <2>1. n + 1 \in 1 .. L /\ (n + 1) - 1 = n /\ n + 1 \in 0 .. L
    BY <1>2
  <2>2. g[n] \in Mem /\ Kept(s, g[n])
    BY <1>4 DEF Kept
  <2>3. first + (n + 1) - 1 \in Page
    BY <2>1, PageRange
  <2>4. g[n + 1] = AllocPage(g[n], t, first + (n + 1) - 1, rw)
    BY <1>1, <2>1
  <2>5. Kept(g[n], g[n + 1])
    BY <2>2, <2>3, <2>4, AllocPageKeeps
  <2>6. QED
    BY <2>1, <2>2, <2>5 DEF Kept
<1> HIDE DEF S
<1>5. \A n \in 0 .. L : n \in S
  BY <1>2, <1>3, <1>4, UpTo
<1>6. QED
  BY <1>1, <1>2, <1>5 DEF S
-----------------------------------------------------------------------------
(* Handlers keep memories well formed.                                     *)

LEMMA LoadedKeeps ==
  ASSUME NEW s \in Mem, NEW t \in Task, NEW image \in Images
  PROVE  LET a == FreeUser(s, t)
             b == IF Alloc(a).panic # "no" THEN Alloc(a)
                  ELSE Map(Alloc(a), t, Stack, Entry(NewFrame(a), TRUE))
             c == AllocPages(b, t, 0, image.code, FALSE)
         IN  /\ a \in Mem /\ b \in Mem /\ c \in Mem
             /\ Kept(s, Loaded(s, t, image))
             /\ Loaded(s, t, image) = AllocPages(c, t, image.code + 1, image.data, TRUE)
             /\ 0 \in Page /\ image.code \in Page /\ 0 <= image.code
             /\ image.code + 1 \in Page /\ image.data \in Page /\ image.code + 1 <= image.data
             /\ image.data < Stack
<1> DEFINE A == FreeUser(s, t)
           B == IF Alloc(A).panic # "no" THEN Alloc(A)
                ELSE Map(Alloc(A), t, Stack, Entry(NewFrame(A), TRUE))
           C == AllocPages(B, t, 0, image.code, FALSE)
           R == AllocPages(C, t, image.code + 1, image.data, TRUE)
<1>1. /\ 0 \in Page /\ image.code \in Page /\ 0 <= image.code
      /\ image.code + 1 \in Page /\ image.data \in Page /\ image.code + 1 <= image.data
      /\ image.data < Stack
  <2> DEFINE P == DIRS * SLOTS
             x == image.code
             y == image.data
  <2>1. P \in Nat /\ x \in Nat /\ y \in Nat /\ x < y /\ y < P - 1
    BY Sizes, AddrSpaceAssumption
  <2>2. Page = 0 .. P - 1 /\ Stack = P - 1
    BY DEF Page, Stack
  <2> HIDE DEF P, x, y
  <2>3. 0 \in Page /\ x \in Page /\ 0 <= x /\ x + 1 \in Page /\ y \in Page /\ x + 1 <= y /\ y < Stack
    BY <2>1, <2>2
  <2>4. QED
    BY <2>3 DEF x, y
<1>2. Loaded(s, t, image) = R
  BY DEF Loaded
<1>3. Kept(s, A)
  BY FreeUserKeeps
<1> HIDE DEF A
<1>4. Kept(A, B)
  <2>1. A \in Mem
    BY <1>3 DEF Kept
  <2>2. CASE Alloc(A).panic # "no"
    BY <2>1, <2>2, AllocIs DEF Kept
  <2>3. CASE Alloc(A).panic = "no"
    <3>1. Alloc(A) \in Mem /\ NewFrame(A) \in Frame
      BY <2>1, <2>3, AllocIs
    <3>2. Entry(NewFrame(A), TRUE) \in TabEntry /\ Stack \in Page
      BY <3>1, Entries, Sizes
    <3> DEFINE D == Alloc(A)
               E == Entry(NewFrame(A), TRUE)
    <3>3. D \in Mem /\ E \in TabEntry /\ D.panic = "no" /\ B = Map(D, t, Stack, E)
      BY <2>3, <3>1, <3>2
    <3> HIDE DEF D, E, B
    <3>4. Kept(D, B)
      BY <3>2, <3>3, MapKeeps
    <3>5. QED
      BY <3>3, <3>4 DEF Kept
  <2>4. QED
    BY <2>2, <2>3
<1> HIDE DEF B
<1>5. Kept(B, C)
  BY <1>1, <1>4, AllocPagesKeeps DEF Kept
<1> HIDE DEF C
<1>6. Kept(C, R)
  BY <1>1, <1>5, AllocPagesKeeps DEF Kept
<1> HIDE DEF R
<1>7. Kept(s, R) /\ A \in Mem /\ B \in Mem /\ C \in Mem
  BY <1>3, <1>4, <1>5, <1>6 DEF Kept
<1>8. QED
  BY <1>1, <1>2, <1>7 DEF A, B, C, R

(* pf_ro_violation(), step by step. *)
Unshared1(s, t, v) == IF PDE(s, t, v).cow THEN CopyTable(s, t, DirOf(v)) ELSE s
Unshared2(s, t, v) ==
  LET a == Unshared1(s, t, v)
      F == PDE(a, t, v).frame
  IN  IF PDE(s, t, v).cow /\ a.panic = "no" THEN SetTab(a, F, Protected(a.tab[F])) ELSE a
Unshared3(s, t, v) ==
  LET b == Unshared2(s, t, v)
  IN  SetData(Alloc(b), NewFrame(b), Alloc(b).data[PTE(s, t, v).frame])
Unshared4(s, t, v) ==
  Map(Unshared3(s, t, v), t, v, Entry(NewFrame(Unshared2(s, t, v)), TRUE))

LEMMA ProtectedType ==
  ASSUME NEW T \in [Slot -> TabEntry]
  PROVE  /\ Protected(T) \in [Slot -> TabEntry]
         /\ \A i \in Slot : /\ Protected(T)[i].frame = T[i].frame
                            /\ Protected(T)[i].present = T[i].present
                            /\ ~ Protected(T)[i].rw /\ Protected(T)[i].cow
<1>1. \A e \in TabEntry : [e EXCEPT !.rw = FALSE, !.cow = TRUE] \in TabEntry
  BY DEF TabEntry
<1>2. \A e \in TabEntry : LET g == [e EXCEPT !.rw = FALSE, !.cow = TRUE]
                          IN  g.frame = e.frame /\ g.present = e.present /\ ~ g.rw /\ g.cow
  BY DEF TabEntry
<1>3. QED
  BY <1>1, <1>2 DEF Protected

LEMMA UnsharedKeeps ==
  ASSUME NEW s \in Mem, NEW t \in Task, NEW v \in Page, s.panic = "no", Present(s, t, v)
  PROVE  LET r == Unshared(s, t, v)
             b == Unshared2(s, t, v)
         IN  /\ r \in Mem
             /\ r.panic = "read_only" => ~ (PDE(s, t, v).cow \/ PTE(s, t, v).cow)
             /\ r.panic = "no" =>
                  /\ PDE(s, t, v).cow \/ PTE(s, t, v).cow
                  /\ Unshared1(s, t, v) \in Mem /\ Unshared1(s, t, v).panic = "no"
                  /\ b \in Mem /\ b.panic = "no" /\ Alloc(b).panic = "no" /\ NewFrame(b) \in Frame
                  /\ Unshared3(s, t, v) \in Mem /\ Unshared3(s, t, v).panic = "no"
                  /\ Unshared4(s, t, v) \in Mem /\ Unshared4(s, t, v).panic = "no"
                  /\ r = Drop(Unshared4(s, t, v), PTE(s, t, v).frame)
<1> DEFINE D == DirOf(v)
           A == Unshared1(s, t, v)
           B == Unshared2(s, t, v)
           C == Alloc(B)
           M == Unshared3(s, t, v)
           R == Unshared4(s, t, v)
           old == PTE(s, t, v).frame
<1>1. D \in Dir /\ (\A q : PDE(q, t, v) = q.dir[t][D]) /\ old \in Frame /\ s.dir[t][D].present
  BY PagePlace, PresentType DEF PDE, Present
<1>2. CASE ~ (PDE(s, t, v).cow \/ PTE(s, t, v).cow)
  <2>1. Unshared(s, t, v) = Panic(s, "read_only")
    BY <1>2 DEF Unshared
  <2>2. QED
    BY <1>2, <2>1, PanicType
<1>3. CASE PDE(s, t, v).cow \/ PTE(s, t, v).cow
  <2>1. Unshared(s, t, v) = IF C.panic # "no" THEN C ELSE Drop(R, old)
    BY <1>3 DEF Unshared, Unshared1, Unshared2, Unshared3, Unshared4, SetTab, SetData, PageCopied, PDE
  <2>2. Kept(s, A) /\ (A.panic = "no" => A.dir[t][D].present /\ A.dir[t][D].frame \in Frame)
    <3>1. CASE PDE(s, t, v).cow
      <4>1. A = CopyTable(s, t, D)
        BY <3>1 DEF Unshared1
      <4> HIDE DEF A, D, B, C, M, R, old
      <4>0. D \in Dir /\ s.dir[t][D].present
        BY <1>1
      <4>2. /\ Kept(s, A)
            /\ A.panic = "no" => Alloc(s).panic = "no" /\ A.dir[t][D] = Table(NewFrame(s), TRUE)
        BY <4>0, <4>1, CopyTableKeeps
      <4>3. Alloc(s).panic = "no" =>
              Table(NewFrame(s), TRUE).present /\ Table(NewFrame(s), TRUE).frame \in Frame
        BY AllocIs, Entries
      <4>4. QED
        BY <4>2, <4>3
    <3>2. CASE ~ PDE(s, t, v).cow
      <4>1. A = s
        BY <3>2 DEF Unshared1
      <4>2. s.dir[t][D].frame \in Frame
        BY <1>1, PresentType DEF Present
      <4>3. QED
        BY <1>1, <4>1, <4>2 DEF Kept
    <3>3. QED
      BY <3>1, <3>2
  <2>3. A \in Mem
    BY <2>2 DEF Kept
  <2> HIDE DEF A
  <2>4. Kept(A, B) /\ B.panic = A.panic
    <3>1. CASE PDE(s, t, v).cow /\ A.panic = "no"
      <4> DEFINE F == A.dir[t][D].frame
                 T == Protected(A.tab[F])
      <4>1. B = SetTab(A, F, T)
        BY <1>1, <3>1 DEF Unshared2, A
      <4>2. F \in Frame
        BY <2>2, <3>1
      <4>3. A.tab[F] \in [Slot -> TabEntry]
        BY <2>3, <4>2 DEF Mem
      <4>4. T \in [Slot -> TabEntry]
        BY <4>3, ProtectedType
      <4> HIDE DEF T, F
      <4>5. SetTab(A, F, T) \in Mem /\ SetTab(A, F, T).panic = A.panic
        BY <2>3, <4>2, <4>4, SetTabIs
      <4>6. QED
        BY <4>1, <4>5 DEF Kept
    <3>2. CASE ~ (PDE(s, t, v).cow /\ A.panic = "no")
      <4>1. B = A
        BY <3>2 DEF Unshared2, A
      <4>2. QED
        BY <2>3, <4>1 DEF Kept
    <3>3. QED
      BY <3>1, <3>2
  <2>5. B \in Mem
    BY <2>4 DEF Kept
  <2> HIDE DEF B
  <2>6. /\ C \in Mem /\ (C.panic = "read_only" => B.panic = "read_only")
        /\ C.panic = "no" => B.panic = "no" /\ NewFrame(B) \in Frame
    BY <2>5, AllocIs
  <2>7. CASE C.panic # "no"
    <3>1. Unshared(s, t, v) = C
      BY <2>1, <2>7
    <3>2. C.panic # "read_only"
      BY <2>2, <2>4, <2>6 DEF Kept
    <3>3. QED
      BY <2>6, <2>7, <3>1, <3>2
  <2>8. CASE C.panic = "no"
    <3> DEFINE X == C.data[old]
               N == NewFrame(B)
    <3>1. M = SetData(C, N, X)
      BY DEF Unshared3, B
    <3>2. X \in Content /\ N \in Frame /\ C \in Mem
      BY <1>1, <2>6, <2>8 DEF Mem
    <3> HIDE DEF M, X, N, C
    <3>3. M \in Mem /\ M.panic = C.panic
      BY <3>1, <3>2, SetDataIs
    <3> DEFINE E == Entry(NewFrame(B), TRUE)
    <3>4. E \in TabEntry
      BY <2>6, <2>8, Entries
    <3>5. R = Map(M, t, v, E)
      BY DEF Unshared4, M, B
    <3> HIDE DEF E, R
    <3>6. Kept(M, R) /\ (R.panic = "no" => M.panic = "no")
      BY <3>3, <3>4, <3>5, MapKeeps
    <3>7. R \in Mem /\ R.panic # "read_only"
      BY <2>8, <3>3, <3>6 DEF Kept
    <3> DEFINE Z == Drop(R, old)
    <3>8. Z \in Mem /\ Z.panic = R.panic
      BY <1>1, <3>7, DropIs
    <3>9. Unshared(s, t, v) = Z
      BY <2>1, <2>8
    <3> HIDE DEF Z
    <3>10. Unshared(s, t, v) \in Mem /\ Unshared(s, t, v).panic = R.panic
      BY <3>8, <3>9
    <3>11. QED
      BY <1>3, <2>3, <2>4, <2>5, <2>6, <2>8, <3>3, <3>7, <3>9, <3>10 DEF A, B, C, M, R, Z
  <2>9. QED
    BY <2>7, <2>8
<1>4. QED
  BY <1>2, <1>3

(* pf_non_present() *)
LEMMA AppearedKeeps ==
  ASSUME NEW s \in Mem, NEW t \in Task, NEW v \in Page
  PROVE  /\ Kept(s, Appeared(s, t, v))
         /\ PDE(s, t, v).present /\ Appeared(s, t, v).panic = "no" =>
              /\ Alloc(s).panic = "no" /\ Alloc(s) \in Mem
              /\ Entry(NewFrame(s), TRUE) \in TabEntry
              /\ Appeared(s, t, v) = Map(Alloc(s), t, v, Entry(NewFrame(s), TRUE))
<1> DEFINE A == Alloc(s)
           D == DirOf(v)
           B == IF A.panic # "no" \/ PDE(A, t, v).present THEN A ELSE AddTable(A, t, D, FALSE)
           w == IF PDE(A, t, v).present THEN v ELSE D * SLOTS
           E == Entry(NewFrame(s), TRUE)
           R == IF B.panic # "no" THEN B ELSE Map(B, t, w, E)
<1>1. Appeared(s, t, v) = R
  BY DEF Appeared
<1>2. Kept(s, A) /\ A \in Mem /\ (A.panic = "no" => E \in TabEntry /\ A.dir = s.dir)
  BY AllocIs, Entries DEF Kept
<1>3. D \in Dir /\ D * SLOTS \in Page
  BY PagePlace
<1>4. w \in Page
  BY <1>3
<1> HIDE DEF A, D, E, w
<1> HIDE DEF R
<1>5. Kept(A, B) /\ (A.panic # "no" => B.panic # "no")
  <2>1. CASE A.panic # "no" \/ PDE(A, t, v).present
    BY <1>2, <2>1 DEF Kept
  <2>2. CASE ~ (A.panic # "no" \/ PDE(A, t, v).present)
    <3>1. B = AddTable(A, t, D, FALSE) /\ D \in Dir /\ FALSE \in BOOLEAN
      BY <1>3, <2>2
    <3> HIDE DEF B
    <3>2. Kept(A, B)
      BY <1>2, <3>1, AddTableKeeps
    <3>3. QED
      BY <2>2, <3>2
  <2>3. QED
    BY <2>1, <2>2
<1> HIDE DEF B
<1> USE DEF R
<1>6. Kept(B, R)
  <2>1. CASE B.panic # "no"
    BY <1>5, <2>1 DEF Kept
  <2>2. CASE B.panic = "no"
    <3>1. B \in Mem /\ E \in TabEntry /\ R = Map(B, t, w, E)
      BY <1>2, <1>5, <2>2 DEF Kept
    <3> HIDE DEF R
    <3>2. QED
      BY <1>4, <3>1, MapKeeps
  <2>3. QED
    BY <2>1, <2>2
<1>7. Kept(s, R)
  BY <1>2, <1>5, <1>6 DEF Kept
<1>8. ASSUME PDE(s, t, v).present, R.panic = "no"
      PROVE  A.panic = "no" /\ A \in Mem /\ E \in TabEntry /\ R = Map(A, t, v, E)
  <2>1. A.panic = "no" /\ A \in Mem /\ E \in TabEntry
    BY <1>2, <1>5, <1>8
  <2>2. PDE(A, t, v).present
    BY <1>2, <1>8, <2>1 DEF PDE
  <2>3. B = A /\ w = v
    BY <2>1, <2>2 DEF B, w
  <2>4. QED
    BY <2>1, <2>3
<1> HIDE DEF R
<1>9. QED
  BY <1>1, <1>7, <1>8 DEF A, E

LEMMA FinitePages ==
  /\ IsFiniteSet(Page) /\ IsFiniteSet(Dir) /\ IsFiniteSet(Task)
<1>1. DIRS * SLOTS - 1 \in Int /\ DIRS - 1 \in Int /\ TASKS - 1 \in Int
  BY Sizes
<1>2. QED
  BY <1>1, FS_Interval DEF Page, Dir, Task

LEMMA NewRefsType ==
  ASSUME NEW s, NEW t, NEW f
  PROVE  /\ NewRefs(s, t, f) =
              Cardinality({v \in Page : PDE(s, t, v).present /\ PTE(s, t, v).frame = f})
                + Cardinality({d \in Dir : s.dir[t][d].frame = f})
         /\ NewRefs(s, t, f) \in Nat
<1> DEFINE P == {v \in Page : PDE(s, t, v).present /\ PTE(s, t, v).frame = f}
           D == {d \in Dir : s.dir[t][d].frame = f}
<1>1. NewRefs(s, t, f) = Cardinality(P) + Cardinality(D)
  BY DEF NewRefs, Quantify
<1>2. P \subseteq Page /\ D \subseteq Dir
  OBVIOUS
<1> HIDE DEF P, D
<1>3. IsFiniteSet(P) /\ IsFiniteSet(D)
  BY <1>2, FinitePages, FS_Subset
<1>4. Cardinality(P) \in Nat /\ Cardinality(D) \in Nat
  BY <1>3, FS_CardinalityType
<1>5. QED
  BY <1>1, <1>4 DEF P, D

LEMMA MarkedType ==
  ASSUME NEW T \in [Dir -> DirEntry]
  PROVE  /\ Marked(T) \in [Dir -> DirEntry]
         /\ \A d \in Dir : /\ Marked(T)[d].frame = T[d].frame
                           /\ Marked(T)[d].present = T[d].present
                           /\ Marked(T)[d].user = T[d].user
                           /\ ~ Marked(T)[d].rw /\ Marked(T)[d].cow /\ Marked(T)[d].shared
<1>1. \A e \in DirEntry : [e EXCEPT !.rw = FALSE, !.cow = TRUE, !.shared = TRUE] \in DirEntry
  BY DEF DirEntry
<1>2. \A e \in DirEntry : LET g == [e EXCEPT !.rw = FALSE, !.cow = TRUE, !.shared = TRUE]
                          IN  /\ g.frame = e.frame /\ g.present = e.present /\ g.user = e.user
                              /\ ~ g.rw /\ g.cow /\ g.shared
  BY DEF DirEntry
<1>3. QED
  BY <1>1, <1>2 DEF Marked

(* fork_mem() *)
LEMMA CopiedKeeps ==
  ASSUME NEW s \in Mem, NEW t \in Task, NEW c \in Task
  PROVE  LET r == Copied(s, t, c)
         IN  /\ r \in Mem /\ r.panic = s.panic /\ r.tab = s.tab /\ r.data = s.data
             /\ r.dir[t] = Marked(s.dir[t]) /\ r.dir[c] = Marked(s.dir[t])
             /\ \A u \in Task : u # t /\ u # c => r.dir[u] = s.dir[u]
             /\ \A f \in Frame : r.refs[f] = Count(s, f, NewRefs(s, t, f))
<1> DEFINE M == Marked(s.dir[t])
           N == [f \in Frame |-> Count(s, f, NewRefs(s, t, f))]
           D == [s.dir EXCEPT ![t] = M, ![c] = M]
           R == [s EXCEPT !.dir[t] = M, !.dir[c] = M, !.refs = N]
<1>1. M \in [Dir -> DirEntry]
  <2>1. s.dir[t] \in [Dir -> DirEntry]
    BY DEF Mem
  <2>2. QED
    BY <2>1, MarkedType
<1>2. N \in [Frame -> 0 .. UINT8 - 1]
  <2>1. ASSUME NEW f \in Frame
        PROVE  Count(s, f, NewRefs(s, t, f)) \in 0 .. UINT8 - 1
    <3> DEFINE a == s.refs[f] + NewRefs(s, t, f)
               b == UINT8
    <3>1. s.refs[f] \in Nat
      BY Sizes DEF Mem
    <3>2. a \in Nat
      <4> DEFINE n == NewRefs(s, t, f)
      <4>1. n \in Nat
        BY NewRefsType
      <4> HIDE DEF n
      <4>2. s.refs[f] + n \in Nat
        BY <3>1, <4>1
      <4>3. QED
        BY <4>2 DEF n
    <3>3. b \in Nat \ {0}
      BY Sizes
    <3> HIDE DEF a, b
    <3>4. a % b \in 0 .. b - 1
      BY <3>2, <3>3, Division
    <3>5. QED
      BY <3>4 DEF a, b, Count
  <2>2. QED
    BY <2>1
<1>3. Copied(s, t, c) = R
  BY DEF Copied
<1>4. \A f \in Frame : N[f] = Count(s, f, NewRefs(s, t, f))
  OBVIOUS
<1> HIDE DEF M, N
<1>5. R.dir = D /\ R.refs = N /\ R.tab = s.tab /\ R.data = s.data /\ R.panic = s.panic
  BY DEF Mem
<1>6. D \in [Task -> [Dir -> DirEntry]] /\ D[t] = M /\ D[c] = M
      /\ \A u \in Task : u # t /\ u # c => D[u] = s.dir[u]
  BY <1>1 DEF Mem
<1>7. R \in Mem
  BY <1>2, <1>6 DEF Mem
<1> HIDE DEF R, D
<1>8. QED
  BY <1>3, <1>4, <1>5, <1>6, <1>7 DEF M
-----------------------------------------------------------------------------
(* Type correctness, for any programs: no handler leaves a page directory  *)
(* or a page table with an entry that is present and has no frame.         *)

Tasks ==
  [state : {"none", "alive", "stopped"}, self : Frame \cup {0}, page_directory : Frame \cup {0},
   code_end : Page, brk : Page]

(* Processes but the first were forked, and have frames of their own. *)
Proper(p, t) ==
  p.state # "none" =>
    /\ p.code_end < p.brk /\ p.brk < Stack
    /\ (t = 0 /\ p.state = "alive") \/ (p.self \in Frame /\ p.page_directory \in Frame)

TypeInv ==
  /\ m \in Mem
  /\ task \in [Task -> Tasks]
  /\ \A t \in Task : Proper(task[t], t)

LEMMA NothingType ==
  /\ Nothing \in Mem /\ Nothing.panic = "no"
  /\ \A t \in Task : Nothing.dir[t] \in [Dir -> DirEntry] /\ \A d \in Dir : Nothing.dir[t][d] = NoTable
  /\ \A f \in Frame : Nothing.refs[f] = 0 /\ Nothing.data[f] = Junk
<1>1. 0 \in 0 .. UINT8 - 1 /\ Junk \in Content
  BY Sizes DEF Content
<1>2. NoTable \in DirEntry /\ EmptyTable \in [Slot -> TabEntry]
  BY Entries
<1>3. QED
  BY <1>1, <1>2 DEF Nothing, Mem

LEMMA NoTaskType == NoTask \in Tasks /\ NoTask.state = "none"
<1>1. 0 \in Page
  BY Sizes
<1>2. QED
  BY <1>1 DEF NoTask, Tasks

LEMMA ImageType ==
  ASSUME NEW image \in Images
  PROVE  /\ image.code \in Page /\ image.data \in Page
         /\ image.code < image.data /\ image.data < Stack
<1> DEFINE P == DIRS * SLOTS
           x == image.code
           y == image.data
<1>1. P \in Nat /\ x \in Nat /\ y \in Nat /\ x < y /\ y < P - 1
  BY Sizes, AddrSpaceAssumption
<1>2. Page = 0 .. P - 1 /\ Stack = P - 1
  BY DEF Page, Stack
<1> HIDE DEF P, x, y
<1>3. x \in Page /\ y \in Page /\ x < y /\ y < Stack
  BY <1>1, <1>2
<1>4. QED
  BY <1>3 DEF x, y

LEMMA InitType ==
  ASSUME Init
  PROVE  TypeInv
<1>1. PICK image \in Images :
        /\ m = Loaded(Nothing, 0, image)
        /\ m.panic = "no"
        /\ task = [t \in Task |-> IF t = 0
                     THEN [NoTask EXCEPT !.state = "alive", !.code_end = image.code,
                                         !.brk = image.data]
                     ELSE NoTask]
  BY DEF Init
<1>2. m \in Mem
  BY <1>1, NothingType, Sizes, LoadedKeeps DEF Kept
<1>3. /\ image.code \in Page /\ image.data \in Page
      /\ image.code < image.data /\ image.data < Stack
  BY ImageType
<1> DEFINE first == [NoTask EXCEPT !.state = "alive", !.code_end = image.code, !.brk = image.data]
<1>4. first \in Tasks /\ Proper(first, 0)
  BY <1>3, NoTaskType DEF Tasks, Proper
<1>5. \A t \in Task : Proper(NoTask, t)
  BY NoTaskType DEF Proper
<1>6. \A t \in Task : task[t] = IF t = 0 THEN first ELSE NoTask
  BY <1>1
<1>7. task = [t \in Task |-> task[t]]
  BY <1>1
<1> HIDE DEF first
<1>8. \A t \in Task : task[t] \in Tasks /\ Proper(task[t], t)
  BY <1>4, <1>5, <1>6, NoTaskType
<1>9. QED
  BY <1>2, <1>7, <1>8 DEF TypeInv

(* What a task structure becomes. *)
LEMMA TaskSet ==
  ASSUME task \in [Task -> Tasks], \A u \in Task : Proper(task[u], u),
         NEW t \in Task, NEW p \in Tasks, Proper(p, t),
         task' = [task EXCEPT ![t] = p]
  PROVE  task' \in [Task -> Tasks] /\ \A u \in Task : Proper(task'[u], u)
<1>1. task' \in [Task -> Tasks]
  OBVIOUS
<1>2. \A u \in Task : task'[u] = IF u = t THEN p ELSE task[u]
  OBVIOUS
<1>3. QED
  BY <1>1, <1>2

LEMMA NextType ==
  ASSUME TypeInv, [Next]_vars
  PROVE  TypeInv'
<1> USE DEF TypeInv
<1>1. ASSUME UNCHANGED vars
      PROVE  TypeInv'
  BY <1>1 DEF vars, Mem, Proper, Content, TabEntry, DirEntry
<1>2. ASSUME NEW t \in Task, NEW v \in Page, NEW x \in Value,
             Write(t, v, x) \/ KernelWrite(t, v, x)
      PROVE  TypeInv'
  <2>1. Present(m, t, v)
    BY <1>2 DEF Write, KernelWrite, CanWrite
  <2>2. PTE(m, t, v).frame \in Frame /\ x \in Content
    BY <2>1, PresentType DEF Content
  <2>3. m' = SetData(m, PTE(m, t, v).frame, x) /\ UNCHANGED task
    BY <1>2 DEF Write, KernelWrite, SetData
  <2> DEFINE f == PTE(m, t, v).frame
  <2> HIDE DEF f
  <2>4. m' \in Mem
    BY <2>2, <2>3, SetDataIs DEF f
  <2>5. QED
    BY <2>3, <2>4
<1>3. ASSUME NEW t \in Task, NEW v \in Page, Touch(t, v)
      PROVE  TypeInv'
  BY <1>3, AppearedKeeps DEF Touch, Kept
<1>4. ASSUME NEW t \in Task, NEW v \in Page, WriteFault(t, v)
      PROVE  TypeInv'
  <2>1. m.panic = "no" /\ Present(m, t, v)
    BY <1>4 DEF WriteFault, Runs
  <2>2. Unshared(m, t, v) \in Mem
    BY <2>1, UnsharedKeeps
  <2>3. QED
    BY <1>4, <2>2 DEF WriteFault
<1>5. ASSUME NEW t \in Task, NEW b \in 0 .. MaxBrk, Sbrk(t, b)
      PROVE  TypeInv'
  <2> DEFINE p == [task[t] EXCEPT !.brk = b]
  <2>1. task' = [task EXCEPT ![t] = p] /\ UNCHANGED m
    BY <1>5 DEF Sbrk
  <2>2. b \in Page
    <3> DEFINE P == DIRS * SLOTS
    <3>1. P \in Nat /\ MaxBrk \in 0 .. P - 2 /\ Page = 0 .. P - 1
      BY Sizes, AddrSpaceAssumption DEF Page
    <3> HIDE DEF P
    <3>2. QED
      BY <3>1
  <2>3. p \in Tasks
    BY <2>2 DEF Tasks
  <2>4. Proper(p, t)
    <3>1. task[t].state = "alive" /\ b > task[t].code_end /\ b < Stack
      BY <1>5 DEF Sbrk, Runs
    <3>2. Proper(task[t], t)
      OBVIOUS
    <3>3. /\ p.state = task[t].state /\ p.self = task[t].self /\ p.brk = b
          /\ p.page_directory = task[t].page_directory /\ p.code_end = task[t].code_end
      BY DEF Tasks
    <3>4. p.code_end < p.brk
      <4>1. task[t].code_end \in Page
        BY DEF Tasks
      <4>3. task[t].code_end \in Nat /\ b \in Nat
        BY <2>2, <4>1, Sizes
      <4>4. QED
        BY <3>1, <3>3, <4>3
    <3>5. QED
      BY <3>1, <3>2, <3>3, <3>4 DEF Proper
  <2> HIDE DEF p
  <2>5. task' \in [Task -> Tasks] /\ \A u \in Task : Proper(task'[u], u)
    BY <2>1, <2>3, <2>4, TaskSet
  <2>6. QED
    BY <2>1, <2>5
<1>6. ASSUME NEW t \in Task, NEW c \in Task, Fork(t, c)
      PROVE  TypeInv'
  <2> DEFINE a == Alloc(m)
             b == Alloc(a)
             p == [task[t] EXCEPT !.self = NewFrame(m), !.page_directory = NewFrame(a)]
  <2>1. a \in Mem /\ (a.panic = "no" => NewFrame(m) \in Frame)
    BY AllocIs
  <2>2. b \in Mem /\ (b.panic = "no" => a.panic = "no" /\ NewFrame(a) \in Frame)
    BY <2>1, AllocIs
  <2>3. CASE b.panic # "no"
    <3>1. m' = b /\ UNCHANGED task
      BY <1>6, <2>3 DEF Fork
    <3>2. QED
      BY <2>2, <3>1
  <2>4. CASE b.panic = "no"
    <3>1. m' = Copied(b, t, c) /\ task' = [task EXCEPT ![c] = p]
      BY <1>6, <2>4 DEF Fork
    <3>2. p \in Tasks
      BY <2>1, <2>2, <2>4 DEF Tasks
    <3>3. Proper(p, c)
      <4>1. Proper(task[t], t) /\ task[t].state = "alive"
        BY <1>6 DEF Fork, Runs
      <4>2. /\ p.state = task[t].state /\ p.self = NewFrame(m) /\ p.brk = task[t].brk
            /\ p.page_directory = NewFrame(a) /\ p.code_end = task[t].code_end
        BY DEF Tasks
      <4>3. QED
        BY <2>1, <2>2, <2>4, <4>1, <4>2 DEF Proper
    <3> HIDE DEF p, a, b
    <3>4. task' \in [Task -> Tasks] /\ \A u \in Task : Proper(task'[u], u)
      BY <3>1, <3>2, <3>3, TaskSet
    <3>5. m' \in Mem
      BY <2>2, <3>1, CopiedKeeps
    <3>6. QED
      BY <3>4, <3>5
  <2>5. QED
    BY <2>3, <2>4
<1>7. ASSUME NEW t \in Task, NEW image \in Images, Execve(t, image)
      PROVE  TypeInv'
  <2> DEFINE p == [task[t] EXCEPT !.code_end = image.code, !.brk = image.data]
  <2>1. m' = Loaded(m, t, image) /\ task' = [task EXCEPT ![t] = p]
    BY <1>7 DEF Execve
  <2>2. /\ image.code \in Page /\ image.data \in Page
        /\ image.code < image.data /\ image.data < Stack
    BY ImageType
  <2>3. p \in Tasks
    BY <2>2 DEF Tasks
  <2>4. Proper(p, t)
    <3>1. Proper(task[t], t) /\ task[t].state = "alive"
      BY <1>7 DEF Execve, Runs
    <3>2. /\ p.state = task[t].state /\ p.self = task[t].self /\ p.brk = image.data
          /\ p.page_directory = task[t].page_directory /\ p.code_end = image.code
      BY DEF Tasks
    <3>3. QED
      BY <2>2, <3>1, <3>2 DEF Proper
  <2> HIDE DEF p
  <2>5. task' \in [Task -> Tasks] /\ \A u \in Task : Proper(task'[u], u)
    BY <2>1, <2>3, <2>4, TaskSet
  <2>6. m' \in Mem
    BY <2>1, LoadedKeeps DEF Kept
  <2>7. QED
    BY <2>5, <2>6
<1>8. ASSUME NEW t \in Task, Exit(t)
      PROVE  TypeInv'
  <2> DEFINE p == [task[t] EXCEPT !.state = "stopped"]
  <2>1. m' = FreeUser(m, t) /\ task' = [task EXCEPT ![t] = p] /\ t # 0
    BY <1>8 DEF Exit
  <2>2. p \in Tasks
    BY DEF Tasks
  <2>3. Proper(p, t)
    <3>1. Proper(task[t], t) /\ task[t].state = "alive"
      BY <1>8 DEF Exit, Runs
    <3>2. /\ p.self = task[t].self /\ p.brk = task[t].brk
          /\ p.page_directory = task[t].page_directory /\ p.code_end = task[t].code_end
      BY DEF Tasks
    <3>3. QED
      BY <2>1, <3>1, <3>2 DEF Proper
  <2> HIDE DEF p
  <2>4. task' \in [Task -> Tasks] /\ \A u \in Task : Proper(task'[u], u)
    BY <2>1, <2>2, <2>3, TaskSet
  <2>5. m' \in Mem
    BY <2>1, FreeUserKeeps DEF Kept
  <2>6. QED
    BY <2>4, <2>5
<1>9. ASSUME NEW t \in Task, Reap(t)
      PROVE  TypeInv'
  <2>1. task[t].state = "stopped" /\ Proper(task[t], t)
    BY <1>9 DEF Reap
  <2> DEFINE f == task[t].page_directory
             g == task[t].self
             a == Drop(m, f)
             b == Drop(a, g)
             N == Nothing.dir[t]
  <2>2. f \in Frame /\ g \in Frame
    BY <2>1 DEF Proper
  <2>3. m' = [b EXCEPT !.dir[t] = N] /\ task' = [task EXCEPT ![t] = NoTask]
    BY <1>9 DEF Reap
  <2>4. N \in [Dir -> DirEntry]
    BY NothingType
  <2> HIDE DEF f, g, N
  <2>5. a \in Mem
    BY <2>2, DropIs
  <2> HIDE DEF a
  <2>6. b \in Mem
    BY <2>2, <2>5, DropIs
  <2> HIDE DEF b
  <2>7. m' \in Mem
    BY <2>3, <2>4, <2>6 DEF Mem
  <2>8. Proper(NoTask, t) /\ NoTask \in Tasks
    BY NoTaskType DEF Proper
  <2>9. task' \in [Task -> Tasks] /\ \A u \in Task : Proper(task'[u], u)
    BY <2>3, <2>8, TaskSet
  <2>10. QED
    BY <2>7, <2>9
<1>10. QED
  BY <1>1, <1>2, <1>3, <1>4, <1>5, <1>6, <1>7, <1>8, <1>9 DEF Next, Halted

(* Page directories, page tables, reference counts and task structures are *)
(* well formed, whatever programs do: what is present has a frame, a       *)
(* process that can be reaped has the two frames that free_task() frees.   *)
THEOREM TypeCorrect == Spec => []TypeOK
<1>1. Init => TypeInv
  BY InitType
<1>2. TypeInv /\ [Next]_vars => TypeInv'
  BY NextType
<1>3. TypeInv => TypeOK
  <2>1. DirEntry \subseteq [frame : Frame \cup {0}, present : BOOLEAN, rw : BOOLEAN,
                            user : BOOLEAN, cow : BOOLEAN, shared : BOOLEAN]
    BY DEF DirEntry
  <2>2. TabEntry \subseteq [frame : Frame \cup {0}, present : BOOLEAN, rw : BOOLEAN, cow : BOOLEAN]
    BY DEF TabEntry
  <2>3. QED
    BY <2>1, <2>2 DEF TypeInv, TypeOK, Mem, Tasks, Proper, Content
<1>4. QED
  BY <1>1, <1>2, <1>3, PTL DEF Spec
-----------------------------------------------------------------------------
(* Reference counts.  H says who has which page frames for what use: a set *)
(* of triples of a task, a use and a frame.  Handlers are sequences of     *)
(* changes of a memory, between which the counts must fit: x are frames    *)
(* with one reference more than users, because they have just been taken   *)
(* or are about to be freed.                                               *)

TableUse(d) == <<"table", d>>
PageUse(v) == <<"page", v>>
TaskUse(t) == <<"task", t>>
Use == {TableUse(d) : d \in Dir} \cup {PageUse(v) : v \in Page} \cup {TaskUse(t) : t \in Task}
Having == Task \X Use \X Frame

Holders(H, f) == {t \in Task : \E a \in Use : <<t, a, f>> \in H}

Exact(refs, H, x) ==
  \A f \in Frame : refs[f] = Cardinality(Holders(H, f)) + (IF f \in x THEN 1 ELSE 0)

(* A frame has one use: the page tables of one directory entry, one page,  *)
(* or a task structure.                                                    *)
OneUse(H) ==
  \A f \in Frame, t, u \in Task, a, b \in Use : <<t, a, f>> \in H /\ <<u, b, f>> \in H => a = b

LEMMA UsesDiffer ==
  /\ \A d \in Dir : TableUse(d) \in Use
  /\ \A v \in Page : PageUse(v) \in Use
  /\ \A t \in Task : TaskUse(t) \in Use
  /\ \A d, e : TableUse(d) = TableUse(e) => d = e
  /\ \A v, w : PageUse(v) = PageUse(w) => v = w
  /\ \A t, u : TaskUse(t) = TaskUse(u) => t = u
  /\ \A d, v : TableUse(d) # PageUse(v)
  /\ \A d, t : TableUse(d) # TaskUse(t)
  /\ \A v, t : PageUse(v) # TaskUse(t)
  /\ \A a \in Use : \/ \E d \in Dir : a = TableUse(d)
                    \/ \E v \in Page : a = PageUse(v)
                    \/ \E t \in Task : a = TaskUse(t)
<1>1. /\ \A d \in Dir : TableUse(d) \in Use
      /\ \A v \in Page : PageUse(v) \in Use
      /\ \A t \in Task : TaskUse(t) \in Use
      /\ \A a \in Use : \/ \E d \in Dir : a = TableUse(d)
                        \/ \E v \in Page : a = PageUse(v)
                        \/ \E t \in Task : a = TaskUse(t)
  BY DEF Use
<1>2. /\ \A d, e : TableUse(d) = TableUse(e) => d = e
      /\ \A v, w : PageUse(v) = PageUse(w) => v = w
      /\ \A t, u : TaskUse(t) = TaskUse(u) => t = u
      /\ \A d, v : TableUse(d) # PageUse(v)
      /\ \A d, t : TableUse(d) # TaskUse(t)
      /\ \A v, t : PageUse(v) # TaskUse(t)
  BY DEF TableUse, PageUse, TaskUse
<1>3. QED
  BY <1>1, <1>2

LEMMA HoldersType ==
  ASSUME NEW H, NEW f
  PROVE  /\ Holders(H, f) \subseteq Task /\ IsFiniteSet(Holders(H, f))
         /\ Cardinality(Holders(H, f)) \in Nat
         /\ Cardinality(Holders(H, f)) = 0 <=> Holders(H, f) = {}
<1> DEFINE S == Holders(H, f)
<1>1. S \subseteq Task
  BY DEF Holders
<1> HIDE DEF S
<1>2. IsFiniteSet(S)
  BY <1>1, FinitePages, FS_Subset
<1>3. Cardinality(S) \in Nat /\ (Cardinality(S) = 0 <=> S = {})
  BY <1>2, FS_CardinalityType, FS_EmptySet
<1>4. QED
  BY <1>1, <1>2, <1>3 DEF S

LEMMA HoldersAre ==
  ASSUME NEW H, NEW f, NEW t
  PROVE  t \in Holders(H, f) <=> t \in Task /\ \E a \in Use : <<t, a, f>> \in H
  BY DEF Holders

(* A frame is taken. *)
LEMMA Take ==
  ASSUME NEW refs \in [Frame -> Nat], NEW H, NEW x, Exact(refs, H, x),
         NEW n \in Frame, refs[n] = 0
  PROVE  /\ Holders(H, n) = {} /\ n \notin x
         /\ Exact([refs EXCEPT ![n] = 1], H, x \cup {n})
<1>1. \A f \in Frame : Cardinality(Holders(H, f)) \in Nat
  BY HoldersType
<1>2. refs[n] = Cardinality(Holders(H, n)) + (IF n \in x THEN 1 ELSE 0)
  BY DEF Exact
<1>3. Cardinality(Holders(H, n)) = 0 /\ n \notin x
  BY <1>1, <1>2
<1>4. ASSUME NEW f \in Frame
      PROVE  [refs EXCEPT ![n] = 1][f] =
               Cardinality(Holders(H, f)) + (IF f \in x \cup {n} THEN 1 ELSE 0)
  <2>1. refs[f] = Cardinality(Holders(H, f)) + (IF f \in x THEN 1 ELSE 0)
    BY DEF Exact
  <2>2. CASE f = n
    BY <1>3, <2>2
  <2>3. CASE f # n
    BY <2>1, <2>3
  <2>4. QED
    BY <2>2, <2>3
<1>5. QED
  BY <1>3, <1>4, HoldersType DEF Exact

(* A frame that has one reference more than users loses it. *)
LEMMA Put ==
  ASSUME NEW refs \in [Frame -> Nat], NEW H, NEW x, Exact(refs, H, x), NEW f \in Frame, f \in x
  PROVE  /\ refs[f] # 0
         /\ refs[f] = 1 => Holders(H, f) = {}
         /\ Exact([refs EXCEPT ![f] = refs[f] - 1], H, x \ {f})
<1>1. \A g \in Frame : Cardinality(Holders(H, g)) \in Nat
  BY HoldersType
<1>2. refs[f] = Cardinality(Holders(H, f)) + 1
  BY DEF Exact
<1>3. refs[f] # 0 /\ (refs[f] = 1 => Cardinality(Holders(H, f)) = 0)
  BY <1>1, <1>2
<1>4. ASSUME NEW g \in Frame
      PROVE  [refs EXCEPT ![f] = refs[f] - 1][g] =
               Cardinality(Holders(H, g)) + (IF g \in x \ {f} THEN 1 ELSE 0)
  <2>1. refs[g] = Cardinality(Holders(H, g)) + (IF g \in x THEN 1 ELSE 0)
    BY DEF Exact
  <2>2. CASE g = f
    BY <1>1, <1>2, <2>2
  <2>3. CASE g # f
    BY <2>1, <2>3
  <2>4. QED
    BY <2>2, <2>3
<1>5. QED
  BY <1>3, <1>4, HoldersType DEF Exact

(* A frame that nobody has gets its first user. *)
LEMMA Join ==
  ASSUME NEW refs, NEW H, NEW x, Exact(refs, H, x), OneUse(H),
         NEW f \in Frame, f \in x, Holders(H, f) = {}, NEW t \in Task, NEW a \in Use,
         NEW K, K = H \cup {<<t, a, f>>}
  PROVE  Exact(refs, K, x \ {f}) /\ OneUse(K)
<1>1. \A u, b, g : <<u, b, g>> \in K <=> <<u, b, g>> \in H \/ (u = t /\ b = a /\ g = f)
  OBVIOUS
<1>2. \A u \in Task, b \in Use : <<u, b, f>> \notin H
  BY DEF Holders
<1>3. Holders(K, f) = {t}
  BY <1>1, <1>2 DEF Holders
<1>4. \A g \in Frame : g # f => Holders(K, g) = Holders(H, g)
  BY <1>1 DEF Holders
<1>5. Cardinality(Holders(H, f)) = 0 /\ Cardinality(Holders(K, f)) = 1
  BY <1>3, FS_EmptySet, FS_Singleton
<1>6. Exact(refs, K, x \ {f})
  <2>1. SUFFICES ASSUME NEW g \in Frame
                 PROVE  refs[g] = Cardinality(Holders(K, g)) + (IF g \in x \ {f} THEN 1 ELSE 0)
    BY DEF Exact
  <2>2. refs[g] = Cardinality(Holders(H, g)) + (IF g \in x THEN 1 ELSE 0)
    BY DEF Exact
  <2>3. CASE g = f
    BY <1>5, <2>2, <2>3
  <2>4. CASE g # f
    BY <1>4, <2>2, <2>4
  <2>5. QED
    BY <2>3, <2>4
<1>7. OneUse(K)
  BY <1>1, <1>2 DEF OneUse
<1>8. QED
  BY <1>6, <1>7

(* A user of a frame has it no longer. *)
LEMMA Leave ==
  ASSUME NEW refs, NEW H, NEW x, Exact(refs, H, x), OneUse(H),
         NEW f \in Frame, f \notin x, NEW t \in Task, NEW a \in Use, <<t, a, f>> \in H,
         NEW K, K = H \ {<<t, a, f>>}
  PROVE  Exact(refs, K, x \cup {f}) /\ OneUse(K)
<1>1. \A u, b, g : <<u, b, g>> \in K <=> <<u, b, g>> \in H /\ ~ (u = t /\ b = a /\ g = f)
  OBVIOUS
<1>2. \A u \in Task, b \in Use : <<u, b, f>> \in H => b = a
  BY DEF OneUse
<1>3. Holders(K, f) = Holders(H, f) \ {t} /\ t \in Holders(H, f)
  BY <1>1, <1>2 DEF Holders
<1>4. \A g \in Frame : g # f => Holders(K, g) = Holders(H, g)
  BY <1>1 DEF Holders
<1>5. Cardinality(Holders(K, f)) = Cardinality(Holders(H, f)) - 1
  <2> DEFINE S == Holders(H, f)
  <2>1. IsFiniteSet(S) /\ t \in S /\ Holders(K, f) = S \ {t}
    BY <1>3, HoldersType
  <2> HIDE DEF S
  <2>2. Cardinality(S \ {t}) = Cardinality(S) - 1
    BY <2>1, FS_RemoveElement
  <2>3. QED
    BY <2>1, <2>2 DEF S
<1>6. Exact(refs, K, x \cup {f})
  <2>1. SUFFICES ASSUME NEW g \in Frame
                 PROVE  refs[g] = Cardinality(Holders(K, g)) + (IF g \in x \cup {f} THEN 1 ELSE 0)
    BY DEF Exact
  <2>2. refs[g] = Cardinality(Holders(H, g)) + (IF g \in x THEN 1 ELSE 0)
    BY DEF Exact
  <2>3. CASE g = f
    <3>1. Cardinality(Holders(H, f)) \in Nat
      BY HoldersType
    <3>2. QED
      BY <1>5, <2>2, <2>3, <3>1
  <2>4. CASE g # f
    BY <1>4, <2>2, <2>4
  <2>5. QED
    BY <2>3, <2>4
<1>7. OneUse(K)
  BY <1>1 DEF OneUse
<1>8. QED
  BY <1>6, <1>7

(* A frame that some process does not have. *)
LEMMA NotAll ==
  ASSUME NEW H, NEW f, NEW c \in Task, c \notin Holders(H, f)
  PROVE  /\ Cardinality(Holders(H, f) \cup {c}) = Cardinality(Holders(H, f)) + 1
         /\ Cardinality(Holders(H, f)) < TASKS
<1> DEFINE S == Holders(H, f)
<1>1. IsFiniteSet(S) /\ c \notin S /\ S \subseteq Task /\ Cardinality(S) \in Nat
  BY HoldersType
<1> HIDE DEF S
<1>2. Cardinality(S \cup {c}) = Cardinality(S) + 1
  BY <1>1, FS_AddElement
<1>3. Cardinality(Task) = TASKS
  <2>1. 0 \in Int /\ TASKS - 1 \in Int /\ ~ (0 > TASKS - 1) /\ (TASKS - 1) - 0 + 1 = TASKS
    BY Sizes
  <2>2. QED
    BY <2>1, FS_Interval DEF Task
<1>4. Cardinality(S \cup {c}) <= TASKS
  <2>1. S \cup {c} \in SUBSET Task
    BY <1>1
  <2>2. Cardinality(S \cup {c}) <= Cardinality(Task)
    BY <2>1, FinitePages, FS_Subset
  <2>3. QED
    BY <1>3, <2>2
<1>5. QED
  BY <1>1, <1>2, <1>4, Sizes DEF S

(* A task that has no frame gets what another one has for the uses A. *)
ShareOf(H, K, t, c, A) ==
  /\ \A a \in Use, f \in Frame : <<c, a, f>> \notin H
  /\ \A u \in Task, a \in Use, f \in Frame :
       <<u, a, f>> \in K <=> <<u, a, f>> \in H \/ (u = c /\ a \in A /\ <<t, a, f>> \in H)
Taking(H, t, A, f) == IF \E a \in A : <<t, a, f>> \in H THEN 1 ELSE 0

LEMMA Share ==
  ASSUME NEW refs, NEW more, NEW H, NEW x, Exact(refs, H, x), OneUse(H),
         NEW t \in Task, NEW c \in Task, NEW A \in SUBSET Use, NEW K, ShareOf(H, K, t, c, A),
         \A f \in Frame : more[f] = refs[f] + Taking(H, t, A, f)
  PROVE  Exact(more, K, x) /\ OneUse(K)
<1> USE DEF ShareOf, Taking
<1>1. \A f \in Frame : c \notin Holders(H, f)
  BY DEF Holders
<1>2. \A f \in Frame : Holders(K, f) = IF \E a \in A : <<t, a, f>> \in H
                                       THEN Holders(H, f) \cup {c} ELSE Holders(H, f)
  <2>1. ASSUME NEW f \in Frame, NEW u \in Task
        PROVE  u \in Holders(K, f) <=> u \in Holders(H, f) \/ (u = c /\ \E a \in A : <<t, a, f>> \in H)
    BY HoldersAre
  <2>2. ASSUME NEW f \in Frame
        PROVE  Holders(K, f) \subseteq Task /\ Holders(H, f) \subseteq Task
    BY HoldersType
  <2>3. ASSUME NEW f \in Frame, \E a \in A : <<t, a, f>> \in H
        PROVE  Holders(K, f) = Holders(H, f) \cup {c}
    <3>1. \A u \in Task : u \in Holders(K, f) <=> u \in Holders(H, f) \/ u = c
      BY <2>1, <2>3
    <3>2. QED
      BY <2>2, <3>1
  <2>4. ASSUME NEW f \in Frame, ~ \E a \in A : <<t, a, f>> \in H
        PROVE  Holders(K, f) = Holders(H, f)
    <3>1. \A u \in Task : u \in Holders(K, f) <=> u \in Holders(H, f)
      BY <2>1, <2>4
    <3>2. QED
      BY <2>2, <3>1
  <2>5. QED
    BY <2>3, <2>4
<1>3. ASSUME NEW f \in Frame
      PROVE  Cardinality(Holders(H, f) \cup {c}) = Cardinality(Holders(H, f)) + 1
  BY <1>1, NotAll
<1>4. Exact(more, K, x)
  <2>1. SUFFICES ASSUME NEW f \in Frame
                 PROVE  more[f] = Cardinality(Holders(K, f)) + (IF f \in x THEN 1 ELSE 0)
    BY DEF Exact
  <2>2. refs[f] = Cardinality(Holders(H, f)) + (IF f \in x THEN 1 ELSE 0)
    BY DEF Exact
  <2>3. Cardinality(Holders(H, f)) \in Nat
    BY HoldersType
  <2>4. CASE \E a \in A : <<t, a, f>> \in H
    BY <1>2, <1>3, <2>2, <2>3, <2>4
  <2>5. CASE ~ \E a \in A : <<t, a, f>> \in H
    BY <1>2, <2>2, <2>3, <2>5
  <2>6. QED
    BY <2>4, <2>5
<1>5. OneUse(K)
  <2>1. SUFFICES ASSUME NEW f \in Frame, NEW u \in Task, NEW w \in Task, NEW a \in Use,
                        NEW b \in Use, <<u, a, f>> \in K, <<w, b, f>> \in K
                 PROVE  a = b
    BY DEF OneUse
  <2>2. \E p \in Task : <<p, a, f>> \in H
    <3>1. <<u, a, f>> \in H \/ (u = c /\ <<t, a, f>> \in H)
      BY <2>1, Zenon
    <3>2. QED
      BY <3>1, Zenon
  <2>3. \E p \in Task : <<p, b, f>> \in H
    <3>1. <<w, b, f>> \in H \/ (w = c /\ <<t, b, f>> \in H)
      BY <2>1, Zenon
    <3>2. QED
      BY <3>1, Zenon
  <2>4. QED
    BY <2>2, <2>3 DEF OneUse
<1>6. QED
  BY <1>3, <1>4, <1>5
-----------------------------------------------------------------------------
(* What page directories and page tables say: who has which frames.  h are *)
(* pages that are counted no longer though their entries are still there;  *)
(* k are the frames of task structures.                                    *)

Ent(s, t, v) == IF PDE(s, t, v).present THEN PTE(s, t, v) ELSE NoEntry

TableAt(s, t, d, f) == s.dir[t][d].present /\ s.dir[t][d].frame = f
PageAt(s, h, t, v, f) == <<t, v>> \notin h /\ Ent(s, t, v).present /\ Ent(s, t, v).frame = f

Held(s, k, h) ==
  {z \in Having :
     \/ \E d \in Dir : z[2] = TableUse(d) /\ TableAt(s, z[1], d, z[3])
     \/ \E v \in Page : z[2] = PageUse(v) /\ PageAt(s, h, z[1], v, z[3])
     \/ z[2] = TaskUse(z[1]) /\ z[3] \in k[z[1]]}

(* A page table that is not marked as shared is one process's. *)
OwnTables(s) ==
  \A t, u \in Task, d, e \in Dir :
    s.dir[t][d].present /\ ~ s.dir[t][d].shared /\ TableAt(s, u, e, s.dir[t][d].frame) => t = u

FreeIsJunk(s) == \A f \in Frame : s.refs[f] = 0 => s.data[f] = Junk

Fits(s, k, x, h) ==
  /\ s \in Mem /\ s.panic = "no"
  /\ Exact(s.refs, Held(s, k, h), x) /\ OneUse(Held(s, k, h))
  /\ OwnTables(s) /\ FreeIsJunk(s)

(* From memory s to memory r task t keeps its pages and what is on them.   *)
SamePages(s, r, t, h) ==
  \A v \in Page :
    /\ Ent(r, t, v) = Ent(s, t, v)
    /\ Ent(s, t, v).present /\ <<t, v>> \notin h =>
         r.data[Ent(s, t, v).frame] = s.data[Ent(s, t, v).frame]

LEMMA EntIs ==
  ASSUME NEW s \in Mem, NEW t \in Task, NEW v \in Page
  PROVE  /\ Ent(s, t, v) \in TabEntry
         /\ Ent(s, t, v).present \in BOOLEAN
         /\ Present(s, t, v) <=> Ent(s, t, v).present
         /\ PDE(s, t, v).present => Ent(s, t, v) = PTE(s, t, v)
         /\ ~ PDE(s, t, v).present => Ent(s, t, v) = NoEntry
         /\ Ent(s, t, v).present => /\ PDE(s, t, v).present
                                    /\ Ent(s, t, v) = PTE(s, t, v)
                                    /\ Ent(s, t, v).frame \in Frame
<1>1. CASE PDE(s, t, v).present
  <2>1. Ent(s, t, v) = PTE(s, t, v) /\ PTE(s, t, v) \in TabEntry
    BY <1>1, PresentType DEF Ent
  <2>2. PTE(s, t, v).present \in BOOLEAN /\ (PTE(s, t, v).present => PTE(s, t, v).frame \in Frame)
    BY <2>1 DEF TabEntry
  <2>3. QED
    BY <1>1, <2>1, <2>2 DEF Present
<1>2. CASE ~ PDE(s, t, v).present
  <2>1. Ent(s, t, v) = NoEntry
    BY <1>2 DEF Ent
  <2>2. NoEntry \in TabEntry /\ ~ NoEntry.present
    BY Entries
  <2>3. NoEntry.present \in BOOLEAN
    BY <2>2 DEF TabEntry
  <2>4. QED
    BY <1>2, <2>1, <2>2, <2>3 DEF Present
<1>3. QED
  BY <1>1, <1>2

LEMMA DirIs ==
  ASSUME NEW s \in Mem, NEW t \in Task, NEW d \in Dir
  PROVE  /\ s.dir[t] \in [Dir -> DirEntry] /\ s.dir[t][d] \in DirEntry
         /\ s.dir[t][d].present \in BOOLEAN /\ s.dir[t][d].shared \in BOOLEAN
         /\ s.dir[t][d].present => s.dir[t][d].frame \in Frame
<1>1. s.dir[t] \in [Dir -> DirEntry] /\ s.dir[t][d] \in DirEntry
  BY DEF Mem
<1>2. QED
  BY <1>1 DEF DirEntry

LEMMA HeldIs ==
  ASSUME NEW s, NEW k, NEW h, NEW t \in Task, NEW f \in Frame
  PROVE  /\ \A d \in Dir : <<t, TableUse(d), f>> \in Held(s, k, h) <=> TableAt(s, t, d, f)
         /\ \A v \in Page : <<t, PageUse(v), f>> \in Held(s, k, h) <=> PageAt(s, h, t, v, f)
         /\ \A u \in Task : <<t, TaskUse(u), f>> \in Held(s, k, h) <=> u = t /\ f \in k[t]
<1>1. ASSUME NEW a \in Use
      PROVE  <<t, a, f>> \in Held(s, k, h) <=>
               \/ \E d \in Dir : a = TableUse(d) /\ TableAt(s, t, d, f)
               \/ \E v \in Page : a = PageUse(v) /\ PageAt(s, h, t, v, f)
               \/ a = TaskUse(t) /\ f \in k[t]
  <2>1. <<t, a, f>> \in Having
    BY DEF Having
  <2>2. <<t, a, f>>[1] = t /\ <<t, a, f>>[2] = a /\ <<t, a, f>>[3] = f
    OBVIOUS
  <2> DEFINE z == <<t, a, f>>
  <2> HIDE DEF z
  <2>3. z \in Held(s, k, h) <=>
               \/ \E d \in Dir : z[2] = TableUse(d) /\ TableAt(s, z[1], d, z[3])
               \/ \E v \in Page : z[2] = PageUse(v) /\ PageAt(s, h, z[1], v, z[3])
               \/ z[2] = TaskUse(z[1]) /\ z[3] \in k[z[1]]
    BY <2>1 DEF Held, z
  <2>4. QED
    BY <2>2, <2>3 DEF z
<1>2. ASSUME NEW d \in Dir
      PROVE  <<t, TableUse(d), f>> \in Held(s, k, h) <=> TableAt(s, t, d, f)
  <2> DEFINE a == TableUse(d)
  <2>1. a \in Use /\ (\A e \in Dir : a = TableUse(e) => d = e) /\ (\A v \in Page : a # PageUse(v)) /\ a # TaskUse(t)
    BY UsesDiffer
  <2>2. a = TableUse(d)
    OBVIOUS
  <2> HIDE DEF a
  <2>3. <<t, a, f>> \in Held(s, k, h) <=> TableAt(s, t, d, f)
    BY <1>1, <2>1, <2>2
  <2>4. QED
    BY <2>3 DEF a
<1>3. ASSUME NEW v \in Page
      PROVE  <<t, PageUse(v), f>> \in Held(s, k, h) <=> PageAt(s, h, t, v, f)
  <2> DEFINE a == PageUse(v)
  <2>1. a \in Use /\ (\A w \in Page : a = PageUse(w) => v = w) /\ (\A d \in Dir : a # TableUse(d)) /\ a # TaskUse(t)
    BY UsesDiffer
  <2>2. a = PageUse(v)
    OBVIOUS
  <2> HIDE DEF a
  <2>3. <<t, a, f>> \in Held(s, k, h) <=> PageAt(s, h, t, v, f)
    BY <1>1, <2>1, <2>2
  <2>4. QED
    BY <2>3 DEF a
<1>4. ASSUME NEW u \in Task
      PROVE  <<t, TaskUse(u), f>> \in Held(s, k, h) <=> u = t /\ f \in k[t]
  <2> DEFINE a == TaskUse(u)
  <2>1. a \in Use /\ (a = TaskUse(t) <=> u = t) /\ (\A d \in Dir : a # TableUse(d)) /\ (\A v \in Page : a # PageUse(v))
    BY UsesDiffer
  <2> HIDE DEF a
  <2>2. <<t, a, f>> \in Held(s, k, h) <=> u = t /\ f \in k[t]
    BY <1>1, <2>1
  <2>3. QED
    BY <2>2 DEF a
<1>5. QED
  BY <1>2, <1>3, <1>4

(* A set of triples that agrees with a memory on every use. *)
LEMMA HeldEquals ==
  ASSUME NEW s, NEW k, NEW h, NEW K, K \subseteq Having,
         \A t \in Task, f \in Frame :
           /\ \A d \in Dir : <<t, TableUse(d), f>> \in K <=> TableAt(s, t, d, f)
           /\ \A v \in Page : <<t, PageUse(v), f>> \in K <=> PageAt(s, h, t, v, f)
           /\ \A u \in Task : <<t, TaskUse(u), f>> \in K <=> u = t /\ f \in k[t]
  PROVE  Held(s, k, h) = K
<1>1. ASSUME NEW t \in Task, NEW a \in Use, NEW f \in Frame
      PROVE  <<t, a, f>> \in Held(s, k, h) <=> <<t, a, f>> \in K
  <2>1. CASE \E d \in Dir : a = TableUse(d)
    BY <2>1, HeldIs
  <2>2. CASE \E v \in Page : a = PageUse(v)
    BY <2>2, HeldIs
  <2>3. CASE \E u \in Task : a = TaskUse(u)
    <3>1. PICK u \in Task : a = TaskUse(u)
      BY <2>3
    <3>2. <<t, TaskUse(u), f>> \in Held(s, k, h) <=> u = t /\ f \in k[t]
      BY HeldIs
    <3>3. <<t, TaskUse(u), f>> \in K <=> u = t /\ f \in k[t]
      OBVIOUS
    <3>4. QED
      BY <3>1, <3>2, <3>3
  <2>4. QED
    BY <2>1, <2>2, <2>3, UsesDiffer
<1>2. Held(s, k, h) \subseteq Having
  BY DEF Held
<1>3. \A z \in Having : \E t \in Task, a \in Use, f \in Frame : z = <<t, a, f>>
  BY DEF Having
<1>4. ASSUME NEW z
      PROVE  z \in Held(s, k, h) <=> z \in K
  <2>1. CASE z \in Having
    BY <1>1, <1>3, <2>1
  <2>2. CASE z \notin Having
    BY <1>2, <2>2
  <2>3. QED
    BY <2>1, <2>2
<1>5. QED
  BY <1>4

LEMMA HeldHaving ==
  ASSUME NEW s, NEW k, NEW h
  PROVE  Held(s, k, h) \subseteq Having
  BY DEF Held

(* The same frames in the same places are held alike. *)
LEMMA SameHeld ==
  ASSUME NEW s, NEW r, NEW k, NEW h, NEW j,
         \A t \in Task, d \in Dir, f \in Frame : TableAt(r, t, d, f) <=> TableAt(s, t, d, f),
         \A t \in Task, v \in Page, f \in Frame : PageAt(r, j, t, v, f) <=> PageAt(s, h, t, v, f)
  PROVE  Held(r, k, j) = Held(s, k, h)
<1> DEFINE K == Held(s, k, h)
<1>1. K \subseteq Having
  BY HeldHaving
<1>2. ASSUME NEW t \in Task, NEW f \in Frame
      PROVE  /\ \A d \in Dir : <<t, TableUse(d), f>> \in K <=> TableAt(r, t, d, f)
             /\ \A v \in Page : <<t, PageUse(v), f>> \in K <=> PageAt(r, j, t, v, f)
             /\ \A u \in Task : <<t, TaskUse(u), f>> \in K <=> u = t /\ f \in k[t]
  BY HeldIs
<1> HIDE DEF K
<1>3. Held(r, k, j) = K
  BY <1>1, <1>2, HeldEquals
<1>4. QED
  BY <1>3 DEF K

LEMMA NotHeld ==
  ASSUME NEW s, NEW k, NEW h, NEW f \in Frame, Holders(Held(s, k, h), f) = {}
  PROVE  /\ \A t \in Task, d \in Dir : ~ TableAt(s, t, d, f)
         /\ \A t \in Task, v \in Page : ~ PageAt(s, h, t, v, f)
         /\ \A t \in Task : f \notin k[t]
<1>1. \A t \in Task, a \in Use : <<t, a, f>> \notin Held(s, k, h)
  BY DEF Holders
<1>2. /\ \A d \in Dir : TableUse(d) \in Use
      /\ \A v \in Page : PageUse(v) \in Use
      /\ \A t \in Task : TaskUse(t) \in Use
  BY UsesDiffer
<1>3. ASSUME NEW t \in Task, NEW d \in Dir
      PROVE  ~ TableAt(s, t, d, f)
  <2>1. <<t, TableUse(d), f>> \notin Held(s, k, h)
    BY <1>1, <1>2
  <2>2. QED
    BY <2>1, HeldIs
<1>4. ASSUME NEW t \in Task, NEW v \in Page
      PROVE  ~ PageAt(s, h, t, v, f)
  <2>1. <<t, PageUse(v), f>> \notin Held(s, k, h)
    BY <1>1, <1>2
  <2>2. QED
    BY <2>1, HeldIs
<1>5. ASSUME NEW t \in Task
      PROVE  f \notin k[t]
  <2>1. <<t, TaskUse(t), f>> \notin Held(s, k, h)
    BY <1>1, <1>2
  <2>2. QED
    BY <2>1, HeldIs
<1>6. QED
  BY <1>3, <1>4, <1>5

LEMMA SamePagesTwice ==
  ASSUME NEW s, NEW r, NEW q, NEW t, NEW h, SamePages(s, r, t, h), SamePages(r, q, t, h)
  PROVE  SamePages(s, q, t, h)
  BY DEF SamePages
-----------------------------------------------------------------------------
(* Steps that leave page directories and page tables as they are.          *)

LEMMA OwnSame ==
  ASSUME NEW s, NEW r, r.dir = s.dir
  PROVE  OwnTables(r) <=> OwnTables(s)
  BY DEF OwnTables, TableAt

LEMMA EntSame ==
  ASSUME NEW s, NEW r, r.dir = s.dir, r.tab = s.tab
  PROVE  /\ \A t, v : Ent(r, t, v) = Ent(s, t, v)
         /\ \A t, d, f : TableAt(r, t, d, f) <=> TableAt(s, t, d, f)
         /\ \A t, v, f, h : PageAt(r, h, t, v, f) <=> PageAt(s, h, t, v, f)
         /\ OwnTables(r) <=> OwnTables(s)
<1>1. \A t, v : Ent(r, t, v) = Ent(s, t, v)
  BY DEF Ent, PDE, PTE
<1>2. \A t, d, f : TableAt(r, t, d, f) <=> TableAt(s, t, d, f)
  BY DEF TableAt
<1>3. \A t, v, f, h : PageAt(r, h, t, v, f) <=> PageAt(s, h, t, v, f)
  BY <1>1 DEF PageAt
<1>4. OwnTables(r) <=> OwnTables(s)
  BY OwnSame
<1>5. QED
  BY <1>1, <1>2, <1>3, <1>4

LEMMA HeldSame ==
  ASSUME NEW s, NEW r, r.dir = s.dir, r.tab = s.tab, NEW k, NEW h
  PROVE  Held(r, k, h) = Held(s, k, h)
<1>1. /\ \A t \in Task, d \in Dir, f \in Frame : TableAt(r, t, d, f) <=> TableAt(s, t, d, f)
      /\ \A t \in Task, v \in Page, f \in Frame : PageAt(r, h, t, v, f) <=> PageAt(s, h, t, v, f)
  BY EntSame
<1>2. QED
  BY <1>1, SameHeld

(* alloc_page_frame() *)
LEMMA Taken ==
  ASSUME NEW s, NEW k, NEW x, NEW h, Fits(s, k, x, h),
         NEW r, r = Alloc(s), r.panic = "no", NEW n, n = NewFrame(s)
  PROVE  /\ n \in Frame /\ n \notin x /\ s.data[n] = Junk /\ r.refs[n] # 0
         /\ r.dir = s.dir /\ r.tab = s.tab /\ r.data = s.data
         /\ Held(r, k, h) = Held(s, k, h) /\ Holders(Held(r, k, h), n) = {}
         /\ Fits(r, k, x \cup {n}, h)
<1>1. s \in Mem /\ Exact(s.refs, Held(s, k, h), x)
  BY DEF Fits
<1>2. /\ r \in Mem /\ n \in Frame /\ s.refs[n] = 0
      /\ r.refs = [s.refs EXCEPT ![n] = 1] /\ r.dir = s.dir /\ r.tab = s.tab /\ r.data = s.data
  BY <1>1, AllocIs
<1>3. s.refs \in [Frame -> Nat]
  BY <1>1, Sizes DEF Mem
<1>4. Held(r, k, h) = Held(s, k, h)
  BY <1>2, HeldSame
<1> DEFINE H == Held(s, k, h)
<1> HIDE DEF H
<1>5. Holders(H, n) = {} /\ n \notin x /\ Exact(r.refs, H, x \cup {n})
  BY <1>1, <1>2, <1>3, Take DEF H
<1>6. OneUse(H) /\ OwnTables(r)
  BY <1>2, EntSame DEF Fits, H
<1>7. r.refs[n] = 1 /\ \A f \in Frame : f # n => r.refs[f] = s.refs[f]
  BY <1>2, <1>3
<1>8. FreeIsJunk(r) /\ s.data[n] = Junk
  BY <1>2, <1>7 DEF Fits, FreeIsJunk
<1>9. Fits(r, k, x \cup {n}, h)
  BY <1>2, <1>4, <1>5, <1>6, <1>8 DEF Fits, H
<1>10. QED
  BY <1>2, <1>4, <1>5, <1>7, <1>8, <1>9 DEF H

(* A store to a page. *)
LEMMA Stored ==
  ASSUME NEW s, NEW k, NEW x, NEW h, Fits(s, k, x, h),
         NEW f \in Frame, NEW c \in Content, s.refs[f] # 0, NEW r, r = SetData(s, f, c)
  PROVE  /\ r.dir = s.dir /\ r.tab = s.tab /\ r.refs = s.refs
         /\ r.data[f] = c /\ \A g \in Frame : g # f => r.data[g] = s.data[g]
         /\ Held(r, k, h) = Held(s, k, h)
         /\ Fits(r, k, x, h)
<1>1. s \in Mem
  BY DEF Fits
<1>2. /\ r \in Mem /\ r.refs = s.refs /\ r.dir = s.dir /\ r.tab = s.tab /\ r.panic = s.panic
      /\ r.data = [s.data EXCEPT ![f] = c]
  BY <1>1, SetDataIs
<1>3. r.data[f] = c /\ \A g \in Frame : g # f => r.data[g] = s.data[g]
  BY <1>1, <1>2 DEF Mem
<1>4. Held(r, k, h) = Held(s, k, h) /\ (OwnTables(r) <=> OwnTables(s))
  BY <1>2, HeldSame, EntSame
<1>5. FreeIsJunk(r)
  BY <1>2, <1>3 DEF Fits, FreeIsJunk
<1>6. Fits(r, k, x, h)
  BY <1>2, <1>4, <1>5 DEF Fits
<1>7. QED
  BY <1>2, <1>3, <1>4, <1>6

(* free_page_frame() of a frame with one reference more than users. *)
LEMMA Dropped ==
  ASSUME NEW s, NEW k, NEW x, NEW h, Fits(s, k, x, h),
         NEW f \in Frame, f \in x, NEW r, r = Drop(s, f)
  PROVE  /\ r.dir = s.dir
         /\ Held(r, k, h) = Held(s, k, h)
         /\ \A t \in Task : SamePages(s, r, t, h)
         /\ \A t \in Task, v \in Page : PDE(s, t, v).present => PTE(r, t, v) = PTE(s, t, v)
         /\ Fits(r, k, x \ {f}, h)
<1>1. s \in Mem /\ s.panic = "no" /\ Exact(s.refs, Held(s, k, h), x)
  BY DEF Fits
<1>2. s.refs \in [Frame -> Nat]
  BY <1>1, Sizes DEF Mem
<1> DEFINE H == Held(s, k, h)
<1>3. /\ s.refs[f] # 0 /\ Exact([s.refs EXCEPT ![f] = s.refs[f] - 1], H, x \ {f})
      /\ s.refs[f] = 1 => Holders(H, f) = {}
  BY <1>1, <1>2, Put
<1>4. /\ r \in Mem /\ r.panic = "no" /\ r.dir = s.dir
      /\ r.refs = [s.refs EXCEPT ![f] = s.refs[f] - 1]
      /\ s.refs[f] = 1 => /\ r.tab = [s.tab EXCEPT ![f] = EmptyTable]
                          /\ r.data = [s.data EXCEPT ![f] = Junk]
      /\ s.refs[f] # 1 => r.tab = s.tab /\ r.data = s.data
  BY <1>1, <1>3, DropIs
<1>5. CASE s.refs[f] # 1
  <2>1. r.tab = s.tab /\ r.data = s.data
    BY <1>4, <1>5
  <2>2. Held(r, k, h) = H /\ OwnTables(r) /\ \A t, v : Ent(r, t, v) = Ent(s, t, v)
    BY <1>4, <2>1, HeldSame, EntSame DEF Fits
  <2>3. FreeIsJunk(r)
    <3>1. \A g \in Frame : r.refs[g] = 0 => s.refs[g] = 0
      BY <1>2, <1>3, <1>4, <1>5
    <3>2. QED
      BY <2>1, <3>1 DEF Fits, FreeIsJunk
  <2>4. Fits(r, k, x \ {f}, h)
    BY <1>3, <1>4, <2>2, <2>3 DEF Fits
  <2>5. \A t \in Task : SamePages(s, r, t, h)
    BY <2>1, <2>2 DEF SamePages
  <2>6. \A t \in Task, v \in Page : PTE(r, t, v) = PTE(s, t, v)
    BY <1>4, <2>1 DEF PTE, PDE
  <2>7. QED
    BY <1>4, <2>2, <2>4, <2>5, <2>6
<1>6. CASE s.refs[f] = 1
  <2>1. /\ \A t \in Task, d \in Dir : ~ TableAt(s, t, d, f)
        /\ \A t \in Task, v \in Page : ~ PageAt(s, h, t, v, f)
    BY <1>3, <1>6, NotHeld
  <2>2. /\ \A g \in Frame : g # f => r.tab[g] = s.tab[g] /\ r.data[g] = s.data[g]
        /\ r.data[f] = Junk
    BY <1>1, <1>4, <1>6 DEF Mem
  <2>3. ASSUME NEW t \in Task, NEW v \in Page, PDE(s, t, v).present
        PROVE  PTE(r, t, v) = PTE(s, t, v)
    <3>1. TableAt(s, t, DirOf(v), PDE(s, t, v).frame) /\ DirOf(v) \in Dir
      BY <2>3, PagePlace DEF TableAt, PDE
    <3>2. PDE(s, t, v).frame # f /\ PDE(s, t, v).frame \in Frame
      BY <1>1, <2>1, <2>3, <3>1, PresentType
    <3>3. QED
      BY <1>4, <2>2, <3>2 DEF PTE, PDE
  <2>4. ASSUME NEW t \in Task, NEW v \in Page
        PROVE  Ent(r, t, v) = Ent(s, t, v)
    <3>1. PDE(r, t, v) = PDE(s, t, v)
      BY <1>4 DEF PDE
    <3>2. QED
      BY <2>3, <3>1 DEF Ent
  <2>5. Held(r, k, h) = H
    <3>1. /\ \A t \in Task, d \in Dir, g \in Frame : TableAt(r, t, d, g) <=> TableAt(s, t, d, g)
          /\ \A t \in Task, v \in Page, g \in Frame : PageAt(r, h, t, v, g) <=> PageAt(s, h, t, v, g)
      BY <1>4, <2>4 DEF TableAt, PageAt
    <3>2. QED
      BY <3>1, SameHeld
  <2>6. OwnTables(r)
    BY <1>4 DEF Fits, OwnTables, TableAt
  <2>7. FreeIsJunk(r)
    <3>1. \A g \in Frame : g # f /\ r.refs[g] = 0 => s.refs[g] = 0
      BY <1>2, <1>4
    <3>2. QED
      BY <2>2, <3>1 DEF Fits, FreeIsJunk
  <2>8. Fits(r, k, x \ {f}, h)
    BY <1>3, <1>4, <2>5, <2>6, <2>7 DEF Fits
  <2>9. ASSUME NEW t \in Task
        PROVE  SamePages(s, r, t, h)
    <3>1. ASSUME NEW v \in Page, Ent(s, t, v).present, <<t, v>> \notin h
          PROVE  r.data[Ent(s, t, v).frame] = s.data[Ent(s, t, v).frame]
      <4>1. Ent(s, t, v).frame \in Frame
        BY <1>1, <3>1, EntIs
      <4>2. Ent(s, t, v).frame # f
        BY <2>1, <3>1 DEF PageAt
      <4>3. QED
        BY <2>2, <4>1, <4>2
    <3>2. QED
      BY <2>4, <3>1 DEF SamePages
  <2>10. QED
    BY <1>4, <2>3, <2>5, <2>8, <2>9
<1>7. QED
  BY <1>5, <1>6

(* A page is counted no longer, or a frame of a task structure. *)
LEMMA PageLeaves ==
  ASSUME NEW s, NEW k, NEW x, NEW h, Fits(s, k, x, h),
         NEW t \in Task, NEW v \in Page, NEW f \in Frame, PageAt(s, h, t, v, f), f \notin x
  PROVE  Fits(s, k, x \cup {f}, h \cup {<<t, v>>})
<1> DEFINE H == Held(s, k, h)
           a == PageUse(v)
           j == h \cup {<<t, v>>}
           K == H \ {<<t, a, f>>}
<1>1. H \subseteq Having /\ a \in Use /\ a = PageUse(v)
  BY HeldHaving, UsesDiffer
<1>2. <<t, a, f>> \in H
  BY HeldIs
<1>3. Exact(s.refs, H, x) /\ OneUse(H)
  BY DEF Fits
<1>4. ASSUME NEW u \in Task, NEW g \in Frame
      PROVE  /\ \A d \in Dir : <<u, TableUse(d), g>> \in K <=> TableAt(s, u, d, g)
             /\ \A w \in Page : <<u, PageUse(w), g>> \in K <=> PageAt(s, j, u, w, g)
             /\ \A p \in Task : <<u, TaskUse(p), g>> \in K <=> p = u /\ g \in k[u]
  <2>1. /\ \A d \in Dir : <<u, TableUse(d), g>> \in H <=> TableAt(s, u, d, g)
        /\ \A w \in Page : <<u, PageUse(w), g>> \in H <=> PageAt(s, h, u, w, g)
        /\ \A p \in Task : <<u, TaskUse(p), g>> \in H <=> p = u /\ g \in k[u]
    BY HeldIs
  <2>2. (\A d : a # TableUse(d)) /\ (\A p : a # TaskUse(p)) /\ \A w : a = PageUse(w) => v = w
    BY UsesDiffer
  <2>3. ASSUME NEW w \in Page
        PROVE  <<u, PageUse(w), g>> \in K <=> PageAt(s, j, u, w, g)
    <3>1. <<u, PageUse(w), g>> = <<t, a, f>> <=> u = t /\ w = v /\ g = f
      BY <1>1, <2>2
    <3>2. CASE u = t /\ w = v
      <4>1. g = f <=> PageAt(s, h, u, w, g)
        BY <3>2 DEF PageAt
      <4>2. <<u, w>> \in j
        BY <3>2
      <4>3. QED
        BY <2>1, <3>1, <3>2, <4>1, <4>2 DEF PageAt
    <3>3. CASE ~ (u = t /\ w = v)
      <4>1. <<u, w>> \in j <=> <<u, w>> \in h
        BY <3>3
      <4>2. QED
        BY <2>1, <3>1, <3>3, <4>1 DEF PageAt
    <3>4. QED
      BY <3>2, <3>3
  <2>4. /\ \A d : <<u, TableUse(d), g>> # <<t, a, f>>
        /\ \A p : <<u, TaskUse(p), g>> # <<t, a, f>>
    BY <2>2
  <2>5. QED
    BY <2>1, <2>3, <2>4
<1>5. K \subseteq Having
  BY <1>1
<1> HIDE DEF H, a, j
<1>6. Exact(s.refs, K, x \cup {f}) /\ OneUse(K)
  BY <1>1, <1>2, <1>3, Leave
<1> HIDE DEF K
<1>7. Held(s, k, j) = K
  BY <1>4, <1>5, HeldEquals
<1>8. QED
  BY <1>6, <1>7 DEF Fits, j
-----------------------------------------------------------------------------
(* Steps that change a page table or a page directory.                     *)

(* A frame is the page table of one directory entry only, and no page.     *)
LEMMA TableUsed ==
  ASSUME NEW s, NEW k, NEW x, NEW h, Fits(s, k, x, h),
         NEW t \in Task, NEW d \in Dir, NEW f \in Frame, TableAt(s, t, d, f), NEW u \in Task
  PROVE  /\ \A e \in Dir : TableAt(s, u, e, f) => e = d
         /\ \A v \in Page : ~ PageAt(s, h, u, v, f)
<1> DEFINE H == Held(s, k, h)
<1>1. OneUse(H)
  BY DEF Fits
<1>2. <<t, TableUse(d), f>> \in H /\ TableUse(d) \in Use
  BY HeldIs, UsesDiffer
<1>3. ASSUME NEW a \in Use, <<u, a, f>> \in H
      PROVE  a = TableUse(d)
  BY <1>1, <1>2, <1>3 DEF OneUse
<1>4. ASSUME NEW e \in Dir, TableAt(s, u, e, f)
      PROVE  e = d
  <2>1. <<u, TableUse(e), f>> \in H /\ TableUse(e) \in Use
    BY <1>4, HeldIs, UsesDiffer
  <2>2. QED
    BY <1>3, <2>1, UsesDiffer
<1>5. ASSUME NEW v \in Page, PageAt(s, h, u, v, f)
      PROVE  FALSE
  <2>1. <<u, PageUse(v), f>> \in H /\ PageUse(v) \in Use
    BY <1>5, HeldIs, UsesDiffer
  <2>2. QED
    BY <1>3, <2>1, UsesDiffer
<1>6. QED
  BY <1>4, <1>5

(* A store to an entry of a page table that one process has changes one    *)
(* page of that process.                                                   *)
LEMMA EntryView ==
  ASSUME NEW s, NEW k, NEW x, NEW h, Fits(s, k, x, h),
         NEW t \in Task, NEW v \in Page, NEW F,
         PDE(s, t, v).present, ~ PDE(s, t, v).shared, F = PDE(s, t, v).frame,
         NEW e \in TabEntry, NEW r, r = SetEntry(s, F, SlotOf(v), e)
  PROVE  /\ r \in Mem /\ r.dir = s.dir /\ r.data = s.data /\ r.refs = s.refs /\ r.panic = s.panic
         /\ Ent(r, t, v) = e
         /\ \A u \in Task, w \in Page : u # t \/ w # v => Ent(r, u, w) = Ent(s, u, w)
<1>1. s \in Mem /\ OwnTables(s)
  BY DEF Fits
<1> DEFINE D == DirOf(v)
           i == SlotOf(v)
<1>2. D \in Dir /\ i \in Slot /\ PDE(s, t, v) = s.dir[t][D] /\ F \in Frame
  BY <1>1, PagePlace, PresentType DEF PDE
<1>3. TableAt(s, t, D, F)
  BY <1>2 DEF TableAt
<1>4. /\ r \in Mem /\ r.dir = s.dir /\ r.data = s.data /\ r.refs = s.refs /\ r.panic = s.panic
      /\ r.tab[F][i] = e
      /\ \A g \in Frame, j \in Slot : g # F \/ j # i => r.tab[g][j] = s.tab[g][j]
  <2> HIDE DEF i
  <2>1. r = SetEntry(s, F, i, e)
    BY DEF i
  <2>2. QED
    BY <1>1, <1>2, <2>1, SetEntryIs, SMTT(60)
<1>5. Ent(r, t, v) = e
  BY <1>2, <1>4 DEF Ent, PDE, PTE
<1>6. ASSUME NEW u \in Task, NEW w \in Page, u # t \/ w # v
      PROVE  Ent(r, u, w) = Ent(s, u, w)
  <2>1. PDE(r, u, w) = PDE(s, u, w)
    BY <1>4 DEF PDE
  <2>2. CASE ~ PDE(s, u, w).present
    BY <2>1, <2>2 DEF Ent
  <2>3. CASE PDE(s, u, w).present
    <3> DEFINE G == PDE(s, u, w).frame
               c == DirOf(w)
               j == SlotOf(w)
    <3>1. G \in Frame /\ c \in Dir /\ j \in Slot /\ TableAt(s, u, c, G)
      BY <1>1, <2>3, PresentType, PagePlace DEF TableAt, PDE
    <3>2. G # F \/ j # i
      <4>1. ASSUME G = F
            PROVE  j # i
        <5>1. u = t
          BY <1>1, <1>2, <3>1, <4>1 DEF OwnTables
        <5>2. c = D
          BY <1>2, <1>3, <3>1, <4>1, TableUsed
        <5>3. QED
          BY <1>6, <5>1, <5>2, PagePlace
      <4>2. QED
        BY <4>1
    <3>3. r.tab[G][j] = s.tab[G][j]
      BY <1>4, <3>1, <3>2
    <3>4. QED
      BY <2>1, <2>3, <3>3 DEF Ent, PTE
  <2>4. QED
    BY <2>2, <2>3
<1>7. QED
  BY <1>4, <1>5, <1>6

(* ... and a page that was not counted leaves, or comes. *)
LEMMA EntryCleared ==
  ASSUME NEW s, NEW k, NEW x, NEW h, Fits(s, k, x, h),
         NEW t \in Task, NEW v \in Page, NEW F,
         PDE(s, t, v).present, ~ PDE(s, t, v).shared, F = PDE(s, t, v).frame,
         <<t, v>> \in h,
         NEW e \in TabEntry, ~ e.present, NEW r, r = SetEntry(s, F, SlotOf(v), e)
  PROVE  Fits(r, k, x, h \ {<<t, v>>})
<1>1. /\ r \in Mem /\ r.dir = s.dir /\ r.data = s.data /\ r.refs = s.refs /\ r.panic = s.panic
      /\ Ent(r, t, v) = e
      /\ \A u \in Task, w \in Page : u # t \/ w # v => Ent(r, u, w) = Ent(s, u, w)
  BY EntryView
<1> DEFINE j == h \ {<<t, v>>}
<1>2. ASSUME NEW u \in Task, NEW w \in Page, NEW g \in Frame
      PROVE  PageAt(r, j, u, w, g) <=> PageAt(s, h, u, w, g)
  <2>1. CASE u = t /\ w = v
    BY <1>1, <2>1 DEF PageAt
  <2>2. CASE ~ (u = t /\ w = v)
    <3>1. <<u, w>> \in j <=> <<u, w>> \in h
      BY <2>2
    <3>2. QED
      BY <1>1, <2>2, <3>1 DEF PageAt
  <2>3. QED
    BY <2>1, <2>2
<1>3. \A u \in Task, d \in Dir, g \in Frame : TableAt(r, u, d, g) <=> TableAt(s, u, d, g)
  BY <1>1 DEF TableAt
<1> HIDE DEF j
<1>4. Held(r, k, j) = Held(s, k, h)
  BY <1>2, <1>3, SameHeld
<1>5. OwnTables(r) /\ FreeIsJunk(r)
  BY <1>1 DEF Fits, OwnTables, FreeIsJunk, TableAt
<1>6. QED
  BY <1>1, <1>4, <1>5 DEF Fits, j

LEMMA EntryMade ==
  ASSUME NEW s, NEW k, NEW x, NEW h, Fits(s, k, x, h),
         NEW t \in Task, NEW v \in Page, NEW F,
         PDE(s, t, v).present, ~ PDE(s, t, v).shared, F = PDE(s, t, v).frame,
         <<t, v>> \in h \/ ~ Ent(s, t, v).present,
         NEW e \in TabEntry, e.present, e.frame \in x, Holders(Held(s, k, h), e.frame) = {},
         NEW r, r = SetEntry(s, F, SlotOf(v), e)
  PROVE  Fits(r, k, x \ {e.frame}, h \ {<<t, v>>})
<1>1. /\ r \in Mem /\ r.dir = s.dir /\ r.data = s.data /\ r.refs = s.refs /\ r.panic = s.panic
      /\ Ent(r, t, v) = e
      /\ \A u \in Task, w \in Page : u # t \/ w # v => Ent(r, u, w) = Ent(s, u, w)
  BY EntryView
<1> DEFINE j == h \ {<<t, v>>}
           H == Held(s, k, h)
           a == PageUse(v)
           n == e.frame
           K == H \cup {<<t, a, n>>}
<1>2. n \in Frame /\ a \in Use /\ H \subseteq Having
  BY HeldHaving, UsesDiffer DEF TabEntry
<1>3. ASSUME NEW u \in Task, NEW g \in Frame
      PROVE  /\ \A d \in Dir : <<u, TableUse(d), g>> \in K <=> TableAt(r, u, d, g)
             /\ \A w \in Page : <<u, PageUse(w), g>> \in K <=> PageAt(r, j, u, w, g)
             /\ \A p \in Task : <<u, TaskUse(p), g>> \in K <=> p = u /\ g \in k[u]
  <2>1. /\ \A d \in Dir : <<u, TableUse(d), g>> \in H <=> TableAt(s, u, d, g)
        /\ \A w \in Page : <<u, PageUse(w), g>> \in H <=> PageAt(s, h, u, w, g)
        /\ \A p \in Task : <<u, TaskUse(p), g>> \in H <=> p = u /\ g \in k[u]
    BY HeldIs
  <2>2. (\A d : a # TableUse(d)) /\ (\A p : a # TaskUse(p)) /\ \A w : a = PageUse(w) <=> v = w
    BY UsesDiffer
  <2>3. ASSUME NEW w \in Page
        PROVE  <<u, PageUse(w), g>> \in K <=> PageAt(r, j, u, w, g)
    <3>1. <<u, PageUse(w), g>> = <<t, a, n>> <=> u = t /\ w = v /\ g = n
      BY <2>2
    <3>2. CASE u = t /\ w = v
      <4>1. <<u, w>> \notin j /\ ~ PageAt(s, h, u, w, g)
        BY <3>2 DEF PageAt
      <4>2. QED
        BY <1>1, <2>1, <3>1, <3>2, <4>1 DEF PageAt
    <3>3. CASE ~ (u = t /\ w = v)
      <4>1. <<u, w>> \in j <=> <<u, w>> \in h
        BY <3>3
      <4>2. QED
        BY <1>1, <2>1, <3>1, <3>3, <4>1 DEF PageAt
    <3>4. QED
      BY <3>2, <3>3
  <2>4. /\ \A d : <<u, TableUse(d), g>> # <<t, a, n>>
        /\ \A p : <<u, TaskUse(p), g>> # <<t, a, n>>
    BY <2>2
  <2>5. \A d \in Dir : TableAt(r, u, d, g) <=> TableAt(s, u, d, g)
    BY <1>1 DEF TableAt
  <2>6. QED
    BY <2>1, <2>3, <2>4, <2>5
<1>4. <<t, a, n>> \in Having
  BY <1>2 DEF Having
<1>5. K \subseteq Having
  BY <1>2, <1>4
<1>6. Exact(s.refs, H, x) /\ OneUse(H) /\ n \in x /\ Holders(H, n) = {}
  BY DEF Fits
<1> HIDE DEF H, a, j, n
<1>7. Exact(s.refs, K, x \ {n}) /\ OneUse(K)
  BY <1>2, <1>6, Join
<1> HIDE DEF K
<1>8. Held(r, k, j) = K
  BY <1>3, <1>5, HeldEquals
<1>9. OwnTables(r) /\ FreeIsJunk(r)
  BY <1>1 DEF Fits, OwnTables, FreeIsJunk, TableAt
<1>10. Fits(r, k, x \ {n}, j)
  BY <1>1, <1>7, <1>8, <1>9 DEF Fits
<1>11. QED
  BY <1>10 DEF n, j

(* A directory entry gets a page table of its own that says of every page  *)
(* what was said before: an empty one where there was none, or a copy.     *)
LEMMA TableView ==
  ASSUME NEW s, NEW k, NEW x, NEW h, Fits(s, k, x, h),
         NEW t \in Task, NEW d \in Dir, NEW N \in Frame, Holders(Held(s, k, h), N) = {},
         NEW user \in BOOLEAN, NEW T \in [Slot -> TabEntry],
         \A v \in Page : DirOf(v) = d => T[SlotOf(v)] = Ent(s, t, v),
         NEW r, r = SetTable(s, t, d, Table(N, user), N, T)
  PROVE  /\ r \in Mem /\ r.data = s.data /\ r.refs = s.refs /\ r.panic = s.panic
         /\ r.dir[t][d] = Table(N, user)
         /\ \A u \in Task, e \in Dir : u # t \/ e # d => r.dir[u][e] = s.dir[u][e]
         /\ \A u \in Task : u # t => r.dir[u] = s.dir[u]
         /\ \A u \in Task, v \in Page : Ent(r, u, v) = Ent(s, u, v)
         /\ OwnTables(r)
<1>1. s \in Mem /\ OwnTables(s)
  BY DEF Fits
<1> DEFINE E == Table(N, user)
<1>2. E \in DirEntry /\ E.frame = N /\ E.present /\ ~ E.shared
  BY Entries
<1> HIDE DEF E
<1>3. /\ r \in Mem /\ r.data = s.data /\ r.refs = s.refs /\ r.panic = s.panic
      /\ r.tab[N] = T /\ \A g \in Frame : g # N => r.tab[g] = s.tab[g]
      /\ r.dir[t][d] = E
      /\ \A u \in Task, e \in Dir : u # t \/ e # d => r.dir[u][e] = s.dir[u][e]
      /\ \A u \in Task : u # t => r.dir[u] = s.dir[u]
  <2>1. r = SetTable(s, t, d, E, N, T)
    BY DEF E
  <2>2. QED
    BY <1>1, <1>2, <2>1, SetTableIs
<1>4. \A u \in Task, e \in Dir : ~ TableAt(s, u, e, N)
  BY NotHeld
<1>5. ASSUME NEW u \in Task, NEW v \in Page
      PROVE  Ent(r, u, v) = Ent(s, u, v)
  <2>1. DirOf(v) \in Dir /\ SlotOf(v) \in Slot
    BY PagePlace
  <2>2. CASE u = t /\ DirOf(v) = d
    <3>1. PDE(r, u, v) = E
      BY <1>3, <2>2 DEF PDE
    <3>2. PTE(r, u, v) = T[SlotOf(v)]
      BY <1>2, <1>3, <3>1 DEF PTE
    <3>3. QED
      BY <1>2, <2>2, <3>1, <3>2 DEF Ent
  <2>3. CASE ~ (u = t /\ DirOf(v) = d)
    <3>1. PDE(r, u, v) = PDE(s, u, v)
      BY <1>3, <2>1, <2>3 DEF PDE
    <3>2. CASE PDE(s, u, v).present
      <4>1. TableAt(s, u, DirOf(v), PDE(s, u, v).frame) /\ PDE(s, u, v).frame \in Frame
        BY <1>1, <3>2, PresentType DEF TableAt, PDE
      <4>2. PDE(s, u, v).frame # N
        BY <1>4, <2>1, <4>1
      <4>3. QED
        BY <1>3, <3>1, <4>1, <4>2 DEF Ent, PTE
    <3>3. CASE ~ PDE(s, u, v).present
      BY <3>1, <3>3 DEF Ent
    <3>4. QED
      BY <3>2, <3>3
  <2>4. QED
    BY <2>2, <2>3
<1>6. OwnTables(r)
  <2>1. SUFFICES ASSUME NEW p \in Task, NEW u \in Task, NEW c \in Dir, NEW e \in Dir,
                        r.dir[p][c].present, ~ r.dir[p][c].shared,
                        TableAt(r, u, e, r.dir[p][c].frame)
                 PROVE  p = u
    BY DEF OwnTables
  <2>2. CASE p = t /\ c = d
    <3>1. r.dir[p][c].frame = N
      BY <1>2, <1>3, <2>2
    <3>2. CASE u = t /\ e = d
      BY <2>2, <3>2
    <3>3. CASE ~ (u = t /\ e = d)
      <4>1. TableAt(s, u, e, N)
        BY <1>3, <2>1, <3>1, <3>3 DEF TableAt
      <4>2. QED
        BY <1>4, <4>1
    <3>4. QED
      BY <3>2, <3>3
  <2>3. CASE ~ (p = t /\ c = d)
    <3>1. r.dir[p][c] = s.dir[p][c]
      BY <1>3, <2>3
    <3>2. TableAt(s, p, c, s.dir[p][c].frame) /\ s.dir[p][c].frame \in Frame
      BY <1>1, <2>1, <3>1, DirIs DEF TableAt
    <3>3. s.dir[p][c].frame # N
      BY <1>4, <3>2
    <3>4. ~ (u = t /\ e = d)
      BY <1>2, <1>3, <2>1, <3>1, <3>3 DEF TableAt
    <3>5. TableAt(s, u, e, s.dir[p][c].frame)
      BY <1>3, <2>1, <3>1, <3>4 DEF TableAt
    <3>6. QED
      BY <1>1, <2>1, <3>1, <3>5 DEF OwnTables
  <2>4. QED
    BY <2>2, <2>3
<1>7. QED
  BY <1>3, <1>5, <1>6 DEF E

(* The triples of a page directory in which one entry has another table. *)
AllBut(H, s, k, h, t, d) ==
  /\ H \subseteq Having
  /\ \A u \in Task, g \in Frame :
       /\ \A e \in Dir : <<u, TableUse(e), g>> \in H <=> TableAt(s, u, e, g) /\ ~ (u = t /\ e = d)
       /\ \A v \in Page : <<u, PageUse(v), g>> \in H <=> PageAt(s, h, u, v, g)
       /\ \A p \in Task : <<u, TaskUse(p), g>> \in H <=> p = u /\ g \in k[u]

NewTable(s, r, t, d, N) ==
  /\ r.dir[t][d].present /\ r.dir[t][d].frame = N
  /\ \A u \in Task, e \in Dir : u # t \/ e # d => r.dir[u][e] = s.dir[u][e]
  /\ \A u \in Task, v \in Page : Ent(r, u, v) = Ent(s, u, v)

LEMMA TableHeld ==
  ASSUME NEW s, NEW k, NEW h, NEW r, NEW t \in Task, NEW d \in Dir, NEW N \in Frame,
         NewTable(s, r, t, d, N),
         NEW H, AllBut(H, s, k, h, t, d)
  PROVE  Held(r, k, h) = H \cup {<<t, TableUse(d), N>>}
<1> DEFINE a == TableUse(d)
           K == H \cup {<<t, a, N>>}
<1>1. a \in Use /\ <<t, a, N>> \in Having
  BY UsesDiffer DEF Having
<1> USE DEF AllBut, NewTable
<1>2. ASSUME NEW u \in Task, NEW g \in Frame
      PROVE  /\ \A e \in Dir : <<u, TableUse(e), g>> \in K <=> TableAt(r, u, e, g)
             /\ \A v \in Page : <<u, PageUse(v), g>> \in K <=> PageAt(r, h, u, v, g)
             /\ \A p \in Task : <<u, TaskUse(p), g>> \in K <=> p = u /\ g \in k[u]
  <2>1. (\A v : a # PageUse(v)) /\ (\A p : a # TaskUse(p)) /\ \A e : a = TableUse(e) <=> d = e
    BY UsesDiffer
  <2>2. ASSUME NEW e \in Dir
        PROVE  <<u, TableUse(e), g>> \in K <=> TableAt(r, u, e, g)
    <3>1. <<u, TableUse(e), g>> = <<t, a, N>> <=> u = t /\ e = d /\ g = N
      BY <2>1
    <3>2. <<u, TableUse(e), g>> \in H <=> TableAt(s, u, e, g) /\ ~ (u = t /\ e = d)
      OBVIOUS
    <3>3. CASE u = t /\ e = d
      BY <3>1, <3>2, <3>3 DEF TableAt
    <3>4. CASE ~ (u = t /\ e = d)
      BY <3>1, <3>2, <3>4 DEF TableAt
    <3>5. QED
      BY <3>3, <3>4
  <2>3. /\ \A v : <<u, PageUse(v), g>> # <<t, a, N>>
        /\ \A p : <<u, TaskUse(p), g>> # <<t, a, N>>
    BY <2>1
  <2>4. \A v \in Page : PageAt(r, h, u, v, g) <=> PageAt(s, h, u, v, g)
    BY DEF PageAt
  <2>5. ASSUME NEW v \in Page
        PROVE  <<u, PageUse(v), g>> \in K <=> PageAt(r, h, u, v, g)
    <3>1. <<u, PageUse(v), g>> \in H <=> PageAt(s, h, u, v, g)
      OBVIOUS
    <3>2. QED
      BY <2>3, <2>4, <3>1
  <2>6. ASSUME NEW p \in Task
        PROVE  <<u, TaskUse(p), g>> \in K <=> p = u /\ g \in k[u]
    <3>1. <<u, TaskUse(p), g>> \in H <=> p = u /\ g \in k[u]
      OBVIOUS
    <3>2. QED
      BY <2>3, <3>1
  <2>7. QED
    BY <2>2, <2>5, <2>6
<1>3. K \subseteq Having
  BY <1>1
<1> HIDE DEF K
<1>4. Held(r, k, h) = K
  BY <1>2, <1>3, HeldEquals
<1>5. QED
  BY <1>4 DEF K

LEMMA TableMade ==
  ASSUME NEW s, NEW k, NEW x, NEW h, Fits(s, k, x, h),
         NEW t \in Task, NEW d \in Dir, ~ s.dir[t][d].present,
         NEW N \in Frame, N \in x, Holders(Held(s, k, h), N) = {},
         NEW user \in BOOLEAN, NEW T \in [Slot -> TabEntry],
         \A v \in Page : DirOf(v) = d => T[SlotOf(v)] = Ent(s, t, v),
         NEW r, r = SetTable(s, t, d, Table(N, user), N, T)
  PROVE  Fits(r, k, x \ {N}, h)
<1> DEFINE H == Held(s, k, h)
           a == TableUse(d)
           K == H \cup {<<t, a, N>>}
<1>1. /\ r \in Mem /\ r.data = s.data /\ r.refs = s.refs /\ r.panic = s.panic
      /\ r.dir[t][d] = Table(N, user)
      /\ \A u \in Task, e \in Dir : u # t \/ e # d => r.dir[u][e] = s.dir[u][e]
      /\ \A u \in Task, v \in Page : Ent(r, u, v) = Ent(s, u, v)
      /\ OwnTables(r)
  BY TableView
<1>2. r.dir[t][d].present /\ r.dir[t][d].frame = N
  BY <1>1, Entries
<1>3. H \subseteq Having
  BY HeldHaving
<1>4. ASSUME NEW u \in Task, NEW g \in Frame
      PROVE  /\ \A e \in Dir : <<u, TableUse(e), g>> \in H <=> TableAt(s, u, e, g) /\ ~ (u = t /\ e = d)
             /\ \A v \in Page : <<u, PageUse(v), g>> \in H <=> PageAt(s, h, u, v, g)
             /\ \A p \in Task : <<u, TaskUse(p), g>> \in H <=> p = u /\ g \in k[u]
  <2>1. /\ \A e \in Dir : <<u, TableUse(e), g>> \in H <=> TableAt(s, u, e, g)
        /\ \A v \in Page : <<u, PageUse(v), g>> \in H <=> PageAt(s, h, u, v, g)
        /\ \A p \in Task : <<u, TaskUse(p), g>> \in H <=> p = u /\ g \in k[u]
    BY HeldIs
  <2>2. \A e \in Dir : TableAt(s, u, e, g) <=> TableAt(s, u, e, g) /\ ~ (u = t /\ e = d)
    BY DEF TableAt
  <2>3. QED
    BY <2>1, <2>2
<1>5. Exact(s.refs, H, x) /\ OneUse(H) /\ Holders(H, N) = {}
  BY DEF Fits
<1>6. Held(r, k, h) = K
  <2>1. AllBut(H, s, k, h, t, d)
    BY <1>3, <1>4 DEF AllBut
  <2> HIDE DEF H, K, a
  <2>2. NewTable(s, r, t, d, N)
    BY <1>1, <1>2 DEF NewTable
  <2>3. Held(r, k, h) = H \cup {<<t, TableUse(d), N>>}
    BY <2>1, <2>2, TableHeld
  <2>4. QED
    BY <2>3 DEF K, a
<1> HIDE DEF H
<1>7. a \in Use
  BY UsesDiffer
<1> HIDE DEF a
<1>8. Exact(s.refs, K, x \ {N}) /\ OneUse(K)
  BY <1>5, <1>7, Join
<1> HIDE DEF K
<1>9. FreeIsJunk(r)
  BY <1>1 DEF Fits, FreeIsJunk
<1>10. QED
  BY <1>1, <1>6, <1>8, <1>9 DEF Fits

LEMMA TableReplaced ==
  ASSUME NEW s, NEW k, NEW x, NEW h, Fits(s, k, x, h),
         NEW t \in Task, NEW d \in Dir, NEW F \in Frame, TableAt(s, t, d, F), F \notin x,
         NEW N \in Frame, N \in x, Holders(Held(s, k, h), N) = {},
         NEW user \in BOOLEAN, NEW T \in [Slot -> TabEntry],
         \A v \in Page : DirOf(v) = d => T[SlotOf(v)] = Ent(s, t, v),
         NEW r, r = SetTable(s, t, d, Table(N, user), N, T)
  PROVE  Fits(r, k, (x \cup {F}) \ {N}, h)
<1> DEFINE J == Held(s, k, h)
           a == TableUse(d)
           H == J \ {<<t, a, F>>}
           y == x \cup {F}
           K == H \cup {<<t, a, N>>}
<1>1. /\ r \in Mem /\ r.data = s.data /\ r.refs = s.refs /\ r.panic = s.panic
      /\ r.dir[t][d] = Table(N, user)
      /\ \A u \in Task, e \in Dir : u # t \/ e # d => r.dir[u][e] = s.dir[u][e]
      /\ \A u \in Task, v \in Page : Ent(r, u, v) = Ent(s, u, v)
      /\ OwnTables(r)
  BY TableView
<1>2. r.dir[t][d].present /\ r.dir[t][d].frame = N
  BY <1>1, Entries
<1>3. H \subseteq Having
  BY HeldHaving
<1>4. ASSUME NEW u \in Task, NEW g \in Frame
      PROVE  /\ \A e \in Dir : <<u, TableUse(e), g>> \in H <=> TableAt(s, u, e, g) /\ ~ (u = t /\ e = d)
             /\ \A v \in Page : <<u, PageUse(v), g>> \in H <=> PageAt(s, h, u, v, g)
             /\ \A p \in Task : <<u, TaskUse(p), g>> \in H <=> p = u /\ g \in k[u]
  <2>1. /\ \A e \in Dir : <<u, TableUse(e), g>> \in J <=> TableAt(s, u, e, g)
        /\ \A v \in Page : <<u, PageUse(v), g>> \in J <=> PageAt(s, h, u, v, g)
        /\ \A p \in Task : <<u, TaskUse(p), g>> \in J <=> p = u /\ g \in k[u]
    BY HeldIs
  <2>2. (\A v : a # PageUse(v)) /\ (\A p : a # TaskUse(p)) /\ \A e : a = TableUse(e) <=> d = e
    BY UsesDiffer
  <2>3. ASSUME NEW e \in Dir
        PROVE  <<u, TableUse(e), g>> \in H <=> TableAt(s, u, e, g) /\ ~ (u = t /\ e = d)
    <3>1. <<u, TableUse(e), g>> = <<t, a, F>> <=> u = t /\ e = d /\ g = F
      BY <2>2
    <3>2. u = t /\ e = d /\ TableAt(s, u, e, g) => g = F
      BY DEF TableAt
    <3>3. QED
      BY <2>1, <3>1, <3>2
  <2>4. /\ \A v : <<u, PageUse(v), g>> # <<t, a, F>>
        /\ \A p : <<u, TaskUse(p), g>> # <<t, a, F>>
    BY <2>2
  <2>5. QED
    BY <2>1, <2>3, <2>4
<1>5. Exact(s.refs, J, x) /\ OneUse(J) /\ Holders(J, N) = {} /\ <<t, a, F>> \in J
  BY HeldIs DEF Fits
<1>6. a \in Use
  BY UsesDiffer
<1> HIDE DEF J, a
<1>7. Exact(s.refs, H, y) /\ OneUse(H)
  BY <1>5, <1>6, Leave
<1>8. Holders(H, N) = {}
  BY <1>5 DEF Holders
<1>9. N \in y
  OBVIOUS
<1> HIDE DEF H
<1>10. Held(r, k, h) = K
  <2>1. AllBut(H, s, k, h, t, d)
    BY <1>3, <1>4 DEF AllBut
  <2>2. NewTable(s, r, t, d, N)
    BY <1>1, <1>2 DEF NewTable
  <2>3. Held(r, k, h) = H \cup {<<t, TableUse(d), N>>}
    BY <2>1, <2>2, TableHeld
  <2>4. QED
    BY <2>3 DEF a
<1> HIDE DEF y
<1>11. Exact(s.refs, K, y \ {N}) /\ OneUse(K)
  BY <1>6, <1>7, <1>8, <1>9, Join
<1> HIDE DEF K
<1>12. FreeIsJunk(r)
  BY <1>1 DEF Fits, FreeIsJunk
<1>13. QED
  BY <1>1, <1>10, <1>11, <1>12 DEF Fits, y

(* enable_CoW(): the entries of a page table that one process has. *)
TabHidden(s, r, t, d) ==
  /\ r.dir = s.dir /\ r.data = s.data
  /\ \A u \in Task, w \in Page : u # t \/ DirOf(w) # d => Ent(r, u, w) = Ent(s, u, w)
  /\ \A w \in Page : DirOf(w) = d =>
       /\ Ent(r, t, w).present = Ent(s, t, w).present
       /\ Ent(r, t, w).frame = Ent(s, t, w).frame
       /\ ~ Ent(r, t, w).rw /\ Ent(r, t, w).cow

LEMMA TabProtected ==
  ASSUME NEW s, NEW k, NEW x, NEW h, Fits(s, k, x, h),
         NEW t \in Task, NEW d \in Dir, NEW F, s.dir[t][d].present, ~ s.dir[t][d].shared,
         F = s.dir[t][d].frame, NEW r, r = SetTab(s, F, Protected(s.tab[F]))
  PROVE  TabHidden(s, r, t, d) /\ Fits(r, k, x, h)
<1>1. s \in Mem /\ OwnTables(s)
  BY DEF Fits
<1>2. F \in Frame /\ TableAt(s, t, d, F)
  BY <1>1, DirIs DEF TableAt
<1> DEFINE T == Protected(s.tab[F])
<1>3. /\ T \in [Slot -> TabEntry]
      /\ \A i \in Slot : /\ T[i].frame = s.tab[F][i].frame
                         /\ T[i].present = s.tab[F][i].present
                         /\ ~ T[i].rw /\ T[i].cow
  <2>1. s.tab[F] \in [Slot -> TabEntry]
    BY <1>1, <1>2 DEF Mem
  <2>2. QED
    BY <2>1, ProtectedType
<1> HIDE DEF T
<1>4. /\ r \in Mem /\ r.dir = s.dir /\ r.data = s.data /\ r.refs = s.refs /\ r.panic = s.panic
      /\ r.tab[F] = T /\ \A g \in Frame : g # F => r.tab[g] = s.tab[g]
  <2>1. r = SetTab(s, F, T)
    BY DEF T
  <2>2. s \in Mem /\ F \in Frame /\ T \in [Slot -> TabEntry]
    BY <1>1, <1>2, <1>3
  <2>3. /\ SetTab(s, F, T) \in Mem
        /\ SetTab(s, F, T).refs = s.refs /\ SetTab(s, F, T).dir = s.dir
        /\ SetTab(s, F, T).data = s.data /\ SetTab(s, F, T).panic = s.panic
        /\ SetTab(s, F, T).tab[F] = T
        /\ \A g \in Frame : g # F => SetTab(s, F, T).tab[g] = s.tab[g]
    BY <2>2, SetTabIs, SMTT(60)
  <2>4. QED
    BY <2>1, <2>3
<1>5. ASSUME NEW u \in Task, NEW w \in Page, u # t \/ DirOf(w) # d
      PROVE  Ent(r, u, w) = Ent(s, u, w)
  <2>1. PDE(r, u, w) = PDE(s, u, w)
    BY <1>4 DEF PDE
  <2>2. CASE ~ PDE(s, u, w).present
    BY <2>1, <2>2 DEF Ent
  <2>3. CASE PDE(s, u, w).present
    <3> DEFINE G == PDE(s, u, w).frame
               c == DirOf(w)
    <3>1. G \in Frame /\ c \in Dir /\ TableAt(s, u, c, G)
      BY <1>1, <2>3, PresentType, PagePlace DEF TableAt, PDE
    <3>2. G # F
      <4>1. ASSUME G = F
            PROVE  FALSE
        <5>1. u = t
          BY <1>1, <1>2, <3>1, <4>1 DEF OwnTables
        <5>2. c = d
          BY <1>2, <3>1, <4>1, TableUsed
        <5>3. QED
          BY <1>5, <5>1, <5>2
      <4>2. QED
        BY <4>1
    <3>3. QED
      BY <1>4, <2>1, <2>3, <3>1, <3>2 DEF Ent, PTE
  <2>4. QED
    BY <2>2, <2>3
<1>6. ASSUME NEW w \in Page, DirOf(w) = d
      PROVE  /\ Ent(r, t, w).present = Ent(s, t, w).present
             /\ Ent(r, t, w).frame = Ent(s, t, w).frame
             /\ ~ Ent(r, t, w).rw /\ Ent(r, t, w).cow
  <2>1. PDE(r, t, w) = s.dir[t][d] /\ PDE(s, t, w) = s.dir[t][d]
    BY <1>4, <1>6 DEF PDE
  <2>2. Ent(r, t, w) = T[SlotOf(w)] /\ Ent(s, t, w) = s.tab[F][SlotOf(w)]
    BY <1>4, <2>1 DEF Ent, PTE
  <2>3. QED
    BY <1>3, <2>2, PagePlace, ZenonT(60)
<1>7. Held(r, k, h) = Held(s, k, h)
  <2>1. ASSUME NEW u \in Task, NEW w \in Page, NEW g \in Frame
        PROVE  PageAt(r, h, u, w, g) <=> PageAt(s, h, u, w, g)
    <3>1. Ent(r, u, w).present = Ent(s, u, w).present /\ Ent(r, u, w).frame = Ent(s, u, w).frame
      BY <1>5, <1>6
    <3>2. QED
      BY <3>1 DEF PageAt
  <2>2. \A u \in Task, e \in Dir, g \in Frame : TableAt(r, u, e, g) <=> TableAt(s, u, e, g)
    BY <1>4 DEF TableAt
  <2>3. QED
    BY <2>1, <2>2, SameHeld, SMTT(60)
<1>8. OwnTables(r) /\ FreeIsJunk(r)
  <2>1. OwnTables(r)
    <3>1. OwnTables(s) /\ r.dir = s.dir
      BY <1>1, <1>4
    <3>2. QED
      BY <3>1, OwnSame
  <2>2. FreeIsJunk(s)
    BY DEF Fits
  <2>3. QED
    BY <1>4, <2>1, <2>2 DEF FreeIsJunk
<1>9. Fits(r, k, x, h)
  BY <1>4, <1>7, <1>8 DEF Fits
<1>10. QED
  BY <1>4, <1>5, <1>6, <1>9 DEF TabHidden

(* free_page_tables(): an entry whose page table maps no page. *)
LEMMA DirCleared ==
  ASSUME NEW s, NEW k, NEW x, NEW h, Fits(s, k, x, h),
         NEW t \in Task, NEW d \in Dir, NEW F \in Frame, TableAt(s, t, d, F), F \notin x,
         \A v \in Page : DirOf(v) = d => ~ Ent(s, t, v).present,
         NEW r, r = ClearDir(s, t, d)
  PROVE  /\ r.data = s.data
         /\ \A u \in Task : u # t => r.dir[u] = s.dir[u]
         /\ \A e \in Dir : e # d => r.dir[t][e] = s.dir[t][e]
         /\ ~ r.dir[t][d].present /\ r.dir[t][d].frame = s.dir[t][d].frame
         /\ \A u \in Task, v \in Page : u # t \/ DirOf(v) # d => Ent(r, u, v) = Ent(s, u, v)
         /\ \A v \in Page : DirOf(v) = d => ~ Ent(r, t, v).present
         /\ Fits(r, k, x \cup {F}, h)
<1>1. s \in Mem /\ OwnTables(s) /\ s.panic = "no"
  BY DEF Fits
<1>2. /\ r \in Mem /\ r.refs = s.refs /\ r.tab = s.tab /\ r.data = s.data /\ r.panic = s.panic
      /\ r.dir[t][d] = [s.dir[t][d] EXCEPT !.present = FALSE]
      /\ \A u \in Task, c \in Dir : u # t \/ c # d => r.dir[u][c] = s.dir[u][c]
      /\ \A u \in Task : u # t => r.dir[u] = s.dir[u]
  BY <1>1, ClearDirIs
<1>3. ~ r.dir[t][d].present /\ r.dir[t][d].frame = s.dir[t][d].frame
  <2>1. s.dir[t][d] \in DirEntry
    BY <1>1, DirIs
  <2>2. QED
    BY <1>2, <2>1 DEF DirEntry
<1>4. \A u \in Task, v \in Page : u # t \/ DirOf(v) # d => Ent(r, u, v) = Ent(s, u, v)
  <2>1. ASSUME NEW u \in Task, NEW v \in Page, u # t \/ DirOf(v) # d
        PROVE  Ent(r, u, v) = Ent(s, u, v)
    <3>1. PDE(r, u, v) = PDE(s, u, v)
      BY <1>2, <2>1, PagePlace DEF PDE
    <3>2. QED
      BY <1>2, <3>1 DEF Ent, PTE
  <2>2. QED
    BY <2>1
<1>5. \A v \in Page : DirOf(v) = d => ~ Ent(r, t, v).present
  BY <1>3, Entries DEF Ent, PDE
<1> DEFINE H == Held(s, k, h)
           a == TableUse(d)
           K == H \ {<<t, a, F>>}
<1>6. K \subseteq Having
  BY HeldHaving
<1>7. ASSUME NEW u \in Task, NEW g \in Frame
      PROVE  /\ \A e \in Dir : <<u, TableUse(e), g>> \in K <=> TableAt(r, u, e, g)
             /\ \A v \in Page : <<u, PageUse(v), g>> \in K <=> PageAt(r, h, u, v, g)
             /\ \A p \in Task : <<u, TaskUse(p), g>> \in K <=> p = u /\ g \in k[u]
  <2>1. /\ \A e \in Dir : <<u, TableUse(e), g>> \in H <=> TableAt(s, u, e, g)
        /\ \A v \in Page : <<u, PageUse(v), g>> \in H <=> PageAt(s, h, u, v, g)
        /\ \A p \in Task : <<u, TaskUse(p), g>> \in H <=> p = u /\ g \in k[u]
    BY HeldIs
  <2>2. (\A v : a # PageUse(v)) /\ (\A p : a # TaskUse(p)) /\ \A e : a = TableUse(e) <=> d = e
    BY UsesDiffer
  <2>3. ASSUME NEW e \in Dir
        PROVE  <<u, TableUse(e), g>> \in K <=> TableAt(r, u, e, g)
    <3>1. <<u, TableUse(e), g>> = <<t, a, F>> <=> u = t /\ e = d /\ g = F
      BY <2>2
    <3>2. CASE u = t /\ e = d
      <4>1. TableAt(s, u, e, g) <=> g = F
        BY <3>2 DEF TableAt
      <4>2. QED
        BY <1>3, <2>1, <3>1, <3>2, <4>1 DEF TableAt
    <3>3. CASE ~ (u = t /\ e = d)
      BY <1>2, <2>1, <3>1, <3>3 DEF TableAt
    <3>4. QED
      BY <3>2, <3>3
  <2>4. /\ \A v : <<u, PageUse(v), g>> # <<t, a, F>>
        /\ \A p : <<u, TaskUse(p), g>> # <<t, a, F>>
    BY <2>2
  <2>5. \A v \in Page : PageAt(r, h, u, v, g) <=> PageAt(s, h, u, v, g)
    BY <1>4, <1>5 DEF PageAt
  <2>6. QED
    BY <2>1, <2>3, <2>4, <2>5
<1>8. Exact(s.refs, H, x) /\ OneUse(H) /\ <<t, a, F>> \in H /\ a \in Use
  BY HeldIs, UsesDiffer DEF Fits
<1> HIDE DEF H, a
<1>9. Exact(s.refs, K, x \cup {F}) /\ OneUse(K)
  BY <1>8, Leave
<1> HIDE DEF K
<1>10. Held(r, k, h) = K
  BY <1>6, <1>7, HeldEquals
<1>11. OwnTables(r)
  <2>1. SUFFICES ASSUME NEW p \in Task, NEW u \in Task, NEW c \in Dir, NEW e \in Dir,
                        r.dir[p][c].present, ~ r.dir[p][c].shared,
                        TableAt(r, u, e, r.dir[p][c].frame)
                 PROVE  p = u
    BY DEF OwnTables
  <2>2. r.dir[p][c] = s.dir[p][c]
    BY <1>2, <1>3, <2>1
  <2>3. TableAt(s, u, e, s.dir[p][c].frame)
    BY <1>2, <1>3, <2>1, <2>2 DEF TableAt
  <2>4. QED
    BY <1>1, <2>1, <2>2, <2>3 DEF OwnTables
<1>12. FreeIsJunk(r)
  BY <1>2 DEF Fits, FreeIsJunk
<1>13. Fits(r, k, x \cup {F}, h)
  BY <1>1, <1>2, <1>9, <1>10, <1>11, <1>12 DEF Fits
<1>14. QED
  BY <1>2, <1>3, <1>4, <1>5, <1>13
-----------------------------------------------------------------------------
(* The inductive invariant: the counts fit, and each process that runs has *)
(* the page tables it needs, with every page that its program writes to    *)
(* writable, or copied on a write.                                         *)

(* What was freed has left no frame number in a page table or a page       *)
(* directory: inc_phys_refs() would count it.                              *)
Tidy(s, t) ==
  /\ \A d \in Dir : s.dir[t][d].frame # 0 => s.dir[t][d].present
  /\ \A v \in Page : Ent(s, t, v).frame # 0 => Ent(s, t, v).present

Reached(s, t) == \A d \in Dir : s.dir[t][d].present <=> d \in UsedDirs

ServedDir(e) == e.user /\ (e.rw \/ e.cow) /\ (e.rw => ~ e.shared)
Served(s, t, code) ==
  /\ \A d \in Dir : s.dir[t][d].present => ServedDir(s.dir[t][d])
  /\ \A v \in Page : code < v /\ Ent(s, t, v).present => Ent(s, t, v).rw \/ Ent(s, t, v).cow

Gone(s, t) == \A d \in Dir : ~ s.dir[t][d].present

View(s, t, p) ==
  /\ p.state = "alive" => /\ Tidy(s, t) /\ Reached(s, t) /\ Served(s, t, p.code_end)
                          /\ 0 .. p.brk \subseteq Reach
  /\ p.state # "alive" => Gone(s, t)
  /\ p.state = "none" => p = NoTask
  /\ p.state # "none" => (t = 0 /\ p.state = "alive") \/ p.self # p.page_directory

KFrames(tasks) == [t \in Task |-> {tasks[t].self, tasks[t].page_directory}]

Whole(s, tasks) ==
  /\ Fits(s, KFrames(tasks), {}, {})
  /\ \A t \in Task : View(s, t, tasks[t])

IInv == m.panic = "no" => Whole(m, task)

(* Where every page is loaded with the image, a page that t may write to   *)
(* is no one else's.                                                       *)
Shows(s, t, v, f) == Ent(s, t, v).present /\ Ent(s, t, v).frame = f
Alone(s, t) ==
  \A v \in Page, u \in Task \ {t} :
    Ent(s, t, v).present /\ Ent(s, t, v).rw /\ PDE(s, t, v).rw
      => ~ Shows(s, u, v, Ent(s, t, v).frame)
Filled(s, t, p) ==
  \A v \in Page : v <= p.brk \/ v <= MaxBrk \/ v = Stack => Ent(s, t, v).present

Parted(s, tasks) ==
  \A t \in Task : tasks[t].state = "alive" => Alone(s, t) /\ Filled(s, t, tasks[t])

Apart == m.panic = "no" => Parted(m, task)
-----------------------------------------------------------------------------
(* The frames of task structures and page directories.                     *)

(* A process gets a frame that has just been taken. *)
LEMMA FrameGiven ==
  ASSUME NEW s, NEW k, NEW x, NEW h, Fits(s, k, x, h),
         NEW t \in Task, NEW f \in Frame, f \in x, Holders(Held(s, k, h), f) = {},
         NEW l, \A u \in Task, g \in Frame : g \in l[u] <=> g \in k[u] \/ (u = t /\ g = f)
  PROVE  /\ Fits(s, l, x \ {f}, h)
         /\ \A g \in Frame : g # f /\ Holders(Held(s, k, h), g) = {} => Holders(Held(s, l, h), g) = {}
<1> DEFINE H == Held(s, k, h)
           a == TaskUse(t)
           K == H \cup {<<t, a, f>>}
<1>1. H \subseteq Having /\ a \in Use /\ K \subseteq Having
  BY HeldHaving, UsesDiffer DEF Having
<1>2. Exact(s.refs, H, x) /\ OneUse(H) /\ Holders(H, f) = {}
  BY DEF Fits
<1>3. ASSUME NEW u \in Task, NEW g \in Frame
      PROVE  /\ \A d \in Dir : <<u, TableUse(d), g>> \in K <=> TableAt(s, u, d, g)
             /\ \A w \in Page : <<u, PageUse(w), g>> \in K <=> PageAt(s, h, u, w, g)
             /\ \A p \in Task : <<u, TaskUse(p), g>> \in K <=> p = u /\ g \in l[u]
  <2>1. /\ \A d \in Dir : <<u, TableUse(d), g>> \in H <=> TableAt(s, u, d, g)
        /\ \A w \in Page : <<u, PageUse(w), g>> \in H <=> PageAt(s, h, u, w, g)
        /\ \A p \in Task : <<u, TaskUse(p), g>> \in H <=> p = u /\ g \in k[u]
    BY HeldIs
  <2>2. (\A d : TableUse(d) # a) /\ (\A w : PageUse(w) # a) /\ \A p : TaskUse(p) = a <=> p = t
    BY UsesDiffer
  <2> HIDE DEF H, a
  <2>3. /\ \A d : <<u, TableUse(d), g>> # <<t, a, f>>
        /\ \A w : <<u, PageUse(w), g>> # <<t, a, f>>
    BY <2>2
  <2>4. ASSUME NEW p \in Task
        PROVE  <<u, TaskUse(p), g>> \in K <=> p = u /\ g \in l[u]
    <3>1. <<u, TaskUse(p), g>> = <<t, a, f>> <=> u = t /\ p = t /\ g = f
      BY <2>2
    <3>2. <<u, TaskUse(p), g>> \in H <=> p = u /\ g \in k[u]
      BY <2>1
    <3>3. g \in l[u] <=> g \in k[u] \/ (u = t /\ g = f)
      OBVIOUS
    <3>4. QED
      BY <3>1, <3>2, <3>3
  <2>5. QED
    BY <2>1, <2>3, <2>4
<1> HIDE DEF H, a
<1>4. Exact(s.refs, K, x \ {f}) /\ OneUse(K)
  BY <1>1, <1>2, Join
<1>5. \A g \in Frame : g # f /\ Holders(H, g) = {} => Holders(K, g) = {}
  BY DEF Holders
<1> HIDE DEF K
<1>6. Held(s, l, h) = K
  BY <1>1, <1>3, HeldEquals
<1>7. QED
  BY <1>4, <1>5, <1>6 DEF Fits, H

(* ... or gives it up. *)
LEMMA FrameLeft ==
  ASSUME NEW s, NEW k, NEW x, NEW h, Fits(s, k, x, h),
         NEW t \in Task, NEW f \in Frame, f \in k[t], f \notin x,
         NEW l, \A u \in Task, g \in Frame : g \in l[u] <=> g \in k[u] /\ ~ (u = t /\ g = f)
  PROVE  Fits(s, l, x \cup {f}, h)
<1> DEFINE H == Held(s, k, h)
           a == TaskUse(t)
           K == H \ {<<t, a, f>>}
<1>1. H \subseteq Having /\ a \in Use /\ K \subseteq Having
  BY HeldHaving, UsesDiffer
<1>2. Exact(s.refs, H, x) /\ OneUse(H) /\ <<t, a, f>> \in H
  BY HeldIs DEF Fits
<1>3. ASSUME NEW u \in Task, NEW g \in Frame
      PROVE  /\ \A d \in Dir : <<u, TableUse(d), g>> \in K <=> TableAt(s, u, d, g)
             /\ \A w \in Page : <<u, PageUse(w), g>> \in K <=> PageAt(s, h, u, w, g)
             /\ \A p \in Task : <<u, TaskUse(p), g>> \in K <=> p = u /\ g \in l[u]
  <2>1. /\ \A d \in Dir : <<u, TableUse(d), g>> \in H <=> TableAt(s, u, d, g)
        /\ \A w \in Page : <<u, PageUse(w), g>> \in H <=> PageAt(s, h, u, w, g)
        /\ \A p \in Task : <<u, TaskUse(p), g>> \in H <=> p = u /\ g \in k[u]
    BY HeldIs
  <2>2. (\A d : TableUse(d) # a) /\ (\A w : PageUse(w) # a) /\ \A p : TaskUse(p) = a <=> p = t
    BY UsesDiffer
  <2> HIDE DEF H, a
  <2>3. /\ \A d : <<u, TableUse(d), g>> # <<t, a, f>>
        /\ \A w : <<u, PageUse(w), g>> # <<t, a, f>>
    BY <2>2
  <2>4. ASSUME NEW p \in Task
        PROVE  <<u, TaskUse(p), g>> \in K <=> p = u /\ g \in l[u]
    <3>1. <<u, TaskUse(p), g>> = <<t, a, f>> <=> u = t /\ p = t /\ g = f
      BY <2>2
    <3>2. <<u, TaskUse(p), g>> \in H <=> p = u /\ g \in k[u]
      BY <2>1
    <3>3. g \in l[u] <=> g \in k[u] /\ ~ (u = t /\ g = f)
      OBVIOUS
    <3>4. QED
      BY <3>1, <3>2, <3>3
  <2>5. QED
    BY <2>1, <2>3, <2>4
<1> HIDE DEF H, a
<1>4. Exact(s.refs, K, x \cup {f}) /\ OneUse(K)
  BY <1>1, <1>2, Leave
<1> HIDE DEF K
<1>5. Held(s, l, h) = K
  BY <1>1, <1>3, HeldEquals
<1>6. QED
  BY <1>4, <1>5 DEF Fits
-----------------------------------------------------------------------------
(* fork_mem(): parent and child have all pages and page tables of the      *)
(* parent, and each frame is counted once more.                            *)

(* What is mapped by the page tables of task t. *)
Maps(s, t, f) == (\E d \in Dir : TableAt(s, t, d, f)) \/ \E v \in Page : PageAt(s, {}, t, v, f)

LEMMA OneOrNone ==
  ASSUME NEW S, \A a, b \in S : a = b
  PROVE  Cardinality(S) = IF S = {} THEN 0 ELSE 1
<1>1. CASE S = {}
  BY <1>1, FS_EmptySet
<1>2. CASE S # {}
  <2>1. PICK a \in S : TRUE
    BY <1>2
  <2>2. S = {a}
    BY <2>1
  <2>3. QED
    BY <1>2, <2>2, FS_Singleton
<1>3. QED
  BY <1>1, <1>2

LEMMA NewRefsIs ==
  ASSUME NEW s, NEW k, NEW x, Fits(s, k, x, {}), NEW t \in Task, Tidy(s, t), NEW f \in Frame
  PROVE  NewRefs(s, t, f) = IF Maps(s, t, f) THEN 1 ELSE 0
<1> DEFINE P == {v \in Page : PDE(s, t, v).present /\ PTE(s, t, v).frame = f}
           D == {d \in Dir : s.dir[t][d].frame = f}
           H == Held(s, k, {})
<1>1. NewRefs(s, t, f) = Cardinality(P) + Cardinality(D)
  BY NewRefsType
<1>2. f # 0
  BY Sizes
<1>3. \A v \in Page : v \in P <=> PageAt(s, {}, t, v, f)
  <2>1. ASSUME NEW v \in Page
        PROVE  v \in P <=> PageAt(s, {}, t, v, f)
    <3>1. Ent(s, t, v).frame # 0 => Ent(s, t, v).present
      BY DEF Tidy
    <3>2. CASE PDE(s, t, v).present
      <4>1. Ent(s, t, v) = PTE(s, t, v)
        BY <3>2 DEF Ent
      <4>2. QED
        BY <1>2, <3>1, <3>2, <4>1 DEF PageAt
    <3>3. CASE ~ PDE(s, t, v).present
      <4>1. ~ Ent(s, t, v).present
        BY <3>3, Entries DEF Ent
      <4>2. QED
        BY <3>3, <4>1 DEF PageAt
    <3>4. QED
      BY <3>2, <3>3
  <2>2. QED
    BY <2>1
<1>4. \A d \in Dir : d \in D <=> TableAt(s, t, d, f)
  BY <1>2 DEF Tidy, TableAt
<1>5. P \subseteq Page /\ D \subseteq Dir
  OBVIOUS
<1> HIDE DEF P, D
<1>6. \A a, b \in Use : <<t, a, f>> \in H /\ <<t, b, f>> \in H => a = b
  BY DEF Fits, OneUse
<1>7. /\ \A d \in D : TableUse(d) \in Use /\ <<t, TableUse(d), f>> \in H
      /\ \A v \in P : PageUse(v) \in Use /\ <<t, PageUse(v), f>> \in H
  BY <1>3, <1>4, <1>5, HeldIs, UsesDiffer
<1> HIDE DEF H
<1>8. /\ \A d, e \in D : d = e
      /\ \A v, w \in P : v = w
      /\ P = {} \/ D = {}
  <2>1. ASSUME NEW d \in D, NEW e \in D
        PROVE  d = e
    <3>1. TableUse(d) = TableUse(e)
      BY <1>6, <1>7
    <3>2. QED
      BY <3>1, UsesDiffer
  <2>2. ASSUME NEW v \in P, NEW w \in P
        PROVE  v = w
    <3>1. PageUse(v) = PageUse(w)
      BY <1>6, <1>7
    <3>2. QED
      BY <3>1, UsesDiffer
  <2>3. ASSUME NEW v \in P, NEW d \in D
        PROVE  FALSE
    <3>1. PageUse(v) = TableUse(d)
      BY <1>6, <1>7
    <3>2. QED
      BY <3>1, UsesDiffer
  <2>4. QED
    BY <2>1, <2>2, <2>3
<1>9. /\ Cardinality(D) = IF D = {} THEN 0 ELSE 1
      /\ Cardinality(P) = IF P = {} THEN 0 ELSE 1
  BY <1>8, OneOrNone
<1>10. Maps(s, t, f) <=> P # {} \/ D # {}
  BY <1>3, <1>4, <1>5 DEF Maps
<1>11. QED
  BY <1>1, <1>8, <1>9, <1>10

(* Counts are far below the width of a byte. *)
LEMMA CountIs ==
  ASSUME NEW s, NEW f, s.refs[f] \in Nat, s.refs[f] <= TASKS,
         NEW n \in {0, 1}, n = 1 => s.refs[f] < TASKS
  PROVE  Count(s, f, n) = s.refs[f] + n
<1> DEFINE a == s.refs[f] + n
           b == UINT8
<1>1. a \in Nat /\ b \in Nat \ {0} /\ a < b
  BY Sizes
<1> HIDE DEF a, b
<1>2. a % b = a
  BY <1>1
<1>3. QED
  BY <1>2 DEF a, b, Count

(* The uses of frames as pages and page tables. *)
Mapped == {TableUse(d) : d \in Dir} \cup {PageUse(v) : v \in Page}

LEMMA MapsHeld ==
  ASSUME NEW s, NEW k, NEW t \in Task, NEW f \in Frame
  PROVE  Maps(s, t, f) <=> \E a \in Mapped : <<t, a, f>> \in Held(s, k, {})
<1>1. (\E d \in Dir : TableAt(s, t, d, f)) <=> \E d \in Dir : <<t, TableUse(d), f>> \in Held(s, k, {})
  BY HeldIs
<1>2. (\E v \in Page : PageAt(s, {}, t, v, f)) <=>
        \E v \in Page : <<t, PageUse(v), f>> \in Held(s, k, {})
  BY HeldIs
<1>3. QED
  BY <1>1, <1>2 DEF Maps, Mapped

CopyOf(s, r, t, c) ==
  /\ r \in Mem /\ r.panic = s.panic /\ r.tab = s.tab /\ r.data = s.data
  /\ \A u \in {t, c}, d \in Dir :
       /\ r.dir[u][d].present = s.dir[t][d].present
       /\ r.dir[u][d].frame = s.dir[t][d].frame
       /\ r.dir[u][d].user = s.dir[t][d].user
       /\ ~ r.dir[u][d].rw /\ r.dir[u][d].cow /\ r.dir[u][d].shared
  /\ \A u \in Task \ {t, c} : r.dir[u] = s.dir[u]
  /\ \A u \in {t, c}, v \in Page : Ent(r, u, v) = Ent(s, t, v)
  /\ \A u \in Task \ {t, c}, v \in Page : Ent(r, u, v) = Ent(s, u, v)

LEMMA CopiedView ==
  ASSUME NEW s \in Mem, NEW t \in Task, NEW c \in Task, t # c, NEW r, r = Copied(s, t, c)
  PROVE  CopyOf(s, r, t, c)
<1>1. /\ r \in Mem /\ r.panic = s.panic /\ r.tab = s.tab /\ r.data = s.data
      /\ r.dir[t] = Marked(s.dir[t]) /\ r.dir[c] = Marked(s.dir[t])
      /\ \A u \in Task : u # t /\ u # c => r.dir[u] = s.dir[u]
  BY CopiedKeeps, ZenonT(60)
<1>2. s.dir[t] \in [Dir -> DirEntry]
  BY DEF Mem
<1>3. ASSUME NEW u \in {t, c}, NEW d \in Dir
      PROVE  /\ r.dir[u][d].present = s.dir[t][d].present
             /\ r.dir[u][d].frame = s.dir[t][d].frame
             /\ r.dir[u][d].user = s.dir[t][d].user
             /\ ~ r.dir[u][d].rw /\ r.dir[u][d].cow /\ r.dir[u][d].shared
  <2>1. r.dir[u] = Marked(s.dir[t])
    BY <1>1
  <2>2. /\ Marked(s.dir[t])[d].frame = s.dir[t][d].frame
        /\ Marked(s.dir[t])[d].present = s.dir[t][d].present
        /\ Marked(s.dir[t])[d].user = s.dir[t][d].user
        /\ ~ Marked(s.dir[t])[d].rw /\ Marked(s.dir[t])[d].cow /\ Marked(s.dir[t])[d].shared
    BY <1>2, MarkedType
  <2>3. QED
    BY <2>1, <2>2
<1>4. ASSUME NEW u \in {t, c}, NEW v \in Page
      PROVE  Ent(r, u, v) = Ent(s, t, v)
  <2>1. DirOf(v) \in Dir
    BY PagePlace
  <2>2. PDE(r, u, v).present = PDE(s, t, v).present /\ PDE(r, u, v).frame = PDE(s, t, v).frame
    BY <1>3, <2>1 DEF PDE
  <2>3. QED
    BY <1>1, <2>2 DEF Ent, PTE
<1>5. ASSUME NEW u \in Task \ {t, c}, NEW v \in Page
      PROVE  Ent(r, u, v) = Ent(s, u, v)
  <2>1. r.dir[u] = s.dir[u] /\ r.tab = s.tab
    BY <1>1
  <2>2. QED
    BY <2>1 DEF Ent, PTE, PDE
<1>6. \A u \in Task \ {t, c} : r.dir[u] = s.dir[u]
  BY <1>1
<1>7. QED
  BY <1>1, <1>3, <1>4, <1>5, <1>6 DEF CopyOf

LEMMA CopiedFits ==
  ASSUME NEW s, NEW k, NEW x, Fits(s, k, x, {}),
         NEW t \in Task, NEW c \in Task, t # c, Tidy(s, t), Gone(s, c),
         \A f \in Frame : f \notin k[c],
         \A f \in x : f \in Frame /\ Holders(Held(s, k, {}), f) = {},
         NEW r, r = Copied(s, t, c)
  PROVE  /\ Fits(r, k, x, {})
         /\ \A f \in x : Holders(Held(r, k, {}), f) = {}
<1> DEFINE H == Held(s, k, {})
           K == Held(r, k, {})
<1>1. s \in Mem /\ s.panic = "no" /\ Exact(s.refs, H, x) /\ OneUse(H) /\ OwnTables(s) /\ FreeIsJunk(s)
  BY DEF Fits
<1>0. s \in Mem
  BY <1>1
<1>2. CopyOf(s, r, t, c)
  BY <1>0, CopiedView
<1> USE DEF CopyOf
<1>3. /\ \A u \in {t, c}, d \in Dir, f \in Frame : TableAt(r, u, d, f) <=> TableAt(s, t, d, f)
      /\ \A u \in Task \ {t, c}, d \in Dir, f \in Frame : TableAt(r, u, d, f) <=> TableAt(s, u, d, f)
  BY <1>2 DEF TableAt
<1>4. /\ \A u \in {t, c}, v \in Page, f \in Frame : PageAt(r, {}, u, v, f) <=> PageAt(s, {}, t, v, f)
      /\ \A u \in Task \ {t, c}, v \in Page, f \in Frame : PageAt(r, {}, u, v, f) <=> PageAt(s, {}, u, v, f)
  BY <1>2 DEF PageAt
<1>5. /\ \A d \in Dir, f \in Frame : ~ TableAt(s, c, d, f)
      /\ \A v \in Page, f \in Frame : ~ PageAt(s, {}, c, v, f)
  <2>1. \A d \in Dir, f \in Frame : ~ TableAt(s, c, d, f)
    BY DEF TableAt, Gone
  <2>2. ASSUME NEW v \in Page
        PROVE  ~ Ent(s, c, v).present
    <3>1. ~ PDE(s, c, v).present
      BY PagePlace DEF Gone, PDE
    <3>2. QED
      BY <3>1, Entries DEF Ent
  <2>3. QED
    BY <2>1, <2>2 DEF PageAt
<1>6. ASSUME NEW a \in Use, NEW f \in Frame
      PROVE  <<c, a, f>> \notin H
  <2>1. CASE \E d \in Dir : a = TableUse(d)
    BY <1>5, <2>1, HeldIs
  <2>2. CASE \E v \in Page : a = PageUse(v)
    BY <1>5, <2>2, HeldIs
  <2>3. CASE \E u \in Task : a = TaskUse(u)
    <3>1. f \notin k[c]
      OBVIOUS
    <3>2. QED
      BY <2>3, <3>1, HeldIs
  <2>4. QED
    BY <2>1, <2>2, <2>3, UsesDiffer
<1>7. ASSUME NEW u \in Task, NEW a \in Use, NEW f \in Frame
      PROVE  <<u, a, f>> \in K <=> <<u, a, f>> \in H \/ (u = c /\ a \in Mapped /\ <<t, a, f>> \in H)
  <2>1. CASE \E d \in Dir : a = TableUse(d)
    <3>1. PICK d \in Dir : a = TableUse(d)
      BY <2>1
    <3>2. /\ <<u, TableUse(d), f>> \in K <=> TableAt(r, u, d, f)
          /\ <<u, TableUse(d), f>> \in H <=> TableAt(s, u, d, f)
          /\ <<t, TableUse(d), f>> \in H <=> TableAt(s, t, d, f)
      BY HeldIs
    <3>3. a \in Mapped
      BY <3>1 DEF Mapped
    <3> HIDE DEF H, K
    <3>4. TableAt(r, u, d, f) <=> TableAt(s, u, d, f) \/ (u = c /\ TableAt(s, t, d, f))
      BY <1>3, <1>5
    <3>5. QED
      BY <3>1, <3>2, <3>3, <3>4
  <2>2. CASE \E v \in Page : a = PageUse(v)
    <3>1. PICK v \in Page : a = PageUse(v)
      BY <2>2
    <3>2. /\ <<u, PageUse(v), f>> \in K <=> PageAt(r, {}, u, v, f)
          /\ <<u, PageUse(v), f>> \in H <=> PageAt(s, {}, u, v, f)
          /\ <<t, PageUse(v), f>> \in H <=> PageAt(s, {}, t, v, f)
      BY HeldIs
    <3>3. a \in Mapped
      BY <3>1 DEF Mapped
    <3> HIDE DEF H, K
    <3>4. PageAt(r, {}, u, v, f) <=> PageAt(s, {}, u, v, f) \/ (u = c /\ PageAt(s, {}, t, v, f))
      BY <1>4, <1>5
    <3>5. QED
      BY <3>1, <3>2, <3>3, <3>4
  <2>3. CASE \E p \in Task : a = TaskUse(p)
    <3>1. PICK p \in Task : a = TaskUse(p)
      BY <2>3
    <3>2. /\ <<u, TaskUse(p), f>> \in K <=> p = u /\ f \in k[u]
          /\ <<u, TaskUse(p), f>> \in H <=> p = u /\ f \in k[u]
      BY HeldIs
    <3>3. a \notin Mapped
      BY <3>1, UsesDiffer DEF Mapped
    <3> HIDE DEF H, K
    <3>4. QED
      BY <3>1, <3>2, <3>3
  <2>4. QED
    BY <2>1, <2>2, <2>3, UsesDiffer
<1>8. ASSUME NEW f \in Frame
      PROVE  r.refs[f] = s.refs[f] + Taking(H, t, Mapped, f)
  <2> DEFINE n == NewRefs(s, t, f)
  <2>1. r.refs[f] = Count(s, f, n)
    BY <1>1, CopiedKeeps
  <2>2. n = IF \E a \in Mapped : <<t, a, f>> \in H THEN 1 ELSE 0
    BY NewRefsIs, MapsHeld
  <2>3. c \notin Holders(H, f)
    BY <1>6 DEF Holders
  <2>4. s.refs[f] = Cardinality(Holders(H, f)) + (IF f \in x THEN 1 ELSE 0)
    BY <1>1 DEF Exact
  <2>5. Cardinality(Holders(H, f)) \in Nat /\ Cardinality(Holders(H, f)) < TASKS
        /\ (Cardinality(Holders(H, f)) = 0 <=> Holders(H, f) = {})
    BY <2>3, NotAll, HoldersType
  <2>6. f \in x => Holders(H, f) = {} /\ n = 0
    <3>1. f \in x => Holders(H, f) = {}
      OBVIOUS
    <3>2. Mapped \subseteq Use
      BY DEF Mapped, Use
    <3>3. Holders(H, f) = {} => ~ \E a \in Mapped : <<t, a, f>> \in H
      BY <3>2 DEF Holders
    <3>4. QED
      BY <2>2, <3>1, <3>3
  <2> HIDE DEF n
  <2>7. n \in {0, 1}
    BY <2>2
  <2>8. s.refs[f] \in Nat /\ s.refs[f] <= TASKS /\ (n = 1 => s.refs[f] < TASKS)
    BY <2>4, <2>5, <2>6, Sizes
  <2>9. Count(s, f, n) = s.refs[f] + n
    BY <2>7, <2>8, CountIs
  <2>10. QED
    BY <2>1, <2>2, <2>9 DEF Taking
<1>9. Mapped \in SUBSET Use
  BY DEF Mapped, Use
<1> HIDE DEF H, K
<1>10. Exact(r.refs, K, x) /\ OneUse(K)
  <2>1. ShareOf(H, K, t, c, Mapped)
    BY <1>6, <1>7 DEF ShareOf
  <2>2. Exact(s.refs, H, x) /\ OneUse(H)
    BY <1>1
  <2>3. QED
    BY <1>8, <1>9, <2>1, <2>2, Share
<1>11. OwnTables(r)
  <2>1. SUFFICES ASSUME NEW p \in Task, NEW u \in Task, NEW a \in Dir, NEW e \in Dir,
                        r.dir[p][a].present, ~ r.dir[p][a].shared,
                        TableAt(r, u, e, r.dir[p][a].frame)
                 PROVE  p = u
    BY DEF OwnTables
  <2>2. p \in Task \ {t, c} /\ r.dir[p][a] = s.dir[p][a]
    BY <1>2, <2>1
  <2>3. s.dir[p][a].frame \in Frame
    BY <1>1, <2>1, <2>2, DirIs
  <2>4. CASE u \in {t, c}
    <3>1. TableAt(s, t, e, s.dir[p][a].frame)
      BY <1>3, <2>1, <2>2, <2>3, <2>4
    <3>2. p = t
      BY <1>1, <2>1, <2>2, <3>1 DEF OwnTables
    <3>3. QED
      BY <2>2, <3>2
  <2>5. CASE u \notin {t, c}
    <3>1. TableAt(s, u, e, s.dir[p][a].frame)
      BY <1>3, <2>1, <2>2, <2>3, <2>5
    <3>2. QED
      BY <1>1, <2>1, <2>2, <3>1 DEF OwnTables
  <2>6. QED
    BY <2>4, <2>5
<1>12. FreeIsJunk(r)
  <2>1. s.refs \in [Frame -> Nat]
    BY <1>0, Sizes DEF Mem
  <2>2. \A f \in Frame : r.refs[f] = 0 => s.refs[f] = 0
    BY <1>8, <2>1 DEF Taking
  <2>3. QED
    BY <1>1, <1>2, <2>2 DEF FreeIsJunk
<1>13. Fits(r, k, x, {})
  BY <1>1, <1>2, <1>10, <1>11, <1>12 DEF Fits, K
<1>14. ASSUME NEW f \in x
       PROVE  Holders(K, f) = {}
  <2>1. f \in Frame /\ Holders(H, f) = {}
    BY DEF H
  <2>2. \A u \in Task, a \in Use : <<u, a, f>> \notin H
    BY <2>1 DEF Holders
  <2>3. \A u \in Task, a \in Use : <<u, a, f>> \notin K
    BY <1>7, <2>1, <2>2
  <2>4. QED
    BY <2>3 DEF Holders
<1>15. QED
  BY <1>13, <1>14 DEF K
-----------------------------------------------------------------------------
(* add_page_table() and copy_page_table(): every page stays what it was,   *)
(* and the frames that are about to be used stay as they are.              *)

Undisturbed(s, r, x, h) ==
  /\ \A u \in Task : SamePages(s, r, u, h)
  /\ \A f \in Frame : f \in x => r.refs[f] = s.refs[f] /\ r.data[f] = s.data[f]

GetsTable(s, r, t, d, user) ==
  /\ \E N \in Frame : r.dir[t][d] = Table(N, user)
  /\ \A u \in Task, e \in Dir : u # t \/ e # d => r.dir[u][e] = s.dir[u][e]

LEMMA Unheld ==
  ASSUME NEW s, NEW k, NEW x, NEW h, Fits(s, k, x, h), NEW f \in Frame, f \in x
  PROVE  Holders(Held(s, k, h), f) = {} <=> s.refs[f] = 1
<1> DEFINE H == Held(s, k, h)
<1>1. s.refs[f] = Cardinality(Holders(H, f)) + 1
  BY DEF Fits, Exact
<1>2. Cardinality(Holders(H, f)) \in Nat /\ (Cardinality(Holders(H, f)) = 0 <=> Holders(H, f) = {})
  BY HoldersType
<1> HIDE DEF H
<1>3. Holders(H, f) = {} <=> s.refs[f] = 1
  BY <1>1, <1>2
<1>4. QED
  BY <1>3 DEF H

LEMMA DropOthers ==
  ASSUME NEW s \in Mem, NEW f \in Frame, NEW g \in Frame, g # f
  PROVE  /\ Drop(s, f).refs[g] = s.refs[g]
         /\ Drop(s, f).data[g] = s.data[g]
<1>1. CASE s.panic # "no" \/ s.refs[f] = 0
  BY <1>1 DEF Drop
<1>2. CASE s.panic = "no" /\ s.refs[f] # 0
  <2>1. /\ Drop(s, f).refs = [s.refs EXCEPT ![f] = s.refs[f] - 1]
        /\ s.refs[f] = 1 => Drop(s, f).data = [s.data EXCEPT ![f] = Junk]
        /\ s.refs[f] # 1 => Drop(s, f).data = s.data
    BY <1>2, DropIs
  <2>2. s.refs \in [Frame -> 0 .. UINT8 - 1] /\ s.data \in [Frame -> Content]
    BY DEF Mem
  <2>3. QED
    BY <2>1, <2>2
<1>3. QED
  BY <1>1, <1>2

LEMMA UndisturbedTwice ==
  ASSUME NEW s, NEW r, NEW q, NEW x, NEW h, Undisturbed(s, r, x, h), Undisturbed(r, q, x, h)
  PROVE  Undisturbed(s, q, x, h)
<1>1. \A u \in Task : SamePages(s, q, u, h)
  BY SamePagesTwice DEF Undisturbed
<1>2. QED
  BY <1>1 DEF Undisturbed

LEMMA TableAdded ==
  ASSUME NEW s, NEW k, NEW x, NEW h, Fits(s, k, x, h),
         NEW t \in Task, NEW d \in Dir, ~ s.dir[t][d].present, NEW user \in BOOLEAN,
         NEW r, r = AddTable(s, t, d, user), r.panic = "no"
  PROVE  Fits(r, k, x, h) /\ Undisturbed(s, r, x, h) /\ GetsTable(s, r, t, d, user)
<1> DEFINE N == NewFrame(s)
           a == Alloc(s)
           y == x \cup {N}
<1>1. s \in Mem
  BY DEF Fits
<1>2. a.panic = "no" /\ r = SetTable(a, t, d, Table(N, user), N, EmptyTable)
  BY <1>1, AddTableKeeps
<1>3. a = Alloc(s) /\ N = NewFrame(s)
  OBVIOUS
<1> HIDE DEF N, a
<1>4. /\ N \in Frame /\ N \notin x
      /\ a.dir = s.dir /\ a.tab = s.tab /\ a.data = s.data
      /\ Holders(Held(a, k, h), N) = {}
      /\ Fits(a, k, y, h)
  BY <1>2, <1>3, Taken
<1>5. \A f \in Frame : f # N => a.refs[f] = s.refs[f]
  <2>1. a.refs = [s.refs EXCEPT ![N] = 1]
    BY <1>1, <1>2, <1>3, AllocIs
  <2>2. QED
    BY <2>1
<1>6. \A u, v : Ent(a, u, v) = Ent(s, u, v)
  BY <1>4, EntSame
<1>7. EmptyTable \in [Slot -> TabEntry] /\ \A v \in Page : DirOf(v) = d => EmptyTable[SlotOf(v)] = Ent(a, t, v)
  <2>1. \A v \in Page : DirOf(v) = d => Ent(s, t, v) = NoEntry
    BY DEF Ent, PDE
  <2>2. QED
    BY <1>6, <2>1, Entries, PagePlace
<1>8. ~ a.dir[t][d].present /\ N \in y
  BY <1>4
<1> DEFINE T == EmptyTable
<1>9. T \in [Slot -> TabEntry] /\ \A v \in Page : DirOf(v) = d => T[SlotOf(v)] = Ent(a, t, v)
  BY <1>7
<1>10. r = SetTable(a, t, d, Table(N, user), N, T)
  BY <1>2
<1> HIDE DEF T, y
<1>11. Fits(r, k, y \ {N}, h)
  BY <1>4, <1>8, <1>9, <1>10, TableMade
<1>12. /\ r.data = a.data /\ r.refs = a.refs /\ r.dir[t][d] = Table(N, user)
       /\ \A u \in Task, e \in Dir : u # t \/ e # d => r.dir[u][e] = a.dir[u][e]
       /\ \A u \in Task, v \in Page : Ent(r, u, v) = Ent(a, u, v)
  BY <1>4, <1>9, <1>10, TableView
<1>13. y \ {N} = x
  BY <1>4 DEF y
<1>14. Undisturbed(s, r, x, h)
  BY <1>4, <1>5, <1>6, <1>12 DEF Undisturbed, SamePages
<1>15. GetsTable(s, r, t, d, user)
  BY <1>4, <1>12 DEF GetsTable
<1>16. QED
  BY <1>11, <1>13, <1>14, <1>15

LEMMA CopyTableIs ==
  ASSUME NEW s \in Mem, NEW t \in Task, NEW d \in Dir, s.dir[t][d].present,
         NEW r, r = CopyTable(s, t, d), r.panic = "no"
  PROVE  Alloc(s).panic = "no" /\ r = Drop(CopyIn(s, t, d), s.dir[t][d].frame)
<1> DEFINE F == s.dir[t][d].frame
           a == Alloc(s)
           c == CopyIn(s, t, d)
<1>1. CopyTable(s, t, d).panic = "no"
  OBVIOUS
<1>2. a.panic = "no"
  BY <1>1 DEF CopyTable
<1>3. CopyTable(s, t, d) = Drop(c, F)
  BY <1>2 DEF CopyTable, CopyIn, SetTable
<1>4. QED
  BY <1>2, <1>3

(* The outcome of TableView. *)
Retabled(s, r, t, d, N, user) ==
  /\ r.data = s.data /\ r.refs = s.refs /\ r.dir[t][d] = Table(N, user)
  /\ \A u \in Task, e \in Dir : u # t \/ e # d => r.dir[u][e] = s.dir[u][e]
  /\ \A u \in Task, v \in Page : Ent(r, u, v) = Ent(s, u, v)

LEMMA TableSet ==
  ASSUME NEW s, NEW k, NEW x, NEW h, Fits(s, k, x, h),
         NEW t \in Task, NEW d \in Dir, NEW N \in Frame, Holders(Held(s, k, h), N) = {},
         NEW user \in BOOLEAN, NEW T \in [Slot -> TabEntry],
         \A v \in Page : DirOf(v) = d => T[SlotOf(v)] = Ent(s, t, v),
         NEW r, r = SetTable(s, t, d, Table(N, user), N, T)
  PROVE  Retabled(s, r, t, d, N, user)
  BY TableView DEF Retabled

LEMMA TableCopied ==
  ASSUME NEW s, NEW k, NEW x, NEW h, Fits(s, k, x, h),
         NEW t \in Task, NEW d \in Dir, s.dir[t][d].present, s.dir[t][d].frame \notin x,
         NEW r, r = CopyTable(s, t, d), r.panic = "no"
  PROVE  Fits(r, k, x, h) /\ Undisturbed(s, r, x, h) /\ GetsTable(s, r, t, d, TRUE)
<1>0. Alloc(s).panic = "no" /\ r = Drop(CopyIn(s, t, d), s.dir[t][d].frame)
  <2>1. s \in Mem
    BY DEF Fits
  <2>2. QED
    BY <2>1, CopyTableIs
<1> DEFINE N == NewFrame(s)
           a == Alloc(s)
           F == s.dir[t][d].frame
           T == s.tab[F]
           c == CopyIn(s, t, d)
           y == x \cup {N}
<1>1. s \in Mem /\ F \in Frame
  BY DirIs DEF Fits
<1>2. a.panic = "no" /\ r = Drop(c, F)
  BY <1>0
<1>3. a = Alloc(s) /\ N = NewFrame(s) /\ TableAt(s, t, d, F) /\ F \notin x
  BY DEF TableAt
<1>4. T \in [Slot -> TabEntry]
  BY <1>1 DEF Mem
<1>5. c = SetTable(a, t, d, Table(N, TRUE), N, T)
  BY DEF CopyIn
<1>6. \A v \in Page : DirOf(v) = d => T[SlotOf(v)] = Ent(s, t, v)
  BY DEF Ent, PDE, PTE
<1> HIDE DEF N, a, c, F, T
<1>7. /\ N \in Frame /\ N \notin x
      /\ a.dir = s.dir /\ a.tab = s.tab /\ a.data = s.data
      /\ Held(a, k, h) = Held(s, k, h)
      /\ Holders(Held(a, k, h), N) = {}
      /\ Fits(a, k, y, h)
  BY <1>2, <1>3, Taken
<1>8. \A f \in Frame : f # N => a.refs[f] = s.refs[f]
  <2>1. a.refs = [s.refs EXCEPT ![N] = 1]
    BY <1>1, <1>2, <1>3, AllocIs
  <2>2. QED
    BY <2>1
<1>9. (\A u, v : Ent(a, u, v) = Ent(s, u, v)) /\ TableAt(a, t, d, F)
  BY <1>3, <1>7, EntSame
<1>10. \A v \in Page : DirOf(v) = d => T[SlotOf(v)] = Ent(a, t, v)
  BY <1>6, <1>9
<1>11. F # N
  <2>1. ~ TableAt(a, t, d, N)
    BY <1>7, NotHeld
  <2>2. QED
    BY <1>9, <2>1
<1>12. F \notin y /\ N \in y
  BY <1>3, <1>11
<1> HIDE DEF y
<1>13. Fits(c, k, (y \cup {F}) \ {N}, h)
  BY <1>1, <1>4, <1>5, <1>7, <1>9, <1>10, <1>12, TableReplaced
<1>14. /\ c.data = a.data /\ c.refs = a.refs /\ c.dir[t][d] = Table(N, TRUE)
       /\ \A u \in Task, e \in Dir : u # t \/ e # d => c.dir[u][e] = a.dir[u][e]
       /\ \A u \in Task, v \in Page : Ent(c, u, v) = Ent(a, u, v)
  <2>1. Fits(a, k, y, h) /\ N \in Frame /\ Holders(Held(a, k, h), N) = {} /\ TRUE \in BOOLEAN
    BY <1>7
  <2>2. T \in [Slot -> TabEntry] /\ \A v \in Page : DirOf(v) = d => T[SlotOf(v)] = Ent(a, t, v)
    BY <1>4, <1>10
  <2>3. Retabled(a, c, t, d, N, TRUE)
    BY <1>5, <2>1, <2>2, TableSet
  <2>4. QED
    BY <2>3 DEF Retabled
<1>15. (y \cup {F}) \ {N} = x \cup {F} /\ (x \cup {F}) \ {F} = x
  BY <1>3, <1>7, <1>11 DEF y
<1>16. Fits(c, k, x \cup {F}, h) /\ F \in x \cup {F}
  BY <1>13, <1>15
<1> DEFINE z == x \cup {F}
<1> HIDE DEF z
<1>17. /\ r.dir = c.dir /\ \A u \in Task : SamePages(c, r, u, h)
       /\ Fits(r, k, z \ {F}, h)
  <2>1. Fits(c, k, z, h) /\ F \in z
    BY <1>16 DEF z
  <2>2. QED
    BY <1>1, <1>2, <2>1, Dropped
<1>18. Fits(r, k, x, h)
  BY <1>15, <1>17 DEF z
<1>19. \A g \in Frame : g # F => r.refs[g] = c.refs[g] /\ r.data[g] = c.data[g]
  <2>1. c \in Mem
    BY <1>13 DEF Fits
  <2>2. QED
    BY <1>1, <1>2, <2>1, DropOthers
<1>20. Undisturbed(s, r, x, h)
  <2>1. \A u \in Task : SamePages(s, c, u, h)
    BY <1>7, <1>9, <1>14 DEF SamePages
  <2>2. \A u \in Task : SamePages(s, r, u, h)
    BY <1>17, <2>1, SamePagesTwice
  <2>3. \A f \in Frame : f \in x => f # F /\ f # N
    BY <1>3, <1>7
  <2>4. QED
    BY <1>7, <1>8, <1>14, <1>19, <2>2, <2>3 DEF Undisturbed
<1>21. GetsTable(s, r, t, d, TRUE)
  <2>1. r.dir[t][d] = Table(N, TRUE) /\ N \in Frame
    BY <1>7, <1>14, <1>17
  <2>2. \A u \in Task, e \in Dir : u # t \/ e # d => r.dir[u][e] = s.dir[u][e]
    BY <1>7, <1>14, <1>17
  <2>3. QED
    BY <2>1, <2>2 DEF GetsTable
<1>22. QED
  BY <1>18, <1>20, <1>21
-----------------------------------------------------------------------------
(* map_page(): a frame that was taken becomes a page.                      *)

(* Directory entry d can be written to: it had its own page table or has a *)
(* new one.                                                                *)
Prepared(s, r, t, d) ==
  /\ r.dir[t][d].present /\ ~ r.dir[t][d].shared
  /\ r.dir[t][d] = s.dir[t][d] \/ \E N \in Frame : r.dir[t][d] = Table(N, TRUE)
  /\ s.dir[t][d].present /\ ~ s.dir[t][d].shared => r.dir[t][d] = s.dir[t][d]
  /\ \A u \in Task, e \in Dir : u # t \/ e # d => r.dir[u][e] = s.dir[u][e]

(* Entry v of task t is e now, and everything else is what it was. *)
EntrySet(s, r, t, v, e, h) ==
  /\ Ent(r, t, v) = e
  /\ \A u \in Task, w \in Page : u # t \/ w # v =>
       /\ Ent(r, u, w) = Ent(s, u, w)
       /\ Ent(s, u, w).present /\ <<u, w>> \notin h =>
            r.data[Ent(s, u, w).frame] = s.data[Ent(s, u, w).frame]

MappedIn(s, r, t, v, e, x, h) ==
  /\ EntrySet(s, r, t, v, e, h) /\ Prepared(s, r, t, DirOf(v))
  /\ \A f \in Frame : f \in x => r.data[f] = s.data[f] /\ r.refs[f] = s.refs[f]

LEMMA PreparedSame ==
  ASSUME NEW s, NEW b, NEW r, NEW t, NEW d, Prepared(s, b, t, d), r.dir = b.dir
  PROVE  Prepared(s, r, t, d)
  BY DEF Prepared

LEMMA UndisturbedSame ==
  ASSUME NEW s, NEW x, NEW h
  PROVE  Undisturbed(s, s, x, h)
  BY DEF Undisturbed, SamePages

LEMMA Preparing ==
  ASSUME NEW s, NEW k, NEW x, NEW h, Fits(s, k, x, h),
         NEW t \in Task, NEW v \in Page,
         PDE(s, t, v).present /\ PDE(s, t, v).shared => PDE(s, t, v).frame \notin x,
         NEW a, a = Mapped1(s, t, v), a.panic = "no",
         NEW b, b = Mapped2(s, t, v), b.panic = "no"
  PROVE  Fits(b, k, x, h) /\ Undisturbed(s, b, x, h) /\ Prepared(s, b, t, DirOf(v))
<1> DEFINE d == DirOf(v)
<1>1. d \in Dir /\ PDE(s, t, v) = s.dir[t][d] /\ PDE(a, t, v) = a.dir[t][d]
  BY PagePlace DEF PDE
<1> HIDE DEF d
<1>2. /\ Fits(a, k, x, h) /\ Undisturbed(s, a, x, h) /\ a.dir[t][d].present
      /\ a.dir[t][d] = s.dir[t][d] \/ \E N \in Frame : a.dir[t][d] = Table(N, TRUE)
      /\ s.dir[t][d].present => a.dir[t][d] = s.dir[t][d]
      /\ \A u \in Task, e \in Dir : u # t \/ e # d => a.dir[u][e] = s.dir[u][e]
  <2>1. CASE s.dir[t][d].present
    <3>1. a = s
      BY <1>1, <2>1 DEF Mapped1
    <3>2. QED
      BY <2>1, <3>1, UndisturbedSame
  <2>2. CASE ~ s.dir[t][d].present
    <3>1. a = AddTable(s, t, d, TRUE)
      BY <1>1, <2>2 DEF Mapped1, d
    <3>2. TRUE \in BOOLEAN /\ d \in Dir
      BY <1>1
    <3>3. Fits(a, k, x, h) /\ Undisturbed(s, a, x, h) /\ GetsTable(s, a, t, d, TRUE)
      BY <2>2, <3>1, <3>2, TableAdded
    <3>4. \E N \in Frame : a.dir[t][d] = Table(N, TRUE)
      BY <3>3 DEF GetsTable
    <3>5. a.dir[t][d].present
      BY <3>4, Entries
    <3>6. QED
      BY <2>2, <3>3, <3>4, <3>5 DEF GetsTable
  <2>3. QED
    BY <2>1, <2>2
<1>3. CASE ~ a.dir[t][d].shared
  <2>1. b = a
    BY <1>1, <1>3 DEF Mapped2, Mapped1
  <2>2. Prepared(s, b, t, d)
    BY <1>2, <1>3, <2>1 DEF Prepared
  <2>3. QED
    BY <1>2, <2>1, <2>2 DEF d
<1>4. CASE a.dir[t][d].shared
  <2>1. b = CopyTable(a, t, d)
    BY <1>1, <1>4 DEF Mapped2, Mapped1, d
  <2>2. a.dir[t][d] = s.dir[t][d]
    <3>1. ASSUME NEW N \in Frame, a.dir[t][d] = Table(N, TRUE)
          PROVE  FALSE
      BY <1>4, <3>1, Entries
    <3>2. QED
      BY <1>2, <3>1
  <2>3. a.dir[t][d].frame \notin x
    BY <1>1, <1>2, <1>4, <2>2
  <2>4. Fits(b, k, x, h) /\ Undisturbed(a, b, x, h) /\ GetsTable(a, b, t, d, TRUE)
    BY <1>1, <1>2, <2>1, <2>3, TableCopied
  <2>5. Undisturbed(s, b, x, h)
    BY <1>2, <2>4, UndisturbedTwice
  <2>6. PICK N \in Frame : b.dir[t][d] = Table(N, TRUE)
    BY <2>4 DEF GetsTable
  <2>7. b.dir[t][d].present /\ ~ b.dir[t][d].shared
    BY <2>6, Entries
  <2>8. s.dir[t][d].shared /\ \A u \in Task, e \in Dir : u # t \/ e # d => b.dir[u][e] = s.dir[u][e]
    BY <1>2, <1>4, <2>2, <2>4 DEF GetsTable
  <2>10. Prepared(s, b, t, d)
    BY <2>6, <2>7, <2>8 DEF Prepared
  <2>9. QED
    BY <2>4, <2>5, <2>10 DEF d
<1>5. QED
  BY <1>3, <1>4

LEMMA PageMapped ==
  ASSUME NEW s, NEW k, NEW x, NEW h, Fits(s, k, x, h),
         NEW t \in Task, NEW v \in Page,
         PDE(s, t, v).present /\ PDE(s, t, v).shared => PDE(s, t, v).frame \notin x,
         <<t, v>> \in h \/ ~ Ent(s, t, v).present,
         NEW n \in Frame, n \in x, s.refs[n] = 1,
         NEW e \in TabEntry, e.present, e.frame = n,
         NEW r, r = Map(s, t, v, e), r.panic = "no"
  PROVE  Fits(r, k, x \ {n}, h \ {<<t, v>>}) /\ MappedIn(s, r, t, v, e, x, h)
<1> DEFINE a == Mapped1(s, t, v)
           b == Mapped2(s, t, v)
           F == PDE(b, t, v).frame
<1>1. s \in Mem
  BY DEF Fits
<1>2. /\ a.panic = "no" /\ b.panic = "no" /\ PDE(b, t, v).present
      /\ r = SetEntry(b, F, SlotOf(v), e)
  <2>1. Map(s, t, v, e).panic = "no"
    OBVIOUS
  <2>2. QED
    BY <1>1, <2>1, MapKeeps
<1>3. a = Mapped1(s, t, v) /\ b = Mapped2(s, t, v) /\ F = PDE(b, t, v).frame
  OBVIOUS
<1> HIDE DEF a, b, F
<1>4. Fits(b, k, x, h) /\ Undisturbed(s, b, x, h) /\ Prepared(s, b, t, DirOf(v))
  BY <1>2, <1>3, Preparing
<1>5. ~ PDE(b, t, v).shared
  BY <1>4 DEF Prepared, PDE
<1>6. <<t, v>> \in h \/ ~ Ent(b, t, v).present
  BY <1>4 DEF Undisturbed, SamePages
<1>7. Holders(Held(b, k, h), e.frame) = {} /\ e.frame \in x
  <2>1. b.refs[n] = 1
    BY <1>4 DEF Undisturbed
  <2>2. QED
    BY <1>4, <2>1, Unheld
<1>8. Fits(r, k, x \ {e.frame}, h \ {<<t, v>>})
  BY <1>2, <1>3, <1>4, <1>5, <1>6, <1>7, EntryMade
<1>9. /\ r.dir = b.dir /\ r.data = b.data /\ r.refs = b.refs
      /\ Ent(r, t, v) = e
      /\ \A u \in Task, w \in Page : u # t \/ w # v => Ent(r, u, w) = Ent(b, u, w)
  BY <1>2, <1>3, <1>4, <1>5, EntryView
<1>10. EntrySet(s, r, t, v, e, h)
  BY <1>4, <1>9 DEF EntrySet, Undisturbed, SamePages
<1>11. Prepared(s, r, t, DirOf(v))
  <2> DEFINE d == DirOf(v)
  <2>1. Prepared(s, b, t, d)
    BY <1>4
  <2> HIDE DEF d
  <2>2. r.dir = b.dir
    BY <1>9
  <2>3. Prepared(s, r, t, d)
    BY <2>1, <2>2, PreparedSame
  <2>4. QED
    BY <2>3 DEF d
<1>12. \A f \in Frame : f \in x => r.data[f] = s.data[f] /\ r.refs[f] = s.refs[f]
  BY <1>4, <1>9 DEF Undisturbed
<1>13. QED
  BY <1>8, <1>10, <1>11, <1>12 DEF MappedIn
-----------------------------------------------------------------------------
(* free_page() and the loop of free_mem_usr() over the page tables.        *)

(* Entry v of task t is not present any more, and other pages are what     *)
(* they were.                                                              *)
PageOut(s, r, t, v) ==
  /\ ~ Ent(r, t, v).present
  /\ \A u \in Task, w \in Page : u # t \/ w # v =>
       /\ Ent(r, u, w) = Ent(s, u, w)
       /\ Ent(s, u, w).present => r.data[Ent(s, u, w).frame] = s.data[Ent(s, u, w).frame]

(* Page directories stay what they are, but for new page tables of t. *)
DirsKept(s, r, t) ==
  /\ \A d \in Dir : /\ r.dir[t][d].present <=> s.dir[t][d].present
                    /\ s.dir[t][d].frame = 0 => r.dir[t][d].frame = 0
  /\ \A u \in Task : u # t => r.dir[u] = s.dir[u]

(* The outcome of EntryView. *)
EntryPut(s, r, t, v, e) ==
  /\ r.dir = s.dir /\ r.data = s.data /\ Ent(r, t, v) = e
  /\ \A u \in Task, w \in Page : u # t \/ w # v => Ent(r, u, w) = Ent(s, u, w)

LEMMA EntryPuts ==
  ASSUME NEW s, NEW k, NEW x, NEW h, Fits(s, k, x, h),
         NEW t \in Task, NEW v \in Page, NEW F,
         PDE(s, t, v).present, ~ PDE(s, t, v).shared, F = PDE(s, t, v).frame,
         NEW e \in TabEntry, NEW r, r = SetEntry(s, F, SlotOf(v), e)
  PROVE  EntryPut(s, r, t, v, e)
<1>1. /\ r \in Mem /\ r.dir = s.dir /\ r.data = s.data /\ r.refs = s.refs /\ r.panic = s.panic
      /\ Ent(r, t, v) = e
      /\ \A u \in Task, w \in Page : u # t \/ w # v => Ent(r, u, w) = Ent(s, u, w)
  BY EntryView
<1>2. QED
  BY <1>1 DEF EntryPut

LEMMA EntryOut ==
  ASSUME NEW s, NEW k, NEW x, NEW h, Fits(s, k, x, h),
         NEW t \in Task, NEW v \in Page, NEW F,
         PDE(s, t, v).present, ~ PDE(s, t, v).shared, F = PDE(s, t, v).frame, <<t, v>> \in h,
         NEW r, r = SetEntry(s, F, SlotOf(v), [s.tab[F][SlotOf(v)] EXCEPT !.present = FALSE])
  PROVE  /\ Fits(r, k, x, h \ {<<t, v>>})
         /\ r.dir = s.dir /\ r.data = s.data
         /\ ~ Ent(r, t, v).present
         /\ \A u \in Task, w \in Page : u # t \/ w # v => Ent(r, u, w) = Ent(s, u, w)
<1>1. s \in Mem /\ SlotOf(v) \in Slot /\ F \in Frame
  BY PagePlace, PresentType DEF Fits
<1>2. s.tab[F][SlotOf(v)] \in TabEntry
  BY <1>1 DEF Mem
<1>3. PICK e \in TabEntry : ~ e.present /\ r = SetEntry(s, F, SlotOf(v), e)
  <2> DEFINE c == [s.tab[F][SlotOf(v)] EXCEPT !.present = FALSE]
  <2>1. c \in TabEntry
    BY <1>2, Entries
  <2>2. ~ c.present
    BY <1>2 DEF TabEntry
  <2>3. QED
    BY <2>1, <2>2
<1>4. r = SetEntry(s, F, SlotOf(v), e)
  BY <1>3
<1>5. Fits(r, k, x, h \ {<<t, v>>})
  BY <1>3, <1>4, EntryCleared
<1>6. EntryPut(s, r, t, v, e)
  BY <1>4, EntryPuts
<1>7. QED
  BY <1>3, <1>5, <1>6 DEF EntryPut

LEMMA PageFreed ==
  ASSUME NEW s, NEW k, Fits(s, k, {}, {}), NEW t \in Task, NEW v \in Page,
         NEW r, r = FreePage(s, t, v), r.panic = "no"
  PROVE  Fits(r, k, {}, {}) /\ PageOut(s, r, t, v) /\ DirsKept(s, r, t)
<1>1. s \in Mem /\ s.panic = "no"
  BY DEF Fits
<1>2. CASE ~ Present(s, t, v)
  <2>1. r = s
    BY <1>1, <1>2, FreePageKeeps
  <2>2. ~ Ent(s, t, v).present
    BY <1>1, <1>2, EntIs
  <2>3. PageOut(s, s, t, v) /\ DirsKept(s, s, t)
    BY <2>2 DEF PageOut, DirsKept
  <2>4. QED
    BY <2>1, <2>3
<1>3. CASE Present(s, t, v)
  <2> DEFINE f == PTE(s, t, v).frame
             a == Freed(s, t, v)
             b == Freed2(s, t, v)
             F == PDE(b, t, v).frame
             d == DirOf(v)
             h == {<<t, v>>}
             x == {f}
  <2>1. f \in Frame /\ PageAt(s, {}, t, v, f) /\ PDE(s, t, v).present
    <3>1. Ent(s, t, v).present /\ Ent(s, t, v) = PTE(s, t, v) /\ Ent(s, t, v).frame \in Frame
      BY <1>1, <1>3, EntIs
    <3>2. PageAt(s, {}, t, v, PTE(s, t, v).frame)
      BY <3>1 DEF PageAt
    <3>3. QED
      BY <1>3, <3>1, <3>2 DEF Present
  <2>2. a = Drop(s, f)
    BY DEF Freed
  <2>3. /\ b.panic = "no" /\ PDE(b, t, v).present
        /\ r = SetEntry(b, F, SlotOf(v), [b.tab[F][SlotOf(v)] EXCEPT !.present = FALSE])
    <3>1. FreePage(s, t, v).panic = "no"
      OBVIOUS
    <3>2. QED
      BY <1>1, <1>3, <3>1, FreePageKeeps
  <2>4. d \in Dir /\ \A q : PDE(q, t, v) = q.dir[t][d]
    BY PagePlace DEF PDE
  <2>17. d \in Dir
    BY <2>4
  <2>5. b = IF PDE(a, t, v).shared THEN CopyTable(a, t, d) ELSE a
    BY DEF Freed2
  <2>6. F = PDE(b, t, v).frame /\ d = DirOf(v)
    OBVIOUS
  <2> HIDE DEF f, a, b, F, d
  <2>7. Fits(s, k, x, h) /\ f \in x
    <3>1. Fits(s, k, {} \cup {f}, {} \cup {<<t, v>>})
      BY <2>1, PageLeaves
    <3>2. QED
      BY <3>1
  <2> HIDE DEF x, h
  <2>8. /\ a.dir = s.dir /\ \A u \in Task : SamePages(s, a, u, h)
        /\ Fits(a, k, x \ {f}, h)
    BY <2>1, <2>2, <2>7, Dropped
  <2>9. Fits(a, k, {}, h)
    <3>1. x \ {f} = {}
      BY DEF x
    <3>2. QED
      BY <2>8, <3>1
  <2>10. /\ Fits(b, k, {}, h) /\ \A u \in Task : SamePages(a, b, u, h)
         /\ b.dir[t][d].present /\ ~ b.dir[t][d].shared
         /\ \A u \in Task, e \in Dir : u # t \/ e # d => b.dir[u][e] = a.dir[u][e]
    <3>1. CASE a.dir[t][d].shared
      <4>1. b = CopyTable(a, t, d)
        BY <2>4, <2>5, <3>1
      <4>2. a.dir[t][d].present /\ a.dir[t][d].frame \notin {}
        BY <2>1, <2>4, <2>8
      <4>3. Fits(b, k, {}, h) /\ Undisturbed(a, b, {}, h) /\ GetsTable(a, b, t, d, TRUE)
        <5> DEFINE y == {}
        <5>1. b.panic = "no"
          BY <2>3
        <5>2. Fits(a, k, y, h) /\ a.dir[t][d].frame \notin y
          BY <2>9
        <5>3. a.dir[t][d].present
          BY <4>2
        <5> HIDE DEF y
        <5>4. Fits(b, k, y, h) /\ Undisturbed(a, b, y, h) /\ GetsTable(a, b, t, d, TRUE)
          BY <2>17, <4>1, <5>1, <5>2, <5>3, TableCopied
        <5>5. QED
          BY <5>4 DEF y
      <4>4. PICK N \in Frame : b.dir[t][d] = Table(N, TRUE)
        BY <4>3 DEF GetsTable
      <4>5. QED
        BY <4>3, <4>4, Entries, ZenonT(100) DEF GetsTable, Undisturbed
    <3>2. CASE ~ a.dir[t][d].shared
      <4>1. b = a
        BY <2>4, <2>5, <3>2
      <4>2. b.dir[t][d].present
        BY <2>3, <2>4
      <4>3. QED
        BY <2>9, <3>2, <4>1, <4>2 DEF SamePages
    <3>3. QED
      BY <3>1, <3>2
  <2>11. <<t, v>> \in h /\ h \ {<<t, v>>} = {}
    BY DEF h
  <2>12. ~ PDE(b, t, v).shared
    BY <2>4, <2>10
  <2>13. /\ Fits(r, k, {}, h \ {<<t, v>>})
         /\ r.dir = b.dir /\ r.data = b.data
         /\ ~ Ent(r, t, v).present
         /\ \A u \in Task, w \in Page : u # t \/ w # v => Ent(r, u, w) = Ent(b, u, w)
    BY <2>3, <2>6, <2>10, <2>11, <2>12, EntryOut
  <2>14. PageOut(s, r, t, v)
    <3>1. \A u \in Task : SamePages(s, b, u, h)
      BY <2>8, <2>10, SamePagesTwice
    <3>2. ASSUME NEW u \in Task, NEW w \in Page, u # t \/ w # v
          PROVE  /\ Ent(r, u, w) = Ent(s, u, w)
                 /\ Ent(s, u, w).present => r.data[Ent(s, u, w).frame] = s.data[Ent(s, u, w).frame]
      <4>1. <<u, w>> \notin h
        BY <3>2 DEF h
      <4>2. QED
        BY <2>13, <3>1, <3>2, <4>1 DEF SamePages
    <3>3. QED
      BY <2>13, <3>2 DEF PageOut
  <2>15. DirsKept(s, r, t)
    <3>1. ASSUME NEW e \in Dir
          PROVE  /\ r.dir[t][e].present <=> s.dir[t][e].present
                 /\ s.dir[t][e].frame = 0 => r.dir[t][e].frame = 0
      <4>1. CASE e = d
        <5>1. s.dir[t][d].present /\ s.dir[t][d].frame \in Frame
          BY <1>1, <2>1, <2>4, DirIs
        <5>2. r.dir[t][d].present
          BY <2>10, <2>13
        <5>3. QED
          BY <4>1, <5>1, <5>2, Sizes
      <4>2. CASE e # d
        BY <2>8, <2>10, <2>13, <4>2
      <4>3. QED
        BY <4>1, <4>2
    <3>2. ASSUME NEW u \in Task, u # t
          PROVE  r.dir[u] = s.dir[u]
      <4>1. r \in Mem /\ s \in Mem
        BY <1>1, <2>13 DEF Fits
      <4>2. \A e \in Dir : r.dir[u][e] = s.dir[u][e]
        BY <2>8, <2>10, <2>13, <3>2
      <4>3. r.dir[u] \in [Dir -> DirEntry] /\ s.dir[u] \in [Dir -> DirEntry]
        BY <4>1 DEF Mem
      <4>4. QED
        BY <4>2, <4>3
    <3>3. QED
      BY <3>1, <3>2 DEF DirsKept
  <2>16. QED
    BY <2>11, <2>13, <2>14, <2>15
<1>4. QED
  BY <1>2, <1>3

(* Nothing happens to the other processes. *)
OthersKept(s, r, t) == \A u \in Task : u # t => SamePages(s, r, u, {}) /\ r.dir[u] = s.dir[u]

LEMMA OthersKeptTwice ==
  ASSUME NEW s, NEW r, NEW q, NEW t, OthersKept(s, r, t), OthersKept(r, q, t)
  PROVE  OthersKept(s, q, t)
<1>1. \A u \in Task : u # t => SamePages(s, q, u, {})
  BY SamePagesTwice DEF OthersKept
<1>2. QED
  BY <1>1 DEF OthersKept

(* The first n pages of task t are not present any more. *)
PagesOut(s, r, t, n) ==
  /\ \A v \in Page : v < n => ~ Ent(r, t, v).present
  /\ OthersKept(s, r, t)
  /\ \A d \in Dir : s.dir[t][d].frame = 0 => r.dir[t][d].frame = 0

LEMMA PagesFreed ==
  ASSUME NEW s, NEW k, Fits(s, k, {}, {}), NEW t \in Task,
         NEW r, r = FreeUserPages(s, t), r.panic = "no"
  PROVE  Fits(r, k, {}, {}) /\ PagesOut(s, r, t, DIRS * SLOTS)
<1> DEFINE L == DIRS * SLOTS
<1>0. L \in Nat /\ Page = 0 .. L - 1
  BY Sizes DEF Page
<1>1. s \in Mem
  BY DEF Fits
<1>2. PICK g \in [0 .. L -> Mem] :
        /\ g[0] = s
        /\ \A n \in 1 .. L : g[n] = FreePage(g[n - 1], t, n - 1)
        /\ r = g[L]
  BY <1>1, FreeUserPagesRun
<1> DEFINE S == {n \in 0 .. L : g[n].panic = "no" => Fits(g[n], k, {}, {}) /\ PagesOut(s, g[n], t, n)}
<1> HIDE DEF L
<1>3. 0 \in S
  <2>1. \A v \in Page : ~ (v < 0)
    BY <1>0
  <2>2. PagesOut(s, s, t, 0)
    BY <2>1 DEF PagesOut, OthersKept, SamePages
  <2>3. QED
    BY <1>0, <1>2, <2>2
<1>4. ASSUME NEW n \in 0 .. L - 1, n \in S
      PROVE  n + 1 \in S
  <2>1. n + 1 \in 1 .. L /\ (n + 1) - 1 = n /\ n + 1 \in 0 .. L /\ n \in Page /\ n \in 0 .. L
    BY <1>0
  <2> DEFINE a == g[n]
             b == g[n + 1]
  <2>2. a \in Mem /\ b = FreePage(a, t, n)
    BY <1>2, <2>1
  <2>3. SUFFICES ASSUME b.panic = "no"
                 PROVE  Fits(b, k, {}, {}) /\ PagesOut(s, b, t, n + 1)
    BY <2>1
  <2>4. a.panic = "no" => Fits(a, k, {}, {}) /\ PagesOut(s, a, t, n)
    BY <1>4
  <2> HIDE DEF a, b
  <2>5. a.panic = "no"
    BY <2>1, <2>2, <2>3, FreePageKeeps
  <2>6. Fits(b, k, {}, {}) /\ PageOut(a, b, t, n) /\ DirsKept(a, b, t)
    BY <2>1, <2>2, <2>3, <2>4, <2>5, PageFreed
  <2>7. OthersKept(a, b, t)
    BY <2>6 DEF PageOut, DirsKept, OthersKept, SamePages
  <2>8. OthersKept(s, b, t)
    BY <2>4, <2>5, <2>7, OthersKeptTwice DEF PagesOut
  <2>9. ASSUME NEW v \in Page, v < n + 1
        PROVE  ~ Ent(b, t, v).present
    <3>1. v < n \/ v = n
      BY <1>0, <2>1, <2>9
    <3>2. QED
      BY <2>4, <2>5, <2>6, <3>1 DEF PagesOut, PageOut
  <2>10. \A d \in Dir : s.dir[t][d].frame = 0 => b.dir[t][d].frame = 0
    BY <2>4, <2>5, <2>6 DEF PagesOut, DirsKept
  <2>11. QED
    BY <2>6, <2>8, <2>9, <2>10 DEF PagesOut
<1> HIDE DEF S
<1>5. \A n \in 0 .. L : n \in S
  BY <1>0, <1>3, <1>4, UpTo
<1>6. L \in S
  BY <1>0, <1>5
<1>7. Fits(r, k, {}, {}) /\ PagesOut(s, r, t, L)
  BY <1>2, <1>6 DEF S
<1>8. QED
  BY <1>7 DEF L

(* No page of task t is present, and its first n page tables are freed. *)
TablesOut(s, r, t, n) ==
  /\ \A v \in Page : ~ Ent(r, t, v).present
  /\ \A d \in Dir : d < n => ~ r.dir[t][d].present
  /\ OthersKept(s, r, t)
  /\ \A d \in Dir : s.dir[t][d].frame = 0 => r.dir[t][d].frame = 0

LEMMA TableFreed ==
  ASSUME NEW s, NEW k, Fits(s, k, {}, {}), NEW t \in Task, NEW d \in Dir,
         TablesOut(s, s, t, d), NEW r, r = FreeTable(s, t, d)
  PROVE  Fits(r, k, {}, {}) /\ TablesOut(s, r, t, d + 1)
<1>1. s \in Mem /\ s.panic = "no"
  BY DEF Fits
<1>2. ASSUME NEW e \in Dir, e < d + 1
      PROVE  e < d \/ e = d
  <2>1. Dir \subseteq Int
    BY DEF Dir
  <2>2. QED
    BY <1>2, <2>1
<1>3. CASE ~ s.dir[t][d].present
  <2>1. r = s
    BY <1>1, <1>3, FreeTableKeeps
  <2>2. QED
    BY <1>2, <1>3, <2>1 DEF TablesOut
<1>4. CASE s.dir[t][d].present
  <2> DEFINE F == s.dir[t][d].frame
             c == ClearDir(s, t, d)
             x == {F}
  <2>1. F \in Frame /\ TableAt(s, t, d, F)
    BY <1>1, <1>4, DirIs DEF TableAt
  <2>2. r = Drop(c, F)
    BY <1>1, <1>4, FreeTableKeeps
  <2>3. c = ClearDir(s, t, d)
    OBVIOUS
  <2>4. \A v \in Page : ~ Ent(s, t, v).present
    BY DEF TablesOut
  <2> HIDE DEF c, F
  <2>5. /\ c.data = s.data
        /\ \A u \in Task : u # t => c.dir[u] = s.dir[u]
        /\ \A e \in Dir : e # d => c.dir[t][e] = s.dir[t][e]
        /\ ~ c.dir[t][d].present /\ c.dir[t][d].frame = s.dir[t][d].frame
        /\ \A u \in Task, v \in Page : u # t \/ DirOf(v) # d => Ent(c, u, v) = Ent(s, u, v)
        /\ \A v \in Page : DirOf(v) = d => ~ Ent(c, t, v).present
        /\ Fits(c, k, {} \cup {F}, {})
    <3> DEFINE y == {}
    <3>1. F \notin y /\ Fits(s, k, y, {}) /\ \A v \in Page : DirOf(v) = d => ~ Ent(s, t, v).present
      BY <2>4
    <3> HIDE DEF y
    <3>2. /\ c.data = s.data
          /\ \A u \in Task : u # t => c.dir[u] = s.dir[u]
          /\ \A e \in Dir : e # d => c.dir[t][e] = s.dir[t][e]
          /\ ~ c.dir[t][d].present /\ c.dir[t][d].frame = s.dir[t][d].frame
          /\ \A u \in Task, v \in Page : u # t \/ DirOf(v) # d => Ent(c, u, v) = Ent(s, u, v)
          /\ \A v \in Page : DirOf(v) = d => ~ Ent(c, t, v).present
          /\ Fits(c, k, y \cup {F}, {})
      BY <2>1, <2>3, <3>1, DirCleared
    <3>3. QED
      BY <3>2 DEF y
  <2>6. Fits(c, k, x, {}) /\ F \in x
    BY <2>5
  <2> HIDE DEF x
  <2>7. r.dir = c.dir /\ (\A u \in Task : SamePages(c, r, u, {})) /\ Fits(r, k, x \ {F}, {})
    BY <2>1, <2>2, <2>6, Dropped
  <2>8. x \ {F} = {}
    BY DEF x
  <2>9. OthersKept(s, r, t)
    <3>1. OthersKept(s, c, t)
      BY <2>5 DEF OthersKept, SamePages
    <3>2. OthersKept(c, r, t)
      BY <2>7 DEF OthersKept
    <3>3. QED
      BY <3>1, <3>2, OthersKeptTwice
  <2>10. \A v \in Page : ~ Ent(r, t, v).present
    <3>1. \A v \in Page : ~ Ent(c, t, v).present
      BY <2>4, <2>5
    <3>2. QED
      BY <2>7, <3>1 DEF SamePages
  <2>11. \A e \in Dir : e < d + 1 => ~ r.dir[t][e].present
    BY <1>2, <2>5, <2>7 DEF TablesOut
  <2>12. \A e \in Dir : s.dir[t][e].frame = 0 => r.dir[t][e].frame = 0
    BY <2>5, <2>7
  <2>13. QED
    BY <2>7, <2>8, <2>9, <2>10, <2>11, <2>12 DEF TablesOut
<1>5. QED
  BY <1>3, <1>4

LEMMA UserFreed ==
  ASSUME NEW s, NEW k, Fits(s, k, {}, {}), NEW t \in Task,
         NEW r, r = FreeUser(s, t), r.panic = "no"
  PROVE  Fits(r, k, {}, {}) /\ TablesOut(s, r, t, DIRS)
<1>0. DIRS \in Nat /\ Dir = 0 .. DIRS - 1 /\ \A v \in Page : v < DIRS * SLOTS
  <2>1. DIRS * SLOTS \in Nat
    BY Sizes
  <2> DEFINE P == DIRS * SLOTS
  <2>2. Page = 0 .. P - 1 /\ P \in Nat
    BY <2>1 DEF Page
  <2> HIDE DEF P
  <2>3. \A v \in Page : v < P
    BY <2>2
  <2>4. QED
    BY <2>3, Sizes DEF P, Dir
<1>1. s \in Mem
  BY DEF Fits
<1>2. PICK g \in [0 .. DIRS -> Mem] :
        /\ g[0] = FreeUserPages(s, t)
        /\ \A n \in 1 .. DIRS : g[n] = FreeTable(g[n - 1], t, n - 1)
        /\ r = g[DIRS]
  BY <1>1, FreeUserRun
<1> DEFINE S == {n \in 0 .. DIRS : g[n].panic = "no" => Fits(g[n], k, {}, {}) /\ TablesOut(s, g[n], t, n)}
<1>3. 0 \in S
  <2>1. SUFFICES ASSUME g[0].panic = "no"
                 PROVE  Fits(g[0], k, {}, {}) /\ TablesOut(s, g[0], t, 0)
    BY <1>0
  <2> DEFINE a == g[0]
  <2>2. a = FreeUserPages(s, t) /\ a.panic = "no"
    BY <1>2, <2>1
  <2> HIDE DEF a
  <2>3. Fits(a, k, {}, {}) /\ PagesOut(s, a, t, DIRS * SLOTS)
    BY <2>2, PagesFreed
  <2>4. \A d \in Dir : ~ (d < 0)
    BY <1>0
  <2>5. TablesOut(s, a, t, 0)
    BY <1>0, <2>3, <2>4 DEF TablesOut, PagesOut
  <2>6. QED
    BY <2>3, <2>5 DEF a
<1>4. ASSUME NEW n \in 0 .. DIRS - 1, n \in S
      PROVE  n + 1 \in S
  <2>1. n + 1 \in 1 .. DIRS /\ (n + 1) - 1 = n /\ n + 1 \in 0 .. DIRS /\ n \in Dir /\ n \in 0 .. DIRS
    BY <1>0
  <2> DEFINE a == g[n]
             b == g[n + 1]
  <2>2. a \in Mem /\ b = FreeTable(a, t, n)
    BY <1>2, <2>1
  <2>3. SUFFICES ASSUME b.panic = "no"
                 PROVE  Fits(b, k, {}, {}) /\ TablesOut(s, b, t, n + 1)
    BY <2>1
  <2>4. a.panic = "no" => Fits(a, k, {}, {}) /\ TablesOut(s, a, t, n)
    BY <1>4
  <2> HIDE DEF a, b
  <2>5. a.panic = "no"
    BY <2>1, <2>2, <2>3, FreeTableKeeps
  <2>6. TablesOut(a, a, t, n)
    BY <2>4, <2>5 DEF TablesOut, OthersKept, SamePages
  <2>7. Fits(b, k, {}, {}) /\ TablesOut(a, b, t, n + 1)
    BY <2>1, <2>2, <2>4, <2>5, <2>6, TableFreed
  <2>8. OthersKept(s, b, t)
    BY <2>4, <2>5, <2>7, OthersKeptTwice DEF TablesOut
  <2>9. \A d \in Dir : s.dir[t][d].frame = 0 => b.dir[t][d].frame = 0
    BY <2>4, <2>5, <2>7 DEF TablesOut
  <2>10. QED
    BY <2>7, <2>8, <2>9 DEF TablesOut
<1> HIDE DEF S
<1>5. \A n \in 0 .. DIRS : n \in S
  BY <1>0, <1>3, <1>4, UpTo
<1>6. DIRS \in S
  BY <1>0, <1>5
<1>7. QED
  BY <1>2, <1>6 DEF S
-----------------------------------------------------------------------------
(* do_execve(): a process gets the pages of an image.                      *)

LoadedAs(v) == IF v = Stack THEN Junk ELSE FromFile

(* From memory s on, task t got the pages P, and nothing else but what is  *)
(* left of former page directories.                                        *)
Loading(s, r, t, P, code) ==
  /\ \A d \in Dir : r.dir[t][d].present <=> \E v \in P : DirOf(v) = d
  /\ \A d \in Dir : r.dir[t][d].present => \E f \in Frame : r.dir[t][d] = Table(f, TRUE)
  /\ \A d \in Dir : r.dir[t][d].frame # 0 => r.dir[t][d].present \/ s.dir[t][d].frame # 0
  /\ \A v \in Page : Ent(r, t, v).present <=> v \in P
  /\ \A v \in Page : Ent(r, t, v).frame # 0 => v \in P
  /\ \A v \in P : /\ code < v => Ent(r, t, v).rw
                  /\ r.data[Ent(r, t, v).frame] = LoadedAs(v)
                  /\ \A u \in Task : u # t => ~ Shows(r, u, v, Ent(r, t, v).frame)
  /\ OthersKept(s, r, t)

(* A frame that nobody has is taken and filled. *)
LEMMA LoadingSame ==
  ASSUME NEW s, NEW a, NEW b, NEW t \in Task, NEW P \in SUBSET Page, NEW code,
         Loading(s, a, t, P, code), a \in Mem, b.dir = a.dir, b.tab = a.tab,
         NEW n \in Frame, \A u \in Task, v \in Page : ~ PageAt(a, {}, u, v, n),
         \A f \in Frame : f # n => b.data[f] = a.data[f]
  PROVE  Loading(s, b, t, P, code)
<1>1. \A u, v : Ent(b, u, v) = Ent(a, u, v)
  BY EntSame
<1>2. ASSUME NEW u \in Task, NEW v \in Page, Ent(a, u, v).present
      PROVE  b.data[Ent(a, u, v).frame] = a.data[Ent(a, u, v).frame]
  <2>1. Ent(a, u, v).frame \in Frame
    BY <1>2, EntIs
  <2>2. Ent(a, u, v).frame # n
    BY <1>2 DEF PageAt
  <2>3. QED
    BY <2>1, <2>2
<1>3. OthersKept(s, b, t)
  <2>1. OthersKept(a, b, t)
    BY <1>1, <1>2 DEF OthersKept, SamePages
  <2>2. OthersKept(s, a, t)
    BY DEF Loading
  <2>3. QED
    BY <2>1, <2>2, OthersKeptTwice
<1>4. \A v \in P : /\ code < v => Ent(b, t, v).rw
                   /\ b.data[Ent(b, t, v).frame] = LoadedAs(v)
                   /\ \A u \in Task : u # t => ~ Shows(b, u, v, Ent(b, t, v).frame)
  <2>1. SUFFICES ASSUME NEW v \in P
                 PROVE  /\ code < v => Ent(b, t, v).rw
                        /\ b.data[Ent(b, t, v).frame] = LoadedAs(v)
                        /\ \A u \in Task : u # t => ~ Shows(b, u, v, Ent(b, t, v).frame)
    OBVIOUS
  <2>2. v \in Page /\ Ent(a, t, v).present
    BY DEF Loading
  <2>3. /\ code < v => Ent(a, t, v).rw
        /\ a.data[Ent(a, t, v).frame] = LoadedAs(v)
        /\ \A u \in Task : u # t => ~ Shows(a, u, v, Ent(a, t, v).frame)
    BY DEF Loading
  <2>4. QED
    BY <1>1, <1>2, <2>2, <2>3 DEF Shows
<1>5. /\ \A d \in Dir : b.dir[t][d].present <=> \E v \in P : DirOf(v) = d
      /\ \A d \in Dir : b.dir[t][d].present => \E f \in Frame : b.dir[t][d] = Table(f, TRUE)
      /\ \A d \in Dir : b.dir[t][d].frame # 0 => b.dir[t][d].present \/ s.dir[t][d].frame # 0
  <2>1. b.dir = a.dir
    OBVIOUS
  <2>2. QED
    BY <2>1 DEF Loading
<1>6. /\ \A v \in Page : Ent(b, t, v).present <=> v \in P
      /\ \A v \in Page : Ent(b, t, v).frame # 0 => v \in P
  <2>1. /\ \A v \in Page : Ent(a, t, v).present <=> v \in P
        /\ \A v \in Page : Ent(a, t, v).frame # 0 => v \in P
    BY DEF Loading
  <2>2. QED
    BY <1>1, <2>1
<1>7. /\ \A d \in Dir : b.dir[t][d].present <=> \E v \in P : DirOf(v) = d
      /\ \A d \in Dir : b.dir[t][d].present => \E f \in Frame : b.dir[t][d] = Table(f, TRUE)
      /\ \A d \in Dir : b.dir[t][d].frame # 0 => b.dir[t][d].present \/ s.dir[t][d].frame # 0
      /\ \A v \in Page : Ent(b, t, v).present <=> v \in P
      /\ \A v \in Page : Ent(b, t, v).frame # 0 => v \in P
      /\ \A v \in P : /\ code < v => Ent(b, t, v).rw
                      /\ b.data[Ent(b, t, v).frame] = LoadedAs(v)
                      /\ \A u \in Task : u # t => ~ Shows(b, u, v, Ent(b, t, v).frame)
      /\ OthersKept(s, b, t)
  BY <1>3, <1>4, <1>5, <1>6
<1>8. QED
  BY ONLY <1>7 DEF Loading

(* The entry of a page is made for a frame that nobody has. *)
LEMMA PageAdded ==
  ASSUME NEW s, NEW b, NEW k, NEW n \in Frame, NEW x, x = {n}, Fits(b, k, x, {}), b.refs[n] = 1,
         NEW t \in Task, NEW P \in SUBSET Page, NEW code, Loading(s, b, t, P, code),
         NEW v \in Page, v \notin P, b.data[n] = LoadedAs(v),
         NEW rw \in BOOLEAN, code < v => rw,
         NEW r, r = Map(b, t, v, Entry(n, rw)), r.panic = "no"
  PROVE  Fits(r, k, {}, {}) /\ Loading(s, r, t, P \cup {v}, code)
<1> DEFINE e == Entry(n, rw)
           d == DirOf(v)
           h == {}
<1>1. e \in TabEntry /\ e.frame = n /\ e.present /\ e.rw = rw
  BY Entries
<1>2. d \in Dir /\ PDE(b, t, v) = b.dir[t][d]
  BY PagePlace DEF PDE
<1>3. ~ (PDE(b, t, v).present /\ PDE(b, t, v).shared)
  <2>1. ASSUME b.dir[t][d].present
        PROVE  ~ b.dir[t][d].shared
    <3>1. PICK f \in Frame : b.dir[t][d] = Table(f, TRUE)
      BY <1>2, <2>1 DEF Loading
    <3>2. QED
      BY <3>1, Entries, ZenonT(60)
  <2>2. QED
    BY <1>2, <2>1
<1>4. ~ Ent(b, t, v).present
  BY DEF Loading
<1>5. n \in x
  OBVIOUS
<1>6. r = Map(b, t, v, e)
  OBVIOUS
<1>7. \A u \in Task, w \in Page : ~ PageAt(b, {}, u, w, n)
  <2>1. Holders(Held(b, k, {}), n) = {}
    BY <1>5, Unheld
  <2>2. QED
    BY <2>1, NotHeld
<1> HIDE DEF e, d, h
<1>8. Fits(r, k, x \ {n}, h \ {<<t, v>>}) /\ MappedIn(b, r, t, v, e, x, h)
  <2>1. Fits(b, k, x, h)
    BY DEF h
  <2>2. QED
    BY <1>1, <1>3, <1>4, <1>5, <1>6, <2>1, PageMapped
<1>9. Fits(r, k, {}, {})
  <2>1. x \ {n} = {} /\ h \ {<<t, v>>} = {}
    BY DEF h
  <2>2. QED
    BY <1>8, <2>1
<1>10. /\ Ent(r, t, v) = e
       /\ \A u \in Task, w \in Page : u # t \/ w # v =>
            /\ Ent(r, u, w) = Ent(b, u, w)
            /\ Ent(b, u, w).present => r.data[Ent(b, u, w).frame] = b.data[Ent(b, u, w).frame]
  BY <1>8 DEF MappedIn, EntrySet, h
<1>11. OthersKept(s, r, t)
  <2>1. \A u \in Task : u # t => r.dir[u] = b.dir[u]
    <3>1. r \in Mem /\ b \in Mem
      BY <1>9 DEF Fits
    <3>2. \A u \in Task, c \in Dir : u # t => r.dir[u][c] = b.dir[u][c]
      BY <1>8 DEF MappedIn, Prepared
    <3>3. \A u \in Task : r.dir[u] \in [Dir -> DirEntry] /\ b.dir[u] \in [Dir -> DirEntry]
      BY <3>1 DEF Mem
    <3>4. QED
      BY <3>2, <3>3
  <2>2. OthersKept(b, r, t)
    BY <1>10, <2>1 DEF OthersKept, SamePages
  <2>3. QED
    BY <2>2, OthersKeptTwice DEF Loading
<1> DEFINE Q == P \cup {v}
<1>12. /\ r.dir[t][d].present
       /\ r.dir[t][d] = b.dir[t][d] \/ \E N \in Frame : r.dir[t][d] = Table(N, TRUE)
       /\ \A c \in Dir : c # d => r.dir[t][c] = b.dir[t][c]
  BY <1>8 DEF MappedIn, Prepared, d
<1>13. ASSUME NEW c \in Dir
       PROVE  /\ r.dir[t][c].present <=> \E w \in Q : DirOf(w) = c
              /\ r.dir[t][c].present => \E f \in Frame : r.dir[t][c] = Table(f, TRUE)
              /\ r.dir[t][c].frame # 0 => r.dir[t][c].present \/ s.dir[t][c].frame # 0
  <2>1. /\ b.dir[t][c].present <=> \E w \in P : DirOf(w) = c
        /\ b.dir[t][c].present => \E f \in Frame : b.dir[t][c] = Table(f, TRUE)
        /\ b.dir[t][c].frame # 0 => b.dir[t][c].present \/ s.dir[t][c].frame # 0
    BY DEF Loading
  <2>2. CASE c = d
    BY <1>12, <2>1, <2>2 DEF d
  <2>3. CASE c # d
    BY <1>12, <2>1, <2>3 DEF d
  <2>4. QED
    BY <2>2, <2>3
<1>14. \A w \in Page : /\ Ent(r, t, w).present <=> w \in Q
                       /\ Ent(r, t, w).frame # 0 => w \in Q
  BY <1>1, <1>10 DEF Loading
<1>15. ASSUME NEW w \in Q
       PROVE  /\ code < w => Ent(r, t, w).rw
              /\ r.data[Ent(r, t, w).frame] = LoadedAs(w)
              /\ \A u \in Task : u # t => ~ Shows(r, u, w, Ent(r, t, w).frame)
  <2>1. CASE w = v
    <3>1. \A u \in Task : u # t => ~ Shows(b, u, w, n)
      BY <1>7 DEF Shows, PageAt
    <3>2. \A u \in Task : u # t => ~ Shows(r, u, w, n)
      BY <1>10, <3>1 DEF Shows
    <3>3. r.data[n] = LoadedAs(v)
      BY <1>5, <1>8 DEF MappedIn
    <3>4. QED
      BY <1>1, <1>10, <2>1, <3>2, <3>3
  <2>2. CASE w # v
    <3>1. w \in P /\ w \in Page
      BY <2>2
    <3>2. /\ code < w => Ent(b, t, w).rw
          /\ b.data[Ent(b, t, w).frame] = LoadedAs(w)
          /\ \A u \in Task : u # t => ~ Shows(b, u, w, Ent(b, t, w).frame)
      BY <3>1 DEF Loading
    <3>3. Ent(b, t, w).present
      BY <3>1 DEF Loading
    <3>4. QED
      BY <1>10, <2>2, <3>1, <3>2, <3>3 DEF Shows
  <2>3. QED
    BY <2>1, <2>2
<1> HIDE DEF Q
<1>16. Loading(s, r, t, Q, code)
  BY <1>11, <1>13, <1>14, <1>15 DEF Loading
<1>17. QED
  BY <1>9, <1>16 DEF Q

(* alloc_page_frame() for a page. *)
LEMMA FrameTaken ==
  ASSUME NEW s, NEW a, NEW k, Fits(a, k, {}, {}), NEW t \in Task, NEW P \in SUBSET Page,
         NEW code, Loading(s, a, t, P, code),
         NEW b, b = Alloc(a), b.panic = "no", NEW n, n = NewFrame(a), NEW x, x = {n}
  PROVE  /\ n \in Frame /\ b.refs[n] = 1 /\ b.data[n] = Junk
         /\ \A u \in Task, v \in Page : ~ PageAt(a, {}, u, v, n)
         /\ Fits(b, k, x, {}) /\ Loading(s, b, t, P, code)
<1> DEFINE y == {}
<1>1. Fits(a, k, y, {}) /\ a \in Mem
  BY DEF Fits
<1> HIDE DEF y
<1>2. /\ n \in Frame /\ a.data[n] = Junk
      /\ b.dir = a.dir /\ b.tab = a.tab /\ b.data = a.data
      /\ Held(b, k, {}) = Held(a, k, {}) /\ Holders(Held(b, k, {}), n) = {}
      /\ Fits(b, k, y \cup {n}, {})
  BY <1>1, Taken
<1>3. Fits(b, k, x, {})
  BY <1>2 DEF y
<1>4. b.refs[n] = 1
  <2>1. b.refs = [a.refs EXCEPT ![n] = 1] /\ a.refs \in [Frame -> 0 .. UINT8 - 1]
    BY <1>1, AllocIs DEF Mem
  <2>2. QED
    BY <1>2, <2>1
<1>5. \A u \in Task, v \in Page : ~ PageAt(a, {}, u, v, n)
  BY <1>2, NotHeld
<1>6. Loading(s, b, t, P, code)
  BY <1>1, <1>2, <1>5, LoadingSame
<1>7. QED
  BY <1>2, <1>3, <1>4, <1>5, <1>6

LEMMA PageLoaded ==
  ASSUME NEW s, NEW a, NEW k, Fits(a, k, {}, {}), NEW t \in Task, NEW P \in SUBSET Page,
         NEW code, Loading(s, a, t, P, code), NEW v \in Page, v \notin P, v # Stack,
         NEW rw \in BOOLEAN, code < v => rw,
         NEW r, r = AllocPage(a, t, v, rw), r.panic = "no"
  PROVE  Fits(r, k, {}, {}) /\ Loading(s, r, t, P \cup {v}, code)
<1> DEFINE n == NewFrame(a)
           b == Alloc(a)
           c == SetData(b, n, FromFile)
           x == {n}
<1>1. a \in Mem
  BY DEF Fits
<1>2. ~ Present(a, t, v)
  BY <1>1, EntIs DEF Loading
<1>3. b.panic = "no" /\ r = Map(c, t, v, Entry(n, rw))
  BY <1>1, <1>2, AllocPageKeeps
<1>4. b = Alloc(a) /\ n = NewFrame(a) /\ c = SetData(b, n, FromFile) /\ x = {n}
  OBVIOUS
<1> HIDE DEF n, b, c, x
<1>5. /\ n \in Frame /\ b.refs[n] = 1
      /\ \A u \in Task, w \in Page : ~ PageAt(a, {}, u, w, n)
      /\ Fits(b, k, x, {}) /\ Loading(s, b, t, P, code)
  BY <1>3, <1>4, FrameTaken
<1>6. FromFile \in Content /\ b.refs[n] # 0
  BY <1>5 DEF Content
<1>7. /\ c.dir = b.dir /\ c.tab = b.tab /\ c.refs = b.refs
      /\ c.data[n] = FromFile /\ (\A g \in Frame : g # n => c.data[g] = b.data[g])
      /\ Fits(c, k, x, {})
  BY <1>4, <1>5, <1>6, Stored
<1>8. \A u \in Task, w \in Page : ~ PageAt(b, {}, u, w, n)
  <2>1. b.dir = a.dir /\ b.tab = a.tab
    BY <1>1, <1>3, <1>4, AllocIs
  <2>2. QED
    BY <1>5, <2>1, EntSame
<1>9. Loading(s, c, t, P, code)
  <2>1. b \in Mem
    BY <1>5 DEF Fits
  <2>2. QED
    BY <1>5, <1>7, <1>8, <2>1, LoadingSame
<1>10. c.data[n] = LoadedAs(v)
  BY <1>7 DEF LoadedAs
<1>11. c.refs[n] = 1
  BY <1>5, <1>7
<1>12. QED
  BY <1>3, <1>4, <1>5, <1>7, <1>9, <1>10, <1>11, PageAdded

(* A panic stays. *)
LEMMA AllocsPanic ==
  ASSUME NEW s \in Mem, NEW t \in Task, NEW rw \in BOOLEAN,
         NEW first \in Page, NEW last \in Page, first <= last,
         AllocPages(s, t, first, last, rw).panic = "no"
  PROVE  s.panic = "no"
<1> DEFINE L == last - first + 1
<1>1. /\ L \in Nat /\ \A n \in 1 .. L : first + n - 1 \in Page
  BY PageRange
<1>2. PICK g \in [0 .. L -> Mem] :
        /\ g[0] = s
        /\ \A n \in 1 .. L : g[n] = AllocPage(g[n - 1], t, first + n - 1, rw)
        /\ AllocPages(s, t, first, last, rw) = g[L]
  BY AllocPagesRun
<1> DEFINE S == {n \in 0 .. L : s.panic # "no" => g[n].panic # "no"}
<1> HIDE DEF L
<1>3. 0 \in S
  BY <1>1, <1>2
<1>4. ASSUME NEW n \in 0 .. L - 1, n \in S
      PROVE  n + 1 \in S
  <2>1. n + 1 \in 1 .. L /\ (n + 1) - 1 = n /\ n \in 0 .. L /\ n + 1 \in 0 .. L
    BY <1>1
  <2> DEFINE v == first + (n + 1) - 1
  <2>2. v \in Page
    BY <1>1, <2>1
  <2>3. g[n] \in Mem /\ g[n + 1] = AllocPage(g[n], t, v, rw)
    BY <1>2, <2>1
  <2> HIDE DEF v
  <2>4. g[n].panic # "no" => g[n + 1].panic # "no"
    BY <2>2, <2>3, AllocPageKeeps
  <2>5. QED
    BY <1>4, <2>1, <2>4
<1> HIDE DEF S
<1>5. \A n \in 0 .. L : n \in S
  BY <1>1, <1>3, <1>4, UpTo
<1>6. L \in S
  BY <1>1, <1>5
<1>7. QED
  BY <1>2, <1>6 DEF S

LEMMA PagesLoaded ==
  ASSUME NEW s, NEW a, NEW k, Fits(a, k, {}, {}), NEW t \in Task, NEW P \in SUBSET Page,
         NEW code, Loading(s, a, t, P, code),
         NEW first \in Page, NEW last \in Page, first <= last,
         \A v \in Page : first <= v /\ v <= last => v \notin P /\ v # Stack,
         NEW rw \in BOOLEAN, \A v \in Page : first <= v /\ v <= last /\ code < v => rw,
         NEW r, r = AllocPages(a, t, first, last, rw), r.panic = "no",
         NEW Q, Q = P \cup {v \in Page : first <= v /\ v <= last}
  PROVE  Fits(r, k, {}, {}) /\ Loading(s, r, t, Q, code)
<1> DEFINE L == last - first + 1
           R(n) == P \cup {v \in Page : first <= v /\ v < first + n}
<1>1. a \in Mem
  BY DEF Fits
<1>2. /\ L \in Nat /\ first \in Nat /\ last \in Nat
      /\ \A n \in 1 .. L : first + n - 1 \in Page
      /\ Page \subseteq Nat
  BY PageRange, Sizes
<1>3. PICK g \in [0 .. L -> Mem] :
        /\ g[0] = a
        /\ \A n \in 1 .. L : g[n] = AllocPage(g[n - 1], t, first + n - 1, rw)
        /\ r = g[L]
  BY <1>1, AllocPagesRun
<1>4. R(0) = P /\ R(L) = Q /\ \A n : R(n) \in SUBSET Page
  <2>1. \A v \in Page : ~ (first <= v /\ v < first + 0)
    BY <1>2
  <2>2. \A v \in Page : v < first + L <=> v <= last
    BY <1>2
  <2>3. QED
    BY <2>1, <2>2
<1>5. ASSUME NEW n \in 0 .. L - 1
      PROVE  /\ n + 1 \in 1 .. L /\ (n + 1) - 1 = n /\ n \in 0 .. L /\ n + 1 \in 0 .. L
             /\ first + n \in Page /\ first + (n + 1) - 1 = first + n
             /\ first <= first + n /\ first + n <= last
             /\ \A v \in Page : v < first + (n + 1) <=> v < first + n \/ v = first + n
  <2>1. n + 1 \in 1 .. L /\ (n + 1) - 1 = n /\ n \in 0 .. L /\ n + 1 \in 0 .. L
    BY <1>2
  <2>2. first + (n + 1) - 1 \in Page /\ first + (n + 1) - 1 = first + n
    BY <1>2, <2>1
  <2>3. QED
    BY <1>2, <2>1, <2>2
<1>6. ASSUME NEW n \in 0 .. L - 1
      PROVE  R(n + 1) = R(n) \cup {first + n} /\ first + n \notin R(n)
  <2>1. \A v \in Page : first <= v /\ v < first + (n + 1) <=> (first <= v /\ v < first + n) \/ v = first + n
    BY <1>5
  <2>2. first + n \in Page /\ first <= first + n /\ first + n <= last /\ ~ (first + n < first + n)
    BY <1>2, <1>5
  <2>3. QED
    BY <2>1, <2>2
<1> DEFINE S == {n \in 0 .. L : g[n].panic = "no" => Fits(g[n], k, {}, {}) /\ Loading(s, g[n], t, R(n), code)}
<1> HIDE DEF R
<1>7. 0 \in S
  <2>1. 0 \in 0 .. L
    BY <1>2
  <2>2. QED
    BY <1>3, <1>4, <2>1
<1>8. ASSUME NEW n \in 0 .. L - 1, n \in S
      PROVE  n + 1 \in S
  <2> DEFINE b == g[n]
             c == g[n + 1]
             v == first + n
  <2>1. b \in Mem /\ c = AllocPage(b, t, v, rw) /\ v \in Page
    BY <1>3, <1>5
  <2>2. SUFFICES ASSUME c.panic = "no"
                 PROVE  Fits(c, k, {}, {}) /\ Loading(s, c, t, R(n + 1), code)
    BY <1>5
  <2>3. b.panic = "no" => Fits(b, k, {}, {}) /\ Loading(s, b, t, R(n), code)
    BY <1>8
  <2>4. v \in Page /\ v # Stack /\ (code < v => rw)
    BY <1>5
  <2>5. R(n + 1) = R(n) \cup {v} /\ v \notin R(n) /\ R(n) \in SUBSET Page
    BY <1>4, <1>6
  <2> HIDE DEF b, c, v
  <2>6. b.panic = "no"
    BY <2>1, <2>2, AllocPageKeeps
  <2> DEFINE T == R(n)
  <2>7. Fits(b, k, {}, {}) /\ Loading(s, b, t, T, code) /\ T \in SUBSET Page /\ v \notin T
    BY <2>3, <2>5, <2>6
  <2> HIDE DEF T
  <2>8. Fits(c, k, {}, {}) /\ Loading(s, c, t, T \cup {v}, code)
    BY <2>1, <2>2, <2>4, <2>7, PageLoaded
  <2>9. QED
    BY <2>5, <2>8 DEF T
<1> HIDE DEF S
<1>9. \A n \in 0 .. L : n \in S
  BY <1>2, <1>7, <1>8, UpTo
<1>10. L \in S
  BY <1>2, <1>9
<1>11. QED
  BY <1>3, <1>4, <1>10 DEF S

(* What is left of a process after free_mem_usr(). *)
LEMMA NothingLoaded ==
  ASSUME NEW s, NEW a, a \in Mem, NEW t \in Task, TablesOut(s, a, t, DIRS), NEW code
  PROVE  Loading(s, a, t, {}, code)
<1>1. \A d \in Dir : ~ a.dir[t][d].present
  <2>1. \A d \in Dir : d < DIRS
    BY Sizes DEF Dir
  <2>2. QED
    BY <2>1 DEF TablesOut
<1>2. \A v \in Page : Ent(a, t, v) = NoEntry
  <2>1. \A v \in Page : ~ PDE(a, t, v).present
    BY <1>1, PagePlace DEF PDE
  <2>2. QED
    BY <2>1 DEF Ent
<1>3. OthersKept(s, a, t) /\ \A d \in Dir : s.dir[t][d].frame = 0 => a.dir[t][d].frame = 0
  BY DEF TablesOut
<1>4. QED
  BY <1>1, <1>2, <1>3, Entries DEF Loading

(* A process with the pages of an image. *)
Given(s, r, t, image) ==
  /\ Tidy(r, t) /\ Reached(r, t) /\ Served(r, t, image.code)
  /\ \A v \in Page : Ent(r, t, v).present <=> v <= image.data \/ v = Stack
  /\ \A v \in Page : Ent(r, t, v).present =>
       /\ r.data[Ent(r, t, v).frame] = LoadedAs(v)
       /\ \A u \in Task : u # t => ~ Shows(r, u, v, Ent(r, t, v).frame)
  /\ OthersKept(s, r, t)

LEMMA ImageReach ==
  ASSUME InReach, NEW image \in Images, NEW d \in Dir
  PROVE  (\E v \in {v \in Page : v <= image.data \/ v = Stack} : DirOf(v) = d) <=> d \in UsedDirs
<1>1. image.data \in Page /\ Stack \in Page /\ Page \subseteq Nat
  BY ImageType, Sizes
<1>2. \A v \in Page : v <= image.data => v \in 0 .. image.data
  BY <1>1
<1>3. \A v \in 0 .. image.data : v \in Page /\ v <= image.data
  <2>1. DIRS * SLOTS \in Nat
    BY Sizes
  <2> DEFINE P == DIRS * SLOTS
  <2>2. P \in Nat /\ Page = 0 .. P - 1
    BY <2>1 DEF Page
  <2> HIDE DEF P
  <2>3. QED
    BY <1>1, <2>2
<1>4. ASSUME NEW v \in Page, v <= image.data \/ v = Stack
      PROVE  DirOf(v) \in UsedDirs
  BY <1>2, <1>4 DEF UsedDirs, Reach
<1>5. ASSUME d \in UsedDirs
      PROVE  \E v \in {v \in Page : v <= image.data \/ v = Stack} : DirOf(v) = d
  <2>1. CASE d = DirOf(Stack)
    BY <1>1, <2>1
  <2>2. CASE d # DirOf(Stack)
    <3>1. PICK v \in 0 .. image.data : DirOf(v) = d
      BY <1>5, <2>2 DEF InReach
    <3>2. QED
      BY <1>3, <3>1
  <2>3. QED
    BY <2>1, <2>2
<1>6. QED
  BY <1>4, <1>5

LEMMA LoadedGives ==
  ASSUME InReach, NEW s, NEW a, NEW t \in Task, NEW image \in Images,
         NEW P, P = {v \in Page : v <= image.data \/ v = Stack},
         NEW r, Loading(s, r, t, P, image.code),
         \A d \in Dir : s.dir[t][d].frame # 0 => d \in UsedDirs
  PROVE  Given(s, r, t, image)
<1>1. \A d \in Dir : (\E v \in P : DirOf(v) = d) <=> d \in UsedDirs
  BY ImageReach
<1>2. Reached(r, t)
  BY <1>1 DEF Loading, Reached
<1>3. Tidy(r, t)
  BY <1>2 DEF Loading, Tidy, Reached
<1>4. Served(r, t, image.code)
  <2>1. ASSUME NEW d \in Dir, r.dir[t][d].present
        PROVE  ServedDir(r.dir[t][d])
    <3>1. PICK f \in Frame : r.dir[t][d] = Table(f, TRUE)
      BY <2>1 DEF Loading
    <3>2. QED
      BY <3>1, Entries DEF ServedDir
  <2>2. \A v \in Page : image.code < v /\ Ent(r, t, v).present => Ent(r, t, v).rw
    BY DEF Loading
  <2>3. QED
    BY <2>1, <2>2 DEF Served
<1>5. \A v \in Page : Ent(r, t, v).present <=> v <= image.data \/ v = Stack
  BY DEF Loading
<1>6. \A v \in Page : Ent(r, t, v).present =>
       /\ r.data[Ent(r, t, v).frame] = LoadedAs(v)
       /\ \A u \in Task : u # t => ~ Shows(r, u, v, Ent(r, t, v).frame)
  BY DEF Loading
<1>7. OthersKept(s, r, t)
  BY DEF Loading
<1>8. QED
  BY <1>2, <1>3, <1>4, <1>5, <1>6, <1>7 DEF Given

LEMMA ImageLoaded ==
  ASSUME InReach, NEW s, NEW k, Fits(s, k, {}, {}), NEW t \in Task, NEW image \in Images,
         \A d \in Dir : s.dir[t][d].frame # 0 => d \in UsedDirs,
         NEW r, r = Loaded(s, t, image), r.panic = "no"
  PROVE  Fits(r, k, {}, {}) /\ Given(s, r, t, image)
<1> DEFINE a == FreeUser(s, t)
           n == NewFrame(a)
           b == Alloc(a)
           c == IF b.panic # "no" THEN b ELSE Map(b, t, Stack, Entry(n, TRUE))
           d == AllocPages(c, t, 0, image.code, FALSE)
           code == image.code
           data == image.data
           x == {n}
<1>1. s \in Mem
  BY DEF Fits
<1>2. /\ a \in Mem /\ c \in Mem /\ d \in Mem
      /\ r = AllocPages(d, t, code + 1, data, TRUE)
      /\ 0 \in Page /\ code \in Page /\ 0 <= code
      /\ code + 1 \in Page /\ data \in Page /\ code + 1 <= data /\ data < Stack
  BY <1>1, LoadedKeeps
<1>3. /\ a = FreeUser(s, t) /\ n = NewFrame(a) /\ b = Alloc(a)
      /\ (b.panic # "no" => c = b) /\ (b.panic = "no" => c = Map(b, t, Stack, Entry(n, TRUE)))
      /\ d = AllocPages(c, t, 0, code, FALSE) /\ x = {n}
  OBVIOUS
<1>4. Page \subseteq Nat /\ Stack \in Page
  BY Sizes
<1> HIDE DEF a, n, b, c, d, code, data, x
<1>5. d.panic = "no"
  BY <1>2, AllocsPanic
<1>6. c.panic = "no"
  BY <1>2, <1>3, <1>5, AllocsPanic
<1>7. b.panic = "no"
  BY <1>3, <1>6
<1>8. a.panic = "no"
  BY <1>2, <1>3, <1>7, AllocIs
<1>9. Fits(a, k, {}, {}) /\ TablesOut(s, a, t, DIRS)
  BY <1>3, <1>8, UserFreed
<1> DEFINE E == {}
<1>10. Loading(s, a, t, E, code) /\ E \in SUBSET Page
  BY <1>2, <1>9, NothingLoaded
<1> HIDE DEF E
<1>11. /\ n \in Frame /\ b.refs[n] = 1 /\ b.data[n] = Junk
       /\ Fits(b, k, x, {}) /\ Loading(s, b, t, E, code)
  BY <1>3, <1>7, <1>9, <1>10, FrameTaken, SMTT(60)
<1>12. /\ b.data[n] = LoadedAs(Stack) /\ Stack \notin E /\ TRUE \in BOOLEAN
       /\ c = Map(b, t, Stack, Entry(n, TRUE)) /\ x = {n}
  BY <1>3, <1>7, <1>11 DEF LoadedAs, E
<1> DEFINE P1 == E \cup {Stack}
           P2 == P1 \cup {v \in Page : 0 <= v /\ v <= code}
           P3 == P2 \cup {v \in Page : code + 1 <= v /\ v <= data}
<1>13. Fits(c, k, {}, {}) /\ Loading(s, c, t, P1, code)
  BY <1>4, <1>6, <1>10, <1>11, <1>12, PageAdded
<1>14. P1 \in SUBSET Page /\ P2 \in SUBSET Page
  BY <1>4 DEF E
<1>15. \A v \in Page : 0 <= v /\ v <= code => v \notin P1 /\ v # Stack /\ ~ (code < v)
  BY <1>2, <1>4 DEF E
<1>16. \A v \in Page : code + 1 <= v /\ v <= data => v \notin P2 /\ v # Stack
  BY <1>2, <1>4 DEF E
<1>17. P3 = {v \in Page : v <= data \/ v = Stack}
  <2>1. \A v \in Page : v <= data <=> (0 <= v /\ v <= code) \/ (code + 1 <= v /\ v <= data)
    BY <1>2, <1>4
  <2>2. QED
    BY <1>4, <2>1 DEF E
<1>18. P2 = P1 \cup {v \in Page : 0 <= v /\ v <= code}
  OBVIOUS
<1>19. P3 = P2 \cup {v \in Page : code + 1 <= v /\ v <= data}
  OBVIOUS
<1> HIDE DEF P1, P2, P3
<1>20. Fits(d, k, {}, {}) /\ Loading(s, d, t, P2, code)
  <2> DEFINE rw == FALSE
             first == 0
  <2>1. rw \in BOOLEAN /\ \A v \in Page : first <= v /\ v <= code /\ code < v => rw
    BY <1>15
  <2>2. \A v \in Page : first <= v /\ v <= code => v \notin P1 /\ v # Stack
    BY <1>15
  <2>3. d = AllocPages(c, t, first, code, rw)
    BY <1>3
  <2>4. first \in Page /\ code \in Page /\ first <= code
    BY <1>2
  <2>5. P2 = P1 \cup {v \in Page : first <= v /\ v <= code}
    BY <1>18
  <2> HIDE DEF rw, first
  <2>6. QED
    BY <1>5, <1>13, <1>14, <2>1, <2>2, <2>3, <2>4, <2>5, PagesLoaded
<1>21. Fits(r, k, {}, {}) /\ Loading(s, r, t, P3, code)
  <2> DEFINE rw == TRUE
             first == code + 1
  <2>1. rw \in BOOLEAN /\ \A v \in Page : first <= v /\ v <= data /\ code < v => rw
    OBVIOUS
  <2>2. \A v \in Page : first <= v /\ v <= data => v \notin P2 /\ v # Stack
    BY <1>16
  <2>3. r = AllocPages(d, t, first, data, rw)
    BY <1>2
  <2>4. first \in Page /\ data \in Page /\ first <= data
    BY <1>2
  <2>5. P3 = P2 \cup {v \in Page : first <= v /\ v <= data}
    BY <1>19
  <2> HIDE DEF rw, first
  <2>6. QED
    BY <1>14, <1>20, <2>1, <2>2, <2>3, <2>4, <2>5, PagesLoaded
<1>22. Given(s, r, t, image)
  BY <1>17, <1>21, LoadedGives DEF code, data
<1>23. QED
  BY <1>21, <1>22
-----------------------------------------------------------------------------
(* pf_ro_violation(): the page table and then the page become private.     *)

(* A frame that is in use is counted. *)
LEMMA UsedFrame ==
  ASSUME NEW s, NEW k, NEW x, NEW h, Fits(s, k, x, h), NEW t \in Task, NEW v \in Page,
         NEW f \in Frame, PageAt(s, h, t, v, f)
  PROVE  s.refs[f] # 0 /\ Holders(Held(s, k, h), f) # {}
<1> DEFINE H == Held(s, k, h)
<1>1. <<t, PageUse(v), f>> \in H /\ PageUse(v) \in Use
  BY HeldIs, UsesDiffer
<1>2. t \in Holders(H, f)
  BY <1>1, HoldersAre
<1>3. s.refs[f] = Cardinality(Holders(H, f)) + (IF f \in x THEN 1 ELSE 0)
  BY DEF Fits, Exact
<1>4. Cardinality(Holders(H, f)) \in Nat /\ Cardinality(Holders(H, f)) # 0
  BY <1>2, HoldersType
<1> HIDE DEF H
<1>5. s.refs[f] # 0 /\ Holders(H, f) # {}
  BY <1>2, <1>3, <1>4
<1>6. QED
  BY <1>5 DEF H

(* No page of task t is more writable than it was. *)
NotMore(s, r, t, w) ==
  /\ Ent(r, t, w).present = Ent(s, t, w).present
  /\ Ent(r, t, w).frame = Ent(s, t, w).frame
  /\ Ent(s, t, w).rw \/ Ent(s, t, w).cow => Ent(r, t, w).rw \/ Ent(r, t, w).cow
  /\ Ent(r, t, w).rw /\ PDE(r, t, w).rw => Ent(s, t, w).rw /\ PDE(s, t, w).rw

(* Task t has the page table of directory entry d to itself. *)
Separated(s, r, t, d) ==
  /\ r.dir[t][d].present /\ ~ r.dir[t][d].shared /\ ServedDir(r.dir[t][d])
  /\ \A u \in Task, e \in Dir : u # t \/ e # d => r.dir[u][e] = s.dir[u][e]
  /\ \A w \in Page : NotMore(s, r, t, w)
  /\ \A u \in Task, w \in Page : u # t => Ent(r, u, w) = Ent(s, u, w)
  /\ \A u \in Task, w \in Page : Ent(s, u, w).present =>
       r.data[Ent(s, u, w).frame] = s.data[Ent(s, u, w).frame]

LEMMA TableSeparated ==
  ASSUME NEW s, NEW k, NEW E, E = {}, Fits(s, k, E, E), NEW t \in Task, NEW v \in Page,
         PDE(s, t, v).present, ServedDir(PDE(s, t, v)),
         NEW a, a = Unshared1(s, t, v), a.panic = "no", NEW b, b = Unshared2(s, t, v)
  PROVE  Fits(b, k, E, E) /\ Separated(s, b, t, DirOf(v))
<1> DEFINE d == DirOf(v)
<1>1. d \in Dir /\ \A q : PDE(q, t, v) = q.dir[t][d]
  BY PagePlace DEF PDE
<1>2. d = DirOf(v) /\ d \in Dir
  BY <1>1
<1> HIDE DEF d
<1>3. CASE ~ s.dir[t][d].cow
  <2>1. a = s /\ b = s
    BY <1>1, <1>3 DEF Unshared1, Unshared2
  <2>2. Separated(s, s, t, d)
    BY <1>1, <1>3 DEF Separated, NotMore, ServedDir
  <2>3. QED
    BY <1>2, <2>1, <2>2
<1>4. CASE s.dir[t][d].cow
  <2> DEFINE F == a.dir[t][d].frame
  <2>1. a = CopyTable(s, t, d) /\ b = SetTab(a, F, Protected(a.tab[F]))
    BY <1>1, <1>4 DEF Unshared1, Unshared2, d
  <2>2. s.dir[t][d].present /\ s.dir[t][d].frame \notin E
    BY <1>1
  <2>3. Fits(a, k, E, E) /\ Undisturbed(s, a, E, E) /\ GetsTable(s, a, t, d, TRUE)
    BY <1>2, <2>1, <2>2, TableCopied
  <2>4. PICK N \in Frame : a.dir[t][d] = Table(N, TRUE)
    BY <2>3 DEF GetsTable
  <2>5. a.dir[t][d].present /\ ~ a.dir[t][d].shared /\ ServedDir(a.dir[t][d])
    BY <2>4, Entries, ZenonT(60) DEF ServedDir
  <2>6. F = a.dir[t][d].frame
    OBVIOUS
  <2> HIDE DEF F
  <2>7. TabHidden(a, b, t, d) /\ Fits(b, k, E, E)
    BY <1>2, <2>1, <2>3, <2>5, <2>6, TabProtected
  <2>8. \A u \in Task, w \in Page :
          /\ Ent(a, u, w) = Ent(s, u, w)
          /\ Ent(s, u, w).present => a.data[Ent(s, u, w).frame] = s.data[Ent(s, u, w).frame]
    BY <2>3 DEF Undisturbed, SamePages
  <2>9. b.dir = a.dir /\ b.data = a.data
    BY <2>7 DEF TabHidden
  <2>10. \A u \in Task, e \in Dir : u # t \/ e # d => b.dir[u][e] = s.dir[u][e]
    BY <2>3, <2>9 DEF GetsTable
  <2>11. ASSUME NEW w \in Page
         PROVE  NotMore(s, b, t, w)
    <3>1. CASE DirOf(w) = d
      BY <2>7, <2>8, <3>1 DEF TabHidden, NotMore
    <3>2. CASE DirOf(w) # d
      <4>1. Ent(b, t, w) = Ent(s, t, w)
        BY <2>7, <2>8, <3>2 DEF TabHidden
      <4>2. PDE(b, t, w) = PDE(s, t, w)
        BY <2>10, <3>2, PagePlace DEF PDE
      <4>3. QED
        BY <4>1, <4>2 DEF NotMore
    <3>3. QED
      BY <3>1, <3>2
  <2>12. \A u \in Task, w \in Page : u # t => Ent(b, u, w) = Ent(s, u, w)
    BY <2>7, <2>8 DEF TabHidden
  <2>13. b.dir[t][d].present /\ ~ b.dir[t][d].shared /\ ServedDir(b.dir[t][d])
    BY <2>5, <2>9
  <2>14. \A u \in Task, w \in Page : Ent(s, u, w).present =>
            b.data[Ent(s, u, w).frame] = s.data[Ent(s, u, w).frame]
    BY <2>8, <2>9
  <2>15. Separated(s, b, t, d)
    BY ONLY <2>10, <2>11, <2>12, <2>13, <2>14 DEF Separated
  <2>16. QED
    BY <1>2, <2>7, <2>15
<1>5. QED
  BY <1>3, <1>4

(* Page v of task t is a copy of what it was, in a frame of its own. *)
Split(s, r, t, v) ==
  /\ \E n \in Frame : /\ Ent(r, t, v) = Entry(n, TRUE)
                      /\ r.data[n] = s.data[Ent(s, t, v).frame]
                      /\ \A u \in Task : u # t => ~ Shows(r, u, v, n)
  /\ \A w \in Page : w # v => NotMore(s, r, t, w)
  /\ \A w \in Page : w # v /\ Ent(s, t, w).present =>
       r.data[Ent(s, t, w).frame] = s.data[Ent(s, t, w).frame]
  /\ \A e \in Dir : \/ r.dir[t][e] = s.dir[t][e]
                    \/ e = DirOf(v) /\ r.dir[t][e].present /\ ServedDir(r.dir[t][e])
  /\ OthersKept(s, r, t)

(* A frame that nobody has gets the content of the page. *)
CopyMade(b, q, n, old) ==
  /\ n \in Frame /\ q.refs[n] = 1 /\ q.data[n] = b.data[old] /\ q.dir = b.dir
  /\ \A u \in Task, w \in Page : /\ Ent(q, u, w) = Ent(b, u, w)
                                 /\ Ent(b, u, w).present => Ent(b, u, w).frame # n
  /\ \A f \in Frame : f # n => q.data[f] = b.data[f]
  /\ n # old

LEMMA CopyFilled ==
  ASSUME NEW b, NEW k, NEW E, E = {}, Fits(b, k, E, E), NEW t \in Task, NEW v \in Page,
         NEW old \in Frame, PageAt(b, E, t, v, old),
         NEW c, c = Alloc(b), c.panic = "no", NEW n, n = NewFrame(b),
         NEW q, q = SetData(c, n, c.data[old]), NEW y, y = {n, old}, NEW h, h = {<<t, v>>}
  PROVE  CopyMade(b, q, n, old) /\ Fits(q, k, y, h)
<1>1. /\ n \in Frame /\ c.dir = b.dir /\ c.tab = b.tab /\ c.data = b.data /\ c.refs[n] # 0
      /\ Held(c, k, E) = Held(b, k, E) /\ Holders(Held(c, k, E), n) = {}
      /\ Fits(c, k, E \cup {n}, E)
  BY Taken
<1>2. c.refs[n] = 1
  <2>1. b \in Mem
    BY DEF Fits
  <2>2. c.refs = [b.refs EXCEPT ![n] = 1] /\ b.refs \in [Frame -> 0 .. UINT8 - 1]
    BY <2>1, AllocIs DEF Mem
  <2>3. QED
    BY <1>1, <2>2
<1> DEFINE x == E \cup {n}
           z == c.data[old]
<1>3. z \in Content /\ Fits(c, k, x, E) /\ q = SetData(c, n, z)
  <2>1. c \in Mem
    BY <1>1 DEF Fits
  <2>2. QED
    BY <1>1, <2>1 DEF Mem
<1> HIDE DEF x, z
<1>4. /\ q.dir = c.dir /\ q.tab = c.tab /\ q.refs = c.refs
      /\ q.data[n] = z /\ \A g \in Frame : g # n => q.data[g] = c.data[g]
      /\ Held(q, k, E) = Held(c, k, E)
      /\ Fits(q, k, x, E)
  BY <1>1, <1>3, Stored
<1>5. \A u, w : Ent(q, u, w) = Ent(b, u, w)
  <2>1. q.dir = b.dir /\ q.tab = b.tab
    BY <1>1, <1>4
  <2>2. QED
    BY <2>1, EntSame
<1>6. \A u \in Task, w \in Page : ~ PageAt(b, E, u, w, n)
  <2>1. Holders(Held(b, k, E), n) = {}
    BY <1>1
  <2>2. QED
    BY <1>1, <2>1, NotHeld
<1>7. \A u \in Task, w \in Page : Ent(b, u, w).present => Ent(b, u, w).frame # n
  BY <1>6 DEF PageAt
<1>8. n # old
  BY <1>6
<1>9. PageAt(q, E, t, v, old) /\ old \notin x
  BY <1>5, <1>8 DEF PageAt, x
<1>10. Fits(q, k, x \cup {old}, E \cup {<<t, v>>})
  BY <1>4, <1>9, PageLeaves
<1>11. x \cup {old} = y /\ E \cup {<<t, v>>} = h
  BY DEF x
<1>12. Fits(q, k, y, h)
  BY <1>10, <1>11
<1>13. q.data[n] = b.data[old] /\ \A f \in Frame : f # n => q.data[f] = b.data[f]
  BY <1>1, <1>4 DEF z
<1>14. q.refs[n] = 1 /\ q.dir = b.dir
  BY <1>1, <1>2, <1>4
<1>15. QED
  BY <1>1, <1>5, <1>7, <1>8, <1>12, <1>13, <1>14 DEF CopyMade

LEMMA PageSplit ==
  ASSUME NEW s, NEW k, NEW E, E = {}, Fits(s, k, E, E), NEW t \in Task, NEW v \in Page,
         Present(s, t, v), ServedDir(PDE(s, t, v)),
         NEW r, r = Unshared(s, t, v), r.panic = "no"
  PROVE  Fits(r, k, E, E) /\ Split(s, r, t, v)
<1> DEFINE d == DirOf(v)
           old == PTE(s, t, v).frame
           a == Unshared1(s, t, v)
           b == Unshared2(s, t, v)
           c == Alloc(b)
           n == NewFrame(b)
           q == Unshared3(s, t, v)
           p == Unshared4(s, t, v)
           y == {n, old}
           h == {<<t, v>>}
           e == Entry(n, TRUE)
<1>1. s \in Mem /\ s.panic = "no"
  BY DEF Fits
<1>2. /\ old \in Frame /\ Ent(s, t, v).present /\ Ent(s, t, v).frame = old /\ PDE(s, t, v).present
      /\ d \in Dir /\ \A z : PDE(z, t, v) = z.dir[t][d]
  BY <1>1, EntIs, PagePlace DEF PDE
<1>3. /\ a.panic = "no" /\ b.panic = "no" /\ c.panic = "no" /\ p.panic = "no"
      /\ r = Drop(p, old)
  BY <1>1, UnsharedKeeps
<1>4. /\ q = SetData(c, n, c.data[old]) /\ p = Map(q, t, v, e)
      /\ a = Unshared1(s, t, v) /\ b = Unshared2(s, t, v) /\ c = Alloc(b) /\ n = NewFrame(b)
      /\ y = {n, old} /\ h = {<<t, v>>} /\ d = DirOf(v) /\ e = Entry(n, TRUE)
  BY DEF Unshared3, Unshared4
<1> HIDE DEF d, old, a, b, c, n, q, p, y, h, e
<1>5. Fits(b, k, E, E) /\ Separated(s, b, t, d)
  BY <1>2, <1>3, <1>4, TableSeparated
<1>6. PageAt(b, E, t, v, old)
  BY <1>2, <1>5 DEF Separated, NotMore, PageAt
<1>7. /\ n \in Frame /\ q.refs[n] = 1 /\ q.data[n] = b.data[old] /\ q.dir = b.dir
      /\ \A u \in Task, w \in Page : /\ Ent(q, u, w) = Ent(b, u, w)
                                     /\ Ent(b, u, w).present => Ent(b, u, w).frame # n
      /\ \A f \in Frame : f # n => q.data[f] = b.data[f]
      /\ n # old /\ Fits(q, k, y, h)
  <2>1. q = SetData(c, n, c.data[old]) /\ c = Alloc(b) /\ n = NewFrame(b)
    BY <1>4
  <2>2. y = {n, old} /\ h = {<<t, v>>}
    BY <1>4
  <2>3. c.panic = "no" /\ old \in Frame /\ Fits(b, k, E, E)
    BY <1>2, <1>3, <1>5
  <2>4. CopyMade(b, q, n, old) /\ Fits(q, k, y, h)
    BY <1>6, <2>1, <2>2, <2>3, CopyFilled
  <2>5. QED
    BY <2>4 DEF CopyMade
<1>8. e \in TabEntry /\ e.frame = n /\ e.present
  BY <1>4, <1>7, Entries
<1>9. Fits(p, k, y \ {n}, h \ {<<t, v>>}) /\ MappedIn(q, p, t, v, e, y, h)
  <2>1. ~ (PDE(q, t, v).present /\ PDE(q, t, v).shared)
    BY <1>2, <1>5, <1>7 DEF Separated
  <2>2. <<t, v>> \in h \/ ~ Ent(q, t, v).present
    BY <1>4
  <2>3. n \in Frame /\ n \in y /\ q.refs[n] = 1 /\ Fits(q, k, y, h)
    BY <1>4, <1>7
  <2>4. p = Map(q, t, v, e) /\ p.panic = "no"
    BY <1>3, <1>4
  <2>5. PDE(q, t, v).present /\ PDE(q, t, v).shared => PDE(q, t, v).frame \notin y
    BY <2>1
  <2>6. QED
    BY <1>8, <2>2, <2>3, <2>4, <2>5, PageMapped
<1> DEFINE x == {old}
<1>10. y \ {n} = x /\ h \ {<<t, v>>} = E /\ x \ {old} = E /\ old \in x
  BY <1>4, <1>7
<1> HIDE DEF x
<1>11. /\ r.dir = p.dir /\ \A u \in Task : SamePages(p, r, u, E)
       /\ Fits(r, k, E, E)
  <2>1. Fits(p, k, x, E)
    BY <1>9, <1>10
  <2>2. /\ r.dir = p.dir /\ (\A u \in Task : SamePages(p, r, u, E)) /\ Fits(r, k, x \ {old}, E)
    <3>1. old \in Frame /\ old \in x /\ r = Drop(p, old)
      BY <1>2, <1>3, <1>10
    <3>2. QED
      BY <2>1, <3>1, Dropped
  <2>3. QED
    BY <1>10, <2>2
<1>12. \A u \in Task, g \in Dir : r.dir[u][g] = b.dir[u][g]
  <2>1. q.dir[t][d].present /\ ~ q.dir[t][d].shared
    BY <1>5, <1>7 DEF Separated
  <2>2. Prepared(q, p, t, d)
    BY <1>4, <1>9 DEF MappedIn
  <2>3. \A u \in Task, g \in Dir : p.dir[u][g] = q.dir[u][g]
    BY <2>1, <2>2 DEF Prepared
  <2>4. QED
    BY <1>7, <1>11, <2>3
<1>13. EntrySet(q, p, t, v, e, h) /\ p.data[n] = q.data[n]
  BY <1>4, <1>7, <1>9 DEF MappedIn
<1>14. ASSUME NEW u \in Task, NEW w \in Page, u # t \/ w # v
       PROVE  /\ Ent(r, u, w) = Ent(b, u, w)
              /\ Ent(b, u, w).present => r.data[Ent(b, u, w).frame] = b.data[Ent(b, u, w).frame]
  <2>1. <<u, w>> \notin h /\ <<u, w>> \notin E
    BY <1>4, <1>14
  <2>2. /\ Ent(p, u, w) = Ent(q, u, w)
        /\ Ent(q, u, w).present => p.data[Ent(q, u, w).frame] = q.data[Ent(q, u, w).frame]
    BY <1>13, <1>14, <2>1 DEF EntrySet
  <2>3. /\ Ent(r, u, w) = Ent(p, u, w)
        /\ Ent(p, u, w).present => r.data[Ent(p, u, w).frame] = p.data[Ent(p, u, w).frame]
    BY <1>11, <2>1 DEF SamePages
  <2>4. Ent(b, u, w).present => q.data[Ent(b, u, w).frame] = b.data[Ent(b, u, w).frame]
    <3>1. b \in Mem
      BY <1>5 DEF Fits
    <3>2. Ent(b, u, w).present => Ent(b, u, w).frame \in Frame
      BY <3>1, EntIs
    <3>3. QED
      BY <1>7, <3>2
  <2>5. QED
    BY <1>7, <2>2, <2>3, <2>4
<1>15. Ent(r, t, v) = e /\ r.data[n] = s.data[old]
  <2>1. Ent(p, t, v) = e
    BY <1>13 DEF EntrySet
  <2>2. Ent(r, t, v) = e /\ r.data[n] = p.data[n]
    BY <1>8, <1>11, <2>1 DEF SamePages
  <2>3. b.data[old] = s.data[old]
    BY <1>2, <1>5 DEF Separated
  <2>4. QED
    BY <1>7, <1>13, <2>2, <2>3
<1>16. \A u \in Task : u # t => ~ Shows(r, u, v, n)
  BY <1>7, <1>14 DEF Shows
<1>17. ASSUME NEW w \in Page, w # v
       PROVE  /\ NotMore(s, r, t, w)
              /\ Ent(s, t, w).present => r.data[Ent(s, t, w).frame] = s.data[Ent(s, t, w).frame]
  <2>1. NotMore(s, b, t, w) /\ (Ent(s, t, w).present => b.data[Ent(s, t, w).frame] = s.data[Ent(s, t, w).frame])
    BY <1>5 DEF Separated
  <2>2. Ent(r, t, w) = Ent(b, t, w) /\ PDE(r, t, w) = PDE(b, t, w)
    BY <1>12, <1>14, <1>17, PagePlace DEF PDE
  <2>3. NotMore(s, r, t, w)
    BY <2>1, <2>2 DEF NotMore
  <2>4. QED
    BY <1>14, <1>17, <2>1, <2>3 DEF NotMore
<1>18. ASSUME NEW g \in Dir
       PROVE  \/ r.dir[t][g] = s.dir[t][g]
              \/ g = d /\ r.dir[t][g].present /\ ServedDir(r.dir[t][g])
  BY <1>5, <1>12 DEF Separated
<1>19. OthersKept(s, r, t)
  <2>1. ASSUME NEW u \in Task, u # t
        PROVE  r.dir[u] = s.dir[u]
    <3>1. \A g \in Dir : r.dir[u][g] = s.dir[u][g]
      BY <1>5, <1>12, <2>1 DEF Separated
    <3>2. r \in Mem
      BY <1>11 DEF Fits
    <3>3. r.dir[u] \in [Dir -> DirEntry] /\ s.dir[u] \in [Dir -> DirEntry]
      BY <1>1, <3>2 DEF Mem
    <3>4. QED
      BY <3>1, <3>3
  <2>2. ASSUME NEW u \in Task, u # t
        PROVE  SamePages(s, r, u, {})
    <3>1. \A w \in Page : /\ Ent(b, u, w) = Ent(s, u, w)
                          /\ Ent(s, u, w).present =>
                               b.data[Ent(s, u, w).frame] = s.data[Ent(s, u, w).frame]
      BY <1>5, <2>2 DEF Separated
    <3>2. QED
      BY <1>14, <2>2, <3>1 DEF SamePages
  <2>3. QED
    BY <2>1, <2>2 DEF OthersKept
<1>20. Split(s, r, t, v)
  <2>1. \E f \in Frame : /\ Ent(r, t, v) = Entry(f, TRUE)
                         /\ r.data[f] = s.data[Ent(s, t, v).frame]
                         /\ \A u \in Task : u # t => ~ Shows(r, u, v, f)
    BY <1>2, <1>4, <1>7, <1>15, <1>16
  <2>2. \A g \in Dir : \/ r.dir[t][g] = s.dir[t][g]
                       \/ g = DirOf(v) /\ r.dir[t][g].present /\ ServedDir(r.dir[t][g])
    BY <1>4, <1>18
  <2>3. QED
    BY ONLY <1>17, <1>19, <2>1, <2>2 DEF Split
<1>21. QED
  BY <1>11, <1>20
-----------------------------------------------------------------------------
(* The invariant is kept by each handler.                                  *)

LEMMA ViewKept ==
  ASSUME NEW s, NEW r, NEW u \in Task, NEW p, View(s, u, p), r.dir[u] = s.dir[u],
         \A v \in Page : Ent(r, u, v) = Ent(s, u, v)
  PROVE  View(r, u, p)
<1>1. Tidy(s, u) => Tidy(r, u)
  BY DEF Tidy
<1>2. Reached(s, u) => Reached(r, u)
  BY DEF Reached
<1>3. Served(s, u, p.code_end) => Served(r, u, p.code_end)
  BY DEF Served
<1>4. Gone(s, u) => Gone(r, u)
  BY DEF Gone
<1>5. QED
  BY <1>1, <1>2, <1>3, <1>4 DEF View

LEMMA OthersView ==
  ASSUME NEW s, NEW r, NEW t, OthersKept(s, r, t), NEW u \in Task, u # t, NEW p, View(s, u, p)
  PROVE  View(r, u, p)
<1>1. r.dir[u] = s.dir[u] /\ \A v \in Page : Ent(r, u, v) = Ent(s, u, v)
  BY DEF OthersKept, SamePages
<1>2. QED
  BY <1>1, ViewKept

(* Programs and the kernel write to a page. *)
LEMMA StoreWhole ==
  ASSUME NEW s, NEW tasks, Whole(s, tasks), NEW t \in Task, NEW v \in Page, Present(s, t, v),
         NEW c \in Content, NEW r, r = SetData(s, PTE(s, t, v).frame, c)
  PROVE  Whole(r, tasks)
<1> DEFINE k == KFrames(tasks)
           f == PTE(s, t, v).frame
           E == {}
<1>1. Fits(s, k, E, E) /\ s \in Mem
  BY DEF Whole, Fits
<1>2. f \in Frame /\ PageAt(s, E, t, v, f)
  BY <1>1, EntIs DEF PageAt
<1>3. r = SetData(s, f, c)
  OBVIOUS
<1> HIDE DEF k, f, E
<1>4. s.refs[f] # 0
  BY <1>1, <1>2, UsedFrame
<1>5. r.dir = s.dir /\ r.tab = s.tab /\ Fits(r, k, E, E)
  BY <1>1, <1>2, <1>3, <1>4, Stored
<1>6. ASSUME NEW u \in Task
      PROVE  View(r, u, tasks[u])
  <2>1. \A w \in Page : Ent(r, u, w) = Ent(s, u, w)
    BY <1>5, EntSame
  <2>2. View(s, u, tasks[u])
    BY DEF Whole
  <2>3. r.dir[u] = s.dir[u]
    BY <1>5
  <2>4. QED
    BY <2>1, <2>2, <2>3, ViewKept
<1>7. QED
  BY <1>5, <1>6 DEF Whole, k, E

(* A page fault for a page that is not present.  Its page table is. *)
LEMMA InUsedDir ==
  ASSUME NEW v \in Page, v \in Reach
  PROVE  DirOf(v) \in UsedDirs
  BY DEF UsedDirs

Appears(s, r, t, v) ==
  /\ Ent(r, t, v).present /\ Ent(r, t, v).rw
  /\ \A w \in Page : w # v => Ent(r, t, w) = Ent(s, t, w)
  /\ \A d \in Dir : r.dir[t][d] = s.dir[t][d] \/ \E N \in Frame : r.dir[t][d] = Table(N, TRUE)
  /\ \A d \in Dir : r.dir[t][d].present <=> s.dir[t][d].present
  /\ OthersKept(s, r, t)

LEMMA PageAppears ==
  ASSUME NEW s, NEW k, NEW E, E = {}, Fits(s, k, E, E), NEW t \in Task, NEW v \in Page,
         PDE(s, t, v).present, ~ Present(s, t, v),
         NEW r, r = Appeared(s, t, v), r.panic = "no"
  PROVE  Fits(r, k, E, E) /\ Appears(s, r, t, v)
<1> DEFINE n == NewFrame(s)
           a == Alloc(s)
           e == Entry(n, TRUE)
           x == E \cup {n}
           d == DirOf(v)
<1>1. s \in Mem
  BY DEF Fits
<1>2. a.panic = "no" /\ e \in TabEntry /\ r = Map(a, t, v, e)
  BY <1>1, AppearedKeeps
<1>3. a = Alloc(s) /\ n = NewFrame(s) /\ n \in x /\ e = Entry(n, TRUE)
  OBVIOUS
<1>4. d \in Dir /\ \A q : PDE(q, t, v) = q.dir[t][d]
  BY PagePlace DEF PDE
<1> HIDE DEF n, a, e
<1>5. /\ n \in Frame /\ a.dir = s.dir /\ a.tab = s.tab /\ a.data = s.data
      /\ Holders(Held(a, k, E), n) = {} /\ Fits(a, k, x, E)
  BY <1>2, <1>3, Taken
<1>6. e.present /\ e.frame = n /\ e.rw
  BY <1>3, <1>5, Entries
<1> HIDE DEF x
<1>7. a.refs[n] = 1
  BY <1>3, <1>5, Unheld
<1>8. \A u, w : Ent(a, u, w) = Ent(s, u, w)
  BY <1>5, EntSame
<1>9. ~ Ent(a, t, v).present
  BY <1>1, <1>8, EntIs
<1>10. PDE(a, t, v).present /\ PDE(a, t, v).shared => PDE(a, t, v).frame \notin x
  <2>1. PDE(a, t, v).present => TableAt(a, t, d, PDE(a, t, v).frame)
    BY <1>4 DEF TableAt
  <2>2. ~ TableAt(a, t, d, n)
    BY <1>4, <1>5, NotHeld
  <2>3. \A f \in x : f = n
    BY DEF x
  <2>4. QED
    BY <2>1, <2>2, <2>3
<1>11. Fits(r, k, x \ {n}, E \ {<<t, v>>}) /\ MappedIn(a, r, t, v, e, x, E)
  <2>1. Fits(a, k, x, E) /\ n \in Frame /\ n \in x /\ a.refs[n] = 1
    BY <1>3, <1>5, <1>7 DEF x
  <2>2. e \in TabEntry /\ e.present /\ e.frame = n
    BY <1>2, <1>6
  <2>3. <<t, v>> \in E \/ ~ Ent(a, t, v).present
    BY <1>9
  <2>4. r = Map(a, t, v, e)
    BY <1>2
  <2>5. QED
    BY <1>10, <2>1, <2>2, <2>3, <2>4, PageMapped
<1>12. x \ {n} = E /\ E \ {<<t, v>>} = E
  BY DEF x
<1>13. Fits(r, k, E, E)
  BY <1>11, <1>12
<1>14. EntrySet(a, r, t, v, e, E) /\ Prepared(a, r, t, d)
  BY <1>11 DEF MappedIn
<1>15. Ent(r, t, v) = e /\ \A u \in Task, w \in Page : u # t \/ w # v => Ent(r, u, w) = Ent(s, u, w)
  BY <1>8, <1>14 DEF EntrySet
<1>16. ASSUME NEW g \in Dir
       PROVE  /\ r.dir[t][g] = s.dir[t][g] \/ \E N \in Frame : r.dir[t][g] = Table(N, TRUE)
              /\ r.dir[t][g].present <=> s.dir[t][g].present
  <2>1. CASE g = d
    BY <1>4, <1>5, <1>14, <2>1 DEF Prepared
  <2>2. CASE g # d
    BY <1>5, <1>14, <2>2, ZenonT(60) DEF Prepared
  <2>3. QED
    BY <2>1, <2>2
<1>17. OthersKept(s, r, t)
  <2>1. ASSUME NEW u \in Task, u # t
        PROVE  r.dir[u] = s.dir[u]
    <3>1. \A g \in Dir : r.dir[u][g] = s.dir[u][g]
      BY <1>5, <1>14, <2>1 DEF Prepared
    <3>2. r \in Mem
      BY <1>13 DEF Fits
    <3>3. r.dir[u] \in [Dir -> DirEntry] /\ s.dir[u] \in [Dir -> DirEntry]
      BY <1>1, <3>2 DEF Mem
    <3>4. QED
      BY <3>1, <3>3
  <2>2. ASSUME NEW u \in Task, u # t, NEW w \in Page, Ent(s, u, w).present
        PROVE  r.data[Ent(s, u, w).frame] = s.data[Ent(s, u, w).frame]
    BY <1>5, <1>8, <1>14, <2>2 DEF EntrySet
  <2>3. QED
    BY <1>15, <2>1, <2>2 DEF OthersKept, SamePages
<1>18. QED
  BY <1>6, <1>13, <1>15, <1>16, <1>17 DEF Appears

LEMMA TouchWhole ==
  ASSUME NEW s, NEW tasks, Whole(s, tasks), NEW t \in Task, NEW v \in Page,
         tasks[t].state = "alive", v \in Reach, ~ Present(s, t, v),
         NEW r, r = Appeared(s, t, v), r.panic = "no"
  PROVE  Whole(r, tasks)
<1> DEFINE k == KFrames(tasks)
           p == tasks[t]
           E == {}
<1>1. Fits(s, k, E, E) /\ View(s, t, p)
  BY DEF Whole
<1>2. /\ p.state = "alive" /\ Tidy(s, t) /\ Reached(s, t) /\ Served(s, t, p.code_end)
      /\ 0 .. p.brk \subseteq Reach
  BY <1>1 DEF View
<1>3. PDE(s, t, v).present
  BY <1>2, InUsedDir, PagePlace DEF Reached, PDE
<1> HIDE DEF k, p, E
<1>4. Fits(r, k, E, E) /\ Appears(s, r, t, v)
  <2>1. E = {}
    BY DEF E
  <2>2. QED
    BY <1>1, <1>3, <2>1, PageAppears
<1>5. View(r, t, p)
  <2>1. Tidy(r, t)
    <3>1. ASSUME NEW d \in Dir, r.dir[t][d].frame # 0
          PROVE  r.dir[t][d].present
      <4>1. CASE r.dir[t][d] = s.dir[t][d]
        BY <1>2, <3>1, <4>1 DEF Tidy
      <4>2. CASE \E N \in Frame : r.dir[t][d] = Table(N, TRUE)
        BY <4>2, Entries
      <4>3. QED
        BY <1>4, <4>1, <4>2 DEF Appears
    <3>2. \A w \in Page : Ent(r, t, w).frame # 0 => Ent(r, t, w).present
      BY <1>2, <1>4 DEF Tidy, Appears
    <3>3. QED
      BY <3>1, <3>2 DEF Tidy
  <2>2. Reached(r, t)
    BY <1>2, <1>4 DEF Reached, Appears
  <2>3. Served(r, t, p.code_end)
    <3>1. \A N \in Frame : ServedDir(Table(N, TRUE))
      BY Entries DEF ServedDir
    <3>2. \A d \in Dir : r.dir[t][d].present => ServedDir(r.dir[t][d])
      BY <1>2, <1>4, <3>1 DEF Served, Appears
    <3>3. \A w \in Page : p.code_end < w /\ Ent(r, t, w).present => Ent(r, t, w).rw \/ Ent(r, t, w).cow
      BY <1>2, <1>4 DEF Served, Appears
    <3>4. QED
      BY <3>2, <3>3 DEF Served
  <2>4. QED
    BY <1>1, <1>2, <2>1, <2>2, <2>3 DEF View
<1>6. ASSUME NEW u \in Task
      PROVE  View(r, u, tasks[u])
  <2>1. CASE u = t
    BY <1>5, <2>1 DEF p
  <2>2. CASE u # t
    BY <1>4, <2>2, OthersView DEF Appears, Whole
  <2>3. QED
    BY <2>1, <2>2
<1>7. QED
  BY <1>4, <1>6 DEF Whole, k, E

(* A write that an entry forbids. *)
LEMMA SplitWhole ==
  ASSUME NEW s, NEW tasks, Whole(s, tasks), NEW t \in Task, NEW v \in Page,
         tasks[t].state = "alive", tasks[t].code_end < v, Present(s, t, v),
         ~ (PTE(s, t, v).rw /\ PDE(s, t, v).rw /\ PDE(s, t, v).user),
         NEW r, r = Unshared(s, t, v)
  PROVE  /\ r.panic # "read_only"
         /\ r.panic = "no" => /\ Whole(r, tasks) /\ Split(s, r, t, v)
<1> DEFINE k == KFrames(tasks)
           p == tasks[t]
           E == {}
<1>1. Fits(s, k, E, E) /\ View(s, t, p) /\ s \in Mem /\ s.panic = "no" /\ E = {}
  BY DEF Whole, Fits
<1>2. /\ p.state = "alive" /\ Tidy(s, t) /\ Reached(s, t) /\ Served(s, t, p.code_end)
  BY <1>1 DEF View
<1>3. Ent(s, t, v) = PTE(s, t, v) /\ Ent(s, t, v).present /\ PDE(s, t, v).present
  BY <1>1, EntIs
<1>4. ServedDir(PDE(s, t, v)) /\ (PTE(s, t, v).rw \/ PTE(s, t, v).cow)
  BY <1>2, <1>3, PagePlace DEF Served, PDE
<1>5. PDE(s, t, v).cow \/ PTE(s, t, v).cow
  BY <1>4 DEF ServedDir
<1>6. r.panic # "read_only"
  BY <1>1, <1>5, UnsharedKeeps
<1> HIDE DEF k, p, E
<1>7. ASSUME r.panic = "no"
      PROVE  Whole(r, tasks) /\ Split(s, r, t, v)
  <2>1. Fits(r, k, E, E) /\ Split(s, r, t, v)
    BY <1>1, <1>4, <1>7, PageSplit
  <2>2. Ent(r, t, v).present /\ Ent(r, t, v).rw
    <3>1. PICK n \in Frame : Ent(r, t, v) = Entry(n, TRUE)
      BY <2>1 DEF Split
    <3>2. QED
      BY <3>1, Entries
  <2>3. Tidy(r, t)
    <3>1. \A d \in Dir : r.dir[t][d].frame # 0 => r.dir[t][d].present
      BY <1>2, <2>1 DEF Tidy, Split
    <3>2. \A w \in Page : Ent(r, t, w).frame # 0 => Ent(r, t, w).present
      BY <1>2, <2>1, <2>2 DEF Tidy, Split, NotMore
    <3>3. QED
      BY <3>1, <3>2 DEF Tidy
  <2>4. Reached(r, t)
    <3>1. ASSUME NEW d \in Dir
          PROVE  r.dir[t][d].present <=> s.dir[t][d].present
      <4>1. s.dir[t][DirOf(v)].present
        BY <1>3 DEF PDE
      <4>2. QED
        BY <2>1, <4>1 DEF Split
    <3>2. QED
      BY <1>2, <3>1 DEF Reached
  <2>5. Served(r, t, p.code_end)
    <3>1. \A d \in Dir : r.dir[t][d].present => ServedDir(r.dir[t][d])
      BY <1>2, <2>1 DEF Served, Split
    <3>2. \A w \in Page : p.code_end < w /\ Ent(r, t, w).present => Ent(r, t, w).rw \/ Ent(r, t, w).cow
      BY <1>2, <2>1, <2>2 DEF Served, Split, NotMore
    <3>3. QED
      BY <3>1, <3>2 DEF Served
  <2>6. View(r, t, p)
    BY <1>1, <1>2, <2>3, <2>4, <2>5 DEF View
  <2>7. ASSUME NEW u \in Task
        PROVE  View(r, u, tasks[u])
    <3>1. CASE u = t
      BY <2>6, <3>1 DEF p
    <3>2. CASE u # t
      BY <2>1, <3>2, OthersView DEF Split, Whole
    <3>3. QED
      BY <3>1, <3>2
  <2>8. QED
    BY <2>1, <2>7 DEF Whole, k, E
<1>8. QED
  BY <1>6, <1>7

(* do_sbrk() *)
LEMMA BreakWhole ==
  ASSUME NEW s, NEW tasks \in [Task -> Tasks], Whole(s, tasks), NEW t \in Task,
         tasks[t].state = "alive", NEW b, 0 .. b \subseteq Reach,
         NEW tasks2, tasks2 = [tasks EXCEPT ![t].brk = b]
  PROVE  Whole(s, tasks2)
<1>1. /\ \A u \in Task : u # t => tasks2[u] = tasks[u]
      /\ tasks2[t] = [tasks[t] EXCEPT !.brk = b]
  OBVIOUS
<1> DEFINE p == tasks[t]
           q == tasks2[t]
<1>2. /\ q.state = p.state /\ q.self = p.self /\ q.page_directory = p.page_directory
      /\ q.code_end = p.code_end /\ q.brk = b
  BY <1>1 DEF Tasks
<1>3. View(s, t, p) /\ p.state = "alive"
  BY DEF Whole
<1>4. KFrames(tasks2) = KFrames(tasks)
  <2>1. \A u \in Task : tasks2[u].self = tasks[u].self /\ tasks2[u].page_directory = tasks[u].page_directory
    BY <1>1, <1>2
  <2>2. QED
    BY <2>1 DEF KFrames
<1> HIDE DEF p, q
<1>5. View(s, t, q)
  BY <1>2, <1>3 DEF View
<1>6. ASSUME NEW u \in Task
      PROVE  View(s, u, tasks2[u])
  <2>1. CASE u = t
    BY <1>5, <2>1 DEF q
  <2>2. CASE u # t
    BY <1>1, <2>2 DEF Whole
  <2>3. QED
    BY <2>1, <2>2
<1>7. QED
  BY <1>4, <1>6 DEF Whole

(* do_execve() *)
LEMMA GivenView ==
  ASSUME NEW s, NEW r, NEW t \in Task, NEW image \in Images, Given(s, r, t, image),
         NEW p, p.state = "alive", p.code_end = image.code, p.brk = image.data,
         t = 0 \/ p.self # p.page_directory
  PROVE  View(r, t, p)
<1>1. 0 .. p.brk \subseteq Reach
  BY DEF Reach
<1>2. QED
  BY <1>1 DEF Given, View

LEMMA ExecveWhole ==
  ASSUME InReach, NEW s, NEW tasks \in [Task -> Tasks], Whole(s, tasks), NEW t \in Task,
         tasks[t].state = "alive", NEW image \in Images,
         NEW r, r = Loaded(s, t, image), r.panic = "no",
         NEW tasks2, tasks2 = [tasks EXCEPT ![t].code_end = image.code, ![t].brk = image.data]
  PROVE  Whole(r, tasks2) /\ Given(s, r, t, image)
<1> DEFINE k == KFrames(tasks)
           p == tasks[t]
           q == tasks2[t]
<1>1. Fits(s, k, {}, {}) /\ View(s, t, p) /\ p.state = "alive"
  BY DEF Whole
<1>2. \A d \in Dir : s.dir[t][d].frame # 0 => d \in UsedDirs
  BY <1>1 DEF View, Tidy, Reached
<1>3. Fits(r, k, {}, {}) /\ Given(s, r, t, image)
  BY <1>1, <1>2, ImageLoaded
<1>4. /\ \A u \in Task : u # t => tasks2[u] = tasks[u]
      /\ q.state = p.state /\ q.self = p.self /\ q.page_directory = p.page_directory
      /\ q.code_end = image.code /\ q.brk = image.data
  BY DEF Tasks
<1>5. KFrames(tasks2) = k
  <2>1. \A u \in Task : tasks2[u].self = tasks[u].self /\ tasks2[u].page_directory = tasks[u].page_directory
    BY <1>4
  <2>2. QED
    BY <2>1 DEF KFrames
<1> HIDE DEF k, p, q
<1>6. t = 0 \/ p.self # p.page_directory
  BY <1>1 DEF View
<1>7. View(r, t, q)
  BY <1>1, <1>3, <1>4, <1>6, GivenView
<1>8. ASSUME NEW u \in Task
      PROVE  View(r, u, tasks2[u])
  <2>1. CASE u = t
    BY <1>7, <2>1 DEF q
  <2>2. CASE u # t
    BY <1>3, <1>4, <2>2, OthersView DEF Whole, Given
  <2>3. QED
    BY <2>1, <2>2
<1>9. QED
  BY <1>3, <1>5, <1>8 DEF Whole

(* do_exit() *)
LEMMA ExitWhole ==
  ASSUME NEW s, NEW tasks \in [Task -> Tasks], Whole(s, tasks), NEW t \in Task,
         tasks[t].state = "alive", t # 0,
         NEW r, r = FreeUser(s, t), r.panic = "no",
         NEW tasks2, tasks2 = [tasks EXCEPT ![t].state = "stopped"]
  PROVE  Whole(r, tasks2) /\ OthersKept(s, r, t)
<1> DEFINE k == KFrames(tasks)
           p == tasks[t]
           q == tasks2[t]
<1>1. Fits(s, k, {}, {}) /\ View(s, t, p) /\ p.state = "alive"
  BY DEF Whole
<1>2. Fits(r, k, {}, {}) /\ TablesOut(s, r, t, DIRS)
  BY <1>1, UserFreed
<1>3. OthersKept(s, r, t) /\ Gone(r, t)
  <2>1. \A d \in Dir : d < DIRS
    BY Sizes DEF Dir
  <2>2. QED
    BY <1>2, <2>1 DEF TablesOut, Gone
<1>4. /\ \A u \in Task : u # t => tasks2[u] = tasks[u]
      /\ q.state = "stopped" /\ q.self = p.self /\ q.page_directory = p.page_directory
  BY DEF Tasks
<1>5. KFrames(tasks2) = k
  <2>1. \A u \in Task : tasks2[u].self = tasks[u].self /\ tasks2[u].page_directory = tasks[u].page_directory
    BY <1>4
  <2>2. QED
    BY <2>1 DEF KFrames
<1> HIDE DEF k, p, q
<1>6. View(r, t, q)
  BY <1>1, <1>3, <1>4 DEF View
<1>7. ASSUME NEW u \in Task
      PROVE  View(r, u, tasks2[u])
  <2>1. CASE u = t
    BY <1>6, <2>1 DEF q
  <2>2. CASE u # t
    BY <1>3, <1>4, <2>2, OthersView DEF Whole
  <2>3. QED
    BY <2>1, <2>2
<1>8. QED
  BY <1>2, <1>3, <1>5, <1>7 DEF Whole
(* do_fork() *)
(* The frames of the task structure and the page directory of a child. *)
LEMMA FramesGiven ==
  ASSUME NEW s, NEW k, NEW c \in Task, NEW n1 \in Frame, NEW n2 \in Frame, n1 # n2,
         NEW x, x = {n1, n2}, NEW E, E = {}, Fits(s, k, x, E),
         Holders(Held(s, k, E), n1) = {}, Holders(Held(s, k, E), n2) = {},
         NEW l, \A u \in Task, g \in Frame :
                  g \in l[u] <=> g \in k[u] \/ (u = c /\ g \in x)
  PROVE  Fits(s, l, E, E)
<1> DEFINE k1 == [u \in Task |-> IF u = c THEN k[u] \cup {n1} ELSE k[u]]
<1>1. \A u \in Task, g \in Frame : g \in k1[u] <=> g \in k[u] \/ (u = c /\ g = n1)
  OBVIOUS
<1> HIDE DEF k1
<1>2. n1 \in x /\ n2 \in x /\ x \ {n1} = {n2} /\ {n2} \ {n2} = E
  OBVIOUS
<1>3. /\ Fits(s, k1, x \ {n1}, E)
      /\ \A g \in Frame : g # n1 /\ Holders(Held(s, k, E), g) = {} => Holders(Held(s, k1, E), g) = {}
  BY <1>1, <1>2, FrameGiven
<1>4. Fits(s, k1, {n2}, E) /\ Holders(Held(s, k1, E), n2) = {} /\ n2 \in {n2}
  BY <1>2, <1>3
<1>5. \A u \in Task, g \in Frame : g \in l[u] <=> g \in k1[u] \/ (u = c /\ g = n2)
  BY <1>1
<1>6. Fits(s, l, {n2} \ {n2}, E)
  BY ONLY <1>4, <1>5, FrameGiven, c \in Task, n2 \in Frame, SMTT(60)
<1>7. QED
  BY <1>2, <1>6

LEMMA ForkedView ==
  ASSUME NEW s, NEW r, NEW t \in Task, NEW c \in Task, CopyOf(s, r, t, c),
         NEW p, View(s, t, p), p.state = "alive", NEW u \in {t, c},
         NEW q, q.state = "alive", q.code_end = p.code_end, q.brk = p.brk,
         u = 0 \/ q.self # q.page_directory
  PROVE  View(r, u, q)
<1>1. Tidy(s, t) /\ Reached(s, t) /\ Served(s, t, p.code_end) /\ 0 .. p.brk \subseteq Reach
  BY DEF View
<1>2. \A d \in Dir : /\ r.dir[u][d].present = s.dir[t][d].present
                     /\ r.dir[u][d].frame = s.dir[t][d].frame
                     /\ r.dir[u][d].user = s.dir[t][d].user
                     /\ ~ r.dir[u][d].rw /\ r.dir[u][d].cow
  BY DEF CopyOf
<1>3. \A v \in Page : Ent(r, u, v) = Ent(s, t, v)
  BY DEF CopyOf
<1>4. Tidy(r, u)
  BY <1>1, <1>2, <1>3 DEF Tidy
<1>5. Reached(r, u)
  BY <1>1, <1>2 DEF Reached
<1>6. Served(r, u, p.code_end)
  <2>1. \A d \in Dir : r.dir[u][d].present => ServedDir(r.dir[u][d])
    BY <1>1, <1>2 DEF Served, ServedDir
  <2>2. \A v \in Page : p.code_end < v /\ Ent(r, u, v).present => Ent(r, u, v).rw \/ Ent(r, u, v).cow
    BY <1>1, <1>3 DEF Served
  <2>3. QED
    BY <2>1, <2>2 DEF Served
<1>7. QED
  BY <1>1, <1>4, <1>5, <1>6 DEF View

LEMMA ForkWhole ==
  ASSUME NEW s, NEW tasks \in [Task -> Tasks], Whole(s, tasks), NEW t \in Task, NEW c \in Task,
         tasks[t].state = "alive", tasks[c].state = "none",
         NEW a, a = Alloc(s), NEW b, b = Alloc(a), b.panic = "no",
         NEW n1, n1 = NewFrame(s), NEW n2, n2 = NewFrame(a),
         NEW r, r = Copied(b, t, c),
         NEW tasks2, tasks2 = [tasks EXCEPT ![c] =
                                 [tasks[t] EXCEPT !.self = n1, !.page_directory = n2]]
  PROVE  Whole(r, tasks2) /\ CopyOf(s, r, t, c)
<1> DEFINE k == KFrames(tasks)
           l == KFrames(tasks2)
           p == tasks[t]
           E == {}
           x == {n1}
           y == {n1, n2}
<1>1. /\ Fits(s, k, E, E) /\ View(s, t, p) /\ p.state = "alive" /\ s \in Mem /\ s.panic = "no"
      /\ t # c /\ Gone(s, c) /\ tasks[c] = NoTask
  BY DEF Whole, View, Fits
<1>2. a.panic = "no" /\ a \in Mem
  BY <1>1, AllocIs
<1>3. \A f \in Frame : f \notin k[c]
  BY <1>1, Sizes DEF KFrames, NoTask
<1>4. /\ n1 \in Frame /\ a.refs[n1] # 0 /\ a.dir = s.dir /\ a.tab = s.tab /\ a.data = s.data
      /\ Holders(Held(a, k, E), n1) = {} /\ Fits(a, k, E \cup {n1}, E)
  <2> HIDE DEF k, E, x, y, l, p
  <2>1. QED
    BY ONLY <1>1, <1>2, Taken, a = Alloc(s), n1 = NewFrame(s)
<1>5. E \cup {n1} = x /\ x \cup {n2} = y
  OBVIOUS
<1> HIDE DEF k, E, x, y, l, p
<1>6. /\ n2 \in Frame /\ n2 \notin x /\ b.dir = a.dir /\ b.tab = a.tab /\ b.data = a.data
      /\ Held(b, k, E) = Held(a, k, E) /\ Holders(Held(b, k, E), n2) = {}
      /\ Fits(b, k, x \cup {n2}, E)
  <2>1. Fits(a, k, x, E)
    BY <1>4, <1>5
  <2>2. QED
    BY ONLY <2>1, Taken, b = Alloc(a), n2 = NewFrame(a), b.panic = "no"
<1>7. Fits(b, k, y, E) /\ n1 # n2 /\ Holders(Held(b, k, E), n1) = {}
  BY <1>4, <1>5, <1>6 DEF x
<1>8. b \in Mem /\ b.panic = "no"
  BY <1>7 DEF Fits
<1>9. Tidy(b, t) /\ Gone(b, c)
  <2>1. Tidy(s, t) /\ Gone(s, c)
    BY <1>1 DEF View
  <2>2. b.dir = s.dir /\ b.tab = s.tab
    BY <1>4, <1>6
  <2>3. \A v \in Page : Ent(b, t, v) = Ent(s, t, v)
    BY <2>2, EntSame
  <2>4. QED
    BY <2>1, <2>2, <2>3 DEF Tidy, Gone
<1>10. \A f \in y : f \in Frame /\ Holders(Held(b, k, E), f) = {}
  BY <1>4, <1>6, <1>7 DEF y
<1>11. Fits(r, k, y, E) /\ \A f \in y : Holders(Held(r, k, E), f) = {}
  BY <1>1, <1>3, <1>7, <1>9, <1>10, CopiedFits DEF E
<1>12. CopyOf(b, r, t, c)
  BY <1>1, <1>8, CopiedView
<1>13. CopyOf(s, r, t, c)
  <2>1. b.dir = s.dir /\ b.tab = s.tab /\ b.data = s.data /\ b.panic = s.panic
    BY <1>1, <1>4, <1>6, <1>8
  <2>2. \A u, v : Ent(b, u, v) = Ent(s, u, v)
    BY <2>1, EntSame
  <2>3. QED
    BY <1>12, <2>1, <2>2 DEF CopyOf
<1> DEFINE q == tasks2[c]
<1>14. /\ \A u \in Task : u # c => tasks2[u] = tasks[u]
       /\ q.state = "alive" /\ q.self = n1 /\ q.page_directory = n2
       /\ q.code_end = p.code_end /\ q.brk = p.brk
  BY <1>1, <1>4, <1>6 DEF p, Tasks
<1> HIDE DEF q
<1>15. Fits(r, l, E, E)
  <2>1. \A u \in Task, g \in Frame : g \in l[u] <=> g \in k[u] \/ (u = c /\ g \in y)
    <3>1. ASSUME NEW u \in Task, NEW g \in Frame
          PROVE  g \in l[u] <=> g \in k[u] \/ (u = c /\ g \in y)
      <4>1. CASE u = c
        BY <1>3, <1>14, <4>1 DEF l, q, KFrames, y
      <4>2. CASE u # c
        BY <1>14, <4>2 DEF l, k, KFrames
      <4>3. QED
        BY <4>1, <4>2
    <3>2. QED
      BY <3>1
  <2>2. n1 \in y /\ n2 \in y
    BY DEF y
  <2>3. Holders(Held(r, k, E), n1) = {} /\ Holders(Held(r, k, E), n2) = {}
    BY <1>11, <2>2
  <2>4. y = {n1, n2} /\ E = {}
    BY DEF y, E
  <2>5. QED
    BY ONLY <1>4, <1>6, <1>7, <1>11, <2>1, <2>3, <2>4, FramesGiven, c \in Task
<1>16. View(r, t, tasks2[t]) /\ View(r, c, tasks2[c])
  <2>1. tasks2[t] = p /\ t \in {t, c} /\ c \in {t, c}
    BY <1>1, <1>14 DEF p
  <2>2. t = 0 \/ p.self # p.page_directory
    BY <1>1 DEF View
  <2>3. View(r, t, p)
    BY <1>1, <1>13, <2>1, <2>2, ForkedView
  <2>4. q.self # q.page_directory
    BY <1>7, <1>14
  <2>5. View(r, c, q)
    BY <1>1, <1>13, <1>14, <2>1, <2>4, ForkedView
  <2>6. QED
    BY <2>1, <2>3, <2>5 DEF q
<1>17. ASSUME NEW u \in Task
       PROVE  View(r, u, tasks2[u])
  <2>1. CASE u \in {t, c}
    BY <1>16, <2>1
  <2>2. CASE u \notin {t, c}
    <3>1. View(s, u, tasks[u]) /\ tasks2[u] = tasks[u]
      BY <1>14, <2>2 DEF Whole
    <3>2. r.dir[u] = s.dir[u] /\ \A v \in Page : Ent(r, u, v) = Ent(s, u, v)
      BY <1>13, <2>2 DEF CopyOf
    <3>3. QED
      BY <3>1, <3>2, ViewKept
  <2>3. QED
    BY <2>1, <2>2
<1>18. QED
  BY <1>13, <1>15, <1>17 DEF Whole, l, E

(* free_task() *)
LEMMA FrameFreed ==
  ASSUME NEW s, NEW k, NEW E, E = {}, Fits(s, k, E, E),
         NEW t \in Task, NEW f \in Frame, f \in k[t],
         NEW l, \A u \in Task, g \in Frame : g \in l[u] <=> g \in k[u] /\ ~ (u = t /\ g = f),
         NEW r, r = Drop(s, f)
  PROVE  Fits(r, l, E, E) /\ r.dir = s.dir /\ \A u \in Task : SamePages(s, r, u, E)
<1> DEFINE x == {f}
<1>1. f \notin E /\ E \cup {f} = x /\ x \ {f} = E /\ f \in x
  OBVIOUS
<1> HIDE DEF x
<1>2. Fits(s, l, E \cup {f}, E)
  BY <1>1, FrameLeft
<1>3. Fits(s, l, x, E)
  BY <1>1, <1>2
<1>4. /\ r.dir = s.dir /\ \A u \in Task : SamePages(s, r, u, E)
      /\ Fits(r, l, x \ {f}, E)
  BY ONLY <1>1, <1>3, Dropped, f \in Frame, r = Drop(s, f)
<1>5. QED
  BY <1>1, <1>4

(* The page directory of a process without page tables is gone for good. *)
ResetDir(s, t) == [s EXCEPT !.dir[t] = Nothing.dir[t]]
LEMMA DirReset ==
  ASSUME NEW s, NEW k, NEW E, E = {}, Fits(s, k, E, E), NEW t \in Task, Gone(s, t),
         NEW r, r = ResetDir(s, t)
  PROVE  Fits(r, k, E, E) /\ Gone(r, t) /\ OthersKept(s, r, t)
<1>1. s \in Mem /\ s.panic = "no"
  BY DEF Fits
<1>2. Nothing.dir[t] \in [Dir -> DirEntry] /\ \A d \in Dir : Nothing.dir[t][d] = NoTable
  BY NothingType
<1>3. /\ r \in Mem /\ r.refs = s.refs /\ r.tab = s.tab /\ r.data = s.data /\ r.panic = s.panic
      /\ r.dir[t] = Nothing.dir[t] /\ \A u \in Task : u # t => r.dir[u] = s.dir[u]
  BY <1>1, <1>2 DEF ResetDir, Mem
<1>4. Gone(r, t)
  BY <1>2, <1>3, Entries DEF Gone
<1>5. \A u \in Task, v \in Page : Ent(r, u, v) = Ent(s, u, v)
  <2>1. ASSUME NEW u \in Task, NEW v \in Page
        PROVE  Ent(r, u, v) = Ent(s, u, v)
    <3>1. CASE u = t
      <4>1. ~ PDE(r, t, v).present /\ ~ PDE(s, t, v).present
        BY <1>4, PagePlace DEF Gone, PDE
      <4>2. QED
        BY <3>1, <4>1 DEF Ent
    <3>2. CASE u # t
      BY <1>3, <3>2 DEF Ent, PDE, PTE
    <3>3. QED
      BY <3>1, <3>2
  <2>2. QED
    BY <2>1
<1>6. \A u \in Task, d \in Dir, f \in Frame : TableAt(r, u, d, f) <=> TableAt(s, u, d, f)
  <2>1. ASSUME NEW u \in Task, NEW d \in Dir, NEW f \in Frame
        PROVE  TableAt(r, u, d, f) <=> TableAt(s, u, d, f)
    <3>1. CASE u = t
      BY <1>4, <3>1 DEF Gone, TableAt
    <3>2. CASE u # t
      BY <1>3, <3>2 DEF TableAt
    <3>3. QED
      BY <3>1, <3>2
  <2>2. QED
    BY <2>1
<1>7. \A u \in Task, v \in Page, f \in Frame : PageAt(r, E, u, v, f) <=> PageAt(s, E, u, v, f)
  BY <1>5 DEF PageAt
<1>8. Held(r, k, E) = Held(s, k, E)
  BY <1>6, <1>7, SameHeld
<1>9. OwnTables(r)
  <2>1. SUFFICES ASSUME NEW w \in Task, NEW u \in Task, NEW d \in Dir, NEW e \in Dir,
                        r.dir[w][d].present, ~ r.dir[w][d].shared, TableAt(r, u, e, r.dir[w][d].frame)
                 PROVE  w = u
    BY DEF OwnTables
  <2>2. w # t /\ u # t
    BY <1>4, <2>1 DEF Gone, TableAt
  <2>3. r.dir[w] = s.dir[w] /\ r.dir[u] = s.dir[u]
    BY <1>3, <2>2
  <2>4. s.dir[w][d].present /\ ~ s.dir[w][d].shared /\ TableAt(s, u, e, s.dir[w][d].frame)
    BY <2>1, <2>3 DEF TableAt
  <2>5. OwnTables(s)
    BY DEF Fits
  <2>6. QED
    BY <2>4, <2>5 DEF OwnTables
<1>10. FreeIsJunk(r)
  BY <1>3 DEF Fits, FreeIsJunk
<1>11. Exact(r.refs, Held(r, k, E), E) /\ OneUse(Held(r, k, E))
  BY <1>3, <1>8 DEF Fits
<1>12. Fits(r, k, E, E)
  BY <1>1, <1>3, <1>9, <1>10, <1>11 DEF Fits
<1>13. OthersKept(s, r, t)
  BY <1>3, <1>5 DEF OthersKept, SamePages
<1>14. QED
  BY <1>4, <1>12, <1>13

LEMMA ReapWhole ==
  ASSUME NEW s, NEW tasks \in [Task -> Tasks], Whole(s, tasks), NEW t \in Task,
         tasks[t].state = "stopped", NEW f1, f1 = tasks[t].self, NEW f2, f2 = tasks[t].page_directory,
         f1 \in Frame, f2 \in Frame,
         NEW r, r = ResetDir(Drop(Drop(s, f2), f1), t),
         NEW tasks2, tasks2 = [tasks EXCEPT ![t] = NoTask]
  PROVE  Whole(r, tasks2) /\ OthersKept(s, r, t)
<1> DEFINE k == KFrames(tasks)
           k1 == [u \in Task |-> IF u = t THEN {f1} ELSE k[u]]
           l == KFrames(tasks2)
           a == Drop(s, f2)
           b == Drop(a, f1)
           E == {}
<1>1. Fits(s, k, E, E) /\ Gone(s, t) /\ f1 # f2
  BY DEF Whole, View
<1>2. k[t] = {f1, f2}
  BY DEF KFrames
<1>3. \A u \in Task, g \in Frame : g \in k1[u] <=> g \in k[u] /\ ~ (u = t /\ g = f2)
  BY <1>1, <1>2
<1>4. /\ \A u \in Task : u # t => tasks2[u] = tasks[u]
      /\ tasks2[t] = NoTask
  OBVIOUS
<1>5. \A u \in Task, g \in Frame : g \in l[u] <=> g \in k1[u] /\ ~ (u = t /\ g = f1)
  <2>1. ASSUME NEW u \in Task, NEW g \in Frame
        PROVE  g \in l[u] <=> g \in k1[u] /\ ~ (u = t /\ g = f1)
    <3>1. CASE u = t
      BY <1>4, <3>1, Sizes DEF KFrames, NoTask
    <3>2. CASE u # t
      BY <1>4, <3>2 DEF KFrames
    <3>3. QED
      BY <3>1, <3>2
  <2>2. QED
    BY <2>1
<1>6. f1 \in k1[t] /\ f2 \in k[t]
  BY <1>2
<1>7. a = Drop(s, f2) /\ b = Drop(a, f1) /\ E = {} /\ r = ResetDir(b, t)
  OBVIOUS
<1> HIDE DEF k, k1, l, a, b, E
<1>8. Fits(a, k1, E, E) /\ a.dir = s.dir /\ \A u \in Task : SamePages(s, a, u, E)
  BY ONLY <1>1, <1>3, <1>6, <1>7, FrameFreed, t \in Task, f2 \in Frame
<1>9. Fits(b, l, E, E) /\ b.dir = a.dir /\ \A u \in Task : SamePages(a, b, u, E)
  BY ONLY <1>5, <1>6, <1>7, <1>8, FrameFreed, t \in Task, f1 \in Frame
<1>10. Gone(b, t)
  BY <1>1, <1>8, <1>9 DEF Gone
<1>11. Fits(r, l, E, E) /\ Gone(r, t) /\ OthersKept(b, r, t)
  BY ONLY <1>7, <1>9, <1>10, DirReset, t \in Task
<1>12. OthersKept(s, b, t)
  <2>1. \A u \in Task : SamePages(s, b, u, E)
    BY <1>8, <1>9, SamePagesTwice
  <2>2. QED
    BY <1>7, <1>8, <1>9, <2>1 DEF OthersKept
<1>13. OthersKept(s, r, t)
  BY <1>11, <1>12, OthersKeptTwice
<1>14. View(r, t, NoTask)
  BY <1>11, NoTaskType DEF View
<1>15. ASSUME NEW u \in Task
       PROVE  View(r, u, tasks2[u])
  <2>1. CASE u = t
    BY <1>4, <1>14, <2>1
  <2>2. CASE u # t
    BY <1>4, <1>13, <2>2, OthersView DEF Whole
  <2>3. QED
    BY <2>1, <2>2
<1>16. QED
  BY <1>7, <1>11, <1>13, <1>15 DEF Whole, l

(* The first process. *)
LEMMA NothingFits ==
  ASSUME NEW k, \A t \in Task, f \in Frame : f \notin k[t]
  PROVE  Fits(Nothing, k, {}, {}) /\ \A t \in Task : Gone(Nothing, t)
<1> DEFINE H == {}
<1>1. /\ Nothing \in Mem /\ Nothing.panic = "no"
      /\ \A t \in Task, d \in Dir : ~ Nothing.dir[t][d].present
      /\ \A f \in Frame : Nothing.refs[f] = 0 /\ Nothing.data[f] = Junk
  BY NothingType, Entries
<1>2. \A t \in Task, d \in Dir, f \in Frame : ~ TableAt(Nothing, t, d, f)
  BY <1>1 DEF TableAt
<1>3. \A t \in Task, v \in Page, f \in Frame : ~ PageAt(Nothing, {}, t, v, f)
  BY <1>1, PagePlace, Entries DEF PageAt, Ent, PDE
<1>4. H \subseteq Having /\ \A z : z \notin H
  OBVIOUS
<1> HIDE DEF H
<1>5. Held(Nothing, k, {}) = H
  <2>1. \A t \in Task, f \in Frame :
           /\ \A d \in Dir : <<t, TableUse(d), f>> \in H <=> TableAt(Nothing, t, d, f)
           /\ \A v \in Page : <<t, PageUse(v), f>> \in H <=> PageAt(Nothing, {}, t, v, f)
           /\ \A u \in Task : <<t, TaskUse(u), f>> \in H <=> u = t /\ f \in k[t]
    BY <1>2, <1>3, <1>4
  <2>2. QED
    BY <1>4, <2>1, HeldEquals
<1>6. OneUse(H)
  BY <1>4 DEF OneUse
<1>7. Exact(Nothing.refs, H, {})
  <2>1. ASSUME NEW f \in Frame
        PROVE  Nothing.refs[f] = Cardinality(Holders(H, f)) + (IF f \in {} THEN 1 ELSE 0)
    <3>1. Holders(H, f) = {}
      BY <1>4 DEF Holders
    <3>2. Cardinality(Holders(H, f)) = 0
      BY <3>1, HoldersType
    <3>3. QED
      BY <1>1, <3>2
  <2>2. QED
    BY <2>1 DEF Exact
<1>8. OwnTables(Nothing) /\ FreeIsJunk(Nothing)
  BY <1>1 DEF OwnTables, FreeIsJunk
<1>9. QED
  BY <1>1, <1>5, <1>6, <1>7, <1>8 DEF Fits, Gone

LEMMA InitWhole ==
  ASSUME InReach, NEW image \in Images, NEW r, r = Loaded(Nothing, 0, image), r.panic = "no",
         NEW tasks,
         tasks = [t \in Task |-> IF t = 0
                    THEN [NoTask EXCEPT !.state = "alive", !.code_end = image.code, !.brk = image.data]
                    ELSE NoTask]
  PROVE  Whole(r, tasks) /\ Given(Nothing, r, 0, image)
<1> DEFINE k == KFrames(tasks)
           p == tasks[0]
<1>1. 0 \in Task
  BY Sizes
<1>2. /\ p.state = "alive" /\ p.code_end = image.code /\ p.brk = image.data
      /\ \A t \in Task : tasks[t].self = 0 /\ tasks[t].page_directory = 0
      /\ \A t \in Task : t # 0 => tasks[t] = NoTask
  BY <1>1 DEF NoTask
<1>3. \A t \in Task, f \in Frame : f \notin k[t]
  BY <1>2, Sizes DEF KFrames
<1> HIDE DEF k, p
<1>4. Fits(Nothing, k, {}, {}) /\ \A t \in Task : Gone(Nothing, t)
  BY <1>3, NothingFits
<1>5. \A d \in Dir : Nothing.dir[0][d].frame # 0 => d \in UsedDirs
  BY <1>1, NothingType, Entries
<1>6. Fits(r, k, {}, {}) /\ Given(Nothing, r, 0, image)
  BY <1>1, <1>4, <1>5, ImageLoaded
<1>7. View(r, 0, p)
  BY <1>1, <1>2, <1>6, GivenView
<1>8. ASSUME NEW u \in Task
      PROVE  View(r, u, tasks[u])
  <2>1. CASE u = 0
    BY <1>7, <2>1 DEF p
  <2>2. CASE u # 0
    <3>1. View(Nothing, u, NoTask)
      BY <1>4, NoTaskType DEF View
    <3>2. View(r, u, NoTask)
      BY <1>6, <2>2, <3>1, OthersView DEF Given
    <3>3. QED
      BY <1>2, <2>2, <3>2
  <2>3. QED
    BY <2>1, <2>2
<1>9. QED
  BY <1>6, <1>8 DEF Whole, k

LEMMA InitInv ==
  ASSUME InReach, Init
  PROVE  IInv
<1>1. PICK image \in Images :
        /\ m = Loaded(Nothing, 0, image)
        /\ m.panic = "no"
        /\ task = [t \in Task |-> IF t = 0
                     THEN [NoTask EXCEPT !.state = "alive", !.code_end = image.code,
                                         !.brk = image.data]
                     ELSE NoTask]
  BY DEF Init
<1>2. QED
  BY <1>1, InitWhole DEF IInv

(* A program's own pages are above the text, and within reach. *)
LEMMA OwnPages ==
  ASSUME TypeInv, Whole(m, task), NEW t \in Task, NEW v \in Page, task[t].state = "alive", Own(t, v)
  PROVE  task[t].code_end < v /\ v \in Reach
<1> DEFINE p == task[t]
<1>1. Proper(p, t) /\ View(m, t, p) /\ p \in Tasks
  BY DEF TypeInv, Whole
<1>2. p.state = "alive" /\ (v = Stack \/ (p.code_end < v /\ v <= p.brk))
  BY DEF Own
<1> HIDE DEF p
<1>3. p.code_end < p.brk /\ p.brk < Stack /\ 0 .. p.brk \subseteq Reach
  BY <1>1, <1>2 DEF Proper, View
<1>4. p.code_end \in Nat /\ p.brk \in Nat /\ v \in Nat /\ Stack \in Nat
  BY <1>1, Sizes DEF Tasks
<1>5. p.code_end < v
  BY <1>2, <1>3, <1>4
<1>6. v \in Reach
  <2>1. CASE v = Stack
    BY <2>1 DEF Reach
  <2>2. CASE v # Stack
    <3>1. v \in 0 .. p.brk
      BY <1>2, <1>4, <2>2
    <3>2. QED
      BY <1>3, <3>1
  <2>3. QED
    BY <2>1, <2>2
<1>7. QED
  BY <1>5, <1>6 DEF p

(* The handlers as changes of a memory that is as it should be. *)
LEMMA WriteIs ==
  ASSUME TypeInv, NEW t \in Task, NEW v \in Page, NEW x \in Value,
         Write(t, v, x) \/ KernelWrite(t, v, x)
  PROVE  /\ m.panic = "no" /\ task[t].state = "alive" /\ Present(m, t, v) /\ x \in Content
         /\ m' = SetData(m, PTE(m, t, v).frame, x) /\ task' = task
<1>1. QED
  BY DEF Write, KernelWrite, CanWrite, Runs, Content, SetData

LEMMA FaultIs ==
  ASSUME TypeInv, IInv, NEW t \in Task, NEW v \in Page, WriteFault(t, v)
  PROVE  /\ m.panic = "no" /\ Whole(m, task) /\ task[t].state = "alive"
         /\ task[t].code_end < v /\ v \in Reach /\ Present(m, t, v)
         /\ ~ (PTE(m, t, v).rw /\ PDE(m, t, v).rw /\ PDE(m, t, v).user)
         /\ m' = Unshared(m, t, v) /\ task' = task
<1>1. /\ m.panic = "no" /\ task[t].state = "alive" /\ Own(t, v) /\ Present(m, t, v)
      /\ ~ CanWrite(t, v) /\ m' = Unshared(m, t, v) /\ task' = task
  BY DEF WriteFault, Runs
<1>2. QED
  BY <1>1, OwnPages DEF IInv, CanWrite

LEMMA NextInv ==
  ASSUME InReach, TypeInv, IInv, [Next]_vars
  PROVE  IInv'
<1>1. SUFFICES ASSUME m'.panic = "no"
               PROVE  Whole(m', task')
  BY DEF IInv
<1>2. m \in Mem /\ task \in [Task -> Tasks]
  BY DEF TypeInv
<1>3. ASSUME UNCHANGED vars
      PROVE  Whole(m', task')
  BY <1>1, <1>3 DEF vars, IInv
<1>4. ASSUME NEW t \in Task, NEW v \in Page, NEW x \in Value,
             Write(t, v, x) \/ KernelWrite(t, v, x)
      PROVE  Whole(m', task')
  <2>1. /\ m.panic = "no" /\ Present(m, t, v) /\ x \in Content
        /\ m' = SetData(m, PTE(m, t, v).frame, x) /\ task' = task
    BY <1>4, WriteIs
  <2>2. Whole(m, task)
    BY <2>1 DEF IInv
  <2>3. QED
    BY <2>1, <2>2, StoreWhole
<1>5. ASSUME NEW t \in Task, NEW v \in Page, Touch(t, v)
      PROVE  Whole(m', task')
  <2>1. /\ m.panic = "no" /\ task[t].state = "alive" /\ Own(t, v) /\ ~ Present(m, t, v)
        /\ m' = Appeared(m, t, v) /\ task' = task
    BY <1>5 DEF Touch, Runs
  <2>2. Whole(m, task)
    BY <2>1 DEF IInv
  <2>3. v \in Reach
    BY <2>1, <2>2, OwnPages
  <2>4. QED
    BY <1>1, <2>1, <2>2, <2>3, TouchWhole
<1>6. ASSUME NEW t \in Task, NEW v \in Page, WriteFault(t, v)
      PROVE  Whole(m', task')
  <2>1. /\ Whole(m, task) /\ task[t].state = "alive" /\ task[t].code_end < v /\ Present(m, t, v)
        /\ ~ (PTE(m, t, v).rw /\ PDE(m, t, v).rw /\ PDE(m, t, v).user)
        /\ m' = Unshared(m, t, v) /\ task' = task
    BY <1>6, FaultIs
  <2>2. QED
    BY <1>1, <2>1, SplitWhole
<1>7. ASSUME NEW t \in Task, NEW b \in 0 .. MaxBrk, Sbrk(t, b)
      PROVE  Whole(m', task')
  <2>1. /\ m.panic = "no" /\ task[t].state = "alive" /\ m' = m
        /\ task' = [task EXCEPT ![t].brk = b]
    BY <1>7 DEF Sbrk, Runs
  <2>2. Whole(m, task)
    BY <2>1 DEF IInv
  <2>3. 0 .. b \subseteq Reach
    BY AddrSpaceAssumption, Sizes DEF Reach
  <2>4. QED
    BY <1>2, <2>1, <2>2, <2>3, BreakWhole
<1>8. ASSUME NEW t \in Task, NEW c \in Task, Fork(t, c)
      PROVE  Whole(m', task')
  <2> DEFINE a == Alloc(m)
             b == Alloc(a)
  <2>1. m.panic = "no" /\ task[t].state = "alive" /\ task[c].state = "none"
    BY <1>8 DEF Fork, Runs
  <2>2. b.panic = "no"
    BY <1>1, <1>8 DEF Fork
  <2>3. /\ m' = Copied(b, t, c)
        /\ task' = [task EXCEPT ![c] = [task[t] EXCEPT !.self = NewFrame(m),
                                                       !.page_directory = NewFrame(a)]]
    BY <1>8, <2>2 DEF Fork
  <2>4. a = Alloc(m) /\ b = Alloc(a) /\ Whole(m, task)
    BY <2>1 DEF IInv
  <2> HIDE DEF a, b
  <2>5. QED
    BY <1>2, <2>1, <2>2, <2>3, <2>4, ForkWhole
<1>9. ASSUME NEW t \in Task, NEW image \in Images, Execve(t, image)
      PROVE  Whole(m', task')
  <2>1. /\ m.panic = "no" /\ task[t].state = "alive" /\ m' = Loaded(m, t, image)
        /\ task' = [task EXCEPT ![t].code_end = image.code, ![t].brk = image.data]
    BY <1>9 DEF Execve, Runs
  <2>2. Whole(m, task)
    BY <2>1 DEF IInv
  <2>3. QED
    BY <1>1, <1>2, <2>1, <2>2, ExecveWhole
<1>10. ASSUME NEW t \in Task, Exit(t)
       PROVE  Whole(m', task')
  <2>1. /\ m.panic = "no" /\ task[t].state = "alive" /\ t # 0 /\ m' = FreeUser(m, t)
        /\ task' = [task EXCEPT ![t].state = "stopped"]
    BY <1>10 DEF Exit, Runs
  <2>2. Whole(m, task)
    BY <2>1 DEF IInv
  <2>3. QED
    BY <1>1, <1>2, <2>1, <2>2, ExitWhole
<1>11. ASSUME NEW t \in Task, Reap(t)
       PROVE  Whole(m', task')
  <2>1. /\ m.panic = "no" /\ task[t].state = "stopped"
        /\ m' = ResetDir(Drop(Drop(m, task[t].page_directory), task[t].self), t)
        /\ task' = [task EXCEPT ![t] = NoTask]
    BY <1>11 DEF Reap, ResetDir
  <2>2. task[t].self \in Frame /\ task[t].page_directory \in Frame
    BY <2>1 DEF TypeInv, Proper
  <2>3. Whole(m, task)
    BY <2>1 DEF IInv
  <2>4. QED
    BY <1>2, <2>1, <2>2, <2>3, ReapWhole
<1>12. QED
  BY <1>3, <1>4, <1>5, <1>6, <1>7, <1>8, <1>9, <1>10, <1>11 DEF Next, Halted

(* In every state of a kernel that has not stopped, the counts fit the     *)
(* page directories and page tables, what fork_mem() would count has been  *)
(* cleared, and a write of a running program is allowed or copies.         *)
THEOREM InvCorrect ==
  ASSUME InReach
  PROVE  Spec => [](TypeInv /\ IInv)
<1>1. Init => TypeInv /\ IInv
  BY InitType, InitInv
<1>2. TypeInv /\ IInv /\ [Next]_vars => (TypeInv /\ IInv)'
  BY NextType, NextInv
<1>3. QED
  BY <1>1, <1>2, PTL DEF Spec

-----------------------------------------------------------------------------
(* RefsExact: a count is the number of mappings and owners.                *)
LEMMA Paired ==
  ASSUME NEW S, IsFiniteSet(S), NEW z, NEW T,
         \A x : x \in T <=> \E t \in S : x = <<t, z>>
  PROVE  Cardinality(T) = Cardinality(S)
<1> DEFINE g == [t \in S |-> <<t, z>>]
<1>1. g \in [S -> T]
  OBVIOUS
<1>2. \A a, b \in S : g[a] = g[b] => a = b
  OBVIOUS
<1>3. \A x \in T : \E t \in S : g[t] = x
  OBVIOUS
<1> HIDE DEF g
<1>4. g \in Bijection(S, T)
  BY <1>1, <1>2, <1>3 DEF Bijection, Injection, Surjection, IsInjective
<1>5. ExistsBijection(S, T)
  BY <1>4 DEF ExistsBijection
<1>6. QED
  BY <1>5, FS_Bijection

LEMMA NoneCounted == Cardinality({}) = 0
BY FS_EmptySet

(* The three kinds of users of a frame, as Uses(f) counts them. *)
UsersOf(H, f, A, B, C) ==
  /\ \A x : x \in A <=> \E t \in Task, d \in Dir : x = <<t, d>> /\ <<t, TableUse(d), f>> \in H
  /\ \A x : x \in B <=> \E t \in Task, v \in Page : x = <<t, v>> /\ <<t, PageUse(v), f>> \in H
  /\ \A t : t \in C <=> t \in Task /\ <<t, TaskUse(t), f>> \in H
  /\ \A t \in Task, u \in Task : <<t, TaskUse(u), f>> \in H => t = u
LEMMA CountUses ==
  ASSUME NEW H, OneUse(H), NEW f \in Frame,
         NEW A, NEW B, NEW C, UsersOf(H, f, A, B, C)
  PROVE  Cardinality(A) + Cardinality(B) + Cardinality(C) = Cardinality(Holders(H, f))
<1> DEFINE S == Holders(H, f)
<1> USE DEF UsersOf
<1>1. \A t : t \in S <=> t \in Task /\ \E a \in Use : <<t, a, f>> \in H
  BY DEF Holders
<1>2. \A t, u \in Task, a, b \in Use : <<t, a, f>> \in H /\ <<u, b, f>> \in H => a = b
  BY DEF OneUse
<1>3. IsFiniteSet(S) /\ Cardinality(S) \in Nat
  BY HoldersType
<1> HIDE DEF S
<1>4. CASE \E t \in Task, d \in Dir : <<t, TableUse(d), f>> \in H
  <2>1. PICK w \in Task, c \in Dir : <<w, TableUse(c), f>> \in H
    BY <1>4
  <2>2. \A t \in Task, a \in Use : <<t, a, f>> \in H => a = TableUse(c)
    BY <1>2, <2>1, UsesDiffer
  <2>3. B = {} /\ C = {}
    <3>1. \A t \in Task, v \in Page : <<t, PageUse(v), f>> \notin H
      BY <2>2, UsesDiffer
    <3>2. \A t \in Task : <<t, TaskUse(t), f>> \notin H
      BY <2>2, UsesDiffer
    <3>3. QED
      BY <3>1, <3>2
  <2>4. \A x : x \in A <=> \E t \in S : x = <<t, c>>
    <3>1. ASSUME NEW x
          PROVE  x \in A <=> \E t \in S : x = <<t, c>>
      <4>1. ASSUME x \in A PROVE \E t \in S : x = <<t, c>>
        <5>1. PICK t \in Task, d \in Dir : x = <<t, d>> /\ <<t, TableUse(d), f>> \in H
          BY <4>1
        <5>2. d = c
          BY <2>2, <5>1, UsesDiffer
        <5>3. t \in S
          BY <1>1, <5>1, UsesDiffer
        <5>4. QED
          BY <5>1, <5>2, <5>3
      <4>2. ASSUME NEW t \in S, x = <<t, c>> PROVE x \in A
        <5>1. t \in Task
          BY <1>1
        <5>2. PICK a \in Use : <<t, a, f>> \in H
          BY <1>1
        <5>3. a = TableUse(c)
          BY <2>2, <5>1, <5>2
        <5>4. <<t, TableUse(c), f>> \in H
          BY <5>2, <5>3
        <5>5. \E u \in Task, d \in Dir : x = <<u, d>> /\ <<u, TableUse(d), f>> \in H
          BY <4>2, <5>1, <5>4
        <5>6. QED
          BY <5>5
      <4>3. QED
        BY <4>1, <4>2
    <3>2. QED
      BY <3>1
  <2>5. Cardinality(A) = Cardinality(S)
    BY <1>3, <2>4, Paired
  <2>6. QED
    BY <1>3, <2>3, <2>5, NoneCounted DEF S
<1>5. CASE \E t \in Task, v \in Page : <<t, PageUse(v), f>> \in H
  <2>1. PICK w \in Task, c \in Page : <<w, PageUse(c), f>> \in H
    BY <1>5
  <2>2. \A t \in Task, a \in Use : <<t, a, f>> \in H => a = PageUse(c)
    BY <1>2, <2>1, UsesDiffer
  <2>3. A = {} /\ C = {}
    <3>1. \A t \in Task, d \in Dir : <<t, TableUse(d), f>> \notin H
      BY <2>2, UsesDiffer
    <3>2. \A t \in Task : <<t, TaskUse(t), f>> \notin H
      BY <2>2, UsesDiffer
    <3>3. QED
      BY <3>1, <3>2
  <2>4. \A x : x \in B <=> \E t \in S : x = <<t, c>>
    <3>1. ASSUME NEW x
          PROVE  x \in B <=> \E t \in S : x = <<t, c>>
      <4>1. ASSUME x \in B PROVE \E t \in S : x = <<t, c>>
        <5>1. PICK t \in Task, v \in Page : x = <<t, v>> /\ <<t, PageUse(v), f>> \in H
          BY <4>1
        <5>2. v = c
          BY <2>2, <5>1, UsesDiffer
        <5>3. t \in S
          BY <1>1, <5>1, UsesDiffer
        <5>4. QED
          BY <5>1, <5>2, <5>3
      <4>2. ASSUME NEW t \in S, x = <<t, c>> PROVE x \in B
        <5>1. t \in Task
          BY <1>1
        <5>2. PICK a \in Use : <<t, a, f>> \in H
          BY <1>1
        <5>3. a = PageUse(c)
          BY <2>2, <5>1, <5>2
        <5>4. <<t, PageUse(c), f>> \in H
          BY <5>2, <5>3
        <5>5. \E u \in Task, d \in Page : x = <<u, d>> /\ <<u, PageUse(d), f>> \in H
          BY <4>2, <5>1, <5>4
        <5>6. QED
          BY <5>5
      <4>3. QED
        BY <4>1, <4>2
    <3>2. QED
      BY <3>1
  <2>5. Cardinality(B) = Cardinality(S)
    BY <1>3, <2>4, Paired
  <2>6. QED
    BY <1>3, <2>3, <2>5, NoneCounted DEF S
<1>6. CASE /\ ~ \E t \in Task, d \in Dir : <<t, TableUse(d), f>> \in H
           /\ ~ \E t \in Task, v \in Page : <<t, PageUse(v), f>> \in H
  <2>1. A = {} /\ B = {}
    BY <1>6
  <2>2. ASSUME NEW t
        PROVE  t \in C <=> t \in S
    <3>1. t \in C => t \in S
      BY <1>1, UsesDiffer
    <3>2. ASSUME t \in S PROVE t \in C
      <4>1. PICK a \in Use : <<t, a, f>> \in H
        BY <1>1, <3>2
      <4>2. t \in Task
        BY <1>1, <3>2
      <4>3. PICK u \in Task : a = TaskUse(u)
        BY <1>6, <4>1, <4>2, UsesDiffer
      <4>4. QED
        BY <4>1, <4>2, <4>3
    <3>3. QED
      BY <3>1, <3>2
  <2>3. C = S
    BY <2>2
  <2>4. QED
    BY <1>3, <2>1, <2>3, NoneCounted DEF S
<1>7. QED
  BY <1>4, <1>5, <1>6

LEMMA UsesCounted ==
  ASSUME TypeInv, Whole(m, task), NEW f \in Frame
  PROVE  m.refs[f] = Uses(f)
<1> DEFINE k == KFrames(task)
           H == Held(m, k, {})
           A == {td \in Task \X Dir : m.dir[td[1]][td[2]].present /\ m.dir[td[1]][td[2]].frame = f}
           B == {tv \in Task \X Page : Present(m, tv[1], tv[2]) /\ PTE(m, tv[1], tv[2]).frame = f}
           C == {t \in Task : f \in {task[t].self, task[t].page_directory}}
<1>1. Fits(m, k, {}, {}) /\ m \in Mem
  BY DEF Whole, TypeInv
<1>2. Uses(f) = Cardinality(A) + Cardinality(B) + Cardinality(C)
  BY DEF Uses, Quantify
<1>3. ASSUME NEW t \in Task
      PROVE  /\ \A d \in Dir : <<t, TableUse(d), f>> \in H <=> m.dir[t][d].present /\ m.dir[t][d].frame = f
             /\ \A v \in Page : <<t, PageUse(v), f>> \in H <=> Present(m, t, v) /\ PTE(m, t, v).frame = f
             /\ \A u \in Task : <<t, TaskUse(u), f>> \in H
                                  <=> u = t /\ f \in {task[t].self, task[t].page_directory}
  <2>1. \A d \in Dir : <<t, TableUse(d), f>> \in H <=> TableAt(m, t, d, f)
    BY HeldIs
  <2>2. \A v \in Page : <<t, PageUse(v), f>> \in H <=> PageAt(m, {}, t, v, f)
    BY HeldIs
  <2>3. \A u \in Task : <<t, TaskUse(u), f>> \in H <=> u = t /\ f \in k[t]
    BY HeldIs
  <2>4. \A v \in Page : PageAt(m, {}, t, v, f) <=> Present(m, t, v) /\ PTE(m, t, v).frame = f
    BY <1>1, EntIs DEF PageAt
  <2>5. k[t] = {task[t].self, task[t].page_directory}
    BY DEF KFrames
  <2>6. QED
    BY <2>1, <2>2, <2>3, <2>4, <2>5 DEF TableAt
<1>4. \A x : x \in A <=> \E t \in Task, d \in Dir : x = <<t, d>> /\ <<t, TableUse(d), f>> \in H
  <2>1. \A x : x \in A <=> \E t \in Task, d \in Dir :
                   x = <<t, d>> /\ m.dir[t][d].present /\ m.dir[t][d].frame = f
    OBVIOUS
  <2> HIDE DEF H, A
  <2>2. ASSUME NEW t \in Task, NEW d \in Dir
        PROVE  <<t, TableUse(d), f>> \in H <=> m.dir[t][d].present /\ m.dir[t][d].frame = f
    BY <1>3
  <2>3. ASSUME NEW x
        PROVE  x \in A <=> \E t \in Task, d \in Dir : x = <<t, d>> /\ <<t, TableUse(d), f>> \in H
    <3>1. ASSUME x \in A
          PROVE  \E t \in Task, d \in Dir : x = <<t, d>> /\ <<t, TableUse(d), f>> \in H
      <4>1. PICK t \in Task, d \in Dir : x = <<t, d>> /\ m.dir[t][d].present /\ m.dir[t][d].frame = f
        BY <2>1, <3>1
      <4>2. <<t, TableUse(d), f>> \in H
        BY <2>2, <4>1
      <4>3. QED
        BY <4>1, <4>2
    <3>2. ASSUME NEW t \in Task, NEW d \in Dir, x = <<t, d>> /\ <<t, TableUse(d), f>> \in H
          PROVE  x \in A
      <4>1. m.dir[t][d].present /\ m.dir[t][d].frame = f
        BY <2>2, <3>2
      <4>2. QED
        BY <2>1, <3>2, <4>1
    <3>3. QED
      BY <3>1, <3>2
  <2>4. QED
    BY <2>3
<1>5. \A x : x \in B <=> \E t \in Task, v \in Page : x = <<t, v>> /\ <<t, PageUse(v), f>> \in H
  <2>1. \A x : x \in B <=> \E t \in Task, v \in Page :
                   x = <<t, v>> /\ Present(m, t, v) /\ PTE(m, t, v).frame = f
    OBVIOUS
  <2> HIDE DEF H, B
  <2>2. ASSUME NEW t \in Task, NEW v \in Page
        PROVE  <<t, PageUse(v), f>> \in H <=> Present(m, t, v) /\ PTE(m, t, v).frame = f
    BY <1>3
  <2>3. ASSUME NEW x
        PROVE  x \in B <=> \E t \in Task, v \in Page : x = <<t, v>> /\ <<t, PageUse(v), f>> \in H
    <3>1. ASSUME x \in B
          PROVE  \E t \in Task, v \in Page : x = <<t, v>> /\ <<t, PageUse(v), f>> \in H
      <4>1. PICK t \in Task, v \in Page : x = <<t, v>> /\ Present(m, t, v) /\ PTE(m, t, v).frame = f
        BY <2>1, <3>1
      <4>2. <<t, PageUse(v), f>> \in H
        BY <2>2, <4>1
      <4>3. QED
        BY <4>1, <4>2
    <3>2. ASSUME NEW t \in Task, NEW v \in Page, x = <<t, v>> /\ <<t, PageUse(v), f>> \in H
          PROVE  x \in B
      <4>1. Present(m, t, v) /\ PTE(m, t, v).frame = f
        BY <2>2, <3>2
      <4>2. QED
        BY <2>1, <3>2, <4>1
    <3>3. QED
      BY <3>1, <3>2
  <2>4. QED
    BY <2>3
<1>6. \A t : t \in C <=> t \in Task /\ <<t, TaskUse(t), f>> \in H
  <2> HIDE DEF H
  <2>1. QED
    BY <1>3
<1>7. \A t \in Task, u \in Task : <<t, TaskUse(u), f>> \in H => t = u
  <2> HIDE DEF H
  <2>1. QED
    BY <1>3
<1>8. OneUse(H) /\ m.refs[f] = Cardinality(Holders(H, f)) + 0
  BY <1>1 DEF Fits, Exact
<1>9. Cardinality(Holders(H, f)) \in Nat
  BY HoldersType
<1> HIDE DEF H, A, B, C, k
<1>10. Cardinality(A) + Cardinality(B) + Cardinality(C) = Cardinality(Holders(H, f))
  <2>1. UsersOf(H, f, A, B, C)
    BY <1>4, <1>5, <1>6, <1>7 DEF UsersOf
  <2>2. OneUse(H)
    BY <1>8
  <2>3. QED
    BY <2>1, <2>2, CountUses
<1>11. QED
  BY <1>2, <1>8, <1>9, <1>10

(* The count of a page frame in the bitmap of phys_mm.c is the number of   *)
(* address spaces that have it and of task structures, whatever is forked, *)
(* executed, freed and copied, if programs stay in the directory entries   *)
(* that every image has.                                                   *)
THEOREM RefsCorrect ==
  ASSUME InReach
  PROVE  Spec => []RefsExact
<1>1. TypeInv /\ IInv => RefsExact
  BY UsesCounted DEF IInv, RefsExact
<1>2. QED
  BY <1>1, InvCorrect, PTL

(* Nothing but want of memory stops the kernel: a write fault of a correct *)
(* program always finds an entry that is marked as copied on a write.      *)
LEMMA NextPanic ==
  ASSUME TypeInv, IInv, OnlyMemoryRunsOut, [Next]_vars
  PROVE  OnlyMemoryRunsOut'
<1> USE DEF OnlyMemoryRunsOut
<1>1. m \in Mem
  BY DEF TypeInv
<1>2. ASSUME UNCHANGED vars
      PROVE  OnlyMemoryRunsOut'
  BY <1>2 DEF vars
<1>3. ASSUME NEW t \in Task, NEW v \in Page, NEW x \in Value,
             Write(t, v, x) \/ KernelWrite(t, v, x)
      PROVE  OnlyMemoryRunsOut'
  <2>1. m' = SetData(m, PTE(m, t, v).frame, x) /\ x \in Content /\ Present(m, t, v)
    BY <1>3, WriteIs
  <2>2. PTE(m, t, v).frame \in Frame
    BY <1>1, <2>1, PresentType
  <2>3. m'.panic = m.panic
    BY <1>1, <2>1, <2>2, SetDataIs
  <2>4. QED
    BY <2>3
<1>4. ASSUME NEW t \in Task, NEW v \in Page, Touch(t, v)
      PROVE  OnlyMemoryRunsOut'
  <2>1. Kept(m, Appeared(m, t, v))
    BY <1>1, AppearedKeeps
  <2>2. QED
    BY <1>4, <2>1 DEF Touch, Kept
<1>5. ASSUME NEW t \in Task, NEW v \in Page, WriteFault(t, v)
      PROVE  OnlyMemoryRunsOut'
  <2>1. /\ Whole(m, task) /\ task[t].state = "alive" /\ task[t].code_end < v /\ Present(m, t, v)
        /\ ~ (PTE(m, t, v).rw /\ PDE(m, t, v).rw /\ PDE(m, t, v).user)
        /\ m' = Unshared(m, t, v)
    BY <1>5, FaultIs
  <2>2. m'.panic # "read_only"
    BY <2>1, SplitWhole
  <2>3. QED
    BY <2>2
<1>6. ASSUME NEW t \in Task, NEW b \in 0 .. MaxBrk, Sbrk(t, b)
      PROVE  OnlyMemoryRunsOut'
  BY <1>6 DEF Sbrk
<1>7. ASSUME NEW t \in Task, NEW c \in Task, Fork(t, c)
      PROVE  OnlyMemoryRunsOut'
  <2> DEFINE a == Alloc(m)
             b == Alloc(a)
  <2>1. a \in Mem /\ a.panic # "read_only"
    BY <1>1, AllocIs
  <2>2. b \in Mem /\ b.panic # "read_only"
    BY <2>1, AllocIs
  <2>3. m' = b \/ m' = Copied(b, t, c)
    BY <1>7 DEF Fork
  <2> HIDE DEF a, b
  <2>4. Copied(b, t, c).panic = b.panic
    BY <2>2, CopiedKeeps
  <2>5. QED
    BY <2>2, <2>3, <2>4
<1>8. ASSUME NEW t \in Task, NEW image \in Images, Execve(t, image)
      PROVE  OnlyMemoryRunsOut'
  <2>1. Kept(m, Loaded(m, t, image))
    BY <1>1, LoadedKeeps
  <2>2. QED
    BY <1>8, <2>1 DEF Execve, Kept
<1>9. ASSUME NEW t \in Task, Exit(t)
      PROVE  OnlyMemoryRunsOut'
  BY <1>1, <1>9, FreeUserKeeps DEF Exit, Kept
<1>10. ASSUME NEW t \in Task, Reap(t)
       PROVE  OnlyMemoryRunsOut'
  <2> DEFINE a == Drop(m, task[t].page_directory)
             b == Drop(a, task[t].self)
  <2>1. task[t].self \in Frame /\ task[t].page_directory \in Frame
    BY <1>10 DEF Reap, TypeInv, Proper
  <2>2. a \in Mem /\ a.panic = m.panic
    BY <1>1, <2>1, DropIs
  <2>3. b \in Mem /\ b.panic = a.panic
    BY <2>1, <2>2, DropIs
  <2>4. m' = [b EXCEPT !.dir[t] = Nothing.dir[t]]
    BY <1>10 DEF Reap
  <2> HIDE DEF a, b
  <2>5. m'.panic = b.panic
    BY <2>3, <2>4 DEF Mem
  <2>6. QED
    BY <2>2, <2>3, <2>5
<1>11. QED
  BY <1>2, <1>3, <1>4, <1>5, <1>6, <1>7, <1>8, <1>9, <1>10 DEF Next, Halted

(* A program that stays in its data, heap and stack, and in the directory  *)
(* entries that every image has, never brings the kernel down, but for     *)
(* want of memory: pf_ro_violation() finds an entry to copy.               *)
THEOREM PanicsForMemory ==
  ASSUME InReach
  PROVE  Spec => []OnlyMemoryRunsOut
<1>1. Init => OnlyMemoryRunsOut
  BY DEF Init, OnlyMemoryRunsOut
<1>2. TypeInv /\ IInv /\ OnlyMemoryRunsOut /\ [Next]_vars => OnlyMemoryRunsOut'
  BY NextPanic
<1>3. QED
  BY <1>1, <1>2, InvCorrect, PTL DEF Spec

-----------------------------------------------------------------------------
(* WritableIsPrivate.  Only a page that is loaded or copied is writable,   *)
(* and no other process has it: without page faults for pages of a heap,   *)
(* nothing is added to a page table that is shared after a fork.           *)
LEMMA AloneSame ==
  ASSUME NEW s, NEW r, NEW t, Alone(s, t), r.dir[t] = s.dir[t],
         \A u \in Task, v \in Page : Ent(r, u, v) = Ent(s, u, v), t \in Task
  PROVE  Alone(r, t)
BY DEF Alone, Shows, PDE

LEMMA FilledSame ==
  ASSUME NEW s, NEW r, NEW t, NEW u, NEW p, Filled(s, t, p),
         \A v \in Page : Ent(s, t, v).present => Ent(r, u, v).present,
         NEW q, q.brk = p.brk \/ q.brk <= MaxBrk, q.brk \in Nat, MaxBrk \in Nat
  PROVE  Filled(r, u, q)
<1>1. SUFFICES ASSUME NEW v \in Page, v <= q.brk \/ v <= MaxBrk \/ v = Stack
               PROVE  Ent(r, u, v).present
  BY DEF Filled
<1>2. v \in Nat
  BY Sizes
<1>3. v <= p.brk \/ v <= MaxBrk \/ v = Stack
  BY <1>1, <1>2
<1>4. QED
  BY <1>3 DEF Filled

(* A step of task t does not touch what another process has. *)
LEMMA OthersAlone ==
  ASSUME NEW s, NEW r, NEW t \in Task, OthersKept(s, r, t), NEW u \in Task, u # t, Alone(s, u),
         \A w \in Page : Ent(r, u, w).present /\ Ent(r, u, w).rw /\ PDE(r, u, w).rw
                           => ~ Shows(r, t, w, Ent(r, u, w).frame)
  PROVE  Alone(r, u)
<1>1. SUFFICES ASSUME NEW w \in Page, NEW z \in Task, z # u,
                      Ent(r, u, w).present, Ent(r, u, w).rw, PDE(r, u, w).rw
               PROVE  ~ Shows(r, z, w, Ent(r, u, w).frame)
  BY DEF Alone
<1>2. CASE z = t
  BY <1>1, <1>2
<1>3. CASE z # t
  <2>1. Ent(r, u, w) = Ent(s, u, w) /\ Ent(r, z, w) = Ent(s, z, w) /\ PDE(r, u, w) = PDE(s, u, w)
    BY <1>3 DEF OthersKept, SamePages, PDE
  <2>2. ~ Shows(s, z, w, Ent(s, u, w).frame)
    BY <1>1, <2>1 DEF Alone
  <2>3. QED
    BY <2>1, <2>2 DEF Shows
<1>4. QED
  BY <1>2, <1>3

LEMMA OthersFilled ==
  ASSUME NEW s, NEW r, NEW t, OthersKept(s, r, t), NEW u \in Task, u # t, NEW p, Filled(s, u, p)
  PROVE  Filled(r, u, p)
BY DEF OthersKept, SamePages, Filled

LEMMA GoneShows ==
  ASSUME NEW s, NEW t, Gone(s, t)
  PROVE  \A v \in Page : \A f : ~ Shows(s, t, v, f)
<1>1. ASSUME NEW v \in Page
      PROVE  ~ Ent(s, t, v).present
  <2>1. ~ PDE(s, t, v).present
    BY PagePlace DEF Gone, PDE
  <2>2. QED
    BY <2>1, Entries DEF Ent
<1>2. QED
  BY <1>1 DEF Shows

(* A process that goes is nobody's neighbour. *)
LEMMA GonePart ==
  ASSUME NEW s, NEW r, NEW tasks, NEW tasks2, Parted(s, tasks), NEW t \in Task,
         OthersKept(s, r, t), Gone(r, t), tasks2[t].state # "alive",
         \A u \in Task : u # t => tasks2[u] = tasks[u]
  PROVE  Parted(r, tasks2)
<1>1. SUFFICES ASSUME NEW u \in Task, tasks2[u].state = "alive"
               PROVE  Alone(r, u) /\ Filled(r, u, tasks2[u])
  BY DEF Parted
<1>2. u # t /\ tasks2[u] = tasks[u]
  BY <1>1
<1>3. Alone(s, u) /\ Filled(s, u, tasks[u])
  BY <1>1, <1>2 DEF Parted
<1>4. Filled(r, u, tasks2[u])
  BY <1>2, <1>3, OthersFilled
<1>5. \A w \in Page : ~ Shows(r, t, w, Ent(r, u, w).frame)
  BY GoneShows
<1>6. Alone(r, u)
  BY <1>2, <1>3, <1>5, OthersAlone
<1>7. QED
  BY <1>4, <1>6

LEMMA SplitPart ==
  ASSUME NEW s, NEW r, NEW tasks, Parted(s, tasks), NEW t \in Task, NEW v \in Page,
         tasks[t].state = "alive", Ent(s, t, v).present, Split(s, r, t, v)
  PROVE  Parted(r, tasks)
<1>1. PICK n \in Frame : Ent(r, t, v) = Entry(n, TRUE) /\ \A u \in Task : u # t => ~ Shows(r, u, v, n)
  BY DEF Split
<1>2. Ent(r, t, v).present /\ Ent(r, t, v).frame = n
  BY <1>1, Entries
<1>3. \A w \in Page : w # v =>
        /\ Ent(r, t, w).present = Ent(s, t, w).present
        /\ Ent(r, t, w).frame = Ent(s, t, w).frame
        /\ Ent(r, t, w).rw /\ PDE(r, t, w).rw => Ent(s, t, w).rw /\ PDE(s, t, w).rw
  BY DEF Split, NotMore
<1>4. OthersKept(s, r, t)
  BY DEF Split
<1>5. Alone(s, t) /\ Filled(s, t, tasks[t])
  BY DEF Parted
<1>6. Alone(r, t)
  <2>1. SUFFICES ASSUME NEW w \in Page, NEW u \in Task, u # t,
                        Ent(r, t, w).present, Ent(r, t, w).rw, PDE(r, t, w).rw
                 PROVE  ~ Shows(r, u, w, Ent(r, t, w).frame)
    BY DEF Alone
  <2>2. CASE w = v
    BY <1>1, <1>2, <2>1, <2>2
  <2>3. CASE w # v
    <3>1. Ent(s, t, w).present /\ Ent(s, t, w).rw /\ PDE(s, t, w).rw
      BY <1>3, <2>1, <2>3
    <3>2. ~ Shows(s, u, w, Ent(s, t, w).frame)
      BY <1>5, <2>1, <3>1 DEF Alone
    <3>3. Ent(r, u, w) = Ent(s, u, w) /\ Ent(r, t, w).frame = Ent(s, t, w).frame
      BY <1>3, <1>4, <2>1, <2>3 DEF OthersKept, SamePages
    <3>4. QED
      BY <3>2, <3>3 DEF Shows
  <2>4. QED
    BY <2>2, <2>3
<1>7. Filled(r, t, tasks[t])
  <2>1. \A w \in Page : Ent(s, t, w).present => Ent(r, t, w).present
    BY <1>2, <1>3
  <2>2. QED
    BY <1>5, <2>1 DEF Filled
<1>8. ASSUME NEW u \in Task, u # t, tasks[u].state = "alive"
      PROVE  Alone(r, u) /\ Filled(r, u, tasks[u])
  <2>1. Alone(s, u) /\ Filled(s, u, tasks[u])
    BY <1>8 DEF Parted
  <2>2. Filled(r, u, tasks[u])
    BY <1>4, <1>8, <2>1, OthersFilled
  <2>3. ASSUME NEW w \in Page, Ent(r, u, w).present, Ent(r, u, w).rw, PDE(r, u, w).rw
        PROVE  ~ Shows(r, t, w, Ent(r, u, w).frame)
    <3>1. CASE w = v
      BY <1>1, <1>2, <1>8, <2>3, <3>1 DEF Shows
    <3>2. CASE w # v
      <4>1. Ent(r, u, w) = Ent(s, u, w) /\ PDE(r, u, w) = PDE(s, u, w)
        BY <1>4, <1>8 DEF OthersKept, SamePages, PDE
      <4>2. ~ Shows(s, t, w, Ent(s, u, w).frame)
        BY <1>8, <2>1, <2>3, <4>1 DEF Alone
      <4>3. QED
        BY <1>3, <3>2, <4>1, <4>2 DEF Shows
    <3>3. QED
      BY <3>1, <3>2
  <2>4. Alone(r, u)
    BY <1>4, <1>8, <2>1, <2>3, OthersAlone
  <2>5. QED
    BY <2>2, <2>4
<1>9. QED
  BY <1>6, <1>7, <1>8 DEF Parted

LEMMA CopyPart ==
  ASSUME NEW s, NEW r, NEW tasks, NEW tasks2, Parted(s, tasks), NEW t \in Task, NEW c \in Task,
         tasks[t].state = "alive", CopyOf(s, r, t, c),
         \A u \in Task : u # c => tasks2[u] = tasks[u], tasks2[c].brk = tasks[t].brk, t # c
  PROVE  Parted(r, tasks2)
<1>1. /\ \A u \in {t, c}, d \in Dir : ~ r.dir[u][d].rw
      /\ \A u \in {t, c}, v \in Page : Ent(r, u, v) = Ent(s, t, v)
      /\ \A u \in Task \ {t, c}, v \in Page : Ent(r, u, v) = Ent(s, u, v)
      /\ \A u \in Task \ {t, c} : r.dir[u] = s.dir[u]
  BY DEF CopyOf
<1>2. Filled(s, t, tasks[t])
  BY DEF Parted
<1>3. ASSUME NEW u \in {t, c}
      PROVE  Alone(r, u) /\ Filled(r, u, tasks2[u])
  <2>1. \A v \in Page : ~ PDE(r, u, v).rw
    BY <1>1, PagePlace DEF PDE
  <2>2. tasks2[u].brk = tasks[t].brk
    OBVIOUS
  <2>3. \A v \in Page : Ent(r, u, v) = Ent(s, t, v)
    BY <1>1
  <2>4. QED
    BY <1>2, <2>1, <2>2, <2>3 DEF Alone, Filled
<1>4. ASSUME NEW u \in Task, u \notin {t, c}, tasks[u].state = "alive"
      PROVE  Alone(r, u) /\ Filled(r, u, tasks[u])
  <2>1. Alone(s, u) /\ Filled(s, u, tasks[u])
    BY <1>4 DEF Parted
  <2>2. \A v \in Page : Ent(r, u, v) = Ent(s, u, v) /\ PDE(r, u, v) = PDE(s, u, v)
    BY <1>1, <1>4 DEF PDE
  <2>3. Filled(r, u, tasks[u])
    BY <2>1, <2>2 DEF Filled
  <2>4. ASSUME NEW v \in Page, NEW w \in Task, w # u,
               Ent(r, u, v).present, Ent(r, u, v).rw, PDE(r, u, v).rw
        PROVE  ~ Shows(r, w, v, Ent(r, u, v).frame)
    <3>1. \A z \in Task : z # u => ~ Shows(s, z, v, Ent(s, u, v).frame)
      BY <2>1, <2>2, <2>4 DEF Alone
    <3>2. CASE w \in {t, c}
      BY <1>1, <1>4, <2>2, <3>1, <3>2 DEF Shows
    <3>3. CASE w \notin {t, c}
      BY <1>1, <2>2, <2>4, <3>1, <3>3 DEF Shows
    <3>4. QED
      BY <3>2, <3>3
  <2>5. QED
    BY <2>3, <2>4 DEF Alone
<1>5. QED
  BY <1>3, <1>4 DEF Parted

(* Where every page is loaded, the loaded process has it to itself. *)
LEMMA GivenPart ==
  ASSUME NoHeap, NEW s, NEW r, NEW t \in Task, NEW image \in Images, Given(s, r, t, image),
         NEW tasks, NEW tasks2, \A u \in Task : u # t /\ tasks[u].state = "alive" =>
                                  Alone(s, u) /\ Filled(s, u, tasks[u]),
         \A u \in Task : u # t => tasks2[u] = tasks[u], tasks2[t].brk = image.data
  PROVE  Parted(r, tasks2)
<1>1. /\ \A v \in Page : Ent(r, t, v).present <=> v <= image.data \/ v = Stack
      /\ \A v \in Page : Ent(r, t, v).present =>
           \A u \in Task : u # t => ~ Shows(r, u, v, Ent(r, t, v).frame)
      /\ OthersKept(s, r, t)
  BY DEF Given
<1>2. Alone(r, t)
  BY <1>1 DEF Alone
<1>3. Filled(r, t, tasks2[t])
  <2>1. SUFFICES ASSUME NEW v \in Page, v <= tasks2[t].brk \/ v <= MaxBrk \/ v = Stack
                 PROVE  Ent(r, t, v).present
    BY DEF Filled
  <2>2. MaxBrk <= image.data /\ MaxBrk \in Nat /\ image.data \in Nat /\ v \in Nat
    BY AddrSpaceAssumption, ImageType, Sizes DEF NoHeap
  <2>3. v <= image.data \/ v = Stack
    BY <2>1, <2>2
  <2>4. QED
    BY <1>1, <2>3
<1>4. ASSUME NEW u \in Task, u # t, tasks2[u].state = "alive"
      PROVE  Alone(r, u) /\ Filled(r, u, tasks2[u])
  <2>1. tasks2[u] = tasks[u] /\ Alone(s, u) /\ Filled(s, u, tasks[u])
    BY <1>4
  <2>2. \A w \in Page : Ent(r, u, w).present => ~ Shows(r, t, w, Ent(r, u, w).frame)
    BY <1>1, <1>4 DEF Shows
  <2>3. QED
    BY <1>1, <1>4, <2>1, <2>2, OthersAlone, OthersFilled
<1>5. QED
  BY <1>2, <1>3, <1>4 DEF Parted

LEMMA InitApart ==
  ASSUME InReach, NoHeap, Init
  PROVE  Apart
<1>1. PICK image \in Images :
        /\ m = Loaded(Nothing, 0, image)
        /\ m.panic = "no"
        /\ task = [t \in Task |-> IF t = 0
                     THEN [NoTask EXCEPT !.state = "alive", !.code_end = image.code,
                                         !.brk = image.data]
                     ELSE NoTask]
  BY DEF Init
<1>2. Given(Nothing, m, 0, image)
  BY <1>1, InitWhole
<1>3. 0 \in Task
  BY Sizes
<1>4. task[0].brk = image.data /\ \A u \in Task : u # 0 => task[u].state = "none"
  BY <1>1, <1>3 DEF NoTask
<1>5. \A u \in Task : u # 0 /\ task[u].state = "alive" => Alone(Nothing, u) /\ Filled(Nothing, u, task[u])
  BY <1>4
<1>6. Parted(m, task)
  BY <1>2, <1>3, <1>4, <1>5, GivenPart
<1>7. QED
  BY <1>6 DEF Apart

LEMMA NextApart ==
  ASSUME InReach, NoHeap, TypeInv, IInv, Apart, [Next]_vars
  PROVE  Apart'
<1>1. SUFFICES ASSUME m'.panic = "no"
               PROVE  Parted(m', task')
  BY DEF Apart
<1>2. m \in Mem /\ task \in [Task -> Tasks]
  BY DEF TypeInv
<1>3. ASSUME UNCHANGED vars
      PROVE  Parted(m', task')
  BY <1>1, <1>3 DEF vars, Apart
<1>4. ASSUME NEW t \in Task, NEW v \in Page, NEW x \in Value,
             Write(t, v, x) \/ KernelWrite(t, v, x)
      PROVE  Parted(m', task')
  <2>1. /\ m.panic = "no" /\ Present(m, t, v) /\ x \in Content
        /\ m' = SetData(m, PTE(m, t, v).frame, x) /\ task' = task
    BY <1>4, WriteIs
  <2>2. Parted(m, task)
    BY <2>1 DEF Apart
  <2>3. PTE(m, t, v).frame \in Frame
    BY <1>2, <2>1, PresentType
  <2>4. m'.dir = m.dir /\ m'.tab = m.tab
    BY <1>2, <2>1, <2>3, SetDataIs
  <2>5. \A u \in Task, w \in Page : Ent(m', u, w) = Ent(m, u, w)
    BY <2>4, EntSame
  <2>6. ASSUME NEW u \in Task, task[u].state = "alive"
        PROVE  Alone(m', u) /\ Filled(m', u, task[u])
    <3>1. Alone(m, u) /\ Filled(m, u, task[u])
      BY <2>2, <2>6 DEF Parted
    <3>2. Alone(m', u)
      BY <2>4, <2>5, <3>1, AloneSame
    <3>3. QED
      BY <2>5, <3>1, <3>2 DEF Filled
  <2>7. QED
    BY <2>1, <2>6 DEF Parted
<1>5. ASSUME NEW t \in Task, NEW v \in Page, Touch(t, v)
      PROVE  Parted(m', task')
  <2>1. /\ m.panic = "no" /\ task[t].state = "alive" /\ Own(t, v) /\ ~ Present(m, t, v)
    BY <1>5 DEF Touch, Runs
  <2>2. Filled(m, t, task[t])
    BY <2>1 DEF Apart, Parted
  <2>3. Ent(m, t, v).present
    BY <2>1, <2>2 DEF Own, Filled
  <2>4. QED
    BY <1>2, <2>1, <2>3, EntIs
<1>6. ASSUME NEW t \in Task, NEW v \in Page, WriteFault(t, v)
      PROVE  Parted(m', task')
  <2>1. /\ m.panic = "no" /\ Whole(m, task) /\ task[t].state = "alive" /\ task[t].code_end < v
        /\ Present(m, t, v) /\ ~ (PTE(m, t, v).rw /\ PDE(m, t, v).rw /\ PDE(m, t, v).user)
        /\ m' = Unshared(m, t, v) /\ task' = task
    BY <1>6, FaultIs
  <2>2. Split(m, m', t, v)
    BY <1>1, <2>1, SplitWhole
  <2>3. Ent(m, t, v).present /\ Parted(m, task)
    BY <1>2, <2>1, EntIs DEF Apart
  <2>4. Parted(m', task)
    BY <2>1, <2>2, <2>3, SplitPart
  <2>5. QED
    BY <2>1, <2>4
<1>7. ASSUME NEW t \in Task, NEW b \in 0 .. MaxBrk, Sbrk(t, b)
      PROVE  Parted(m', task')
  <2>1. /\ m.panic = "no" /\ task[t].state = "alive" /\ m' = m
        /\ task' = [task EXCEPT ![t].brk = b]
    BY <1>7 DEF Sbrk, Runs
  <2>2. /\ \A u \in Task : u # t => task'[u] = task[u]
        /\ task'[t].brk = b
    BY <1>2, <2>1 DEF Tasks
  <2>3. MaxBrk \in Nat /\ b \in Nat /\ b <= MaxBrk
    BY AddrSpaceAssumption
  <2>4. Alone(m, t) /\ Filled(m, t, task[t])
    BY <2>1 DEF Apart, Parted
  <2>5. Filled(m, t, task'[t])
    BY <2>2, <2>3, <2>4, FilledSame
  <2>6. QED
    BY <2>1, <2>2, <2>4, <2>5 DEF Apart, Parted
<1>8. ASSUME NEW t \in Task, NEW c \in Task, Fork(t, c)
      PROVE  Parted(m', task')
  <2> DEFINE a == Alloc(m)
             b == Alloc(a)
  <2>1. m.panic = "no" /\ task[t].state = "alive" /\ task[c].state = "none"
    BY <1>8 DEF Fork, Runs
  <2>2. b.panic = "no"
    BY <1>1, <1>8 DEF Fork
  <2>3. /\ m' = Copied(b, t, c)
        /\ task' = [task EXCEPT ![c] = [task[t] EXCEPT !.self = NewFrame(m),
                                                       !.page_directory = NewFrame(a)]]
    BY <1>8, <2>2 DEF Fork
  <2>4. a = Alloc(m) /\ b = Alloc(a) /\ Whole(m, task)
    BY <2>1 DEF IInv
  <2> HIDE DEF a, b
  <2>5. CopyOf(m, m', t, c)
    BY <1>2, <2>1, <2>2, <2>3, <2>4, ForkWhole
  <2>6. /\ \A u \in Task : u # c => task'[u] = task[u]
        /\ task'[c].brk = task[t].brk /\ t # c
    BY <1>2, <2>1, <2>3 DEF Tasks
  <2>7. Parted(m, task)
    BY <2>1 DEF Apart
  <2>8. QED
    BY <2>1, <2>5, <2>6, <2>7, CopyPart
<1>9. ASSUME NEW t \in Task, NEW image \in Images, Execve(t, image)
      PROVE  Parted(m', task')
  <2>1. /\ m.panic = "no" /\ task[t].state = "alive" /\ m' = Loaded(m, t, image)
        /\ task' = [task EXCEPT ![t].code_end = image.code, ![t].brk = image.data]
    BY <1>9 DEF Execve, Runs
  <2>2. Whole(m, task) /\ Parted(m, task)
    BY <2>1 DEF IInv, Apart
  <2>3. Given(m, m', t, image)
    BY <1>1, <1>2, <2>1, <2>2, ExecveWhole
  <2>4. (\A u \in Task : u # t => task'[u] = task[u]) /\ task'[t].brk = image.data
    BY <1>2, <2>1 DEF Tasks
  <2>5. \A u \in Task : u # t /\ task[u].state = "alive" => Alone(m, u) /\ Filled(m, u, task[u])
    BY <2>2 DEF Parted
  <2>6. QED
    BY <2>3, <2>4, <2>5, GivenPart
<1>10. ASSUME NEW t \in Task, Exit(t)
       PROVE  Parted(m', task')
  <2>1. /\ m.panic = "no" /\ task[t].state = "alive" /\ t # 0 /\ m' = FreeUser(m, t)
        /\ task' = [task EXCEPT ![t].state = "stopped"]
    BY <1>10 DEF Exit, Runs
  <2>2. Whole(m, task) /\ Parted(m, task)
    BY <2>1 DEF IInv, Apart
  <2>3. Whole(m', task') /\ OthersKept(m, m', t)
    BY <1>1, <1>2, <2>1, <2>2, ExitWhole
  <2>4. task'[t].state = "stopped" /\ \A u \in Task : u # t => task'[u] = task[u]
    BY <1>2, <2>1 DEF Tasks
  <2>5. Gone(m', t) /\ task'[t].state # "alive"
    BY <2>3, <2>4 DEF Whole, View
  <2>6. QED
    BY <2>2, <2>3, <2>4, <2>5, GonePart
<1>11. ASSUME NEW t \in Task, Reap(t)
       PROVE  Parted(m', task')
  <2>1. /\ m.panic = "no" /\ task[t].state = "stopped"
        /\ m' = ResetDir(Drop(Drop(m, task[t].page_directory), task[t].self), t)
        /\ task' = [task EXCEPT ![t] = NoTask]
    BY <1>11 DEF Reap, ResetDir
  <2>2. task[t].self \in Frame /\ task[t].page_directory \in Frame
    BY <2>1 DEF TypeInv, Proper
  <2>3. Whole(m, task) /\ Parted(m, task)
    BY <2>1 DEF IInv, Apart
  <2>4. Whole(m', task') /\ OthersKept(m, m', t)
    BY <1>2, <2>1, <2>2, <2>3, ReapWhole
  <2>5. task'[t].state = "none" /\ \A u \in Task : u # t => task'[u] = task[u]
    BY <1>2, <2>1, NoTaskType
  <2>6. Gone(m', t) /\ task'[t].state # "alive"
    BY <2>4, <2>5 DEF Whole, View
  <2>7. QED
    BY <2>3, <2>4, <2>5, <2>6, GonePart
<1>12. QED
  BY <1>3, <1>4, <1>5, <1>6, <1>7, <1>8, <1>9, <1>10, <1>11 DEF Next, Halted

(* A frame that one process has is counted once. *)
LEMMA OneHolder ==
  ASSUME NEW s, NEW k, Fits(s, k, {}, {}), NEW f \in Frame, NEW t \in Task, NEW a \in Use,
         <<t, a, f>> \in Held(s, k, {}),
         \A u \in Task : <<u, a, f>> \in Held(s, k, {}) => u = t
  PROVE  s.refs[f] = 1
<1> DEFINE H == Held(s, k, {})
<1>1. OneUse(H) /\ s.refs[f] = Cardinality(Holders(H, f)) + 0
  BY DEF Fits, Exact
<1>2. Holders(H, f) = {t}
  <2>1. t \in Holders(H, f)
    BY HoldersAre
  <2>2. ASSUME NEW u, u \in Holders(H, f)
        PROVE  u = t
    <3>1. u \in Task /\ \E b \in Use : <<u, b, f>> \in H
      BY <2>2, HoldersAre
    <3>2. <<u, a, f>> \in H
      BY <1>1, <3>1 DEF OneUse
    <3>3. QED
      BY <3>1, <3>2
  <2>3. QED
    BY <2>1, <2>2
<1>3. Cardinality({t}) = 1
  BY FS_Singleton
<1>4. QED
  BY <1>1, <1>2, <1>3

LEMMA PrivateIs ==
  ASSUME TypeInv, Whole(m, task), Parted(m, task),
         NEW t \in Task, NEW v \in Page, task[t].state = "alive", CanWrite(t, v)
  PROVE  m.refs[PTE(m, t, v).frame] = 1 /\ m.refs[PDE(m, t, v).frame] = 1
<1> DEFINE k == KFrames(task)
           H == Held(m, k, {})
           f == PTE(m, t, v).frame
           g == PDE(m, t, v).frame
           d == DirOf(v)
<1>1. Fits(m, k, {}, {}) /\ m \in Mem /\ Alone(m, t)
  BY DEF Whole, TypeInv, Parted
<1>2. /\ Present(m, t, v) /\ PTE(m, t, v).rw /\ PDE(m, t, v).rw
      /\ PDE(m, t, v) = m.dir[t][d] /\ d \in Dir
  BY PagePlace DEF CanWrite, PDE
<1>3. /\ Ent(m, t, v) = PTE(m, t, v) /\ Ent(m, t, v).present /\ PDE(m, t, v).present
      /\ f \in Frame /\ g \in Frame
  BY <1>1, <1>2, EntIs, PresentType
<1>4. PageUse(v) \in Use /\ TableUse(d) \in Use
  BY <1>2, UsesDiffer
<1>5. \A u \in Task : <<u, PageUse(v), f>> \in H <=> Shows(m, u, v, f)
  <2> HIDE DEF f
  <2>1. \A u \in Task : <<u, PageUse(v), f>> \in H <=> PageAt(m, {}, u, v, f)
    BY <1>3, HeldIs
  <2>2. QED
    BY <2>1 DEF PageAt, Shows
<1>6. \A u \in Task : <<u, TableUse(d), g>> \in H <=> TableAt(m, u, d, g)
  <2> HIDE DEF g, d
  <2>1. QED
    BY <1>2, <1>3, HeldIs
<1>7. m.refs[f] = 1
  <2>1. <<t, PageUse(v), f>> \in H
    BY <1>3, <1>5 DEF Shows
  <2>2. \A u \in Task : <<u, PageUse(v), f>> \in H => u = t
    BY <1>1, <1>2, <1>3, <1>5 DEF Alone
  <2> HIDE DEF f
  <2>3. QED
    BY <1>1, <1>3, <1>4, <2>1, <2>2, OneHolder
<1>8. m.refs[g] = 1
  <2>1. <<t, TableUse(d), g>> \in H
    BY <1>2, <1>3, <1>6 DEF TableAt
  <2>2. ServedDir(m.dir[t][d])
    BY <1>2, <1>3 DEF Whole, View, Served
  <2>3. ~ m.dir[t][d].shared
    BY <1>2, <2>2 DEF ServedDir
  <2>4. \A u \in Task : TableAt(m, u, d, g) => t = u
    BY <1>1, <1>2, <1>3, <2>3 DEF Fits, OwnTables
  <2>5. \A u \in Task : <<u, TableUse(d), g>> \in H => u = t
    BY <1>6, <2>4
  <2> HIDE DEF g
  <2>6. QED
    BY <1>1, <1>3, <1>4, <2>1, <2>5, OneHolder
<1>9. QED
  BY <1>7, <1>8

(* Every page that a process may write to, and every page table that says  *)
(* so, is its own, through any forks, write faults, executions and exits,  *)
(* if all pages up to the break are loaded with the image.                 *)
THEOREM WritesArePrivate ==
  ASSUME InReach, NoHeap
  PROVE  Spec => []WritableIsPrivate
<1>1. Init => Apart
  BY InitApart
<1>2. TypeInv /\ IInv /\ Apart /\ [Next]_vars => Apart'
  BY NextApart
<1>3. TypeInv /\ IInv /\ Apart => WritableIsPrivate
  BY PrivateIs DEF IInv, Apart, WritableIsPrivate
<1>4. QED
  BY <1>1, <1>2, <1>3, InvCorrect, PTL DEF Spec

-----------------------------------------------------------------------------
(* ImplementsPrivateMemory: what processes find on their pages.            *)
MemOf(s, p, t) ==
  [v \in Page |-> IF p.state = "alive" /\ Ent(s, t, v).present
                  THEN s.data[Ent(s, t, v).frame] ELSE None]
Memories(s, tasks) == [t \in Task |-> MemOf(s, tasks[t], t)]
Blank == [v \in Page |-> None]

LEMMA MemoryIs ==
  ASSUME TypeInv
  PROVE  [t \in Task |-> Memory(t)] = Memories(m, task)
<1>1. m \in Mem
  BY DEF TypeInv
<1>2. ASSUME NEW t \in Task
      PROVE  Memory(t) = MemOf(m, task[t], t)
  BY <1>1, EntIs DEF Memory, MemOf
<1>3. QED
  BY <1>2 DEF Memories

LEMMA NoneBlank ==
  ASSUME NEW s, NEW p, p.state # "alive", NEW t
  PROVE  MemOf(s, p, t) = Blank
BY DEF MemOf, Blank

LEMMA OthersMemory ==
  ASSUME NEW s, NEW r, NEW t, OthersKept(s, r, t), NEW u \in Task, u # t, NEW p
  PROVE  MemOf(r, p, u) = MemOf(s, p, u)
BY DEF OthersKept, SamePages, MemOf

(* The memory of one process changes. *)
LEMMA OneMemory ==
  ASSUME NEW s, NEW r, NEW tasks, NEW tasks2, NEW t \in Task, OthersKept(s, r, t),
         \A u \in Task : u # t => tasks2[u] = tasks[u]
  PROVE  Memories(r, tasks2) = [Memories(s, tasks) EXCEPT ![t] = MemOf(r, tasks2[t], t)]
<1>1. ASSUME NEW u \in Task, u # t
      PROVE  MemOf(r, tasks2[u], u) = MemOf(s, tasks[u], u)
  BY <1>1, OthersMemory
<1>2. QED
  BY <1>1 DEF Memories

(* A page that a process can write to is on no other page of any process. *)
LEMMA OnlyWriter ==
  ASSUME NEW s, NEW k, Fits(s, k, {}, {}), NEW t \in Task, Alone(s, t), NEW v \in Page,
         Ent(s, t, v).present, Ent(s, t, v).rw, PDE(s, t, v).rw,
         NEW u \in Task, NEW w \in Page, u # t \/ w # v
  PROVE  ~ Shows(s, u, w, Ent(s, t, v).frame)
<1> DEFINE f == Ent(s, t, v).frame
           H == Held(s, k, {})
<1>1. SUFFICES ASSUME Shows(s, u, w, f)
               PROVE  FALSE
  OBVIOUS
<1>2. s \in Mem /\ OneUse(H)
  BY DEF Fits
<1>3. f \in Frame
  BY <1>2, EntIs
<1>4. PageAt(s, {}, t, v, f) /\ PageAt(s, {}, u, w, f)
  BY <1>1 DEF PageAt, Shows
<1> HIDE DEF f
<1>5. <<t, PageUse(v), f>> \in H /\ <<u, PageUse(w), f>> \in H
  BY <1>3, <1>4, HeldIs
<1>6. PageUse(v) = PageUse(w)
  BY <1>2, <1>3, <1>5, UsesDiffer DEF OneUse
<1>7. v = w
  BY <1>6, UsesDiffer
<1>8. QED
  BY <1>1, <1>7 DEF Alone, f

LEMMA StoreMemory ==
  ASSUME NEW s, NEW tasks, Whole(s, tasks), Parted(s, tasks), NEW t \in Task, NEW v \in Page,
         tasks[t].state = "alive", Present(s, t, v), PTE(s, t, v).rw, PDE(s, t, v).rw,
         NEW x \in Content, NEW r, r = SetData(s, PTE(s, t, v).frame, x)
  PROVE  Memories(r, tasks) = [Memories(s, tasks) EXCEPT ![t][v] = x]
<1> DEFINE f == Ent(s, t, v).frame
           k == KFrames(tasks)
<1>1. Fits(s, k, {}, {}) /\ s \in Mem /\ Alone(s, t)
  BY DEF Whole, Fits, Parted
<1>2. /\ Ent(s, t, v) = PTE(s, t, v) /\ Ent(s, t, v).present /\ Ent(s, t, v).rw /\ f \in Frame
      /\ PDE(s, t, v).rw
  BY <1>1, EntIs
<1>3. r = SetData(s, f, x)
  BY <1>2
<1> HIDE DEF k
<1>4. \A u \in Task, w \in Page : u # t \/ w # v => ~ Shows(s, u, w, f)
  BY <1>1, <1>2, OnlyWriter
<1> HIDE DEF f
<1>5. r.dir = s.dir /\ r.tab = s.tab /\ r.data = [s.data EXCEPT ![f] = x]
  BY <1>1, <1>2, <1>3, SetDataIs
<1>6. \A u, w : Ent(r, u, w) = Ent(s, u, w)
  BY <1>5, EntSame
<1>7. s.data \in [Frame -> Content]
  BY <1>1 DEF Mem
<1>8. ASSUME NEW u \in Task, NEW w \in Page
      PROVE  /\ u # t \/ w # v => Memories(r, tasks)[u][w] = Memories(s, tasks)[u][w]
             /\ Memories(r, tasks)[t][v] = x
  <2>1. Memories(r, tasks)[t][v] = x
    <3>1. Ent(r, t, v).present /\ Ent(r, t, v).frame = f
      BY <1>2, <1>6 DEF f
    <3>2. r.data[f] = x
      BY <1>2, <1>5, <1>7
    <3>3. QED
      BY <3>1, <3>2 DEF Memories, MemOf
  <2>2. ASSUME u # t \/ w # v
        PROVE  Memories(r, tasks)[u][w] = Memories(s, tasks)[u][w]
    <3>1. Ent(s, u, w).present => Ent(s, u, w).frame # f /\ Ent(s, u, w).frame \in Frame
      BY <1>1, <1>4, <2>2, EntIs DEF Shows
    <3>2. Ent(s, u, w).present => r.data[Ent(s, u, w).frame] = s.data[Ent(s, u, w).frame]
      BY <1>2, <1>5, <1>7, <3>1
    <3>3. QED
      BY <1>6, <3>2 DEF Memories, MemOf
  <2>3. QED
    BY <2>1, <2>2
<1>9. ASSUME NEW u \in Task, u # t
      PROVE  MemOf(r, tasks[u], u) = MemOf(s, tasks[u], u)
  <2>1. \A w \in Page : MemOf(r, tasks[u], u)[w] = MemOf(s, tasks[u], u)[w]
    BY <1>8, <1>9 DEF Memories
  <2>2. QED
    BY <2>1 DEF MemOf
<1>10. MemOf(r, tasks[t], t) = [MemOf(s, tasks[t], t) EXCEPT ![v] = x]
  <2>1. \A w \in Page : w # v => MemOf(r, tasks[t], t)[w] = MemOf(s, tasks[t], t)[w]
    BY <1>8 DEF Memories
  <2>2. MemOf(r, tasks[t], t)[v] = x
    BY <1>8 DEF Memories
  <2>3. QED
    BY <2>1, <2>2 DEF MemOf
<1>11. QED
  BY <1>9, <1>10 DEF Memories

(* The steps of the kernel as steps of private memories. *)
LEMMA GivenMemory ==
  ASSUME NEW s, NEW r, NEW t \in Task, NEW image \in Images, Given(s, r, t, image),
         NEW p, p.state = "alive"
  PROVE  MemOf(r, p, t) = FileMemory(image)
<1>1. \A v \in Page : v = Stack => ~ (v <= image.data)
  <2>1. image.data \in Nat /\ Stack \in Nat /\ image.data < Stack
    BY ImageType, Sizes
  <2>2. QED
    BY <2>1
<1>2. ASSUME NEW v \in Page
      PROVE  MemOf(r, p, t)[v] = FileMemory(image)[v]
  <2>1. /\ Ent(r, t, v).present <=> v <= image.data \/ v = Stack
        /\ Ent(r, t, v).present => r.data[Ent(r, t, v).frame] = LoadedAs(v)
    BY DEF Given
  <2>2. CASE Ent(r, t, v).present
    BY <1>1, <2>1, <2>2 DEF MemOf, FileMemory, LoadedAs
  <2>3. CASE ~ Ent(r, t, v).present
    BY <2>1, <2>3 DEF MemOf, FileMemory
  <2>4. QED
    BY <2>2, <2>3
<1>3. QED
  BY <1>2 DEF MemOf, FileMemory

LEMMA SplitMemory ==
  ASSUME NEW s, NEW r, NEW t \in Task, NEW v \in Page, Ent(s, t, v).present, Split(s, r, t, v),
         NEW tasks
  PROVE  Memories(r, tasks) = Memories(s, tasks)
<1>1. PICK n \in Frame : Ent(r, t, v) = Entry(n, TRUE) /\ r.data[n] = s.data[Ent(s, t, v).frame]
  BY DEF Split
<1>2. Ent(r, t, v).present /\ Ent(r, t, v).frame = n
  BY <1>1, Entries
<1>3. ASSUME NEW w \in Page
      PROVE  /\ Ent(r, t, w).present = Ent(s, t, w).present
             /\ Ent(s, t, w).present => r.data[Ent(r, t, w).frame] = s.data[Ent(s, t, w).frame]
  <2>1. CASE w = v
    BY <1>1, <1>2, <2>1
  <2>2. CASE w # v
    BY <2>2 DEF Split, NotMore
  <2>3. QED
    BY <2>1, <2>2
<1>4. MemOf(r, tasks[t], t) = MemOf(s, tasks[t], t)
  BY <1>3 DEF MemOf
<1>5. \A u \in Task : u # t => MemOf(r, tasks[u], u) = MemOf(s, tasks[u], u)
  BY OthersMemory DEF Split
<1>6. QED
  BY <1>4, <1>5 DEF Memories

LEMMA CopyMemory ==
  ASSUME NEW s, NEW r, NEW t \in Task, NEW c \in Task, t # c, CopyOf(s, r, t, c),
         NEW tasks, NEW tasks2, tasks[t].state = "alive", tasks2[c].state = "alive",
         \A u \in Task : u # c => tasks2[u] = tasks[u]
  PROVE  Memories(r, tasks2) = [Memories(s, tasks) EXCEPT ![c] = Memories(s, tasks)[t]]
<1>1. /\ r.data = s.data
      /\ \A v \in Page : Ent(r, c, v) = Ent(s, t, v)
      /\ \A u \in Task, v \in Page : u # c => Ent(r, u, v) = Ent(s, u, v)
  BY DEF CopyOf
<1>2. MemOf(r, tasks2[c], c) = MemOf(s, tasks[t], t)
  BY <1>1 DEF MemOf
<1>3. \A u \in Task : u # c => MemOf(r, tasks2[u], u) = MemOf(s, tasks[u], u)
  BY <1>1 DEF MemOf
<1>4. QED
  BY <1>2, <1>3 DEF Memories

LEMMA InitPrivate ==
  ASSUME InReach, Init
  PROVE  Private!Init
<1>1. PICK image \in Images :
        /\ m = Loaded(Nothing, 0, image)
        /\ m.panic = "no"
        /\ task = [t \in Task |-> IF t = 0
                     THEN [NoTask EXCEPT !.state = "alive", !.code_end = image.code,
                                         !.brk = image.data]
                     ELSE NoTask]
  BY DEF Init
<1>2. Given(Nothing, m, 0, image)
  BY <1>1, InitWhole
<1>3. 0 \in Task
  BY Sizes
<1>4. task[0].state = "alive" /\ \A u \in Task : u # 0 => task[u].state # "alive"
  BY <1>1, <1>3 DEF NoTask
<1>5. MemOf(m, task[0], 0) = FileMemory(image)
  BY <1>2, <1>3, <1>4, GivenMemory
<1>6. \A u \in Task : u # 0 => MemOf(m, task[u], u) = Blank
  BY <1>4, NoneBlank
<1>7. Memories(m, task) = [t \in Task |-> IF t = 0 THEN FileMemory(image) ELSE Blank]
  BY <1>5, <1>6 DEF Memories
<1>8. [t \in Task |-> Memory(t)] = Memories(m, task)
  BY InitType, MemoryIs
<1>9. Blank = Private!Blank
  BY DEF Blank, Private!Blank
<1>10. QED
  BY <1>1, <1>7, <1>8, <1>9 DEF Private!Init

(* One process changes its memory. *)
PrivateStep(M, N) ==
  \E t \in Task :
    \/ \E v \in Page, x \in Value : M[t][v] # None /\ N = [M EXCEPT ![t][v] = x]
    \/ \E c \in Task : M[c] = Blank /\ N = [M EXCEPT ![c] = M[t]]
    \/ \E image \in Images : N = [M EXCEPT ![t] = FileMemory(image)]
    \/ N = [M EXCEPT ![t] = Blank]

LEMMA StepPrivate ==
  ASSUME InReach, NoHeap, ~ SharedBuffers, None \notin Value,
         TypeInv, IInv, Apart, Next, m'.panic = "no"
  PROVE  \/ Memories(m', task') = Memories(m, task)
         \/ PrivateStep(Memories(m, task), Memories(m', task'))
<1> DEFINE M == Memories(m, task)
           N == Memories(m', task')
           Goal == N = M \/ PrivateStep(M, N)
<1>1. m \in Mem /\ task \in [Task -> Tasks]
  BY DEF TypeInv
<1>2. ASSUME NEW t \in Task, NEW v \in Page, NEW x \in Value,
             Write(t, v, x) \/ KernelWrite(t, v, x)
      PROVE  Goal
  <2>1. /\ m.panic = "no" /\ task[t].state = "alive" /\ Present(m, t, v) /\ x \in Content
        /\ m' = SetData(m, PTE(m, t, v).frame, x) /\ task' = task
    BY <1>2, WriteIs
  <2>2. PTE(m, t, v).rw /\ PDE(m, t, v).rw
    BY <1>2 DEF Write, KernelWrite, CanWrite
  <2>3. Whole(m, task) /\ Parted(m, task)
    BY <2>1 DEF IInv, Apart
  <2>4. Memories(m', task) = [Memories(m, task) EXCEPT ![t][v] = x]
    BY <2>1, <2>2, <2>3, StoreMemory
  <2>5. M[t][v] # None
    <3>1. Ent(m, t, v).present /\ Ent(m, t, v).frame \in Frame
      BY <1>1, <2>1, EntIs
    <3>2. m.data[Ent(m, t, v).frame] \in Content
      BY <1>1, <3>1 DEF Mem
    <3>3. None \notin Content
      BY DEF Content, None, Junk, FromFile
    <3>4. QED
      BY <2>1, <3>1, <3>2, <3>3 DEF Memories, MemOf
  <2>6. N = [M EXCEPT ![t][v] = x]
    BY <2>1, <2>4
  <2> HIDE DEF M, N
  <2>7. QED
    BY <2>5, <2>6 DEF PrivateStep
<1>3. ASSUME NEW t \in Task, NEW v \in Page, Touch(t, v)
      PROVE  Goal
  <2>1. /\ m.panic = "no" /\ task[t].state = "alive" /\ Own(t, v) /\ ~ Present(m, t, v)
    BY <1>3 DEF Touch, Runs
  <2>2. Filled(m, t, task[t])
    BY <2>1 DEF Apart, Parted
  <2>3. Ent(m, t, v).present
    BY <2>1, <2>2 DEF Own, Filled
  <2>4. QED
    BY <1>1, <2>1, <2>3, EntIs
<1>4. ASSUME NEW t \in Task, NEW v \in Page, WriteFault(t, v)
      PROVE  Goal
  <2>1. /\ m.panic = "no" /\ Whole(m, task) /\ task[t].state = "alive" /\ task[t].code_end < v
        /\ Present(m, t, v) /\ ~ (PTE(m, t, v).rw /\ PDE(m, t, v).rw /\ PDE(m, t, v).user)
        /\ m' = Unshared(m, t, v) /\ task' = task
    BY <1>4, FaultIs
  <2>2. Split(m, m', t, v)
    BY <2>1, SplitWhole
  <2>3. Ent(m, t, v).present
    BY <1>1, <2>1, EntIs
  <2>4. N = M
    BY <2>1, <2>2, <2>3, SplitMemory
  <2> HIDE DEF M, N
  <2>5. QED
    BY <2>4 DEF PrivateStep
<1>5. ASSUME NEW t \in Task, NEW b \in 0 .. MaxBrk, Sbrk(t, b)
      PROVE  Goal
  <2>1. m' = m /\ task' = [task EXCEPT ![t].brk = b]
    BY <1>5 DEF Sbrk
  <2>2. \A u \in Task : task'[u].state = task[u].state
    BY <1>1, <2>1 DEF Tasks
  <2>3. N = M
    BY <2>1, <2>2 DEF Memories, MemOf
  <2> HIDE DEF M, N
  <2>4. QED
    BY <2>3 DEF PrivateStep
<1>6. ASSUME NEW t \in Task, NEW c \in Task, Fork(t, c)
      PROVE  Goal
  <2> DEFINE a == Alloc(m)
             b == Alloc(a)
  <2>1. m.panic = "no" /\ task[t].state = "alive" /\ task[c].state = "none"
    BY <1>6 DEF Fork, Runs
  <2>2. b.panic = "no"
    BY <1>6 DEF Fork
  <2>3. /\ m' = Copied(b, t, c)
        /\ task' = [task EXCEPT ![c] = [task[t] EXCEPT !.self = NewFrame(m),
                                                       !.page_directory = NewFrame(a)]]
    BY <1>6, <2>2 DEF Fork
  <2>4. a = Alloc(m) /\ b = Alloc(a) /\ Whole(m, task)
    BY <2>1 DEF IInv
  <2> HIDE DEF a, b
  <2>5. CopyOf(m, m', t, c)
    BY <1>1, <2>1, <2>2, <2>3, <2>4, ForkWhole
  <2>6. /\ \A u \in Task : u # c => task'[u] = task[u]
        /\ task'[c].state = "alive" /\ t # c
    BY <1>1, <2>1, <2>3 DEF Tasks
  <2>7. N = [M EXCEPT ![c] = M[t]]
    BY <2>1, <2>5, <2>6, CopyMemory
  <2>8. M[c] = Blank
    <3>1. MemOf(m, task[c], c) = Blank
      BY <2>1, NoneBlank
    <3>2. QED
      BY <3>1 DEF Memories
  <2> HIDE DEF M, N
  <2>9. QED
    BY <2>7, <2>8 DEF PrivateStep
<1>7. ASSUME NEW t \in Task, NEW image \in Images, Execve(t, image)
      PROVE  Goal
  <2>1. /\ m.panic = "no" /\ task[t].state = "alive" /\ m' = Loaded(m, t, image)
        /\ task' = [task EXCEPT ![t].code_end = image.code, ![t].brk = image.data]
    BY <1>7 DEF Execve, Runs
  <2>2. Whole(m, task)
    BY <2>1 DEF IInv
  <2>3. Given(m, m', t, image)
    BY <1>1, <2>1, <2>2, ExecveWhole
  <2>4. (\A u \in Task : u # t => task'[u] = task[u]) /\ task'[t].state = "alive"
    BY <1>1, <2>1 DEF Tasks
  <2>5. MemOf(m', task'[t], t) = FileMemory(image)
    BY <2>3, <2>4, GivenMemory
  <2>6. OthersKept(m, m', t)
    BY <2>3 DEF Given
  <2>7. N = [M EXCEPT ![t] = FileMemory(image)]
    <3>1. Memories(m', task') = [Memories(m, task) EXCEPT ![t] = MemOf(m', task'[t], t)]
      <4>1. \A u \in Task : u # t => MemOf(m', task'[u], u) = MemOf(m, task[u], u)
        BY <2>4, <2>6, OthersMemory
      <4>2. QED
        BY <4>1 DEF Memories
    <3>2. N = [M EXCEPT ![t] = MemOf(m', task'[t], t)]
      BY <3>1
    <3> HIDE DEF M, N
    <3>3. QED
      BY <2>5, <3>2
  <2> HIDE DEF M, N
  <2>8. QED
    BY <2>7 DEF PrivateStep
<1>8. ASSUME NEW t \in Task, Exit(t)
      PROVE  Goal
  <2>1. /\ m.panic = "no" /\ task[t].state = "alive" /\ t # 0 /\ m' = FreeUser(m, t)
        /\ task' = [task EXCEPT ![t].state = "stopped"]
    BY <1>8 DEF Exit, Runs
  <2>2. Whole(m, task)
    BY <2>1 DEF IInv
  <2>3. OthersKept(m, m', t)
    BY <1>1, <2>1, <2>2, ExitWhole
  <2>4. task'[t].state # "alive" /\ \A u \in Task : u # t => task'[u] = task[u]
    BY <1>1, <2>1 DEF Tasks
  <2>5. MemOf(m', task'[t], t) = Blank
    BY <2>4, NoneBlank
  <2>6. N = [M EXCEPT ![t] = Blank]
    BY <2>3, <2>4, <2>5, OneMemory
  <2> HIDE DEF M, N
  <2>7. QED
    BY <2>6 DEF PrivateStep
<1>9. ASSUME NEW t \in Task, Reap(t)
      PROVE  Goal
  <2>1. /\ m.panic = "no" /\ task[t].state = "stopped"
        /\ m' = ResetDir(Drop(Drop(m, task[t].page_directory), task[t].self), t)
        /\ task' = [task EXCEPT ![t] = NoTask]
    BY <1>9 DEF Reap, ResetDir
  <2>2. task[t].self \in Frame /\ task[t].page_directory \in Frame
    BY <2>1 DEF TypeInv, Proper
  <2>3. Whole(m, task)
    BY <2>1 DEF IInv
  <2>4. OthersKept(m, m', t)
    BY <1>1, <2>1, <2>2, <2>3, ReapWhole
  <2>5. task'[t].state # "alive" /\ \A u \in Task : u # t => task'[u] = task[u]
    BY <1>1, <2>1, NoTaskType
  <2>6. MemOf(m', task'[t], t) = Blank
    BY <2>5, NoneBlank
  <2>7. N = [M EXCEPT ![t] = Blank]
    BY <2>4, <2>5, <2>6, OneMemory
  <2> HIDE DEF M, N
  <2>8. QED
    BY <2>7 DEF PrivateStep
<1>10. ASSUME Halted
       PROVE  Goal
  <2>1. N = M
    BY <1>10 DEF Halted, vars
  <2>2. QED
    BY <2>1
<1>11. Goal
  <2> HIDE DEF Goal
  <2>1. QED
    BY <1>2, <1>3, <1>4, <1>5, <1>6, <1>7, <1>8, <1>9, <1>10 DEF Next
<1>12. QED
  BY <1>11

LEMMA NextPrivate ==
  ASSUME InReach, NoHeap, ~ SharedBuffers, None \notin Value,
         TypeInv, TypeInv', IInv, Apart, [Next]_vars
  PROVE  [Private!Next]_(Private!vars)
<1> DEFINE M == Memories(m, task)
           N == Memories(m', task')
           old == [t \in Task |-> Memory(t)]
<1>1. old = M
  BY MemoryIs
<1>2. old' = N
  <2>1. m' \in Mem
    BY DEF TypeInv
  <2>2. ASSUME NEW t \in Task
        PROVE  Memory(t)' = MemOf(m', task'[t], t)
    BY <2>1, EntIs DEF Memory, MemOf
  <2>3. QED
    BY <2>2 DEF Memories
<1>3. CASE m.panic # "no" \/ UNCHANGED vars
  <2>1. m' = m /\ task' = task
    BY <1>3 DEF Next, Halted, vars, Write, KernelWrite, Touch, WriteFault, Sbrk, Fork,
                Execve, Exit, Reap, Runs
  <2>2. M = N
    BY <2>1
  <2>3. old' = old /\ (m'.panic = "no") = (m.panic = "no")
    BY <1>1, <1>2, <2>1, <2>2
  <2>4. QED
    BY <2>3 DEF Private!vars
<1>4. CASE m.panic = "no" /\ m'.panic # "no"
  BY <1>4 DEF Private!Next
<1>5. CASE m.panic = "no" /\ m'.panic = "no" /\ Next
  <2>1. N = M \/ PrivateStep(M, N)
    BY <1>5, StepPrivate
  <2>2. Blank = Private!Blank
    BY DEF Blank, Private!Blank
  <2>3. CASE N = M
    <3>1. old' = old /\ (m'.panic = "no") = (m.panic = "no")
      BY <1>1, <1>2, <1>5, <2>3
    <3>2. QED
      BY <3>1 DEF Private!vars
  <2>4. CASE PrivateStep(M, N)
    <3> HIDE DEF M, N, old
    <3>1. PICK t \in Task :
            \/ \E v \in Page, x \in Value : M[t][v] # None /\ N = [M EXCEPT ![t][v] = x]
            \/ \E c \in Task : M[c] = Blank /\ N = [M EXCEPT ![c] = M[t]]
            \/ \E image \in Images : N = [M EXCEPT ![t] = FileMemory(image)]
            \/ N = [M EXCEPT ![t] = Blank]
      BY <2>4 DEF PrivateStep
    <3>2. ASSUME NEW v \in Page, NEW x \in Value, M[t][v] # None, N = [M EXCEPT ![t][v] = x]
          PROVE  Private!Write(t, v, x)
      BY <1>1, <1>2, <3>2 DEF Private!Write, Private!Store, old
    <3>3. ASSUME NEW c \in Task, M[c] = Blank, N = [M EXCEPT ![c] = M[t]]
          PROVE  Private!Fork(t, c)
      BY <1>1, <1>2, <2>2, <3>3 DEF Private!Fork, old
    <3>4. ASSUME NEW image \in Images, N = [M EXCEPT ![t] = FileMemory(image)]
          PROVE  Private!Exec(t)
      BY <1>1, <1>2, <3>4 DEF Private!Exec, old
    <3>5. ASSUME N = [M EXCEPT ![t] = Blank]
          PROVE  Private!Exit(t)
      BY <1>1, <1>2, <2>2, <3>5 DEF Private!Exit, old
    <3>6. Private!Step
      BY <3>1, <3>2, <3>3, <3>4, <3>5 DEF Private!Step
    <3>7. QED
      BY <1>5, <3>6 DEF Private!Next
  <2>5. QED
    BY <2>1, <2>3, <2>4
<1>6. QED
  BY <1>3, <1>4, <1>5

(* The page tables implement private memories: whatever is forked, written *)
(* to, executed and freed, a process finds what it had, its parent had, or *)
(* its image has, if all pages up to the break are loaded with the image   *)
(* and programs pass no buffers to the kernel that they share.             *)
THEOREM PrivateMemories ==
  ASSUME InReach, NoHeap, ~ SharedBuffers, None \notin Value
  PROVE  Spec => ImplementsPrivateMemory
<1>1. Init => Apart
  BY InitApart
<1>2. TypeInv /\ IInv /\ Apart /\ [Next]_vars => Apart'
  BY NextApart
<1>3. Init => Private!Init
  BY InitPrivate
<1>4. TypeInv /\ TypeInv' /\ IInv /\ Apart /\ [Next]_vars => [Private!Next]_(Private!vars)
  BY NextPrivate
<1>5. QED
  BY <1>1, <1>2, <1>3, <1>4, InvCorrect, PTL DEF Spec, ImplementsPrivateMemory, Private!Spec

=============================================================================
