---------------------------- MODULE ScreenProofs ----------------------------
(***************************************************************************)
(* Theorems about Screen for every size of the screen and every set of     *)
(* characters: the cursor stays on the screen however keys and messages of *)
(* the kernel mix, and what the screen shows implements Teletype.          *)
(***************************************************************************)
EXTENDS Screen, Integers, SequenceTheorems, TLAPS

-----------------------------------------------------------------------------
(* The inductive invariant.  A key may be echoed between any two accesses  *)
(* of kmain()'s call, and what the call has loaded may be old by then: for *)
(* each access it is said where the cursor can be and what can be loaded.  *)
(* Going back is the hard part: between the access that finds the cursor   *)
(* behind the screen and the one that moves it back, backspaces may take   *)
(* it up, but no further than the characters typed before.                 *)

Within == {"none", "over", "load row", "load column", "store cell", "load x",
           "store x", "load y", "store y", "scroll"}
RightOf == {"test x", "start line"}
Below == {"test y", "clear x", "load y again", "decrease y"}

BlankBehind(mem) == \A i \in Memory : i >= At(0, VGA_HEIGTH + 1) => mem[i] = Blank

TypeOK ==
  /\ vga_memory \in [Memory -> Char \cup {Blank}]
  /\ VGA_x \in 0 .. VGA_WIDTH /\ VGA_y \in 0 .. VGA_HEIGTH
  /\ kmain \in [next : Within \cup RightOf \cup Below, c : Char \cup {Newline, Blank},
                loaded : Nat]
  /\ typed \in 0 .. MAX_TYPED

(* n backspaces from the place of s do not lead before cell b. *)
High(s, n, b) == At(s.x, s.y) >= b + n
NotAbove(b) == High(Now, typed, b)
Bound(y) == At(0, y) - MAX_TYPED
Bounds == {Bound(VGA_HEIGTH - 1), Bound(VGA_HEIGTH - 2)}

CursorInPlace ==
  /\ kmain.next \in Within => VGA_x < VGA_WIDTH /\ VGA_y < VGA_HEIGTH
  /\ kmain.next \in RightOf => VGA_y < VGA_HEIGTH
  /\ kmain.next \in Below => VGA_x < VGA_WIDTH
  /\ kmain.next = "clear x" => NotAbove(Bound(VGA_HEIGTH - 1))
  /\ kmain.next = "load y again" => NotAbove(Bound(VGA_HEIGTH - 2))

LoadedInPlace ==
  /\ kmain.next \in {"load row", "load column", "store cell"} => kmain.c \in Char
  /\ kmain.next \in {"load column", "decrease y"} => kmain.loaded < VGA_HEIGTH
  /\ kmain.next \in {"store cell", "scroll"} => kmain.loaded \in Cells
  /\ kmain.next = "store x" => kmain.loaded <= VGA_WIDTH
  /\ kmain.next = "store y" => kmain.loaded <= VGA_HEIGTH

IInv ==
  /\ TypeOK
  /\ BlankBehind(vga_memory)
  /\ CursorInPlace
  /\ LoadedInPlace
-----------------------------------------------------------------------------
(* Cells.                                                                  *)

(* The cell of a place on the screen, right of it or in the line behind.   *)
LEMMA CellOfPlace ==
  ASSUME NEW x \in 0 .. VGA_WIDTH, NEW y \in 0 .. VGA_HEIGTH,
         x = VGA_WIDTH => y < VGA_HEIGTH
  PROVE  /\ At(x, y) \in Memory
         /\ At(x, y) < At(0, VGA_HEIGTH + 1)
         /\ x < VGA_WIDTH /\ y < VGA_HEIGTH => At(x, y) \in Cells
<1>1. VGA_WIDTH \in Nat /\ VGA_WIDTH > 0 /\ VGA_HEIGTH \in Nat
  BY ScreenAssumption
<1>2. \A n, k \in Nat : n <= k => n * VGA_WIDTH <= k * VGA_WIDTH
  BY <1>1
<1>3. /\ (y + 1) * VGA_WIDTH = y * VGA_WIDTH + VGA_WIDTH
      /\ (VGA_HEIGTH + 1) * VGA_WIDTH = VGA_HEIGTH * VGA_WIDTH + VGA_WIDTH
      /\ (VGA_HEIGTH + 2) * VGA_WIDTH = VGA_HEIGTH * VGA_WIDTH + VGA_WIDTH + VGA_WIDTH
      /\ VGA_WIDTH * VGA_HEIGTH = VGA_HEIGTH * VGA_WIDTH
      /\ VGA_WIDTH * (VGA_HEIGTH + 2) = (VGA_HEIGTH + 2) * VGA_WIDTH
      /\ y * VGA_WIDTH \in Nat /\ VGA_HEIGTH * VGA_WIDTH \in Nat
  BY <1>1
<1>4. y < VGA_HEIGTH => (y + 1) * VGA_WIDTH <= VGA_HEIGTH * VGA_WIDTH
  BY <1>1, <1>2
<1>5. y * VGA_WIDTH <= VGA_HEIGTH * VGA_WIDTH
  BY <1>1, <1>2
<1>6. QED
  BY <1>1, <1>3, <1>4, <1>5 DEF At, Memory, Cells

(* Copying a line up reads inside the memory, and writes to the screen.    *)
LEMMA CellBelow ==
  ASSUME NEW i \in Cells
  PROVE  i \in Memory /\ i + VGA_WIDTH \in Memory /\ i < At(0, VGA_HEIGTH + 1)
<1>1. VGA_WIDTH \in Nat /\ VGA_WIDTH > 0 /\ VGA_HEIGTH \in Nat
  BY ScreenAssumption
<1>2. /\ (VGA_HEIGTH + 1) * VGA_WIDTH = VGA_HEIGTH * VGA_WIDTH + VGA_WIDTH
      /\ VGA_WIDTH * (VGA_HEIGTH + 2) = VGA_HEIGTH * VGA_WIDTH + VGA_WIDTH + VGA_WIDTH
      /\ VGA_WIDTH * VGA_HEIGTH = VGA_HEIGTH * VGA_WIDTH
      /\ VGA_HEIGTH * VGA_WIDTH \in Nat
  BY <1>1
<1>3. QED
  BY <1>1, <1>2 DEF At, Memory, Cells
LEMMA CellNumber ==
  ASSUME NEW i \in Cells
  PROVE  i \in Nat
BY ScreenAssumption DEF Cells

LEMMA FirstCell == 0 \in Cells
<1>1. 0 \in 0 .. VGA_WIDTH /\ 0 \in 0 .. VGA_HEIGTH /\ 0 # VGA_WIDTH /\ 0 < VGA_WIDTH /\ 0 < VGA_HEIGTH
  BY ScreenAssumption
<1>2. At(0, 0) \in Cells
  BY <1>1, CellOfPlace
<1>3. At(0, 0) = 0
  BY ScreenAssumption DEF At
<1>4. QED
  BY <1>2, <1>3

(* Cells are counted row by row.                                           *)
LEMMA RowByRow ==
  ASSUME NEW x \in Nat, NEW y \in Nat
  PROVE  /\ At(0, y) \in Nat /\ At(x, y) = At(0, y) + x
         /\ At(0, y + 1) = At(0, y) + VGA_WIDTH
         /\ y > 0 => At(0, y) = At(0, y - 1) + VGA_WIDTH
         /\ \A r \in Nat : r <= y => At(0, r) <= At(0, y)
<1>1. VGA_WIDTH \in Nat
  BY ScreenAssumption
<1>2. \A n, k \in Nat : n <= k => n * VGA_WIDTH <= k * VGA_WIDTH
  BY <1>1
<1>3. /\ (y + 1) * VGA_WIDTH = y * VGA_WIDTH + VGA_WIDTH
      /\ (y - 1) * VGA_WIDTH = y * VGA_WIDTH - VGA_WIDTH
      /\ y * VGA_WIDTH \in Nat
  BY <1>1
<1>4. QED
  BY <1>1, <1>2, <1>3 DEF At

(* The bounds leave a row above them, and room below for what was typed.   *)
LEMMA BoundIs ==
  /\ Bound(VGA_HEIGTH - 2) \in Nat /\ Bound(VGA_HEIGTH - 2) >= VGA_WIDTH
  /\ Bound(VGA_HEIGTH - 1) = Bound(VGA_HEIGTH - 2) + VGA_WIDTH
  /\ Bound(VGA_HEIGTH - 1) + MAX_TYPED = At(0, VGA_HEIGTH - 1)
  /\ At(0, VGA_HEIGTH - 1) \in Nat /\ At(0, VGA_HEIGTH) = At(0, VGA_HEIGTH - 1) + VGA_WIDTH
<1>1. /\ VGA_WIDTH \in Nat /\ VGA_HEIGTH \in Nat /\ VGA_HEIGTH > 3
      /\ MAX_TYPED \in Nat /\ MAX_TYPED <= VGA_WIDTH * (VGA_HEIGTH - 3)
  BY ScreenAssumption
<1>2. /\ (VGA_HEIGTH - 2) * VGA_WIDTH = VGA_WIDTH * (VGA_HEIGTH - 3) + VGA_WIDTH
      /\ (VGA_HEIGTH - 1) * VGA_WIDTH = VGA_WIDTH * (VGA_HEIGTH - 3) + VGA_WIDTH + VGA_WIDTH
      /\ VGA_HEIGTH * VGA_WIDTH = VGA_WIDTH * (VGA_HEIGTH - 3) + VGA_WIDTH + VGA_WIDTH + VGA_WIDTH
      /\ VGA_WIDTH * (VGA_HEIGTH - 3) \in Nat
  BY <1>1
<1>3. /\ At(0, VGA_HEIGTH - 2) = VGA_WIDTH * (VGA_HEIGTH - 3) + VGA_WIDTH
      /\ At(0, VGA_HEIGTH - 1) = VGA_WIDTH * (VGA_HEIGTH - 3) + VGA_WIDTH + VGA_WIDTH
      /\ At(0, VGA_HEIGTH) = VGA_WIDTH * (VGA_HEIGTH - 3) + VGA_WIDTH + VGA_WIDTH + VGA_WIDTH
  BY <1>1, <1>2 DEF At
<1>4. QED
  BY <1>1, <1>2, <1>3 DEF Bound

(* A store on the screen leaves the memory behind it alone.                *)
LEMMA StoredKeepsBehind ==
  ASSUME NEW mem \in [Memory -> Char \cup {Blank}], BlankBehind(mem),
         NEW i \in Cells, NEW c \in Char \cup {Blank}
  PROVE  /\ [mem EXCEPT ![i] = c] \in [Memory -> Char \cup {Blank}]
         /\ BlankBehind([mem EXCEPT ![i] = c])
<1>1. i \in Memory /\ i \in Nat /\ i < At(0, VGA_HEIGTH + 1)
  BY CellBelow, CellNumber
<1>2. At(0, VGA_HEIGTH + 1) \in Nat
  BY ScreenAssumption DEF At
<1>3. \A j \in Memory : j >= At(0, VGA_HEIGTH + 1) => j # i
  BY <1>1, <1>2 DEF Memory
<1>4. \A j \in Memory : j >= At(0, VGA_HEIGTH + 1) => [mem EXCEPT ![i] = c][j] = Blank
  BY <1>3 DEF BlankBehind
<1>5. QED
  BY <1>1, <1>4 DEF BlankBehind
-----------------------------------------------------------------------------
(* The calls that nothing interrupts, from every place where the cursor    *)
(* can be.                                                                 *)

Screens == [mem : [Memory -> Char \cup {Blank}], x : 0 .. VGA_WIDTH, y : 0 .. VGA_HEIGTH]
Place(s) == s \in Screens /\ BlankBehind(s.mem) /\ (s.x = VGA_WIDTH => s.y < VGA_HEIGTH)

(* A call ends left of the right border, and on the screen if it began     *)
(* there.                                                                  *)
Ends(s, r) ==
  /\ Place(r) /\ r.x < VGA_WIDTH
  /\ s.y < VGA_HEIGTH => r.y < VGA_HEIGTH

LEMMA ScrollKeepsBehind ==
  ASSUME NEW mem \in [Memory -> Char \cup {Blank}], BlankBehind(mem)
  PROVE  /\ scroll_down(mem) \in [Memory -> Char \cup {Blank}]
         /\ BlankBehind(scroll_down(mem))
<1>1. scroll_down(mem) \in [Memory -> Char \cup {Blank}]
  BY CellBelow DEF scroll_down
<1>2. \A i \in Memory : i >= At(0, VGA_HEIGTH + 1) => scroll_down(mem)[i] = mem[i]
  <2>1. TAKE i \in Memory
  <2>2. HAVE i >= At(0, VGA_HEIGTH + 1)
  <2>3. i \notin Cells
    <3>1. SUFFICES ASSUME i \in Cells PROVE FALSE
      OBVIOUS
    <3>2. i < At(0, VGA_HEIGTH + 1) /\ i \in Nat /\ At(0, VGA_HEIGTH + 1) \in Nat
      BY <3>1, CellBelow, ScreenAssumption DEF Memory, At
    <3>3. QED
      BY <2>2, <3>2
  <2>4. QED
    BY <2>3 DEF scroll_down
<1>3. QED
  BY <1>1, <1>2 DEF BlankBehind

(* The tests behind the switch of vga_putchar().                           *)
LEMMA ScrolledEnds ==
  ASSUME NEW mem \in [Memory -> Char \cup {Blank}], BlankBehind(mem),
         NEW x \in 0 .. VGA_WIDTH - 1, NEW y \in 0 .. VGA_HEIGTH + 1
  PROVE  LET r == Scrolled([mem |-> mem, x |-> x, y |-> y]) IN
         /\ Place(r) /\ r.x < VGA_WIDTH
         /\ y <= VGA_HEIGTH => r.y < VGA_HEIGTH
         /\ r.y >= VGA_HEIGTH - 1 \/ (r.y = y /\ r.x = x)
<1> DEFINE s == [mem |-> mem, x |-> x, y |-> y]
<1>1. VGA_WIDTH \in Nat /\ VGA_WIDTH > 0 /\ VGA_HEIGTH \in Nat /\ VGA_HEIGTH > 3
  BY ScreenAssumption
<1>2. CASE y >= VGA_HEIGTH
  <2>1. Scrolled(s) = [mem |-> scroll_down(mem), x |-> 0, y |-> y - 1]
    BY <1>2 DEF Scrolled
  <2>2. y - 1 \in 0 .. VGA_HEIGTH /\ y - 1 >= VGA_HEIGTH - 1 /\ 0 \in 0 .. VGA_WIDTH
    BY <1>1, <1>2
  <2>3. /\ Scrolled(s).mem = scroll_down(mem)
        /\ Scrolled(s).x = 0 /\ Scrolled(s).y = y - 1
        /\ Scrolled(s) \in Screens
    BY <2>1, <2>2, ScrollKeepsBehind DEF Screens
  <2>4. QED
    BY <1>1, <2>2, <2>3, ScrollKeepsBehind DEF Place
<1>3. CASE ~ (y >= VGA_HEIGTH)
  <2>1. Scrolled(s) = s
    BY <1>3 DEF Scrolled
  <2>2. s \in Screens /\ s.mem = mem /\ s.x = x /\ s.y = y
    BY <1>1, <1>3 DEF Screens
  <2>3. QED
    BY <1>1, <1>3, <2>1, <2>2 DEF Place
<1>4. QED
  BY <1>2, <1>3

(* Once a cursor is left of the right border, the tests leave it on the    *)
(* screen: where it is, or in the last line.                               *)
LEMMA SettledKeeps ==
  ASSUME NEW s, s.x \in Nat, s.y \in Nat, s.x < VGA_WIDTH, s.y < VGA_HEIGTH
  PROVE  Settled(s) = s
<1>1. ~ (s.x >= VGA_WIDTH) /\ ~ (s.y >= VGA_HEIGTH)
  BY ScreenAssumption
<1>2. QED
  BY <1>1 DEF Settled, Wrapped, Scrolled

LEMMA SettledEnds ==
  ASSUME NEW s, Place(s), s.x < VGA_WIDTH
  PROVE  LET r == Settled(s) IN
         /\ Place(r) /\ r.x < VGA_WIDTH /\ r.y < VGA_HEIGTH
         /\ r.y >= VGA_HEIGTH - 1 \/ (r.y = s.y /\ r.x = s.x)
<1>1. VGA_WIDTH \in Nat /\ VGA_WIDTH > 0 /\ VGA_HEIGTH \in Nat /\ VGA_HEIGTH > 3
  BY ScreenAssumption
<1>2. /\ s = [mem |-> s.mem, x |-> s.x, y |-> s.y]
      /\ s.mem \in [Memory -> Char \cup {Blank}] /\ BlankBehind(s.mem)
      /\ s.x \in 0 .. VGA_WIDTH /\ s.y \in 0 .. VGA_HEIGTH
  BY DEF Place, Screens
<1>3. s.x \in 0 .. VGA_WIDTH - 1 /\ s.y \in 0 .. VGA_HEIGTH + 1 /\ s.y <= VGA_HEIGTH
  BY <1>1, <1>2
<1>4. Settled(s) = Scrolled(s)
  BY <1>1, <1>3 DEF Settled, Wrapped
<1>5. Scrolled(s) = Scrolled([mem |-> s.mem, x |-> s.x, y |-> s.y])
  BY <1>2
<1>6. QED
  BY <1>2, <1>3, <1>4, <1>5, ScrolledEnds

(* A character: one place to the right, into the next line, or the screen  *)
(* has scrolled.                                                           *)
LEMMA PutEnds ==
  ASSUME NEW s, Place(s), NEW c \in Char \cup {Blank}
  PROVE  LET r == Put(s, c) IN
         /\ Ends(s, r)
         /\ r.y >= VGA_HEIGTH - 1 \/ (r.y = s.y /\ r.x = s.x + 1) \/ r.y = s.y + 1
<1> DEFINE mem == [s.mem EXCEPT ![At(s.x, s.y)] = c]
           x == IF s.x + 1 >= VGA_WIDTH THEN 0 ELSE s.x + 1
           y == IF s.x + 1 >= VGA_WIDTH THEN s.y + 1 ELSE s.y
           w == [mem |-> mem, x |-> x, y |-> y]
<1>1. VGA_WIDTH \in Nat /\ VGA_WIDTH > 0 /\ VGA_HEIGTH \in Nat /\ VGA_HEIGTH > 3
  BY ScreenAssumption
<1>2. /\ s = [mem |-> s.mem, x |-> s.x, y |-> s.y]
      /\ s.mem \in [Memory -> Char \cup {Blank}] /\ BlankBehind(s.mem)
      /\ s.x \in 0 .. VGA_WIDTH /\ s.y \in 0 .. VGA_HEIGTH
      /\ s.x = VGA_WIDTH => s.y < VGA_HEIGTH
  BY DEF Place, Screens
<1>3. At(s.x, s.y) \in Memory /\ At(s.x, s.y) < At(0, VGA_HEIGTH + 1)
  BY <1>2, CellOfPlace
<1>4. mem \in [Memory -> Char \cup {Blank}]
  BY <1>2
<1>5. BlankBehind(mem)
  <2>1. ASSUME NEW i \in Memory, i >= At(0, VGA_HEIGTH + 1)
        PROVE  mem[i] = Blank
    <3>1. i # At(s.x, s.y)
      BY <1>1, <1>3, <2>1 DEF Memory, At
    <3>2. mem[i] = s.mem[i]
      BY <1>2, <3>1
    <3>3. QED
      BY <1>2, <2>1, <3>2 DEF BlankBehind
  <2>2. QED
    BY <2>1 DEF BlankBehind
<1>6. x \in 0 .. VGA_WIDTH - 1 /\ y \in 0 .. VGA_HEIGTH + 1
  BY <1>1, <1>2
<1>7. Put(s, c) = Scrolled(w)
  <2>1. [s EXCEPT !.mem[At(s.x, s.y)] = c, !.x = @ + 1]
          = [mem |-> mem, x |-> s.x + 1, y |-> s.y]
    <3>1. /\ [s EXCEPT !.mem = mem] = [mem |-> mem, x |-> s.x, y |-> s.y]
          /\ [[mem |-> mem, x |-> s.x, y |-> s.y] EXCEPT !.x = s.x + 1]
               = [mem |-> mem, x |-> s.x + 1, y |-> s.y]
      BY <1>2
    <3>2. QED
      BY <3>1, Zenon
  <2>2. Wrapped([mem |-> mem, x |-> s.x + 1, y |-> s.y]) = w
    <3> DEFINE v == [mem |-> mem, x |-> s.x + 1, y |-> s.y]
    <3>1. v.mem = mem /\ v.x = s.x + 1 /\ v.y = s.y /\ v = [mem |-> v.mem, x |-> v.x, y |-> v.y]
      OBVIOUS
    <3> HIDE DEF v
    <3>2. /\ [v EXCEPT !.x = 0] = [mem |-> mem, x |-> 0, y |-> v.y]
          /\ [[mem |-> mem, x |-> 0, y |-> v.y] EXCEPT !.y = v.y + 1]
               = [mem |-> mem, x |-> 0, y |-> v.y + 1]
      BY <3>1
    <3>3. [v EXCEPT !.x = 0, !.y = v.y + 1] = [mem |-> mem, x |-> 0, y |-> v.y + 1]
      BY <3>2, Zenon
    <3>4. Wrapped(v) = w
      BY <3>1, <3>3 DEF Wrapped
    <3>5. QED
      BY <3>4 DEF v
  <2>3. QED
    BY <2>1, <2>2 DEF Put, Settled
<1> HIDE DEF mem
<1>8. /\ Place(Scrolled(w)) /\ Scrolled(w).x < VGA_WIDTH
      /\ y <= VGA_HEIGTH => Scrolled(w).y < VGA_HEIGTH
      /\ Scrolled(w).y >= VGA_HEIGTH - 1 \/ (Scrolled(w).y = y /\ Scrolled(w).x = x)
  BY <1>4, <1>5, <1>6, ScrolledEnds
<1>9. s.y < VGA_HEIGTH => y <= VGA_HEIGTH
  BY <1>1, <1>2
<1>10. QED
  BY <1>7, <1>8, <1>9 DEF Ends

(* A new line begins at its left border or the screen has scrolled.        *)
LEMMA NextLineEnds ==
  ASSUME NEW s, Place(s)
  PROVE  LET r == NextLine(s) IN
         Ends(s, r) /\ (r.y >= VGA_HEIGTH - 1 \/ r.y = s.y + 1)
<1> DEFINE w == [mem |-> s.mem, x |-> 0, y |-> s.y + 1]
<1>1. VGA_WIDTH \in Nat /\ VGA_WIDTH > 0 /\ VGA_HEIGTH \in Nat /\ VGA_HEIGTH > 3
  BY ScreenAssumption
<1>2. /\ s = [mem |-> s.mem, x |-> s.x, y |-> s.y]
      /\ s.mem \in [Memory -> Char \cup {Blank}] /\ BlankBehind(s.mem)
      /\ s.y \in 0 .. VGA_HEIGTH
  BY DEF Place, Screens
<1>3. 0 \in 0 .. VGA_WIDTH - 1 /\ s.y + 1 \in 0 .. VGA_HEIGTH + 1
  BY <1>1, <1>2
<1>4. NextLine(s) = Scrolled(w)
  <2>1. /\ [s EXCEPT !.x = 0] = [mem |-> s.mem, x |-> 0, y |-> s.y]
        /\ [[mem |-> s.mem, x |-> 0, y |-> s.y] EXCEPT !.y = s.y + 1] = w
    BY <1>2
  <2>2. [s EXCEPT !.x = 0, !.y = s.y + 1] = w
    BY <2>1, Zenon
  <2>3. QED
    BY <2>2 DEF NextLine
<1>5. /\ Place(Scrolled(w)) /\ Scrolled(w).x < VGA_WIDTH
      /\ s.y + 1 <= VGA_HEIGTH => Scrolled(w).y < VGA_HEIGTH
      /\ Scrolled(w).y >= VGA_HEIGTH - 1 \/ (Scrolled(w).y = s.y + 1 /\ Scrolled(w).x = 0)
  BY <1>2, <1>3, ScrolledEnds
<1>6. s.y < VGA_HEIGTH => s.y + 1 <= VGA_HEIGTH
  BY <1>1, <1>2
<1>7. QED
  BY <1>4, <1>5, <1>6 DEF Ends

Erased(s) == LET b == Back(s) IN [b EXCEPT !.mem[At(b.x, b.y)] = Blank]
BackspaceIn(s) == Settled(Erased(s))

(* A backspace: one place to the left, or the end of the line above; from  *)
(* the top left corner it leads to the bottom of the screen.               *)
LEMMA ErasedEnds ==
  ASSUME NEW s, Place(s)
  PROVE  LET r == Erased(s) IN
         /\ Ends(s, r)
         /\ \/ r.y = s.y /\ s.x > 0 /\ r.x = s.x - 1
            \/ r.y = s.y - 1 /\ s.x = 0 /\ r.x = VGA_WIDTH - 1
            \/ r.y = VGA_HEIGTH - 1 /\ r.x = VGA_WIDTH - 1 /\ s.y = 0
<1> DEFINE b == Back(s)
           mem == [s.mem EXCEPT ![At(b.x, b.y)] = Blank]
           r == Erased(s)
<1>1. VGA_WIDTH \in Nat /\ VGA_WIDTH > 0 /\ VGA_HEIGTH \in Nat /\ VGA_HEIGTH > 3
  BY ScreenAssumption
<1>2. /\ s = [mem |-> s.mem, x |-> s.x, y |-> s.y]
      /\ s.mem \in [Memory -> Char \cup {Blank}] /\ BlankBehind(s.mem)
      /\ s.x \in 0 .. VGA_WIDTH /\ s.y \in 0 .. VGA_HEIGTH
      /\ s.x = VGA_WIDTH => s.y < VGA_HEIGTH
  BY DEF Place, Screens
<1>3. /\ b = [mem |-> s.mem, x |-> b.x, y |-> b.y]
      /\ \/ b.y = s.y /\ s.x > 0 /\ b.x = s.x - 1
         \/ b.y = s.y - 1 /\ s.x = 0 /\ s.y > 0 /\ b.x = VGA_WIDTH - 1
         \/ b.y = VGA_HEIGTH - 1 /\ b.x = VGA_WIDTH - 1 /\ s.y = 0
  <2>1. CASE s.x > 0
    <3>1. b = [mem |-> s.mem, x |-> s.x - 1, y |-> s.y]
      BY <1>2, <2>1 DEF Back
    <3>2. QED
      BY <2>1, <3>1
  <2>2. CASE ~ (s.x > 0)
    <3>1. b = [mem |-> s.mem, x |-> VGA_WIDTH - 1,
               y |-> IF s.y = 0 THEN VGA_HEIGTH - 1 ELSE s.y - 1]
      BY <1>2, <2>2 DEF Back
    <3>2. QED
      BY <1>1, <1>2, <2>2, <3>1
  <2>3. QED
    BY <2>1, <2>2
<1> HIDE DEF b
<1>4. /\ b.x \in 0 .. VGA_WIDTH /\ b.y \in 0 .. VGA_HEIGTH /\ b.x < VGA_WIDTH
      /\ s.y < VGA_HEIGTH => b.y < VGA_HEIGTH
  BY <1>1, <1>2, <1>3
<1>5. At(b.x, b.y) \in Memory /\ At(b.x, b.y) < At(0, VGA_HEIGTH + 1)
  BY <1>1, <1>4, CellOfPlace
<1>6. r = [mem |-> mem, x |-> b.x, y |-> b.y]
  <2>1. r = [b EXCEPT !.mem = mem]
    BY <1>3 DEF b, Erased
  <2>2. QED
    BY <1>3, <2>1
<1>7. mem \in [Memory -> Char \cup {Blank}] /\ BlankBehind(mem)
  <2>1. mem \in [Memory -> Char \cup {Blank}]
    BY <1>2
  <2>2. \A i \in Memory : mem[i] = s.mem[i] \/ mem[i] = Blank
    BY <1>2
  <2>3. QED
    BY <1>2, <2>1, <2>2 DEF BlankBehind
<1> HIDE DEF mem, r
<1>8. Place(r) /\ r.x = b.x /\ r.y = b.y
  BY <1>1, <1>4, <1>6, <1>7 DEF Place, Screens
<1>9. Ends(s, r) /\ \/ r.y = s.y /\ s.x > 0 /\ r.x = s.x - 1
                    \/ r.y = s.y - 1 /\ s.x = 0 /\ r.x = VGA_WIDTH - 1
                    \/ r.y = VGA_HEIGTH - 1 /\ r.x = VGA_WIDTH - 1 /\ s.y = 0
  BY <1>3, <1>4, <1>8 DEF Ends
<1>10. QED
  BY <1>9 DEF r

(* Behind the screen, where it can be while kmain()'s call is interrupted, *)
(* the screen scrolls under it.                                            *)
LEMMA BackspaceEnds ==
  ASSUME NEW s, Place(s)
  PROVE  LET r == BackspaceIn(s) IN
         /\ Ends(s, r)
         /\ \/ r.y >= VGA_HEIGTH - 1
            \/ r.y = s.y /\ s.x > 0 /\ r.x = s.x - 1
            \/ r.y = s.y - 1 /\ s.x = 0 /\ r.x = VGA_WIDTH - 1
<1> DEFINE e == Erased(s)
           r == BackspaceIn(s)
<1>1. /\ Place(e) /\ e.x < VGA_WIDTH /\ VGA_HEIGTH \in Nat
      /\ \/ e.y = s.y /\ s.x > 0 /\ e.x = s.x - 1
         \/ e.y = s.y - 1 /\ s.x = 0 /\ e.x = VGA_WIDTH - 1
         \/ e.y = VGA_HEIGTH - 1
  BY ErasedEnds, ScreenAssumption DEF Ends
<1>2. r = Settled(e)
  BY DEF BackspaceIn
<1> HIDE DEF e, r
<1>3. /\ Place(r) /\ r.x < VGA_WIDTH /\ r.y < VGA_HEIGTH
      /\ r.y >= VGA_HEIGTH - 1 \/ (r.y = e.y /\ r.x = e.x)
  BY <1>1, <1>2, SettledEnds
<1>4. /\ Ends(s, r)
      /\ \/ r.y >= VGA_HEIGTH - 1
         \/ r.y = s.y /\ s.x > 0 /\ r.x = s.x - 1
         \/ r.y = s.y - 1 /\ s.x = 0 /\ r.x = VGA_WIDTH - 1
  BY <1>1, <1>3 DEF Ends
<1>5. QED
  BY <1>4 DEF r
-----------------------------------------------------------------------------
(* The echo of a key.                                                      *)

(* Whoever is in the last line has room above it.                          *)
LEMMA LastLineIsHigh ==
  ASSUME NEW t, t.x \in Nat, t.y \in Nat, t.y >= VGA_HEIGTH - 1,
         NEW n \in 0 .. MAX_TYPED, NEW b \in Bounds
  PROVE  High(t, n, b)
<1>1. VGA_WIDTH \in Nat /\ VGA_HEIGTH - 1 \in Nat /\ MAX_TYPED \in Nat /\ n \in Nat /\ n <= MAX_TYPED
  BY ScreenAssumption
<1>2. /\ At(0, t.y) \in Nat /\ At(t.x, t.y) = At(0, t.y) + t.x
      /\ At(0, VGA_HEIGTH - 1) <= At(0, t.y)
  BY <1>1, RowByRow
<1>3. b \in Nat /\ b + MAX_TYPED <= At(0, VGA_HEIGTH - 1) /\ At(0, VGA_HEIGTH - 1) \in Nat
  BY <1>1, BoundIs DEF Bounds
<1>4. QED
  BY <1>1, <1>2, <1>3 DEF High

(* The backspaces that are left after a key do not lead before a bound if  *)
(* those before it did not.                                                *)
LEMMA KeysStayHigh ==
  ASSUME NEW s, Place(s), s.x < VGA_WIDTH, NEW n \in 0 .. MAX_TYPED,
         NEW b \in Bounds, High(s, n, b)
  PROVE  /\ \A c \in Char \cup {Blank}, m \in 0 .. MAX_TYPED :
              m <= n + 1 => High(Put(s, c), m, b)
         /\ High(NextLine(s), 0, b)
         /\ n > 0 => High(BackspaceIn(s), n - 1, b)
<1>1. /\ VGA_WIDTH \in Nat /\ VGA_WIDTH > 0 /\ VGA_HEIGTH \in Nat
      /\ MAX_TYPED \in Nat /\ n \in Nat /\ n <= MAX_TYPED /\ 0 \in 0 .. MAX_TYPED
  BY ScreenAssumption
<1>2. s.x \in Nat /\ s.y \in Nat /\ b \in Nat
  BY <1>1, BoundIs DEF Place, Screens, Bounds
<1>3. /\ At(0, s.y) \in Nat /\ At(s.x, s.y) = At(0, s.y) + s.x
      /\ At(0, s.y + 1) = At(0, s.y) + VGA_WIDTH
      /\ s.y > 0 => At(0, s.y) = At(0, s.y - 1) + VGA_WIDTH
      /\ At(s.x, s.y) >= b + n
  BY <1>2, RowByRow DEF High
<1>4. ASSUME NEW c \in Char \cup {Blank}, NEW m \in 0 .. MAX_TYPED, m <= n + 1
      PROVE  High(Put(s, c), m, b)
  <2> DEFINE t == Put(s, c)
  <2>1. /\ t.x \in Nat /\ t.y \in Nat
        /\ t.y >= VGA_HEIGTH - 1 \/ (t.y = s.y /\ t.x = s.x + 1) \/ t.y = s.y + 1
    BY PutEnds DEF Ends, Place, Screens
  <2> HIDE DEF t
  <2>2. At(t.x, t.y) = At(0, t.y) + t.x
    BY <2>1, RowByRow
  <2>3. CASE t.y >= VGA_HEIGTH - 1
    BY <2>1, <2>3, LastLineIsHigh DEF t
  <2>4. CASE (t.y = s.y /\ t.x = s.x + 1) \/ t.y = s.y + 1
    <3>1. At(t.x, t.y) >= b + m
      BY <1>1, <1>2, <1>3, <1>4, <2>1, <2>2, <2>4
    <3>2. QED
      BY <3>1 DEF High, t
  <2>5. QED
    BY <2>1, <2>3, <2>4
<1>5. High(NextLine(s), 0, b)
  <2> DEFINE t == NextLine(s)
  <2>1. t.x \in Nat /\ t.y \in Nat /\ (t.y >= VGA_HEIGTH - 1 \/ t.y = s.y + 1)
    BY NextLineEnds DEF Ends, Place, Screens
  <2> HIDE DEF t
  <2>2. At(t.x, t.y) = At(0, t.y) + t.x
    BY <2>1, RowByRow
  <2>3. CASE t.y >= VGA_HEIGTH - 1
    BY <1>1, <2>1, <2>3, LastLineIsHigh DEF t
  <2>4. CASE t.y = s.y + 1
    <3>1. At(t.x, t.y) >= b + 0
      BY <1>1, <1>2, <1>3, <2>1, <2>2, <2>4
    <3>2. QED
      BY <3>1 DEF High, t
  <2>5. QED
    BY <2>1, <2>3, <2>4
<1>6. ASSUME n > 0
      PROVE  High(BackspaceIn(s), n - 1, b)
  <2> DEFINE t == BackspaceIn(s)
  <2>1. /\ t.x \in Nat /\ t.y \in Nat
        /\ \/ t.y >= VGA_HEIGTH - 1
           \/ t.y = s.y /\ s.x > 0 /\ t.x = s.x - 1
           \/ t.y = s.y - 1 /\ s.x = 0 /\ t.x = VGA_WIDTH - 1
    BY BackspaceEnds DEF Ends, Place, Screens
  <2> HIDE DEF t
  <2>2. At(t.x, t.y) = At(0, t.y) + t.x
    BY <2>1, RowByRow
  <2>3. CASE t.y >= VGA_HEIGTH - 1
    <3>1. n - 1 \in 0 .. MAX_TYPED
      BY <1>1, <1>6
    <3>2. QED
      BY <2>1, <2>3, <3>1, LastLineIsHigh DEF t
  <2>4. CASE ~ (t.y >= VGA_HEIGTH - 1)
    <3>1. ASSUME t.y = s.y, t.x = s.x - 1
          PROVE  At(t.x, t.y) >= b + (n - 1)
      BY <1>1, <1>2, <1>3, <1>6, <2>1, <2>2, <3>1
    <3>2. ASSUME t.y = s.y - 1, s.x = 0, t.x = VGA_WIDTH - 1
          PROVE  At(t.x, t.y) >= b + (n - 1)
      <4>1. s.y > 0 /\ At(t.x, t.y) = At(0, s.y - 1) + (VGA_WIDTH - 1)
        BY <1>2, <2>1, <2>2, <3>2
      <4>2. At(0, s.y - 1) \in Nat
        BY <2>1, <3>2, RowByRow
      <4>3. QED
        BY <1>1, <1>2, <1>3, <1>6, <3>2, <4>1, <4>2
    <3>3. At(t.x, t.y) >= b + (n - 1)
      BY <2>1, <2>4, <3>1, <3>2
    <3>4. QED
      BY <3>3 DEF High, t
  <2>5. QED
    BY <2>3, <2>4
<1>7. QED
  BY <1>4, <1>5, <1>6

(* The tests behind a call do not take the cursor up.                      *)
LEMMA SettledStaysHigh ==
  ASSUME NEW s, Place(s), s.x < VGA_WIDTH, NEW n \in 0 .. MAX_TYPED,
         NEW b \in Bounds, High(s, n, b)
  PROVE  High(Settled(s), n, b)
<1> DEFINE t == Settled(s)
<1>1. /\ t.x \in Nat /\ t.y \in Nat
      /\ t.y >= VGA_HEIGTH - 1 \/ (t.y = s.y /\ t.x = s.x)
  BY SettledEnds DEF Place, Screens
<1> HIDE DEF t
<1>2. High(t, n, b)
  BY <1>1, LastLineIsHigh DEF High
<1>3. QED
  BY <1>2 DEF t

(* A tab is one blank or two, and the tests once more.                     *)
LEMMA TabEnds ==
  ASSUME Place(Now), NEW n \in 0 .. MAX_TYPED, n < MAX_TYPED
  PROVE  /\ Ends(Now, Tabbed)
         /\ Now.x < VGA_WIDTH =>
              \A b \in Bounds : High(Now, n, b) => High(Tabbed, n + 1, b)
<1> DEFINE p == Put(Now, Blank)
           q == Put(p, Blank)
<1>1. Ends(Now, p)
  BY PutEnds
<1>2. Ends(p, q)
  BY <1>1, PutEnds DEF Ends
<1>3. Ends(Now, q)
  BY <1>1, <1>2 DEF Ends
<1>4. n + 1 \in 0 .. MAX_TYPED /\ n + 1 <= n + 1 + 1
  BY ScreenAssumption
<1>5. ASSUME Now.x < VGA_WIDTH, NEW b \in Bounds, High(Now, n, b)
      PROVE  High(p, n + 1, b) /\ High(q, n + 1, b)
  <2>1. High(p, n + 1, b)
    BY <1>4, <1>5, KeysStayHigh
  <2>2. Place(p) /\ p.x < VGA_WIDTH
    BY <1>1 DEF Ends
  <2> HIDE DEF p
  <2>3. High(q, n + 1, b)
    BY <1>4, <2>1, <2>2, KeysStayHigh
  <2>4. QED
    BY <2>1, <2>3
<1> HIDE DEF p, q
<1>6. Tabbed = Settled(p) \/ Tabbed = Settled(q)
  BY DEF Tabbed, p, q
<1>7. ASSUME NEW t \in {p, q}
      PROVE  /\ Ends(Now, Settled(t))
             /\ Now.x < VGA_WIDTH =>
                  \A b \in Bounds : High(Now, n, b) => High(Settled(t), n + 1, b)
  <2>1. Place(t) /\ t.x < VGA_WIDTH
    BY <1>1, <1>3, <1>7 DEF Ends
  <2>2. Ends(Now, Settled(t))
    BY <2>1, SettledEnds DEF Ends
  <2>3. QED
    BY <1>4, <1>5, <1>7, <2>1, <2>2, SettledStaysHigh
<1>8. QED
  BY <1>6, <1>7
(* What is known of the screen as a value.                                 *)
LEMMA NowIsPlace ==
  ASSUME IInv
  PROVE  /\ Place(Now)
         /\ Now = [mem |-> vga_memory, x |-> VGA_x, y |-> VGA_y]
<1>1. VGA_WIDTH \in Nat /\ VGA_HEIGTH \in Nat
  BY ScreenAssumption
<1>2. Now \in Screens
  BY DEF Now, Screens, IInv, TypeOK
<1>3. VGA_x = VGA_WIDTH => VGA_y < VGA_HEIGTH
  <2>1. kmain.next \in Within \cup RightOf \cup Below
    BY DEF IInv, TypeOK
  <2>2. VGA_x = VGA_WIDTH => ~ (VGA_x < VGA_WIDTH)
    BY <1>1
  <2>3. /\ kmain.next \in Within => VGA_x < VGA_WIDTH /\ VGA_y < VGA_HEIGTH
        /\ kmain.next \in RightOf => VGA_y < VGA_HEIGTH
        /\ kmain.next \in Below => VGA_x < VGA_WIDTH
    BY DEF IInv, CursorInPlace
  <2>4. QED
    BY <2>1, <2>2, <2>3
<1>4. QED
  BY <1>2, <1>3 DEF Now, Place, IInv

(* A call that nothing interrupts leaves kmain()'s one where it is.        *)
LEMMA CallKeepsIInv ==
  ASSUME IInv, NEW t, Ends(Now, t), Become(t), UNCHANGED kmain, typed' \in 0 .. MAX_TYPED,
         \/ kmain = Over
         \/ VGA_x < VGA_WIDTH => \A b \in Bounds : High(Now, typed, b) => High(t, typed', b)
  PROVE  IInv'
<1>1. /\ t \in Screens /\ BlankBehind(t.mem) /\ t.x < VGA_WIDTH
      /\ VGA_y < VGA_HEIGTH => t.y < VGA_HEIGTH
  BY DEF Ends, Place, Now
<1>2. TypeOK'
  BY <1>1 DEF IInv, TypeOK, Become, Screens
<1>3. BlankBehind(vga_memory)'
  BY <1>1 DEF Become, BlankBehind
<1>4. LoadedInPlace'
  BY DEF IInv, LoadedInPlace
<1>5. CursorInPlace'
  <2>1. kmain.next \in {"clear x", "load y again"} => kmain # Over
    BY DEF Over, Between
  <2>2. \A b : High(t, typed', b) => NotAbove(b)'
    BY DEF NotAbove, High, Now, Become
  <2>3. VGA_WIDTH \in Nat /\ VGA_HEIGTH \in Nat /\ VGA_y \in Nat /\ t.x \in Nat /\ t.y \in Nat
    BY <1>1, ScreenAssumption DEF IInv, TypeOK, Screens
  <2>4. /\ kmain.next = "clear x" => NotAbove(Bound(VGA_HEIGTH - 1))'
        /\ kmain.next = "load y again" => NotAbove(Bound(VGA_HEIGTH - 2))'
    BY <2>1, <2>2 DEF IInv, CursorInPlace, NotAbove, Bounds, Bound, Below
  <2>5. /\ kmain.next \in Within => t.x < VGA_WIDTH /\ t.y < VGA_HEIGTH
        /\ kmain.next \in RightOf => t.y < VGA_HEIGTH
        /\ kmain.next \in Below => t.x < VGA_WIDTH
    BY <1>1, <2>3 DEF IInv, CursorInPlace
  <2>6. VGA_x' = t.x /\ VGA_y' = t.y /\ kmain' = kmain
    BY DEF Become
  <2>7. QED
    BY <2>4, <2>5, <2>6 DEF CursorInPlace
<1>6. QED
  BY <1>2, <1>3, <1>4, <1>5 DEF IInv

LEMMA WriteIInv ==
  ASSUME IInv, Write
  PROVE  IInv'
<1>1. PICK t \in {Put(Now, c) : c \in Char} \cup {Newlined, Backspaced, Tabbed} : Become(t)
  BY DEF Write
<1>2. Place(Now)
  BY NowIsPlace
<1>4. Ends(Now, t)
  <2>1. CASE t \in {Put(Now, c) : c \in Char}
    BY <1>2, <2>1, PutEnds
  <2>2. CASE t = Newlined
    BY <1>2, <2>2, NextLineEnds DEF Newlined
  <2>3. CASE t = Backspaced
    BY <1>2, <2>3, BackspaceEnds DEF Backspaced, BackspaceIn, Erased
  <2>4. CASE t = Tabbed
    <3>1. Ends(Now, Put(Now, Blank))
      BY <1>2, PutEnds
    <3>2. Ends(Now, Put(Put(Now, Blank), Blank))
      BY <3>1, PutEnds DEF Ends
    <3>3. ASSUME NEW u, Ends(Now, u) PROVE Ends(Now, Settled(u))
      BY <3>3, SettledEnds DEF Ends
    <3>4. QED
      BY <2>4, <3>1, <3>2, <3>3 DEF Tabbed
  <2>5. QED
    BY <1>1, <2>1, <2>2, <2>3, <2>4
<1>5. typed' \in 0 .. MAX_TYPED /\ UNCHANGED kmain /\ kmain = Over
  BY DEF IInv, TypeOK, Write
<1>6. QED
  BY <1>1, <1>4, <1>5, CallKeepsIInv

LEMMA EchoIInv ==
  ASSUME IInv, EchoChar \/ EchoNewline \/ EchoBackspace
  PROVE  IInv'
<1>1. Place(Now) /\ typed \in 0 .. MAX_TYPED /\ Now.x = VGA_x
  BY NowIsPlace DEF IInv, TypeOK
<1>2. MAX_TYPED \in Nat
  BY ScreenAssumption
<1>3. CASE EchoChar
  <2>1. PICK t \in {Put(Now, c) : c \in Char} \cup {Tabbed} : Echo(t, typed + 1)
    BY <1>3 DEF EchoChar
  <2>2. typed < MAX_TYPED /\ typed + 1 \in 0 .. MAX_TYPED
    BY <1>1, <1>2, <1>3 DEF EchoChar
  <2>3. /\ Ends(Now, t)
        /\ VGA_x < VGA_WIDTH =>
             \A b \in Bounds : High(Now, typed, b) => High(t, typed + 1, b)
    <3>1. CASE t = Tabbed
      BY <1>1, <2>2, <3>1, TabEnds
    <3>2. ASSUME NEW c \in Char, t = Put(Now, c)
          PROVE  /\ Ends(Now, t)
                 /\ VGA_x < VGA_WIDTH =>
                      \A b \in Bounds : High(Now, typed, b) => High(t, typed + 1, b)
      <4>1. Ends(Now, t)
        BY <1>1, <3>2, PutEnds
      <4>2. typed + 1 <= typed + 1
        BY <1>1, <1>2
      <4>3. QED
        BY <1>1, <2>2, <3>2, <4>1, <4>2, KeysStayHigh
    <3>3. QED
      BY <2>1, <3>1, <3>2
  <2>4. Become(t) /\ UNCHANGED kmain /\ typed' = typed + 1
    BY <2>1 DEF Echo
  <2>5. QED
    BY <2>2, <2>3, <2>4, CallKeepsIInv
<1>4. CASE EchoNewline
  <2>1. /\ Ends(Now, Newlined)
        /\ VGA_x < VGA_WIDTH =>
             \A b \in Bounds : High(Now, typed, b) => High(Newlined, 0, b)
    BY <1>1, NextLineEnds, KeysStayHigh DEF Newlined
  <2>2. Become(Newlined) /\ UNCHANGED kmain /\ typed' = 0 /\ 0 \in 0 .. MAX_TYPED
    BY <1>2, <1>4 DEF EchoNewline, Echo
  <2>3. QED
    BY <2>1, <2>2, CallKeepsIInv
<1>5. CASE EchoBackspace
  <2>1. typed > 0 /\ typed - 1 \in 0 .. MAX_TYPED
    BY <1>1, <1>2, <1>5 DEF EchoBackspace
  <2>2. Backspaced = BackspaceIn(Now)
    BY DEF Backspaced, BackspaceIn, Erased
  <2>3. /\ Ends(Now, Backspaced)
        /\ VGA_x < VGA_WIDTH =>
             \A b \in Bounds : High(Now, typed, b) => High(Backspaced, typed - 1, b)
    BY <1>1, <2>1, <2>2, BackspaceEnds, KeysStayHigh
  <2>4. Become(Backspaced) /\ UNCHANGED kmain /\ typed' = typed - 1
    BY <1>5 DEF EchoBackspace, Echo
  <2>5. QED
    BY <2>1, <2>3, <2>4, CallKeepsIInv
<1>6. QED
  BY <1>3, <1>4, <1>5
-----------------------------------------------------------------------------
(* kmain()'s call, access by access.                                       *)

LEMMA DidIs ==
  ASSUME NEW s, NEW k, k = [next |-> k.next, c |-> k.c, loaded |-> k.loaded],
         NEW next, NEW loaded
  PROVE  /\ Did(s, k, next, loaded).s = s
         /\ Did(s, k, next, loaded).k = [next |-> next, c |-> k.c, loaded |-> loaded]
<1>1. /\ [k EXCEPT !.next = next] = [next |-> next, c |-> k.c, loaded |-> k.loaded]
      /\ [[next |-> next, c |-> k.c, loaded |-> k.loaded] EXCEPT !.loaded = loaded]
           = [next |-> next, c |-> k.c, loaded |-> loaded]
  OBVIOUS
<1>2. [k EXCEPT !.next = next, !.loaded = loaded] = [next |-> next, c |-> k.c, loaded |-> loaded]
  BY <1>1, Zenon
<1>3. QED
  BY <1>2 DEF Did
(* What an access changes.                                                 *)
Reached(mem, x, y, next, loaded) ==
  /\ vga_memory' = mem /\ VGA_x' = x /\ VGA_y' = y
  /\ kmain' = [next |-> next, c |-> kmain.c, loaded |-> loaded]
  /\ typed' = typed

LEMMA AccessReaches ==
  ASSUME IInv, MakeAccess, NEW mem, NEW x, NEW y, NEW next, NEW loaded,
         Access(Now, kmain) = Did([mem |-> mem, x |-> x, y |-> y], kmain, next, loaded)
  PROVE  Reached(mem, x, y, next, loaded)
<1>1. kmain = [next |-> kmain.next, c |-> kmain.c, loaded |-> kmain.loaded]
  BY DEF IInv, TypeOK
<1>2. /\ Access(Now, kmain).s = [mem |-> mem, x |-> x, y |-> y]
      /\ Access(Now, kmain).k = [next |-> next, c |-> kmain.c, loaded |-> loaded]
  BY <1>1, DidIs
<1>3. QED
  BY <1>2 DEF MakeAccess, Become, Reached

(* The call returns.                                                       *)
LEMMA AccessReturns ==
  ASSUME IInv, MakeAccess, NEW mem, NEW x, NEW y,
         Access(Now, kmain) = End([mem |-> mem, x |-> x, y |-> y])
  PROVE  vga_memory' = mem /\ VGA_x' = x /\ VGA_y' = y /\ kmain' = Between /\ typed' = typed
BY DEF MakeAccess, Become, End

(* The numbers that an invariant of the screen speaks of.                  *)
LEMMA Numbers ==
  ASSUME IInv
  PROVE  /\ VGA_WIDTH \in Nat /\ VGA_WIDTH > 0 /\ VGA_HEIGTH \in Nat /\ VGA_HEIGTH > 3
         /\ VGA_x \in 0 .. VGA_WIDTH /\ VGA_y \in 0 .. VGA_HEIGTH
         /\ typed \in Nat /\ typed <= MAX_TYPED /\ MAX_TYPED \in Nat
         /\ kmain.loaded \in Nat
BY ScreenAssumption DEF IInv, TypeOK

(* What the invariant asks of the place and of the loaded value.           *)
Fits(x, y, next, loaded) ==
  /\ x \in 0 .. VGA_WIDTH /\ y \in 0 .. VGA_HEIGTH /\ loaded \in Nat
  /\ next \in Within \cup RightOf \cup Below
  /\ next \in Within => x < VGA_WIDTH /\ y < VGA_HEIGTH
  /\ next \in RightOf => y < VGA_HEIGTH
  /\ next \in Below => x < VGA_WIDTH
  /\ next = "clear x" => At(x, y) >= Bound(VGA_HEIGTH - 1) + typed
  /\ next = "load y again" => At(x, y) >= Bound(VGA_HEIGTH - 2) + typed
  /\ next \in {"load row", "load column", "store cell"} => kmain.c \in Char
  /\ next \in {"load column", "decrease y"} => loaded < VGA_HEIGTH
  /\ next \in {"store cell", "scroll"} => loaded \in Cells
  /\ next = "store x" => loaded <= VGA_WIDTH
  /\ next = "store y" => loaded <= VGA_HEIGTH

LEMMA ReachedIInv ==
  ASSUME IInv, NEW mem, NEW x, NEW y, NEW next, NEW loaded,
         Reached(mem, x, y, next, loaded), Fits(x, y, next, loaded),
         mem \in [Memory -> Char \cup {Blank}], BlankBehind(mem)
  PROVE  IInv'
<1>1. TypeOK'
  BY DEF IInv, TypeOK, Reached, Fits
<1>2. BlankBehind(vga_memory)'
  BY DEF Reached, BlankBehind
<1>3. LoadedInPlace'
  BY DEF Reached, Fits, LoadedInPlace
<1>4. CursorInPlace'
  <2>1. /\ NotAbove(Bound(VGA_HEIGTH - 1))' <=> At(x, y) >= Bound(VGA_HEIGTH - 1) + typed
        /\ NotAbove(Bound(VGA_HEIGTH - 2))' <=> At(x, y) >= Bound(VGA_HEIGTH - 2) + typed
    BY DEF NotAbove, High, Now, Reached, Bound
  <2>2. QED
    BY <2>1 DEF Reached, Fits, CursorInPlace
<1>5. QED
  BY <1>1, <1>2, <1>3, <1>4 DEF IInv

Loads == {"load row", "load column", "load x", "test x", "load y", "load y again"}
Lasts == {"test y", "scroll"}
Stores == {"store cell", "store x", "start line", "store y", "clear x", "decrease y"}

(* Loads and tests: the screen stays as it is.                             *)
LEMMA LoadIInv ==
  ASSUME IInv, MakeAccess,
         kmain.next \in Loads
  PROVE  IInv'
<1>1. Now = [mem |-> vga_memory, x |-> VGA_x, y |-> VGA_y]
  BY DEF Now
<1>2. vga_memory \in [Memory -> Char \cup {Blank}] /\ BlankBehind(vga_memory)
  BY DEF IInv, TypeOK
<1>0. /\ VGA_WIDTH \in Nat /\ VGA_WIDTH > 0 /\ VGA_HEIGTH \in Nat /\ VGA_HEIGTH > 3
      /\ VGA_x \in 0 .. VGA_WIDTH /\ VGA_y \in 0 .. VGA_HEIGTH
      /\ typed \in Nat /\ typed <= MAX_TYPED /\ MAX_TYPED \in Nat
      /\ kmain.loaded \in Nat
  BY Numbers
<1> USE DEF Fits, Within, RightOf, Below
<1>3. CASE kmain.next = "load row"
  <2>1. Reached(vga_memory, VGA_x, VGA_y, "load column", VGA_y)
    BY <1>1, <1>3, AccessReaches DEF Access
  <2>2. kmain.c \in Char /\ VGA_x < VGA_WIDTH /\ VGA_y < VGA_HEIGTH
    BY <1>3 DEF IInv, CursorInPlace, LoadedInPlace
  <2>3. Fits(VGA_x, VGA_y, "load column", VGA_y)
    BY <2>2, <1>0
  <2>4. QED
    BY <1>2, <2>1, <2>3, ReachedIInv
<1>4. CASE kmain.next = "load column"
  <2>1. Reached(vga_memory, VGA_x, VGA_y, "store cell", At(VGA_x, kmain.loaded))
    BY <1>1, <1>4, AccessReaches DEF Access
  <2>2. /\ kmain.c \in Char /\ VGA_x < VGA_WIDTH /\ VGA_y < VGA_HEIGTH
        /\ kmain.loaded < VGA_HEIGTH
    BY <1>4 DEF IInv, CursorInPlace, LoadedInPlace
  <2>3. kmain.loaded \in 0 .. VGA_HEIGTH /\ VGA_x # VGA_WIDTH
    BY <2>2, <1>0
  <2>4. At(VGA_x, kmain.loaded) \in Cells
    BY <2>2, <2>3, <1>0, CellOfPlace
  <2>5. At(VGA_x, kmain.loaded) \in Nat
    BY <2>4, CellNumber
  <2>6. Fits(VGA_x, VGA_y, "store cell", At(VGA_x, kmain.loaded))
    BY <2>2, <2>4, <2>5, <1>0
  <2>7. QED
    BY <1>2, <2>1, <2>6, ReachedIInv
<1>5. CASE kmain.next = "load x"
  <2>1. Reached(vga_memory, VGA_x, VGA_y, "store x", VGA_x + 1)
    BY <1>1, <1>5, AccessReaches DEF Access
  <2>2. VGA_x < VGA_WIDTH /\ VGA_y < VGA_HEIGTH
    BY <1>5 DEF IInv, CursorInPlace, LoadedInPlace
  <2>3. Fits(VGA_x, VGA_y, "store x", VGA_x + 1)
    BY <2>2, <1>0
  <2>4. QED
    BY <1>2, <2>1, <2>3, ReachedIInv
<1>6. CASE kmain.next = "test x"
  <2>1. VGA_y < VGA_HEIGTH
    BY <1>6 DEF IInv, CursorInPlace
  <2>2. CASE VGA_x >= VGA_WIDTH
    <3>1. Reached(vga_memory, VGA_x, VGA_y, "start line", 0)
      BY <1>1, <1>6, <2>2, AccessReaches DEF Access
    <3>2. Fits(VGA_x, VGA_y, "start line", 0)
      BY <2>1, <1>0
    <3>3. QED
      BY <1>2, <3>1, <3>2, ReachedIInv
  <2>3. CASE ~ (VGA_x >= VGA_WIDTH)
    <3>1. Reached(vga_memory, VGA_x, VGA_y, "test y", 0)
      BY <1>1, <1>6, <2>3, AccessReaches DEF Access
    <3>2. Fits(VGA_x, VGA_y, "test y", 0)
      BY <2>1, <2>3, <1>0
    <3>3. QED
      BY <1>2, <3>1, <3>2, ReachedIInv
  <2>4. QED
    BY <2>2, <2>3
<1>7. CASE kmain.next = "load y"
  <2>1. Reached(vga_memory, VGA_x, VGA_y, "store y", VGA_y + 1)
    BY <1>1, <1>7, AccessReaches DEF Access
  <2>2. VGA_x < VGA_WIDTH /\ VGA_y < VGA_HEIGTH
    BY <1>7 DEF IInv, CursorInPlace, LoadedInPlace
  <2>3. Fits(VGA_x, VGA_y, "store y", VGA_y + 1)
    BY <2>2, <1>0
  <2>4. QED
    BY <1>2, <2>1, <2>3, ReachedIInv
<1>8. CASE kmain.next = "load y again"
  <2>1. Reached(vga_memory, VGA_x, VGA_y, "decrease y", VGA_y - 1)
    BY <1>1, <1>8, AccessReaches DEF Access
  <2>2. VGA_x < VGA_WIDTH /\ NotAbove(Bound(VGA_HEIGTH - 2))
    BY <1>8 DEF IInv, CursorInPlace
  <2>3. VGA_y > 0
    <3>1. At(VGA_x, VGA_y) = At(0, VGA_y) + VGA_x /\ At(0, VGA_y) \in Nat /\ At(0, 0) = 0
      <4>1. VGA_x \in Nat /\ VGA_y \in Nat
        BY <1>0
      <4>2. QED
        BY <1>0, <4>1, RowByRow DEF At
    <3>2. At(VGA_x, VGA_y) >= Bound(VGA_HEIGTH - 2) + typed
      BY <2>2 DEF NotAbove, High, Now
    <3>3. At(0, VGA_y) + VGA_x >= VGA_WIDTH
      BY <1>0, <3>1, <3>2, BoundIs
    <3>4. QED
      BY <2>2, <3>1, <3>3, <1>0
  <2>4. Fits(VGA_x, VGA_y, "decrease y", VGA_y - 1)
    BY <2>2, <2>3, <1>0
  <2>5. QED
    BY <1>2, <2>1, <2>4, ReachedIInv
<1>9. QED
  BY <1>3, <1>4, <1>5, <1>6, <1>7, <1>8 DEF Loads

(* Stores.  The cell that is written is on the screen.                     *)
LEMMA StoreIInv ==
  ASSUME IInv, MakeAccess,
         kmain.next \in Stores
  PROVE  IInv'
<1>1. vga_memory \in [Memory -> Char \cup {Blank}] /\ BlankBehind(vga_memory)
  BY DEF IInv, TypeOK
<1>0. /\ VGA_WIDTH \in Nat /\ VGA_WIDTH > 0 /\ VGA_HEIGTH \in Nat /\ VGA_HEIGTH > 3
      /\ VGA_x \in 0 .. VGA_WIDTH /\ VGA_y \in 0 .. VGA_HEIGTH
      /\ typed \in Nat /\ typed <= MAX_TYPED /\ MAX_TYPED \in Nat
      /\ kmain.loaded \in Nat
  BY Numbers
<1> USE DEF Fits, Within, RightOf, Below
<1>3. CASE kmain.next = "store cell"
  <2> DEFINE mem == [vga_memory EXCEPT ![kmain.loaded] = kmain.c]
  <2>1. [Now EXCEPT !.mem[kmain.loaded] = kmain.c] = [mem |-> mem, x |-> VGA_x, y |-> VGA_y]
    BY DEF Now
  <2>2. Reached(mem, VGA_x, VGA_y, "load x", 0)
    BY <1>3, <2>1, AccessReaches DEF Access
  <2>3. /\ kmain.c \in Char /\ VGA_x < VGA_WIDTH /\ VGA_y < VGA_HEIGTH
        /\ kmain.loaded \in Cells
    BY <1>3 DEF IInv, CursorInPlace, LoadedInPlace
  <2>4. mem \in [Memory -> Char \cup {Blank}] /\ BlankBehind(mem)
    BY <1>1, <2>3, StoredKeepsBehind
  <2>5. Fits(VGA_x, VGA_y, "load x", 0)
    BY <2>3, <1>0
  <2>6. QED
    BY <2>2, <2>4, <2>5, ReachedIInv
<1>4. CASE kmain.next = "store x"
  <2>1. [Now EXCEPT !.x = kmain.loaded] = [mem |-> vga_memory, x |-> kmain.loaded, y |-> VGA_y]
    BY DEF Now
  <2>2. Reached(vga_memory, kmain.loaded, VGA_y, "test x", 0)
    BY <1>4, <2>1, AccessReaches DEF Access
  <2>3. VGA_y < VGA_HEIGTH /\ kmain.loaded <= VGA_WIDTH
    BY <1>4 DEF IInv, CursorInPlace, LoadedInPlace
  <2>4. Fits(kmain.loaded, VGA_y, "test x", 0)
    BY <2>3, <1>0
  <2>5. QED
    BY <1>1, <2>2, <2>4, ReachedIInv
<1>5. CASE kmain.next = "start line"
  <2>1. [Now EXCEPT !.x = 0] = [mem |-> vga_memory, x |-> 0, y |-> VGA_y]
    BY DEF Now
  <2>2. Reached(vga_memory, 0, VGA_y, "load y", 0)
    BY <1>5, <2>1, AccessReaches DEF Access
  <2>3. VGA_y < VGA_HEIGTH
    BY <1>5 DEF IInv, CursorInPlace, LoadedInPlace
  <2>4. Fits(0, VGA_y, "load y", 0)
    BY <2>3, <1>0
  <2>5. QED
    BY <1>1, <2>2, <2>4, ReachedIInv
<1>6. CASE kmain.next = "store y"
  <2>1. [Now EXCEPT !.y = kmain.loaded] = [mem |-> vga_memory, x |-> VGA_x, y |-> kmain.loaded]
    BY DEF Now
  <2>2. Reached(vga_memory, VGA_x, kmain.loaded, "test y", 0)
    BY <1>6, <2>1, AccessReaches DEF Access
  <2>3. VGA_x < VGA_WIDTH /\ kmain.loaded <= VGA_HEIGTH
    BY <1>6 DEF IInv, CursorInPlace, LoadedInPlace
  <2>4. Fits(VGA_x, kmain.loaded, "test y", 0)
    BY <2>3, <1>0
  <2>5. QED
    BY <1>1, <2>2, <2>4, ReachedIInv
<1>7. CASE kmain.next = "clear x"
  <2>1. [Now EXCEPT !.x = 0] = [mem |-> vga_memory, x |-> 0, y |-> VGA_y]
    BY DEF Now
  <2>2. Reached(vga_memory, 0, VGA_y, "load y again", 0)
    BY <1>7, <2>1, AccessReaches DEF Access
  <2>3. NotAbove(Bound(VGA_HEIGTH - 1))
    BY <1>7 DEF IInv, CursorInPlace, LoadedInPlace
  <2>4. At(0, VGA_y) >= Bound(VGA_HEIGTH - 2) + typed
    <3>1. At(VGA_x, VGA_y) >= Bound(VGA_HEIGTH - 1) + typed
      BY <2>3 DEF NotAbove, High, Now
    <3>2. At(VGA_x, VGA_y) = At(0, VGA_y) + VGA_x /\ At(0, VGA_y) \in Nat
      <4>1. VGA_x \in Nat /\ VGA_y \in Nat
        BY <1>0
      <4>2. QED
        BY <4>1, RowByRow
    <3>3. QED
      BY <3>1, <3>2, <1>0, BoundIs
  <2>6. Fits(0, VGA_y, "load y again", 0)
    BY <2>4, <1>0
  <2>5. QED
    BY <1>1, <2>2, <2>6, ReachedIInv
<1>8. CASE kmain.next = "decrease y"
  <2>1. [Now EXCEPT !.y = kmain.loaded] = [mem |-> vga_memory, x |-> VGA_x, y |-> kmain.loaded]
    BY DEF Now
  <2>2. Reached(vga_memory, VGA_x, kmain.loaded, "scroll", 0)
    BY <1>8, <2>1, AccessReaches DEF Access
  <2>3. VGA_x < VGA_WIDTH /\ kmain.loaded < VGA_HEIGTH
    BY <1>8 DEF IInv, CursorInPlace, LoadedInPlace
  <2>4. Fits(VGA_x, kmain.loaded, "scroll", 0)
    BY <2>3, <1>0, FirstCell
  <2>5. QED
    BY <1>1, <2>2, <2>4, ReachedIInv
<1>9. QED
  BY <1>3, <1>4, <1>5, <1>6, <1>7, <1>8 DEF Stores

(* The call may return: it leaves the cursor on the screen.                *)
LEMMA ReturnIInv ==
  ASSUME IInv, NEW mem, mem \in [Memory -> Char \cup {Blank}], BlankBehind(mem),
         vga_memory' = mem, UNCHANGED <<VGA_x, VGA_y, typed>>, kmain' = Between,
         VGA_x < VGA_WIDTH, VGA_y < VGA_HEIGTH
  PROVE  IInv'
<1>1. Between = [next |-> "none", c |-> Blank, loaded |-> 0]
  BY DEF Between
<1>2. TypeOK'
  BY <1>1 DEF IInv, TypeOK, Within
<1>3. BlankBehind(vga_memory)'
  BY DEF BlankBehind
<1>4. CursorInPlace' /\ LoadedInPlace'
  BY <1>1 DEF CursorInPlace, LoadedInPlace, RightOf, Below
<1>5. QED
  BY <1>2, <1>3, <1>4 DEF IInv

LEMMA LastIInv ==
  ASSUME IInv, MakeAccess, kmain.next \in Lasts
  PROVE  IInv'
<1>0. /\ VGA_WIDTH \in Nat /\ VGA_WIDTH > 0 /\ VGA_HEIGTH \in Nat /\ VGA_HEIGTH > 3
      /\ VGA_x \in 0 .. VGA_WIDTH /\ VGA_y \in 0 .. VGA_HEIGTH
      /\ typed \in Nat /\ typed <= MAX_TYPED /\ MAX_TYPED \in Nat
      /\ kmain.loaded \in Nat
  BY Numbers
<1>1. vga_memory \in [Memory -> Char \cup {Blank}] /\ BlankBehind(vga_memory)
  BY DEF IInv, TypeOK
<1>2. Now = [mem |-> vga_memory, x |-> VGA_x, y |-> VGA_y]
  BY DEF Now
<1> USE DEF Fits, Within, RightOf, Below
<1>3. CASE kmain.next = "test y"
  <2>1. VGA_x < VGA_WIDTH
    BY <1>3 DEF IInv, CursorInPlace
  <2>2. CASE VGA_y >= VGA_HEIGTH
    <3>1. Reached(vga_memory, VGA_x, VGA_y, "clear x", 0)
      BY <1>2, <1>3, <2>2, AccessReaches DEF Access
    <3>2. At(VGA_x, VGA_y) >= Bound(VGA_HEIGTH - 1) + typed
      <4>1. VGA_y \in Nat /\ VGA_x \in Nat /\ VGA_y = VGA_HEIGTH
        BY <1>0, <2>2
      <4>2. At(VGA_x, VGA_y) = At(0, VGA_HEIGTH) + VGA_x
        BY <4>1, RowByRow
      <4>3. QED
        BY <1>0, <4>1, <4>2, BoundIs
    <3>4. Fits(VGA_x, VGA_y, "clear x", 0)
      BY <2>1, <2>2, <3>2, <1>0
    <3>3. QED
      BY <1>1, <3>1, <3>4, ReachedIInv
  <2>3. CASE ~ (VGA_y >= VGA_HEIGTH)
    <3>1. /\ vga_memory' = vga_memory /\ UNCHANGED <<VGA_x, VGA_y, typed>>
          /\ kmain' = Between
      BY <1>2, <1>3, <2>3, AccessReturns DEF Access
    <3>2. VGA_y < VGA_HEIGTH
      BY <2>3, <1>0
    <3>3. QED
      BY <1>1, <2>1, <3>1, <3>2, ReturnIInv
  <2>4. QED
    BY <2>2, <2>3
<1>4. CASE kmain.next = "scroll"
  <2> DEFINE i == kmain.loaded
             mem == [vga_memory EXCEPT ![i] = vga_memory[i + VGA_WIDTH]]
  <2>1. [Now EXCEPT !.mem[i] = vga_memory[i + VGA_WIDTH]]
          = [mem |-> mem, x |-> VGA_x, y |-> VGA_y]
    BY DEF Now
  <2>2. Now.mem = vga_memory
    BY DEF Now
  <2>3. i \in Cells /\ VGA_x < VGA_WIDTH /\ VGA_y < VGA_HEIGTH
    BY <1>4 DEF IInv, CursorInPlace, LoadedInPlace
  <2>4. vga_memory[i + VGA_WIDTH] \in Char \cup {Blank}
    BY <1>1, <2>3, CellBelow
  <2>5. mem \in [Memory -> Char \cup {Blank}] /\ BlankBehind(mem)
    BY <1>1, <2>3, <2>4, StoredKeepsBehind
  <2>6. Access(Now, kmain) =
          IF i + 1 \in Cells
          THEN Did([mem |-> mem, x |-> VGA_x, y |-> VGA_y], kmain, "scroll", i + 1)
          ELSE End([mem |-> mem, x |-> VGA_x, y |-> VGA_y])
    BY <1>4, <2>1, <2>2 DEF Access
  <2> HIDE DEF mem
  <2>7. CASE i + 1 \in Cells
    <3>1. Reached(mem, VGA_x, VGA_y, "scroll", i + 1)
      BY <2>6, <2>7, AccessReaches
    <3>2. Fits(VGA_x, VGA_y, "scroll", i + 1)
      BY <2>3, <2>7, <1>0
    <3>3. QED
      BY <2>5, <3>1, <3>2, ReachedIInv
  <2>8. CASE i + 1 \notin Cells
    <3>1. /\ vga_memory' = mem /\ UNCHANGED <<VGA_x, VGA_y, typed>>
          /\ kmain' = Between
      BY <2>6, <2>8, AccessReturns
    <3>2. QED
      BY <2>3, <2>5, <3>1, ReturnIInv
  <2>9. QED
    BY <2>7, <2>8
<1>5. QED
  BY <1>3, <1>4 DEF Lasts

LEMMA BeginIInv ==
  ASSUME IInv, NEW c \in Char \cup {Newline}, BeginCall(c)
  PROVE  IInv'
<1>1. /\ kmain' = [next |-> IF c = Newline THEN "start line" ELSE "load row",
                    c |-> c, loaded |-> 0]
      /\ kmain = Between /\ UNCHANGED <<vga_memory, VGA_x, VGA_y, typed>>
  BY DEF BeginCall, Starts
<1>2. TypeOK'
  BY <1>1 DEF IInv, TypeOK, Within, RightOf
<1>3. BlankBehind(vga_memory)'
  BY <1>1 DEF IInv, BlankBehind
<1>4. VGA_x < VGA_WIDTH /\ VGA_y < VGA_HEIGTH
  BY <1>1 DEF IInv, CursorInPlace, Between, Within
<1>5. CursorInPlace' /\ LoadedInPlace'
  BY <1>1, <1>4 DEF CursorInPlace, LoadedInPlace, RightOf, Below
<1>6. QED
  BY <1>2, <1>3, <1>5 DEF IInv

LEMMA EnterIInv ==
  ASSUME IInv, EnterUserMode
  PROVE  IInv'
<1>1. /\ kmain' = [next |-> "over", c |-> Blank, loaded |-> 0]
      /\ kmain = Between /\ UNCHANGED <<vga_memory, VGA_x, VGA_y, typed>>
  BY DEF EnterUserMode, Over, Between
<1>2. TypeOK'
  BY <1>1 DEF IInv, TypeOK, Within
<1>3. BlankBehind(vga_memory)'
  BY <1>1 DEF IInv, BlankBehind
<1>4. VGA_x < VGA_WIDTH /\ VGA_y < VGA_HEIGTH
  BY <1>1 DEF IInv, CursorInPlace, Between, Within
<1>5. CursorInPlace' /\ LoadedInPlace'
  BY <1>1, <1>4 DEF CursorInPlace, LoadedInPlace, RightOf, Below
<1>6. QED
  BY <1>2, <1>3, <1>5 DEF IInv
-----------------------------------------------------------------------------
(* The theorem.                                                            *)

LEMMA InitIInv ==
  ASSUME Init
  PROVE  IInv
<1>1. TypeOK
  BY ScreenAssumption DEF Init, TypeOK, Between, Within
<1>2. BlankBehind(vga_memory)
  BY DEF Init, BlankBehind
<1>3. CursorInPlace /\ LoadedInPlace
  BY ScreenAssumption DEF Init, Between, CursorInPlace, LoadedInPlace, RightOf, Below
<1>4. QED
  BY <1>1, <1>2, <1>3 DEF IInv

LEMMA NextIInv ==
  ASSUME IInv, [Next]_vars
  PROVE  IInv'
<1>1. CASE Write
  BY <1>1, WriteIInv
<1>2. CASE EchoChar \/ EchoNewline \/ EchoBackspace
  BY <1>2, EchoIInv
<1>3. ASSUME NEW c \in Char \cup {Newline}, BeginCall(c)
      PROVE  IInv'
  BY <1>3, BeginIInv
<1>4. CASE MakeAccess
  <2>1. kmain.next \in Loads \cup Stores \cup Lasts
    BY <1>4 DEF MakeAccess, IInv, TypeOK, Within, RightOf, Below, Loads, Stores, Lasts
  <2>2. QED
    BY <1>4, <2>1, LoadIInv, StoreIInv, LastIInv
<1>5. CASE EnterUserMode
  BY <1>5, EnterIInv
<1>6. CASE UNCHANGED vars
  <2>1. /\ vga_memory' = vga_memory /\ VGA_x' = VGA_x /\ VGA_y' = VGA_y
        /\ kmain' = kmain /\ typed' = typed
    BY <1>6 DEF vars
  <2>2. TypeOK' /\ BlankBehind(vga_memory)'
    BY <2>1 DEF IInv, TypeOK, BlankBehind
  <2>3. CursorInPlace'
    BY <2>1 DEF IInv, CursorInPlace, NotAbove, High, Now
  <2>4. LoadedInPlace'
    BY <2>1 DEF IInv, LoadedInPlace
  <2>5. QED
    BY <2>2, <2>3, <2>4 DEF IInv
<1>7. QED
  BY <1>1, <1>2, <1>3, <1>4, <1>5, <1>6 DEF Next

LEMMA InductiveInvariant == Spec => []IInv
<1>1. Init => IInv
  BY InitIInv
<1>2. IInv /\ [Next]_vars => IInv'
  BY NextIInv
<1>3. QED
  BY <1>1, <1>2, PTL DEF Spec

(* However the echo of keys mixes with the kernel's own messages, the      *)
(* cursor of vga_putchar() is on the screen between its calls, at most in  *)
(* the line behind it within them, and the memory behind that line is      *)
(* never written.  For every size of the screen, as long as nobody can     *)
(* backspace over more than VGA_HEIGTH - 3 rows between two accesses: that *)
(* is what ScreenAssumption says of MAX_TYPED.                             *)
THEOREM CursorStaysOnScreen == Spec => []CursorReturns
<1>1. IInv => CursorReturns
  BY DEF IInv, TypeOK, BlankBehind, CursorInPlace, CursorReturns, Within
<1>2. QED
  BY <1>1, InductiveInvariant, PTL
-----------------------------------------------------------------------------
(* The rows that a screen shows.                                           *)

Cell == Char \cup {Blank}
Row == Seq(Cell)

(* Row r of screen s: the cursor's up to the cursor.                       *)
RowOf(s, r) ==
  [c \in 1 .. (IF r = s.y + 1 THEN s.x ELSE VGA_WIDTH) |-> s.mem[At(c - 1, r - 1)]]
RowsOf(s) == [r \in 1 .. s.y + 1 |-> RowOf(s, r)]

(* The cursor is on the screen, or right of it.                            *)
Visible(s) == s \in Screens /\ s.y < VGA_HEIGTH

LEMMA Sizes ==
  /\ VGA_WIDTH \in Nat /\ VGA_WIDTH > 0 /\ VGA_WIDTH % 2 = 0
  /\ VGA_HEIGTH \in Nat /\ VGA_HEIGTH > 3
BY ScreenAssumption

(* All but the last, and the last.                                         *)
LEMMA FrontIs ==
  ASSUME NEW S, NEW r \in Seq(S), r # <<>>
  PROVE  /\ Len(r) \in Nat \ {0}
         /\ Abstract!Front(r) \in Seq(S) /\ Len(Abstract!Front(r)) = Len(r) - 1
         /\ \A i \in 1 .. Len(r) - 1 : Abstract!Front(r)[i] = r[i]
         /\ Abstract!Last(r) = r[Len(r)] /\ Abstract!Last(r) \in S
<1>1. Len(r) \in Nat \ {0} /\ \A i \in 1 .. Len(r) : r[i] \in S
  BY EmptySeq, ElementOfSeq
<1>2. \A i \in 1 .. Len(r) - 1 : r[i] \in S
  BY <1>1
<1>3. /\ SubSeq(r, 1, Len(r) - 1) \in Seq(S)
      /\ Len(SubSeq(r, 1, Len(r) - 1)) = (IF 1 <= Len(r) - 1 THEN Len(r) - 1 - 1 + 1 ELSE 0)
      /\ \A i \in 1 .. Len(r) - 1 - 1 + 1 : SubSeq(r, 1, Len(r) - 1)[i] = r[1 + i - 1]
  BY <1>1, <1>2, SubSeqProperties
<1>4. Abstract!Front(r) = SubSeq(r, 1, Len(r) - 1) /\ Abstract!Last(r) = r[Len(r)]
  BY DEF Abstract!Front, Abstract!Last
<1>5. Len(r) - 1 - 1 + 1 = Len(r) - 1 /\ \A i \in 1 .. Len(r) - 1 : 1 + i - 1 = i
  BY <1>1
<1>6. Len(SubSeq(r, 1, Len(r) - 1)) = Len(r) - 1
  <2>1. CASE Len(r) = 1
    <3>1. ~ (1 <= Len(r) - 1) /\ Len(r) - 1 = 0
      BY <2>1
    <3>2. QED
      BY <1>3, <3>1, Zenon
  <2>2. CASE Len(r) # 1
    <3>1. 1 <= Len(r) - 1
      BY <1>1, <2>2
    <3>2. QED
      BY <1>3, <1>5, <3>1, Zenon
  <2>3. QED
    BY <2>1, <2>2
<1>7. \A i \in 1 .. Len(r) - 1 : SubSeq(r, 1, Len(r) - 1)[i] = r[i]
  BY <1>3, <1>5, Zenon
<1>8. r[Len(r)] \in S
  BY <1>1
<1>9. QED
  BY <1>1, <1>3, <1>4, <1>6, <1>7, <1>8, Zenon

(* The last is replaced.                                                   *)
LEMMA LastReplaced ==
  ASSUME NEW S, NEW r \in Seq(S), r # <<>>, NEW e \in S
  PROVE  LET q == Append(Abstract!Front(r), e) IN
         /\ q \in Seq(S) /\ Len(q) = Len(r)
         /\ \A i \in 1 .. Len(r) : q[i] = IF i = Len(r) THEN e ELSE r[i]
<1> DEFINE f == Abstract!Front(r)
<1>1. /\ Len(r) \in Nat \ {0} /\ f \in Seq(S) /\ Len(f) = Len(r) - 1
      /\ \A i \in 1 .. Len(r) - 1 : f[i] = r[i]
  BY FrontIs
<1> HIDE DEF f
<1>2. /\ Append(f, e) \in Seq(S) /\ Len(Append(f, e)) = Len(f) + 1
      /\ \A i \in 1 .. Len(f) : Append(f, e)[i] = f[i]
      /\ Append(f, e)[Len(f) + 1] = e
  BY <1>1, AppendProperties
<1>3. Len(Append(f, e)) = Len(r)
  BY <1>1, <1>2
<1>4. \A i \in 1 .. Len(r) : Append(f, e)[i] = IF i = Len(r) THEN e ELSE r[i]
  BY <1>1, <1>2
<1>5. QED
  BY <1>2, <1>3, <1>4 DEF f

(* Cells are in the order of reading.                                      *)
LEMMA CellOrder ==
  ASSUME NEW x \in 0 .. VGA_WIDTH, NEW y \in 0 .. VGA_HEIGTH + 1,
         NEW u \in 0 .. VGA_WIDTH - 1, NEW v \in 0 .. VGA_HEIGTH + 1
  PROVE  /\ At(x, y) \in Nat /\ At(u, v) \in Nat
         /\ v < y => At(u, v) < At(x, y)
         /\ v = y => (At(u, v) < At(x, y) <=> u < x) /\ (At(u, v) = At(x, y) <=> u = x)
         /\ At(0, y + 1) = At(VGA_WIDTH, y)
         /\ At(u, v) + VGA_WIDTH = At(u, v + 1)
<1>1. \A n, k \in Nat : n <= k => n * VGA_WIDTH <= k * VGA_WIDTH
  BY Sizes
<1>2. /\ (y + 1) * VGA_WIDTH = y * VGA_WIDTH + VGA_WIDTH
      /\ (v + 1) * VGA_WIDTH = v * VGA_WIDTH + VGA_WIDTH
      /\ y * VGA_WIDTH \in Nat /\ v * VGA_WIDTH \in Nat
  BY Sizes
<1>3. v < y => v * VGA_WIDTH + VGA_WIDTH <= y * VGA_WIDTH
  BY <1>1, <1>2, Sizes
<1>4. QED
  BY <1>2, <1>3, Sizes DEF At

LEMMA RowIs ==
  ASSUME NEW s, Visible(s), NEW r \in 1 .. s.y + 1
  PROVE  /\ RowOf(s, r) \in Row
         /\ Len(RowOf(s, r)) = IF r = s.y + 1 THEN s.x ELSE VGA_WIDTH
         /\ \A c \in 1 .. Len(RowOf(s, r)) :
              /\ RowOf(s, r)[c] = s.mem[At(c - 1, r - 1)] /\ At(c - 1, r - 1) \in Cells
              /\ c - 1 \in 0 .. VGA_WIDTH - 1
<1> DEFINE n == IF r = s.y + 1 THEN s.x ELSE VGA_WIDTH
           e(c) == s.mem[At(c - 1, r - 1)]
<1>1. /\ s.x \in 0 .. VGA_WIDTH /\ s.y \in Nat /\ s.y < VGA_HEIGTH
      /\ s.mem \in [Memory -> Cell]
  BY Sizes DEF Visible, Screens, Cell
<1>2. n \in Nat /\ n <= VGA_WIDTH /\ r - 1 \in 0 .. VGA_HEIGTH /\ r - 1 < VGA_HEIGTH
  BY <1>1, Sizes
<1> HIDE DEF n
<1>3. ASSUME NEW c \in 1 .. n
      PROVE  e(c) \in Cell /\ At(c - 1, r - 1) \in Cells /\ c - 1 \in 0 .. VGA_WIDTH - 1
  <2>1. c - 1 \in 0 .. VGA_WIDTH /\ c - 1 < VGA_WIDTH /\ c - 1 # VGA_WIDTH
    BY <1>2, Sizes
  <2>2. At(c - 1, r - 1) \in Memory /\ At(c - 1, r - 1) \in Cells
    BY <1>2, <2>1, CellOfPlace
  <2>3. QED
    BY <1>1, <2>1, <2>2, Sizes
<1>4. RowOf(s, r) = [c \in 1 .. n |-> e(c)]
  BY DEF RowOf, n
<1> HIDE DEF e
<1>5. [c \in 1 .. n |-> e(c)] \in Seq(Cell)
  BY <1>2, <1>3, IsASeq
<1>6. Len([c \in 1 .. n |-> e(c)]) = n
  BY <1>2
<1>7. RowOf(s, r) \in Row /\ Len(RowOf(s, r)) = n
  BY <1>4, <1>5, <1>6 DEF Row
<1>8. \A c \in 1 .. n : RowOf(s, r)[c] = e(c)
  BY <1>4
<1>9. QED
  BY <1>3, <1>7, <1>8 DEF e, n

LEMMA RowsAre ==
  ASSUME NEW s, Visible(s)
  PROVE  /\ RowsOf(s) \in Seq(Row) /\ RowsOf(s) # <<>>
         /\ Len(RowsOf(s)) = s.y + 1 /\ s.y + 1 \in Nat
         /\ \A r \in 1 .. s.y + 1 : RowsOf(s)[r] = RowOf(s, r)
<1> DEFINE e(r) == RowOf(s, r)
           n == s.y + 1
<1>1. n \in Nat /\ n > 0
  BY Sizes DEF Visible, Screens
<1>2. \A r \in 1 .. n : e(r) \in Row
  BY RowIs
<1>3. RowsOf(s) = [r \in 1 .. n |-> e(r)]
  BY DEF RowsOf
<1> HIDE DEF n, e
<1>4. [r \in 1 .. n |-> e(r)] \in Seq(Row)
  BY <1>1, <1>2, IsASeq
<1>5. Len([r \in 1 .. n |-> e(r)]) = n
  BY <1>1
<1>6. RowsOf(s) \in Seq(Row) /\ Len(RowsOf(s)) = n
  BY <1>3, <1>4, <1>5
<1>7. RowsOf(s) # <<>>
  BY <1>1, <1>6, EmptySeq
<1>8. \A r \in 1 .. n : RowsOf(s)[r] = e(r)
  BY <1>3
<1>9. QED
  BY <1>1, <1>6, <1>7, <1>8 DEF n, e

(* The last row is the cursor's.                                           *)
LEMMA LastRow ==
  ASSUME NEW s, Visible(s)
  PROVE  /\ Abstract!Last(RowsOf(s)) = RowOf(s, s.y + 1)
         /\ RowOf(s, s.y + 1) \in Row /\ Len(RowOf(s, s.y + 1)) = s.x
         /\ s.x \in Nat /\ s.x <= VGA_WIDTH /\ s.y \in Nat
<1>1. s.x \in Nat /\ s.x <= VGA_WIDTH /\ s.y \in Nat /\ s.y + 1 \in 1 .. s.y + 1
  BY Sizes DEF Visible, Screens
<1>2. Abstract!Last(RowsOf(s)) = RowsOf(s)[Len(RowsOf(s))]
  BY RowsAre, FrontIs
<1>3. QED
  BY <1>1, <1>2, RowsAre, RowIs

(* Rows are those of a screen if they have its lengths and its cells.      *)
LEMMA RowsEqual ==
  ASSUME NEW s, Visible(s), NEW R \in Seq(Row), Len(R) = s.y + 1,
         \A r \in 1 .. s.y + 1 :
           /\ Len(R[r]) = (IF r = s.y + 1 THEN s.x ELSE VGA_WIDTH)
           /\ \A c \in 1 .. Len(R[r]) : R[r][c] = s.mem[At(c - 1, r - 1)]
  PROVE  R = RowsOf(s)
<1>1. ASSUME NEW r \in 1 .. s.y + 1
      PROVE  R[r] = RowsOf(s)[r]
  <2>1. R[r] \in Row
    BY ElementOfSeq
  <2>2. RowOf(s, r) \in Row /\ Len(RowOf(s, r)) = Len(R[r])
    BY RowIs
  <2>3. \A c \in 1 .. Len(R[r]) : R[r][c] = RowOf(s, r)[c]
    BY <2>2, RowIs
  <2>4. R[r] = RowOf(s, r)
    BY <2>1, <2>2, <2>3, SeqEqual DEF Row
  <2>5. QED
    BY <2>4, RowsAre
<1>2. QED
  BY <1>1, RowsAre, SeqEqual
-----------------------------------------------------------------------------
(* What vga_putchar() does to the rows.                                    *)

(* A row that is full is ended, and of more rows than fit the first is     *)
(* gone: the tests behind the switch.                                      *)
Ended(s) == [mem |-> s.mem, x |-> IF s.x >= VGA_WIDTH THEN 0 ELSE s.x,
             y |-> IF s.x >= VGA_WIDTH THEN s.y + 1 ELSE s.y]

LEMMA OpenedRows ==
  ASSUME NEW s, Visible(s)
  PROVE  Abstract!Open(RowsOf(s)) = RowsOf(Scrolled(Ended(s)))
<1> USE DEF Ended
<1> DEFINE R == RowsOf(s)
           Q == Append(R, <<>>)
           full == [mem |-> s.mem, x |-> 0, y |-> s.y + 1]
           up == [mem |-> scroll_down(s.mem), x |-> 0, y |-> s.y]
<1>1. /\ s = [mem |-> s.mem, x |-> s.x, y |-> s.y]
      /\ s.mem \in [Memory -> Cell] /\ s.x \in 0 .. VGA_WIDTH
      /\ s.y \in Nat /\ s.y < VGA_HEIGTH
  BY Sizes DEF Visible, Screens, Cell
<1>2. /\ R \in Seq(Row) /\ Len(R) = s.y + 1
      /\ \A r \in 1 .. s.y + 1 : R[r] = RowOf(s, r)
      /\ Len(Abstract!Last(R)) = s.x
  BY RowsAre, LastRow
<1> HIDE DEF R
<1>3. CASE s.x < VGA_WIDTH
  <2>1. Abstract!Open(R) = Abstract!Kept(R)
    BY <1>1, <1>2, <1>3, Sizes DEF Abstract!Open
  <2>2. Abstract!Kept(R) = R
    BY <1>1, <1>2, Sizes DEF Abstract!Kept
  <2>3. ~ (s.x >= VGA_WIDTH) /\ ~ (s.y >= VGA_HEIGTH)
    BY <1>1, <1>3, Sizes
  <2>4. Scrolled(s) = s
    BY <2>3 DEF Scrolled
  <2>5. QED
    BY <1>1, <2>1, <2>2, <2>3, <2>4 DEF R
<1>4. CASE s.x = VGA_WIDTH
  <2>1. Abstract!Open(R) = Abstract!Kept(Q)
    BY <1>2, <1>4 DEF Abstract!Open
  <2>2. <<>> \in Row /\ Len(<<>>) = 0
    BY EmptySeq DEF Row
  <2>3. /\ Q \in Seq(Row) /\ Q # <<>> /\ Len(Q) = s.y + 2
        /\ \A r \in 1 .. s.y + 1 : Q[r] = RowOf(s, r)
        /\ Q[s.y + 2] = <<>>
    <3>1. /\ Q \in Seq(Row) /\ Q # <<>> /\ Len(Q) = Len(R) + 1
          /\ \A r \in 1 .. Len(R) : Q[r] = R[r]
          /\ Q[Len(R) + 1] = <<>>
      BY <1>2, <2>2, AppendProperties
    <3>2. Len(R) + 1 = s.y + 2
      BY <1>1, <1>2
    <3>3. QED
      BY <1>2, <3>1, <3>2
  <2> HIDE DEF Q
  <2>4. ASSUME NEW r \in 1 .. s.y + 1
        PROVE  Len(Q[r]) = VGA_WIDTH /\ \A c \in 1 .. VGA_WIDTH :
                 Q[r][c] = s.mem[At(c - 1, r - 1)] /\ At(c - 1, r - 1) \in Cells
    BY <1>4, <2>3, RowIs
  <2>5. s.x >= VGA_WIDTH
    BY <1>4, Sizes
  <2>6. CASE s.y + 1 < VGA_HEIGTH
    <3>1. Abstract!Kept(Q) = Q
      BY <1>1, <2>3, <2>6, Sizes DEF Abstract!Kept
    <3>2. Scrolled(full) = full
      BY <1>1, <2>6, Sizes DEF Scrolled
    <3>3. Visible(full) /\ full.x = 0 /\ full.y = s.y + 1 /\ full.mem = s.mem
      BY <1>1, <2>6, Sizes DEF Visible, Screens, Cell
    <3> HIDE DEF full
    <3>4. ASSUME NEW r \in 1 .. full.y + 1
          PROVE  /\ Len(Q[r]) = (IF r = full.y + 1 THEN full.x ELSE VGA_WIDTH)
                 /\ \A c \in 1 .. Len(Q[r]) : Q[r][c] = full.mem[At(c - 1, r - 1)]
      <4>1. CASE r = s.y + 2
        <5>1. Q[r] = <<>> /\ r = full.y + 1
          BY <1>1, <2>3, <3>3, <4>1
        <5>2. QED
          BY <2>2, <3>3, <5>1
      <4>2. CASE r # s.y + 2
        <5>1. r \in 1 .. s.y + 1 /\ r # full.y + 1
          BY <1>1, <3>3, <4>2
        <5>2. QED
          BY <2>4, <3>3, <5>1
      <4>3. QED
        BY <4>1, <4>2
    <3>5. Len(Q) = full.y + 1
      BY <1>1, <2>3, <3>3
    <3>6. Q = RowsOf(full)
      BY <2>3, <3>3, <3>4, <3>5, RowsEqual
    <3>7. QED
      BY <2>1, <2>5, <3>1, <3>2, <3>6 DEF full, R
  <2>7. CASE s.y + 1 = VGA_HEIGTH
    <3>1. Abstract!Kept(Q) = Tail(Q)
      BY <1>1, <2>3, <2>7, Sizes DEF Abstract!Kept
    <3>2. Scrolled(full) = up
      <4>1. full.y >= VGA_HEIGTH /\ full.y - 1 = s.y /\ full.mem = s.mem
        BY <1>1, <2>7, Sizes
      <4>2. QED
        BY <4>1 DEF Scrolled
    <3>3. scroll_down(s.mem) \in [Memory -> Cell]
      BY <1>1, CellBelow DEF scroll_down
    <3>4. Visible(up) /\ up.x = 0 /\ up.y = s.y /\ up.mem = scroll_down(s.mem)
      BY <1>1, <3>3, Sizes DEF Visible, Screens, Cell
    <3>5. /\ Tail(Q) \in Seq(Row) /\ Len(Tail(Q)) = s.y + 1
          /\ \A r \in 1 .. s.y + 1 : Tail(Q)[r] = Q[r + 1]
      <4>1. /\ Tail(Q) \in Seq(Row) /\ Len(Tail(Q)) = Len(Q) - 1
            /\ \A r \in 1 .. Len(Tail(Q)) : Tail(Q)[r] = Q[r + 1]
        BY <2>3, HeadTailProperties
      <4>2. QED
        BY <1>1, <2>3, <4>1
    <3> HIDE DEF up
    <3>6. ASSUME NEW r \in 1 .. up.y + 1
          PROVE  /\ Len(Tail(Q)[r]) = (IF r = up.y + 1 THEN up.x ELSE VGA_WIDTH)
                 /\ \A c \in 1 .. Len(Tail(Q)[r]) : Tail(Q)[r][c] = up.mem[At(c - 1, r - 1)]
      <4>1. CASE r = s.y + 1
        <5>1. Tail(Q)[r] = Q[r + 1] /\ r + 1 = s.y + 2
          BY <1>1, <3>5, <4>1
        <5>2. Tail(Q)[r] = <<>> /\ r = up.y + 1
          BY <2>3, <3>4, <4>1, <5>1
        <5>3. Len(Tail(Q)[r]) = 0
          BY <2>2, <5>2
        <5>4. 1 .. Len(Tail(Q)[r]) = {}
          <6>1. 1 .. 0 = {}
            OBVIOUS
          <6>2. QED
            BY <5>3, <6>1, Zenon
        <5>5. QED
          BY <3>4, <5>2, <5>3, <5>4, Zenon
      <4>2. CASE r # s.y + 1
        <5>1. r + 1 \in 1 .. s.y + 1 /\ r # up.y + 1 /\ r \in 1 .. s.y + 1
          BY <1>1, <3>4, <4>2
        <5>2. Tail(Q)[r] = Q[r + 1] /\ Len(Q[r + 1]) = VGA_WIDTH
          BY <2>4, <3>5, <5>1
        <5>3. ASSUME NEW c \in 1 .. VGA_WIDTH
              PROVE  Q[r + 1][c] = up.mem[At(c - 1, r - 1)]
          <6>1. Q[r + 1][c] = s.mem[At(c - 1, (r + 1) - 1)]
            BY <2>4, <5>1
          <6>2. c - 1 \in 0 .. VGA_WIDTH - 1 /\ r - 1 \in 0 .. VGA_HEIGTH + 1
            BY <1>1, <5>1, Sizes
          <6>3. At(c - 1, r - 1) + VGA_WIDTH = At(c - 1, (r - 1) + 1)
            BY <6>2, CellOrder, Sizes
          <6>4. (r - 1) + 1 = (r + 1) - 1
            BY <5>1
          <6>5. At(c - 1, r - 1) \in Cells
            BY <2>4, <5>1
          <6>6. scroll_down(s.mem)[At(c - 1, r - 1)] = s.mem[At(c - 1, r - 1) + VGA_WIDTH]
            BY <6>5, CellBelow DEF scroll_down
          <6>7. QED
            BY <3>4, <6>1, <6>3, <6>4, <6>6
        <5>4. \A c \in 1 .. Len(Tail(Q)[r]) : Tail(Q)[r][c] = up.mem[At(c - 1, r - 1)]
          BY <5>2, <5>3
        <5>5. QED
          BY <5>1, <5>2, <5>4
      <4>3. QED
        BY <4>1, <4>2
    <3>7. Tail(Q) = RowsOf(up)
      BY <3>4, <3>5, <3>6, RowsEqual
    <3>8. QED
      BY <2>1, <2>5, <3>1, <3>2, <3>7 DEF R
  <2>8. QED
    BY <1>1, <2>6, <2>7, Sizes
<1>5. QED
  BY <1>1, <1>3, <1>4, Sizes

(* A character: the cursor's row is longer by it.                          *)
Typed(s, c) == [mem |-> [s.mem EXCEPT ![At(s.x, s.y)] = c], x |-> s.x + 1, y |-> s.y]

LEMMA PutIs ==
  ASSUME NEW s, Visible(s), s.x < VGA_WIDTH, NEW c \in Cell
  PROVE  /\ Put(s, c) = Scrolled(Ended(Typed(s, c)))
         /\ Visible(Typed(s, c)) /\ At(s.x, s.y) \in Memory
         /\ Typed(s, c).x = s.x + 1 /\ Typed(s, c).y = s.y
         /\ Typed(s, c).mem[At(s.x, s.y)] = c
         /\ \A i \in Memory : i # At(s.x, s.y) => Typed(s, c).mem[i] = s.mem[i]
<1> DEFINE mem == [s.mem EXCEPT ![At(s.x, s.y)] = c]
           u == [mem |-> mem, x |-> s.x + 1, y |-> s.y]
<1>1. /\ s = [mem |-> s.mem, x |-> s.x, y |-> s.y]
      /\ s.mem \in [Memory -> Cell] /\ s.x \in 0 .. VGA_WIDTH /\ s.x \in Nat
      /\ s.y \in Nat /\ s.y < VGA_HEIGTH
  BY Sizes DEF Visible, Screens, Cell
<1>2. Typed(s, c) = u
  BY DEF Typed
<1>5. /\ mem \in [Memory -> Cell] /\ At(s.x, s.y) \in Memory
      /\ mem[At(s.x, s.y)] = c
      /\ \A i \in Memory : i # At(s.x, s.y) => mem[i] = s.mem[i]
  <2>1. At(s.x, s.y) \in Memory
    BY <1>1, CellOfPlace, Sizes
  <2>2. QED
    BY <1>1, <2>1
<1> HIDE DEF mem
<1>6. Visible(u) /\ u.x = s.x + 1 /\ u.y = s.y /\ u.mem = mem
  BY <1>1, <1>5, Sizes DEF Visible, Screens, Cell
<1> HIDE DEF u
<1>7. Put(s, c) = Scrolled(Ended(u))
  <2>1. [s EXCEPT !.mem[At(s.x, s.y)] = c, !.x = @ + 1] = u
    <3>1. /\ [s EXCEPT !.mem = mem] = [mem |-> mem, x |-> s.x, y |-> s.y]
          /\ [[mem |-> mem, x |-> s.x, y |-> s.y] EXCEPT !.x = s.x + 1] = u
      BY <1>1 DEF u
    <3>2. QED
      BY <3>1, Zenon DEF mem
  <2>2. Wrapped(u) = Ended(u)
    <3>1. u = [mem |-> u.mem, x |-> u.x, y |-> u.y]
      BY <1>6 DEF u
    <3>2. /\ [u EXCEPT !.x = 0] = [mem |-> u.mem, x |-> 0, y |-> u.y]
          /\ [[mem |-> u.mem, x |-> 0, y |-> u.y] EXCEPT !.y = u.y + 1]
               = [mem |-> u.mem, x |-> 0, y |-> u.y + 1]
      BY <3>1
    <3>3. [u EXCEPT !.x = 0, !.y = u.y + 1] = [mem |-> u.mem, x |-> 0, y |-> u.y + 1]
      BY <3>2, Zenon
    <3>4. QED
      BY <3>1, <3>3 DEF Wrapped, Ended
  <2>3. QED
    BY <2>1, <2>2 DEF Put, Settled
<1>8. QED
  BY <1>2, <1>5, <1>6, <1>7

LEMMA PutRows ==
  ASSUME NEW s, Visible(s), s.x < VGA_WIDTH, NEW c \in Cell
  PROVE  RowsOf(Put(s, c)) = Abstract!Written(RowsOf(s), c)
<1> DEFINE R == RowsOf(s)
           mem == [s.mem EXCEPT ![At(s.x, s.y)] = c]
           u == [mem |-> mem, x |-> s.x + 1, y |-> s.y]
           e == Append(Abstract!Last(R), c)
           Q == Append(Abstract!Front(R), e)
<1>1. /\ s = [mem |-> s.mem, x |-> s.x, y |-> s.y]
      /\ s.mem \in [Memory -> Cell] /\ s.x \in 0 .. VGA_WIDTH /\ s.x \in Nat
      /\ s.y \in Nat /\ s.y < VGA_HEIGTH
  BY Sizes DEF Visible, Screens, Cell
<1>2. /\ R \in Seq(Row) /\ R # <<>> /\ Len(R) = s.y + 1
      /\ \A r \in 1 .. s.y + 1 : R[r] = RowOf(s, r)
      /\ Abstract!Last(R) = RowOf(s, s.y + 1)
  BY RowsAre, LastRow
<1> HIDE DEF R
<1>3. /\ e \in Row /\ Len(e) = s.x + 1
      /\ \A i \in 1 .. s.x : e[i] = RowOf(s, s.y + 1)[i]
      /\ e[s.x + 1] = c
  <2>1. RowOf(s, s.y + 1) \in Seq(Cell) /\ Len(RowOf(s, s.y + 1)) = s.x
    BY LastRow DEF Row
  <2>2. QED
    BY <1>2, <2>1, AppendProperties DEF Row
<1> HIDE DEF e
<1>4. /\ Q \in Seq(Row) /\ Len(Q) = s.y + 1
      /\ \A r \in 1 .. s.y + 1 : Q[r] = IF r = s.y + 1 THEN e ELSE R[r]
  BY <1>2, <1>3, LastReplaced
<1> HIDE DEF Q
<1>5. /\ mem[At(s.x, s.y)] = c /\ \A i \in Memory : i # At(s.x, s.y) => mem[i] = s.mem[i]
      /\ Visible(u) /\ u.x = s.x + 1 /\ u.y = s.y /\ u.mem = mem
      /\ At(s.x, s.y) \in Memory
  BY PutIs DEF Typed
<1>6. u = Typed(s, c)
  BY DEF Typed
<1> HIDE DEF mem, u
<1>7. ASSUME NEW r \in 1 .. u.y + 1
      PROVE  /\ Len(Q[r]) = (IF r = u.y + 1 THEN u.x ELSE VGA_WIDTH)
             /\ \A i \in 1 .. Len(Q[r]) : Q[r][i] = u.mem[At(i - 1, r - 1)]
  <2>1. r \in 1 .. s.y + 1 /\ r - 1 \in 0 .. VGA_HEIGTH + 1
    BY <1>1, <1>5, Sizes
  <2>2. ASSUME NEW i \in 1 .. Len(RowOf(s, r))
        PROVE  RowOf(s, r)[i] = mem[At(i - 1, r - 1)]
    <3>1. /\ RowOf(s, r)[i] = s.mem[At(i - 1, r - 1)] /\ At(i - 1, r - 1) \in Memory
          /\ i - 1 \in 0 .. VGA_WIDTH - 1
      BY <2>1, RowIs, CellBelow
    <3>2. At(i - 1, r - 1) < At(s.x, s.y) /\ At(i - 1, r - 1) \in Nat /\ At(s.x, s.y) \in Nat
      <4>1. s.y \in 0 .. VGA_HEIGTH + 1
        BY <1>1, Sizes
      <4>2. CASE r = s.y + 1
        <5>1. Len(RowOf(s, r)) = s.x /\ r - 1 = s.y
          BY <1>1, <2>1, <4>2, RowIs
        <5>2. i - 1 < s.x
          BY <1>1, <5>1
        <5>3. QED
          BY <1>1, <2>1, <3>1, <4>1, <5>1, <5>2, CellOrder
      <4>3. CASE r # s.y + 1
        <5>1. r - 1 < s.y
          BY <1>1, <2>1, <4>3
        <5>2. QED
          BY <1>1, <2>1, <3>1, <4>1, <5>1, CellOrder
      <4>4. QED
        BY <4>2, <4>3
    <3>3. At(i - 1, r - 1) # At(s.x, s.y)
      BY <3>2
    <3>4. QED
      BY <1>5, <3>1, <3>3
  <2>3. CASE r = s.y + 1
    <3>1. Q[r] = e /\ Len(Q[r]) = u.x /\ r = u.y + 1 /\ r - 1 = s.y
      BY <1>1, <1>3, <1>4, <1>5, <2>1, <2>3
    <3>2. Len(RowOf(s, r)) = s.x
      BY <2>3, LastRow
    <3>3. ASSUME NEW i \in 1 .. s.x + 1
          PROVE  e[i] = mem[At(i - 1, s.y)]
      <4>1. CASE i = s.x + 1
        <5>1. i - 1 = s.x
          BY <1>1, <4>1
        <5>2. QED
          BY <1>3, <1>5, <4>1, <5>1
      <4>2. CASE i # s.x + 1
        <5>1. i \in 1 .. s.x
          BY <1>1, <4>2
        <5>2. e[i] = RowOf(s, r)[i]
          BY <1>3, <2>3, <5>1
        <5>3. QED
          BY <2>2, <3>1, <3>2, <5>1, <5>2
      <4>3. QED
        BY <4>1, <4>2
    <3>4. QED
      BY <1>3, <1>5, <3>1, <3>3
  <2>4. CASE r # s.y + 1
    <3>1. Q[r] = RowOf(s, r) /\ Len(RowOf(s, r)) = VGA_WIDTH /\ r # u.y + 1
      BY <1>2, <1>4, <1>5, <2>1, <2>4, RowIs
    <3>2. QED
      BY <1>5, <2>2, <3>1
  <2>5. QED
    BY <2>3, <2>4
<1>8. Q = RowsOf(u)
  BY <1>4, <1>5, <1>7, RowsEqual
<1>9. Abstract!Written(R, c) = Abstract!Open(Q)
  BY DEF Abstract!Written, Q, e
<1>10. Abstract!Open(Q) = RowsOf(Scrolled(Ended(u)))
  BY <1>5, <1>8, OpenedRows
<1>11. Put(s, c) = Scrolled(Ended(u))
  BY <1>6, PutIs
<1>12. QED
  BY <1>9, <1>10, <1>11 DEF R

(* Behind the cursor nothing is left.                                      *)
CleanFrom(s) == \A i \in Memory : i >= At(s.x, s.y) => s.mem[i] = Blank

(* A new line: the rest of the row is blank.                               *)
LEMMA NextLineRows ==
  ASSUME NEW s, Visible(s), CleanFrom(s)
  PROVE  LET R == RowsOf(s)
             L == Abstract!Last(R) IN
         RowsOf(NextLine(s)) =
           Abstract!Open(Append(Abstract!Front(R), L \o Abstract!Blanks(VGA_WIDTH - Len(L))))
<1> DEFINE R == RowsOf(s)
           L == RowOf(s, s.y + 1)
           B == Abstract!Blanks(VGA_WIDTH - s.x)
           e == L \o B
           Q == Append(Abstract!Front(R), e)
           u == [mem |-> s.mem, x |-> VGA_WIDTH, y |-> s.y]
<1>1. /\ s = [mem |-> s.mem, x |-> s.x, y |-> s.y]
      /\ s.mem \in [Memory -> Cell] /\ s.x \in 0 .. VGA_WIDTH /\ s.x \in Nat
      /\ s.y \in Nat /\ s.y < VGA_HEIGTH
  BY Sizes DEF Visible, Screens, Cell
<1>2. /\ R \in Seq(Row) /\ R # <<>> /\ Len(R) = s.y + 1
      /\ \A r \in 1 .. s.y + 1 : R[r] = RowOf(s, r)
      /\ Abstract!Last(R) = L /\ L \in Seq(Cell) /\ Len(L) = s.x
  BY RowsAre, LastRow DEF Row
<1>3. B \in Seq(Cell) /\ Len(B) = VGA_WIDTH - s.x /\ \A i \in 1 .. VGA_WIDTH - s.x : B[i] = Blank
  <2> DEFINE n == VGA_WIDTH - s.x
             blank(i) == Blank
  <2>1. n \in Nat
    BY <1>1, Sizes
  <2>2. B = [i \in 1 .. n |-> blank(i)]
    BY DEF Abstract!Blanks
  <2> HIDE DEF n
  <2>3. \A i \in 1 .. n : blank(i) \in Cell
    BY DEF Cell
  <2> HIDE DEF blank
  <2>4. [i \in 1 .. n |-> blank(i)] \in Seq(Cell)
    BY <2>1, <2>3, IsASeq
  <2>5. Len([i \in 1 .. n |-> blank(i)]) = n
    BY <2>1
  <2>6. \A i \in 1 .. n : [j \in 1 .. n |-> blank(j)][i] = Blank
    BY DEF blank
  <2>7. QED
    BY <2>2, <2>4, <2>5, <2>6, Zenon DEF n
<1> HIDE DEF R, B
<1>4. /\ e \in Row /\ Len(e) = VGA_WIDTH
      /\ \A i \in 1 .. VGA_WIDTH : e[i] = IF i <= s.x THEN L[i] ELSE Blank
  <2> HIDE DEF L
  <2>1. /\ L \o B \in Seq(Cell) /\ Len(L \o B) = Len(L) + Len(B)
        /\ \A i \in 1 .. Len(L) + Len(B) : (L \o B)[i] = IF i <= Len(L) THEN L[i] ELSE B[i - Len(L)]
    BY <1>2, <1>3, ConcatProperties
  <2>2. Len(L) + Len(B) = VGA_WIDTH
    BY <1>1, <1>2, <1>3, Sizes
  <2>3. ASSUME NEW i \in 1 .. VGA_WIDTH, ~ (i <= s.x)
        PROVE  B[i - s.x] = Blank
    <3>1. i - s.x \in 1 .. VGA_WIDTH - s.x
      BY <1>1, <2>3, Sizes
    <3>2. QED
      BY <1>3, <3>1
  <2>4. QED
    BY <1>2, <2>1, <2>2, <2>3 DEF Row
<1> HIDE DEF e
<1>5. /\ Q \in Seq(Row) /\ Len(Q) = s.y + 1
      /\ \A r \in 1 .. s.y + 1 : Q[r] = IF r = s.y + 1 THEN e ELSE R[r]
  BY <1>2, <1>4, LastReplaced
<1> HIDE DEF Q
<1>6. Visible(u) /\ u.x = VGA_WIDTH /\ u.y = s.y /\ u.mem = s.mem
  BY <1>1, Sizes DEF Visible, Screens, Cell
<1> HIDE DEF u
<1>7. ASSUME NEW r \in 1 .. u.y + 1
      PROVE  /\ Len(Q[r]) = (IF r = u.y + 1 THEN u.x ELSE VGA_WIDTH)
             /\ \A i \in 1 .. Len(Q[r]) : Q[r][i] = u.mem[At(i - 1, r - 1)]
  <2>1. r \in 1 .. s.y + 1
    BY <1>6
  <2>2. CASE r = s.y + 1
    <3>1. Q[r] = e /\ Len(Q[r]) = VGA_WIDTH /\ r = u.y + 1 /\ r - 1 = s.y
      BY <1>1, <1>4, <1>5, <1>6, <2>1, <2>2
    <3>2. ASSUME NEW i \in 1 .. VGA_WIDTH
          PROVE  e[i] = s.mem[At(i - 1, s.y)]
      <4>1. CASE i <= s.x
        <5>1. i \in 1 .. Len(L)
          BY <1>1, <1>2, <4>1
        <5>2. L[i] = s.mem[At(i - 1, s.y)]
          BY <2>1, <2>2, <3>1, <5>1, RowIs
        <5>3. QED
          BY <1>4, <4>1, <5>2
      <4>2. CASE ~ (i <= s.x)
        <5>1. /\ i - 1 \in 0 .. VGA_WIDTH - 1 /\ s.y \in 0 .. VGA_HEIGTH + 1 /\ ~ (i - 1 < s.x)
              /\ i - 1 \in 0 .. VGA_WIDTH /\ s.y \in 0 .. VGA_HEIGTH
          BY <1>1, <4>2, Sizes
        <5>2. /\ At(i - 1, s.y) \in Nat /\ At(s.x, s.y) \in Nat
              /\ At(i - 1, s.y) < At(s.x, s.y) <=> i - 1 < s.x
          BY <1>1, <5>1, CellOrder
        <5>3. At(i - 1, s.y) >= At(s.x, s.y)
          BY <5>1, <5>2
        <5>4. At(i - 1, s.y) \in Memory
          BY <1>1, <5>1, CellOfPlace
        <5>5. s.mem[At(i - 1, s.y)] = Blank
          BY <5>3, <5>4 DEF CleanFrom
        <5>6. QED
          BY <1>4, <4>2, <5>5
      <4>3. QED
        BY <4>1, <4>2
    <3>3. QED
      BY <1>6, <3>1, <3>2
  <2>3. CASE r # s.y + 1
    <3>1. Q[r] = RowOf(s, r) /\ Len(RowOf(s, r)) = VGA_WIDTH /\ r # u.y + 1
      BY <1>2, <1>5, <1>6, <2>1, <2>3, RowIs
    <3>2. QED
      BY <1>6, <2>1, <3>1, RowIs
  <2>4. QED
    BY <2>2, <2>3
<1>8. Q = RowsOf(u)
  BY <1>5, <1>6, <1>7, RowsEqual
<1> DEFINE w == [mem |-> s.mem, x |-> 0, y |-> s.y + 1]
<1>9. Abstract!Open(Q) = RowsOf(Scrolled(w))
  <2>1. Ended(u) = w
    BY <1>6, Sizes DEF Ended
  <2>2. QED
    BY <1>6, <1>8, <2>1, OpenedRows
<1>10. NextLine(s) = Scrolled(w)
  <2>1. /\ [s EXCEPT !.x = 0] = [mem |-> s.mem, x |-> 0, y |-> s.y]
        /\ [[mem |-> s.mem, x |-> 0, y |-> s.y] EXCEPT !.y = s.y + 1] = w
    BY <1>1
  <2>2. [s EXCEPT !.x = 0, !.y = s.y + 1] = w
    BY <2>1, Zenon
  <2>3. QED
    BY <2>2 DEF NextLine
<1>11. QED
  BY <1>2, <1>9, <1>10 DEF R, Q, e, B

(* A backspace: the last row is shorter by one, or gone with the last      *)
(* character of the row above; from the top left corner, to the bottom     *)
(* right one.                                                              *)
Shortened(R) ==
  CASE Abstract!Last(R) # <<>> -> Append(Abstract!Front(R), Abstract!Front(Abstract!Last(R)))
    [] Abstract!Last(R) = <<>> /\ Len(R) > 1 ->
         [Abstract!Front(R) EXCEPT ![Len(R) - 1] = Abstract!Front(@)]
    [] OTHER -> [n \in 1 .. VGA_HEIGTH |->
                   Abstract!Blanks(IF n < VGA_HEIGTH THEN VGA_WIDTH ELSE VGA_WIDTH - 1)]

(* The screen after a backspace.                                           *)
LEMMA BackspaceIs ==
  ASSUME NEW s, Visible(s), s.x < VGA_WIDTH
  PROVE  LET x == IF s.x > 0 THEN s.x - 1 ELSE VGA_WIDTH - 1
             y == IF s.x > 0 THEN s.y ELSE IF s.y = 0 THEN VGA_HEIGTH - 1 ELSE s.y - 1
             u == BackspaceIn(s) IN
         /\ Visible(u) /\ u.x = x /\ u.y = y /\ u.x < VGA_WIDTH
         /\ u.mem[At(x, y)] = Blank
         /\ \A i \in Memory : i # At(x, y) => u.mem[i] = s.mem[i]
<1> DEFINE x == IF s.x > 0 THEN s.x - 1 ELSE VGA_WIDTH - 1
           y == IF s.x > 0 THEN s.y ELSE IF s.y = 0 THEN VGA_HEIGTH - 1 ELSE s.y - 1
           b == [mem |-> s.mem, x |-> x, y |-> y]
           mem == [s.mem EXCEPT ![At(x, y)] = Blank]
           u == [mem |-> mem, x |-> x, y |-> y]
<1>1. /\ s = [mem |-> s.mem, x |-> s.x, y |-> s.y]
      /\ s.mem \in [Memory -> Cell] /\ s.x \in Nat /\ s.y \in Nat /\ s.y < VGA_HEIGTH
  BY Sizes DEF Visible, Screens, Cell
<1>2. /\ x \in 0 .. VGA_WIDTH /\ x < VGA_WIDTH /\ x # VGA_WIDTH
      /\ y \in 0 .. VGA_HEIGTH /\ y < VGA_HEIGTH
  BY <1>1, Sizes
<1>3. Back(s) = b
  <2>1. CASE s.x > 0
    BY <1>1, <2>1 DEF Back
  <2>2. CASE ~ (s.x > 0)
    BY <1>1, <2>2 DEF Back
  <2>3. QED
    BY <2>1, <2>2
<1> HIDE DEF x, y
<1>4. Erased(s) = u
  <2>1. b.x = x /\ b.y = y /\ b.mem = s.mem
    OBVIOUS
  <2>2. [b EXCEPT !.mem = mem] = u
    OBVIOUS
  <2>3. Erased(s) = [b EXCEPT !.mem[At(x, y)] = Blank]
    BY <1>3 DEF Erased
  <2>4. QED
    BY <2>1, <2>2, <2>3
<1>5. At(x, y) \in Memory
  BY <1>2, CellOfPlace
<1>6. /\ mem \in [Memory -> Cell] /\ mem[At(x, y)] = Blank
      /\ \A i \in Memory : i # At(x, y) => mem[i] = s.mem[i]
  BY <1>1, <1>5 DEF Cell
<1> HIDE DEF mem
<1>7. Visible(u) /\ u.x = x /\ u.y = y /\ u.mem = mem
  BY <1>2, <1>6 DEF Visible, Screens, Cell
<1>8. BackspaceIn(s) = u
  BY <1>2, <1>4, <1>7, SettledKeeps DEF BackspaceIn
<1>9. QED
  BY <1>2, <1>6, <1>7, <1>8 DEF x, y

LEMMA BackspaceRows ==
  ASSUME NEW s, Visible(s), s.x < VGA_WIDTH, CleanFrom(s)
  PROVE  RowsOf(BackspaceIn(s)) = Shortened(RowsOf(s)) /\ CleanFrom(BackspaceIn(s))
<1> DEFINE u == BackspaceIn(s)
           R == RowsOf(s)
           L == RowOf(s, s.y + 1)
           x == IF s.x > 0 THEN s.x - 1 ELSE VGA_WIDTH - 1
           y == IF s.x > 0 THEN s.y ELSE IF s.y = 0 THEN VGA_HEIGTH - 1 ELSE s.y - 1
<1>1. /\ s.x \in Nat /\ s.x \in 0 .. VGA_WIDTH /\ s.y \in Nat /\ s.y < VGA_HEIGTH
      /\ s.mem \in [Memory -> Cell]
  BY Sizes DEF Visible, Screens, Cell
<1>2. /\ R \in Seq(Row) /\ R # <<>> /\ Len(R) = s.y + 1
      /\ \A r \in 1 .. s.y + 1 : R[r] = RowOf(s, r)
      /\ Abstract!Last(R) = L /\ L \in Seq(Cell) /\ Len(L) = s.x
  BY RowsAre, LastRow DEF Row
<1>3. /\ Visible(u) /\ u.x = x /\ u.y = y
      /\ u.mem[At(x, y)] = Blank
      /\ \A i \in Memory : i # At(x, y) => u.mem[i] = s.mem[i]
  BY BackspaceIs
<1>4. x \in 0 .. VGA_WIDTH - 1 /\ y \in 0 .. VGA_HEIGTH - 1
  BY <1>1, Sizes
<1> HIDE DEF u, R, x, y
<1>5. ASSUME NEW r \in 1 .. y + 1, NEW i \in 1 .. VGA_WIDTH, r = y + 1 => i <= x
      PROVE  At(i - 1, r - 1) \in Memory /\ u.mem[At(i - 1, r - 1)] = s.mem[At(i - 1, r - 1)]
  <2>1. /\ i - 1 \in 0 .. VGA_WIDTH - 1 /\ i - 1 \in 0 .. VGA_WIDTH /\ i - 1 # VGA_WIDTH
        /\ r - 1 \in 0 .. VGA_HEIGTH + 1 /\ r - 1 \in 0 .. VGA_HEIGTH
        /\ x \in 0 .. VGA_WIDTH /\ y \in 0 .. VGA_HEIGTH + 1
        /\ r - 1 < y \/ (r - 1 = y /\ i - 1 < x)
    BY <1>4, <1>5, Sizes
  <2>2. At(i - 1, r - 1) < At(x, y) /\ At(i - 1, r - 1) \in Nat /\ At(x, y) \in Nat
    BY <2>1, CellOrder
  <2>3. At(i - 1, r - 1) \in Memory
    BY <2>1, CellOfPlace
  <2>4. QED
    BY <1>3, <2>2, <2>3
<1>6. RowsOf(u) = Shortened(R)
  <2>1. CASE s.x > 0
    <3> DEFINE e == Abstract!Front(L)
               Q == Append(Abstract!Front(R), e)
    <3>1. /\ e \in Row /\ Len(e) = s.x - 1 /\ L # <<>>
          /\ \A i \in 1 .. s.x - 1 : e[i] = L[i]
      <4>1. L # <<>>
        BY <1>2, <2>1, EmptySeq
      <4> HIDE DEF L
      <4>2. QED
        BY <1>2, <4>1, FrontIs DEF Row
    <3>2. x = s.x - 1 /\ y = s.y
      BY <2>1 DEF x, y
    <3> HIDE DEF e
    <3>3. /\ Q \in Seq(Row) /\ Len(Q) = s.y + 1
          /\ \A r \in 1 .. s.y + 1 : Q[r] = IF r = s.y + 1 THEN e ELSE R[r]
      BY <1>2, <3>1, LastReplaced
    <3> HIDE DEF Q
    <3>4. ASSUME NEW r \in 1 .. u.y + 1
          PROVE  /\ Len(Q[r]) = (IF r = u.y + 1 THEN u.x ELSE VGA_WIDTH)
                 /\ \A i \in 1 .. Len(Q[r]) : Q[r][i] = u.mem[At(i - 1, r - 1)]
      <4>1. r \in 1 .. s.y + 1 /\ r \in 1 .. y + 1
        BY <1>3, <3>2
      <4>2. CASE r = s.y + 1
        <5>1. Q[r] = e /\ Len(Q[r]) = x /\ r = u.y + 1
          BY <1>3, <3>1, <3>2, <3>3, <4>1, <4>2
        <5>2. ASSUME NEW i \in 1 .. x
              PROVE  e[i] = u.mem[At(i - 1, r - 1)]
          <6>1. i \in 1 .. VGA_WIDTH /\ i <= x /\ i \in 1 .. s.x /\ i \in 1 .. s.x - 1
            BY <1>1, <1>4, <3>2, Sizes
          <6>2. e[i] = s.mem[At(i - 1, r - 1)]
            BY <1>2, <3>1, <4>1, <4>2, <6>1, RowIs
          <6>3. QED
            BY <1>5, <4>1, <6>1, <6>2
        <5>3. QED
          BY <1>3, <5>1, <5>2
      <4>3. CASE r # s.y + 1
        <5>1. Q[r] = RowOf(s, r) /\ Len(RowOf(s, r)) = VGA_WIDTH /\ r # u.y + 1 /\ r # y + 1
          BY <1>2, <1>3, <3>2, <3>3, <4>1, <4>3, RowIs
        <5>2. \A i \in 1 .. VGA_WIDTH : RowOf(s, r)[i] = u.mem[At(i - 1, r - 1)]
          BY <1>5, <4>1, <5>1, RowIs
        <5>3. QED
          BY <5>1, <5>2
      <4>4. QED
        BY <4>2, <4>3
    <3>5. Q = RowsOf(u)
      BY <1>3, <3>2, <3>3, <3>4, RowsEqual
    <3>6. Shortened(R) = Q
      BY <1>2, <3>1 DEF Shortened, Q, e
    <3>7. QED
      BY <3>5, <3>6
  <2>2. CASE ~ (s.x > 0) /\ s.y > 0
    <3> DEFINE F == Abstract!Front(R)
               e == Abstract!Front(F[s.y])
               Q == [F EXCEPT ![s.y] = e]
    <3>1. x = VGA_WIDTH - 1 /\ y = s.y - 1 /\ s.x = 0
      BY <1>1, <2>2 DEF x, y
    <3>2. F \in Seq(Row) /\ Len(F) = s.y /\ \A r \in 1 .. s.y : F[r] = RowOf(s, r)
      <4>1. /\ F \in Seq(Row) /\ Len(F) = Len(R) - 1
            /\ \A r \in 1 .. Len(R) - 1 : F[r] = R[r]
        BY <1>2, FrontIs
      <4>2. Len(R) - 1 = s.y /\ \A r \in 1 .. s.y : r \in 1 .. s.y + 1
        BY <1>1, <1>2
      <4>3. QED
        BY <1>2, <4>1, <4>2, Zenon
    <3> HIDE DEF F
    <3>3. /\ F[s.y] \in Seq(Cell) /\ Len(F[s.y]) = VGA_WIDTH /\ F[s.y] # <<>>
          /\ \A i \in 1 .. VGA_WIDTH : F[s.y][i] = s.mem[At(i - 1, s.y - 1)]
      <4>1. s.y \in 1 .. s.y /\ s.y \in 1 .. s.y + 1 /\ s.y # s.y + 1
        BY <1>1, <2>2
      <4>2. F[s.y] = RowOf(s, s.y)
        BY <3>2, <4>1
      <4>3. /\ RowOf(s, s.y) \in Seq(Cell) /\ Len(RowOf(s, s.y)) = VGA_WIDTH
            /\ \A i \in 1 .. VGA_WIDTH : RowOf(s, s.y)[i] = s.mem[At(i - 1, s.y - 1)]
        BY <4>1, RowIs DEF Row
      <4>4. RowOf(s, s.y) # <<>>
        BY <4>3, EmptySeq, Sizes
      <4>5. QED
        BY <4>2, <4>3, <4>4
    <3>4. /\ e \in Row /\ Len(e) = VGA_WIDTH - 1
          /\ \A i \in 1 .. VGA_WIDTH - 1 : e[i] = F[s.y][i]
      BY <3>3, FrontIs DEF Row
    <3> HIDE DEF e
    <3>5. /\ Q \in Seq(Row) /\ Len(Q) = s.y
          /\ \A r \in 1 .. s.y : Q[r] = IF r = s.y THEN e ELSE F[r]
      <4>1. s.y \in 1 .. Len(F)
        BY <1>1, <2>2, <3>2
      <4>2. /\ Q \in Seq(Row) /\ Len(Q) = Len(F)
            /\ \A r \in 1 .. Len(F) : Q[r] = IF r = s.y THEN e ELSE F[r]
        BY <3>2, <3>4, <4>1, ExceptSeq
      <4>3. QED
        BY <3>2, <4>2
    <3> HIDE DEF Q
    <3>6. ASSUME NEW r \in 1 .. u.y + 1
          PROVE  /\ Len(Q[r]) = (IF r = u.y + 1 THEN u.x ELSE VGA_WIDTH)
                 /\ \A i \in 1 .. Len(Q[r]) : Q[r][i] = u.mem[At(i - 1, r - 1)]
      <4>1. r \in 1 .. s.y /\ r \in 1 .. y + 1 /\ u.y + 1 = s.y /\ r \in 1 .. s.y + 1
        BY <1>1, <1>3, <3>1
      <4>2. CASE r = s.y
        <5>1. Q[r] = e /\ Len(Q[r]) = x /\ r = u.y + 1
          BY <3>1, <3>4, <3>5, <4>1, <4>2
        <5>2. ASSUME NEW i \in 1 .. x
              PROVE  e[i] = u.mem[At(i - 1, r - 1)]
          <6>1. i \in 1 .. VGA_WIDTH /\ i <= x /\ i \in 1 .. VGA_WIDTH - 1
            BY <1>4, <3>1, Sizes
          <6>2. e[i] = s.mem[At(i - 1, r - 1)]
            BY <3>3, <3>4, <4>2, <6>1
          <6>3. QED
            BY <1>5, <4>1, <6>1, <6>2
        <5>3. QED
          BY <1>3, <5>1, <5>2
      <4>3. CASE r # s.y
        <5>1. Q[r] = RowOf(s, r) /\ r # u.y + 1 /\ r # y + 1
          BY <1>3, <3>2, <3>5, <4>1, <4>3
        <5>2. r # s.y + 1
          BY <1>1, <4>1
        <5>3. /\ Len(RowOf(s, r)) = VGA_WIDTH
              /\ \A i \in 1 .. VGA_WIDTH : RowOf(s, r)[i] = s.mem[At(i - 1, r - 1)]
          BY <4>1, <5>2, RowIs
        <5>4. \A i \in 1 .. VGA_WIDTH : RowOf(s, r)[i] = u.mem[At(i - 1, r - 1)]
          BY <1>5, <4>1, <5>1, <5>3
        <5>5. QED
          BY <5>1, <5>3, <5>4
      <4>4. QED
        BY <4>2, <4>3
    <3>7. Len(Q) = u.y + 1
      BY <1>1, <1>3, <3>1, <3>5
    <3>8. Q = RowsOf(u)
      BY <1>3, <3>5, <3>6, <3>7, RowsEqual
    <3>9. Shortened(R) = Q
      <4>1. L = <<>>
        BY <1>2, <3>1, EmptySeq
      <4>2. Len(R) > 1 /\ Len(R) - 1 = s.y
        BY <1>1, <1>2, <2>2
      <4> HIDE DEF L
      <4>3. Shortened(R) = [Abstract!Front(R) EXCEPT ![Len(R) - 1] = Abstract!Front(@)]
        BY <1>2, <4>1, <4>2 DEF Shortened
      <4>4. QED
        BY <4>2, <4>3 DEF Q, e, F
    <3>10. QED
      BY <3>8, <3>9
  <2>3. CASE ~ (s.x > 0) /\ ~ (s.y > 0)
    <3> DEFINE n(r) == IF r < VGA_HEIGTH THEN VGA_WIDTH ELSE VGA_WIDTH - 1
               q(r) == Abstract!Blanks(n(r))
               Q == [r \in 1 .. VGA_HEIGTH |-> q(r)]
    <3>1. x = VGA_WIDTH - 1 /\ y = VGA_HEIGTH - 1 /\ s.x = 0 /\ s.y = 0
      BY <1>1, <2>3 DEF x, y
    <3>2. \A i \in Memory : s.mem[i] = Blank
      <4>1. At(s.x, s.y) = 0
        BY <3>1, Sizes DEF At
      <4>2. \A i \in Memory : i >= 0
        BY Sizes DEF Memory
      <4>3. QED
        BY <4>1, <4>2 DEF CleanFrom
    <3>3. ASSUME NEW r \in 1 .. VGA_HEIGTH
          PROVE  q(r) \in Row /\ Len(q(r)) = n(r) /\ \A i \in 1 .. n(r) : q(r)[i] = Blank
      <4> DEFINE blank(i) == Blank
                 k == n(r)
      <4>1. k \in Nat
        BY Sizes
      <4>2. q(r) = [i \in 1 .. k |-> blank(i)]
        BY DEF Abstract!Blanks
      <4> HIDE DEF k
      <4>3. \A i \in 1 .. k : blank(i) \in Cell
        BY DEF Cell
      <4> HIDE DEF blank
      <4>4. [i \in 1 .. k |-> blank(i)] \in Seq(Cell)
        BY <4>1, <4>3, IsASeq
      <4>5. Len([i \in 1 .. k |-> blank(i)]) = k
        BY <4>1
      <4>6. \A i \in 1 .. k : [j \in 1 .. k |-> blank(j)][i] = Blank
        BY DEF blank
      <4>7. QED
        BY <4>2, <4>4, <4>5, <4>6, Zenon DEF k, Row
    <3>4. Shortened(R) = Q
      <4>1. L = <<>>
        BY <1>2, <3>1, EmptySeq
      <4>2. ~ (Len(R) > 1)
        BY <1>2, <3>1
      <4> HIDE DEF L
      <4>3. QED
        BY <1>2, <4>1, <4>2 DEF Shortened
    <3> HIDE DEF q
    <3>5. Q \in Seq(Row) /\ Len(Q) = VGA_HEIGTH /\ \A r \in 1 .. VGA_HEIGTH : Q[r] = q(r)
      <4>1. Q \in Seq(Row)
        BY <3>3, IsASeq, Sizes
      <4>2. QED
        BY <4>1, Sizes
    <3> HIDE DEF Q
    <3>6. ASSUME NEW r \in 1 .. u.y + 1
          PROVE  /\ Len(Q[r]) = (IF r = u.y + 1 THEN u.x ELSE VGA_WIDTH)
                 /\ \A i \in 1 .. Len(Q[r]) : Q[r][i] = u.mem[At(i - 1, r - 1)]
      <4>1. r \in 1 .. VGA_HEIGTH /\ r \in 1 .. y + 1 /\ u.y + 1 = VGA_HEIGTH
        BY <1>3, <3>1, Sizes
      <4>2. n(r) = IF r = u.y + 1 THEN u.x ELSE VGA_WIDTH
        BY <1>3, <3>1, <4>1, Sizes
      <4>3. ASSUME NEW i \in 1 .. n(r)
            PROVE  u.mem[At(i - 1, r - 1)] = Blank
        <5>1. i \in 1 .. VGA_WIDTH /\ (r = y + 1 => i <= x)
          BY <3>1, <4>1, Sizes
        <5>2. QED
          BY <1>5, <3>2, <4>1, <5>1
      <4> HIDE DEF n
      <4>4. QED
        BY <3>3, <3>5, <4>1, <4>2, <4>3
    <3>7. Len(Q) = u.y + 1
      BY <1>3, <3>1, <3>5, Sizes
    <3>8. Q = RowsOf(u)
      BY <1>3, <3>5, <3>6, <3>7, RowsEqual
    <3>9. QED
      BY <3>4, <3>8
  <2>4. QED
    BY <2>1, <2>2, <2>3
<1>7. CleanFrom(u)
  <2>1. ASSUME NEW i \in Memory, i >= At(x, y)
        PROVE  u.mem[i] = Blank
    <3>1. CASE i = At(x, y)
      BY <1>3, <3>1
    <3>2. CASE i # At(x, y)
      <4>1. i >= At(s.x, s.y)
        <5>1. i \in Nat /\ At(x, y) \in Nat /\ At(s.x, s.y) \in Nat
          BY <1>1, <1>4, Sizes DEF Memory, At
        <5>2. At(s.x, s.y) = At(x, y) + 1 \/ (s.x = 0 /\ s.y = 0)
          <6>1. CASE s.x > 0
            BY <1>1, <6>1, Sizes DEF x, y, At
          <6>2. CASE ~ (s.x > 0) /\ s.y > 0
            <7>1. s.x = 0 /\ x = VGA_WIDTH - 1 /\ y = s.y - 1
              BY <1>1, <6>2 DEF x, y
            <7>2. s.y * VGA_WIDTH = (s.y - 1) * VGA_WIDTH + VGA_WIDTH
              BY <1>1, Sizes
            <7>3. s.y * VGA_WIDTH \in Nat /\ (s.y - 1) * VGA_WIDTH \in Int
              BY <1>1, Sizes
            <7>4. QED
              BY <7>1, <7>2, <7>3, Sizes DEF At
          <6>3. QED
            BY <1>1, <6>1, <6>2
        <5>3. s.x = 0 /\ s.y = 0 => At(s.x, s.y) = 0
          BY Sizes DEF At
        <5>4. QED
          BY <2>1, <3>2, <5>1, <5>2, <5>3
      <4>2. QED
        BY <1>3, <3>2, <4>1 DEF CleanFrom
    <3>3. QED
      BY <3>1, <3>2
  <2>2. QED
    BY <1>3, <2>1 DEF CleanFrom
<1>8. QED
  BY <1>6, <1>7 DEF u, R

(* A screen with its cursor, and nothing behind it.                        *)
Neat(s) == Visible(s) /\ s.x < VGA_WIDTH /\ CleanFrom(s)

LEMMA ScrolledNeat ==
  ASSUME NEW s, Visible(s), CleanFrom(s)
  PROVE  Neat(Scrolled(Ended(s)))
<1> DEFINE full == [mem |-> s.mem, x |-> 0, y |-> s.y + 1]
           up == [mem |-> scroll_down(s.mem), x |-> 0, y |-> s.y]
<1>1. /\ s = [mem |-> s.mem, x |-> s.x, y |-> s.y]
      /\ s.mem \in [Memory -> Cell] /\ s.x \in 0 .. VGA_WIDTH
      /\ s.y \in Nat /\ s.y < VGA_HEIGTH /\ s.y \in 0 .. VGA_HEIGTH + 1
  BY Sizes DEF Visible, Screens, Cell
<1>2. CASE s.x < VGA_WIDTH
  <2>1. Ended(s) = s
    BY <1>1, <1>2, Sizes DEF Ended
  <2>2. Scrolled(s) = s
    BY <1>1, Sizes DEF Scrolled
  <2>3. QED
    BY <1>2, <2>1, <2>2 DEF Neat
<1>3. CASE s.x = VGA_WIDTH
  <2>1. Ended(s) = full
    BY <1>3, Sizes DEF Ended
  <2>2. At(0, s.y + 1) = At(s.x, s.y) /\ At(0, s.y) + VGA_WIDTH = At(0, s.y + 1)
        /\ At(0, s.y) \in Nat
    <3>1. 0 \in 0 .. VGA_WIDTH - 1
      BY Sizes
    <3>2. QED
      BY <1>1, <1>3, <3>1, CellOrder
  <2>3. CASE s.y + 1 < VGA_HEIGTH
    <3>1. Scrolled(full) = full
      BY <1>1, <2>3, Sizes DEF Scrolled
    <3>2. Visible(full) /\ full.x < VGA_WIDTH
      BY <1>1, <2>3, Sizes DEF Visible, Screens, Cell
    <3>3. CleanFrom(full)
      BY <2>2 DEF CleanFrom
    <3>4. QED
      BY <2>1, <3>1, <3>2, <3>3 DEF Neat
  <2>4. CASE s.y + 1 = VGA_HEIGTH
    <3>1. Scrolled(full) = up
      <4>1. full.y >= VGA_HEIGTH /\ full.y - 1 = s.y /\ full.mem = s.mem
        BY <1>1, <2>4, Sizes
      <4>2. QED
        BY <4>1 DEF Scrolled
    <3>2. scroll_down(s.mem) \in [Memory -> Cell]
      BY <1>1, CellBelow DEF scroll_down
    <3>3. Visible(up) /\ up.x < VGA_WIDTH
      BY <1>1, <3>2, Sizes DEF Visible, Screens, Cell
    <3>4. ASSUME NEW i \in Memory, i >= At(0, s.y)
          PROVE  scroll_down(s.mem)[i] = Blank
      <4>1. i \in Nat
        BY Sizes DEF Memory
      <4>2. CASE i \in Cells
        <5>1. i + VGA_WIDTH \in Memory /\ i + VGA_WIDTH >= At(s.x, s.y)
          BY <2>2, <3>4, <4>1, <4>2, CellBelow, Sizes
        <5>2. s.mem[i + VGA_WIDTH] = Blank
          BY <5>1 DEF CleanFrom
        <5>3. QED
          BY <4>2, <5>2 DEF scroll_down
      <4>3. CASE i \notin Cells
        <5>1. i >= VGA_WIDTH * VGA_HEIGTH
          BY <4>1, <4>3, Sizes DEF Cells
        <5>2. At(0, s.y + 1) = VGA_WIDTH * VGA_HEIGTH
          BY <2>4, Sizes DEF At
        <5>3. s.mem[i] = Blank
          BY <2>2, <5>1, <5>2 DEF CleanFrom
        <5>4. QED
          BY <4>3, <5>3 DEF scroll_down
      <4>4. QED
        BY <4>2, <4>3
    <3>5. CleanFrom(up)
      BY <3>4 DEF CleanFrom
    <3>6. QED
      BY <2>1, <3>1, <3>3, <3>5 DEF Neat
  <2>5. QED
    BY <1>1, <2>3, <2>4, Sizes
<1>4. QED
  BY <1>1, <1>2, <1>3, Sizes

LEMMA NextLineIs ==
  ASSUME NEW s, s \in Screens
  PROVE  NextLine(s) = Scrolled([mem |-> s.mem, x |-> 0, y |-> s.y + 1])
<1>1. s = [mem |-> s.mem, x |-> s.x, y |-> s.y]
  BY DEF Screens
<1>2. /\ [s EXCEPT !.x = 0] = [mem |-> s.mem, x |-> 0, y |-> s.y]
      /\ [[mem |-> s.mem, x |-> 0, y |-> s.y] EXCEPT !.y = s.y + 1]
           = [mem |-> s.mem, x |-> 0, y |-> s.y + 1]
  BY <1>1
<1>3. [s EXCEPT !.x = 0, !.y = s.y + 1] = [mem |-> s.mem, x |-> 0, y |-> s.y + 1]
  BY <1>2, Zenon
<1>4. QED
  BY <1>3 DEF NextLine

LEMMA PutNeat ==
  ASSUME NEW s, Neat(s), NEW c \in Cell
  PROVE  Neat(Put(s, c))
<1> DEFINE u == Typed(s, c)
<1>1. /\ Visible(s) /\ s.x < VGA_WIDTH
      /\ s.x \in 0 .. VGA_WIDTH - 1 /\ s.y \in 0 .. VGA_HEIGTH + 1 /\ s.x + 1 \in 0 .. VGA_WIDTH
  BY Sizes DEF Neat, Visible, Screens
<1>2. /\ Put(s, c) = Scrolled(Ended(u)) /\ Visible(u)
      /\ u.x = s.x + 1 /\ u.y = s.y
      /\ \A i \in Memory : i # At(s.x, s.y) => u.mem[i] = s.mem[i]
  BY <1>1, PutIs
<1> HIDE DEF u
<1>3. ASSUME NEW i \in Memory, i >= At(u.x, u.y)
      PROVE  u.mem[i] = Blank
  <2>1. At(s.x, s.y) < At(s.x + 1, s.y) /\ At(s.x, s.y) \in Nat /\ At(s.x + 1, s.y) \in Nat
    <3>1. s.x < s.x + 1
      BY <1>1
    <3>2. QED
      BY <1>1, <3>1, CellOrder
  <2>2. i \in Nat
    BY Sizes DEF Memory
  <2>3. i # At(s.x, s.y) /\ i >= At(s.x, s.y)
    BY <1>2, <1>3, <2>1, <2>2
  <2>4. QED
    BY <1>2, <2>3 DEF Neat, CleanFrom
<1>4. CleanFrom(u)
  BY <1>3 DEF CleanFrom
<1>5. QED
  BY <1>2, <1>4, ScrolledNeat

LEMMA NextLineNeat ==
  ASSUME NEW s, Neat(s)
  PROVE  Neat(NextLine(s))
<1> DEFINE u == [mem |-> s.mem, x |-> VGA_WIDTH, y |-> s.y]
<1>1. /\ s.x \in 0 .. VGA_WIDTH - 1 /\ s.y \in 0 .. VGA_HEIGTH + 1 /\ VGA_WIDTH \in 0 .. VGA_WIDTH
      /\ s \in Screens /\ s.y < VGA_HEIGTH
  BY Sizes DEF Neat, Visible, Screens
<1>2. Visible(u)
  BY <1>1 DEF Visible, Screens
<1>3. At(s.x, s.y) < At(VGA_WIDTH, s.y) /\ At(s.x, s.y) \in Nat /\ At(VGA_WIDTH, s.y) \in Nat
  <2>1. s.x < VGA_WIDTH
    BY DEF Neat
  <2>2. QED
    BY <1>1, <2>1, CellOrder
<1>4. \A i \in Memory : i >= At(VGA_WIDTH, s.y) => i >= At(s.x, s.y)
  BY <1>3, Sizes DEF Memory
<1>5. CleanFrom(u)
  BY <1>4 DEF Neat, CleanFrom
<1>6. Ended(u) = [mem |-> s.mem, x |-> 0, y |-> s.y + 1]
  BY Sizes DEF Ended
<1>7. NextLine(s) = Scrolled(Ended(u))
  BY <1>1, <1>6, NextLineIs
<1> HIDE DEF u
<1>8. QED
  BY <1>2, <1>5, <1>7, ScrolledNeat

LEMMA BackspaceNeat ==
  ASSUME NEW s, Neat(s)
  PROVE  Neat(BackspaceIn(s))
BY BackspaceIs, BackspaceRows DEF Neat
-----------------------------------------------------------------------------
(* Every call is a step of Teletype.                                       *)

Teletypes(R, Q) ==
  \/ \E c \in Char : Q = Abstract!Written(R, c)
  \/ Q = Abstract!Open(Append(Abstract!Front(R), Abstract!Last(R) \o
                                Abstract!Blanks(VGA_WIDTH - Len(Abstract!Last(R)))))
  \/ Q = IF Len(Abstract!Last(R)) % 2 = 1 THEN Abstract!Written(R, Blank)
         ELSE Abstract!Written(Abstract!Written(R, Blank), Blank)
  \/ Q = Shortened(R)

LEMMA CallTeletypes ==
  ASSUME Neat(Now), NEW t,
         t \in {Put(Now, c) : c \in Char} \cup {Newlined, Backspaced, Tabbed}
  PROVE  Neat(t) /\ Teletypes(RowsOf(Now), RowsOf(t))
<1>1. Visible(Now) /\ Now.x < VGA_WIDTH /\ CleanFrom(Now) /\ Blank \in Cell
  BY DEF Neat, Cell
<1>2. ASSUME NEW c \in Char, t = Put(Now, c)
      PROVE  Neat(t) /\ Teletypes(RowsOf(Now), RowsOf(t))
  <2>1. c \in Cell
    BY DEF Cell
  <2>2. Neat(t) /\ RowsOf(t) = Abstract!Written(RowsOf(Now), c)
    BY <1>1, <1>2, <2>1, PutRows, PutNeat
  <2>3. QED
    BY <2>2 DEF Teletypes
<1>3. CASE t = Newlined
  BY <1>1, <1>3, NextLineRows, NextLineNeat DEF Newlined, Teletypes
<1>4. CASE t = Backspaced
  <2>1. Backspaced = BackspaceIn(Now)
    BY DEF Backspaced, BackspaceIn, Erased
  <2>2. QED
    BY <1>1, <1>4, <2>1, BackspaceRows, BackspaceNeat DEF Teletypes
<1>5. CASE t = Tabbed
  <2> DEFINE p == Put(Now, Blank)
             q == Put(p, Blank)
  <2>1. Neat(p) /\ RowsOf(p) = Abstract!Written(RowsOf(Now), Blank)
    BY <1>1, PutRows, PutNeat
  <2>2. Neat(q) /\ RowsOf(q) = Abstract!Written(RowsOf(p), Blank)
    BY <1>1, <2>1, PutRows, PutNeat DEF Neat
  <2>3. Len(Abstract!Last(RowsOf(Now))) = VGA_x /\ VGA_x \in Nat
    BY <1>1, LastRow DEF Now
  <2> HIDE DEF p, q
  <2>4. t = IF VGA_x % 2 = 0 THEN q ELSE p
    <3>1. Settled(p) = p /\ Settled(q) = q
      BY <2>1, <2>2, SettledKeeps DEF Neat, Visible, Screens
    <3>2. QED
      BY <1>5, <3>1 DEF Tabbed, p, q
  <2>5. VGA_x % 2 = 0 <=> ~ (VGA_x % 2 = 1)
    BY <2>3
  <2>6. QED
    BY <2>1, <2>2, <2>3, <2>4, <2>5 DEF Teletypes
<1>6. QED
  BY <1>2, <1>3, <1>4, <1>5

(* kmain()'s call that no key is echoed in goes on to the screen that was  *)
(* foreseen when it began: what is left to do at each access.              *)

UpFrom(mem, n) ==
  [i \in Memory |-> IF i \in Cells /\ i >= n THEN mem[i + VGA_WIDTH] ELSE mem[i]]

Ahead(mem, x, y, next, c, loaded, g) ==
  LET s == [mem |-> mem, x |-> x, y |-> y]
      right == [mem |-> mem, x |-> x + 1, y |-> y]
      below == [mem |-> mem, x |-> 0, y |-> y + 1] IN
  /\ next \in {"load row", "load column", "store cell"} => g = Put(s, c)
  /\ next = "load column" => loaded = y
  /\ next = "store cell" => loaded = At(x, y)
  /\ next \in {"load x", "store x"} => g = Scrolled(Ended(right))
  /\ next = "store x" => loaded = x + 1
  /\ next = "test x" => g = Scrolled(Ended(s))
  /\ next \in {"start line", "load y", "store y"} => g = Scrolled(below)
  /\ next \in {"load y", "store y", "load y again", "decrease y", "scroll"} => x = 0
  /\ next = "store y" => loaded = y + 1
  /\ next \in {"test y", "clear x"} => g = Scrolled(s)
  /\ next = "clear x" => y >= VGA_HEIGTH
  /\ next \in {"load y again", "decrease y"} =>
       g = [mem |-> scroll_down(mem), x |-> 0, y |-> y - 1]
  /\ next = "decrease y" => loaded = y - 1
  /\ next = "scroll" => g = [mem |-> UpFrom(mem, loaded), x |-> 0, y |-> y]

Idle == kmain.next \in {"none", "over"}

Foreseen ==
  ~ torn =>
    /\ Idle => goal = NoGoal /\ Neat(Now)
    /\ ~ Idle => /\ Neat(goal)
                 /\ Ahead(vga_memory, VGA_x, VGA_y, kmain.next, kmain.c, kmain.loaded, goal)

LEMMA NoGoalIsNone ==
  ASSUME NEW g, Visible(g)
  PROVE  g # NoGoal
<1>1. DOMAIN g.mem = Memory
  BY DEF Visible, Screens
<1>2. 0 \in Memory
  BY Sizes, FirstCell, CellBelow
<1>3. NoGoal.mem = <<>>
  BY DEF NoGoal
<1>4. DOMAIN <<>> = {}
  OBVIOUS
<1>5. QED
  BY <1>1, <1>2, <1>3, <1>4, Zenon

(* An access within a call: what is left to do stays what was foreseen.    *)
LEMMA ReachedForeseen ==
  ASSUME Foreseen, MakeAccess, NEW mem, NEW x, NEW y, NEW next, NEW loaded,
         Reached(mem, x, y, next, loaded), next # "none", next # "over",
         ~ torn => Ahead(mem, x, y, next, kmain.c, loaded, goal)
  PROVE  Foreseen' /\ goal' = goal
<1>1. /\ kmain' = [next |-> next, c |-> kmain.c, loaded |-> loaded]
      /\ vga_memory' = mem /\ VGA_x' = x /\ VGA_y' = y /\ torn' = torn
  BY DEF Reached, MakeAccess
<1>2. kmain'.next = next /\ kmain'.c = kmain.c /\ kmain'.loaded = loaded /\ kmain' # Between
  BY <1>1 DEF Between
<1>3. goal' = goal /\ ~ Idle /\ ~ Idle'
  BY <1>2 DEF MakeAccess, Idle
<1>4. ASSUME ~ torn
      PROVE  /\ Neat(goal)'
             /\ Ahead(vga_memory, VGA_x, VGA_y, kmain.next, kmain.c, kmain.loaded, goal)'
  <2>1. Neat(goal) /\ Ahead(mem, x, y, next, kmain.c, loaded, goal)
    BY <1>3, <1>4 DEF Foreseen
  <2>2. Neat(goal)'
    BY <1>3, <2>1 DEF Neat, Visible, CleanFrom
  <2>3. Ahead(vga_memory', VGA_x', VGA_y', kmain'.next, kmain'.c, kmain'.loaded, goal')
    BY <1>1, <1>2, <1>3, <2>1, Zenon
  <2>4. QED
    BY <2>2, <2>3
<1>5. QED
  BY <1>1, <1>3, <1>4 DEF Foreseen

(* The last access: the screen is the one that was foreseen.               *)
LEMMA ReturnedForeseen ==
  ASSUME Foreseen, MakeAccess, NEW mem, NEW x, NEW y,
         vga_memory' = mem, VGA_x' = x, VGA_y' = y, kmain' = Between,
         ~ torn => goal = [mem |-> mem, x |-> x, y |-> y]
  PROVE  Foreseen' /\ (~ torn => Now' = goal /\ goal' = NoGoal)
<1>1. kmain'.next = "none" /\ goal' = NoGoal /\ torn' = torn /\ ~ Idle
  BY DEF Between, MakeAccess, Idle
<1>2. ASSUME ~ torn
      PROVE  Now' = goal /\ Neat(Now)'
  <2>1. Now' = goal
    BY <1>2 DEF Now
  <2>2. Neat(goal)
    BY <1>1, <1>2 DEF Foreseen
  <2>3. Neat(Now')
    BY <2>1, <2>2
  <2>4. Neat(Now)'
    BY <2>3 DEF Neat, Visible, CleanFrom
  <2>5. QED
    BY <2>1, <2>4, Zenon
<1>3. QED
  BY <1>1, <1>2 DEF Foreseen, Idle

(* Where the call goes on, access by access.                               *)
LEMMA LoadForeseen ==
  ASSUME IInv, Foreseen, MakeAccess, kmain.next \in Loads
  PROVE  Foreseen' /\ goal' = goal
<1> DEFINE A == Ahead(vga_memory, VGA_x, VGA_y, kmain.next, kmain.c, kmain.loaded, goal)
<1>1. Now = [mem |-> vga_memory, x |-> VGA_x, y |-> VGA_y]
  BY DEF Now
<1>2. ~ torn => A
  BY DEF Foreseen, Idle, MakeAccess
<1>3. CASE kmain.next = "load row"
  <2>1. Reached(vga_memory, VGA_x, VGA_y, "load column", VGA_y)
    BY <1>1, <1>3, AccessReaches DEF Access
  <2>2. ~ torn => Ahead(vga_memory, VGA_x, VGA_y, "load column", kmain.c, VGA_y, goal)
    BY <1>2, <1>3 DEF Ahead
  <2>3. QED
    BY <2>1, <2>2, ReachedForeseen
<1>4. CASE kmain.next = "load column"
  <2> DEFINE i == At(VGA_x, kmain.loaded)
  <2>1. Reached(vga_memory, VGA_x, VGA_y, "store cell", i)
    BY <1>1, <1>4, AccessReaches DEF Access
  <2>2. ~ torn => Ahead(vga_memory, VGA_x, VGA_y, "store cell", kmain.c, i, goal)
    BY <1>2, <1>4 DEF Ahead
  <2>3. QED
    BY <2>1, <2>2, ReachedForeseen
<1>5. CASE kmain.next = "load x"
  <2>1. Reached(vga_memory, VGA_x, VGA_y, "store x", VGA_x + 1)
    BY <1>1, <1>5, AccessReaches DEF Access
  <2>2. ~ torn => Ahead(vga_memory, VGA_x, VGA_y, "store x", kmain.c, VGA_x + 1, goal)
    BY <1>2, <1>5 DEF Ahead
  <2>3. QED
    BY <2>1, <2>2, ReachedForeseen
<1>6. CASE kmain.next = "test x"
  <2> DEFINE s == [mem |-> vga_memory, x |-> VGA_x, y |-> VGA_y]
  <2>1. ~ torn => goal = Scrolled(Ended(s))
    BY <1>2, <1>6 DEF Ahead
  <2>2. CASE VGA_x >= VGA_WIDTH
    <3>1. Reached(vga_memory, VGA_x, VGA_y, "start line", 0)
      BY <1>1, <1>6, <2>2, AccessReaches DEF Access
    <3>2. Ended(s) = [mem |-> vga_memory, x |-> 0, y |-> VGA_y + 1]
      BY <2>2 DEF Ended
    <3>3. ~ torn => Ahead(vga_memory, VGA_x, VGA_y, "start line", kmain.c, 0, goal)
      BY <2>1, <3>2 DEF Ahead
    <3>4. QED
      BY <3>1, <3>3, ReachedForeseen
  <2>3. CASE ~ (VGA_x >= VGA_WIDTH)
    <3>1. Reached(vga_memory, VGA_x, VGA_y, "test y", 0)
      BY <1>1, <1>6, <2>3, AccessReaches DEF Access
    <3>2. Ended(s) = s
      BY <2>3 DEF Ended
    <3>3. ~ torn => Ahead(vga_memory, VGA_x, VGA_y, "test y", kmain.c, 0, goal)
      BY <2>1, <3>2 DEF Ahead
    <3>4. QED
      BY <3>1, <3>3, ReachedForeseen
  <2>4. QED
    BY <2>2, <2>3
<1>7. CASE kmain.next = "load y"
  <2>1. Reached(vga_memory, VGA_x, VGA_y, "store y", VGA_y + 1)
    BY <1>1, <1>7, AccessReaches DEF Access
  <2>2. ~ torn => Ahead(vga_memory, VGA_x, VGA_y, "store y", kmain.c, VGA_y + 1, goal)
    BY <1>2, <1>7 DEF Ahead
  <2>3. QED
    BY <2>1, <2>2, ReachedForeseen
<1>8. CASE kmain.next = "load y again"
  <2>1. Reached(vga_memory, VGA_x, VGA_y, "decrease y", VGA_y - 1)
    BY <1>1, <1>8, AccessReaches DEF Access
  <2>2. ~ torn => Ahead(vga_memory, VGA_x, VGA_y, "decrease y", kmain.c, VGA_y - 1, goal)
    BY <1>2, <1>8 DEF Ahead
  <2>3. QED
    BY <2>1, <2>2, ReachedForeseen
<1>9. QED
  BY <1>3, <1>4, <1>5, <1>6, <1>7, <1>8 DEF Loads

LEMMA StoreForeseen ==
  ASSUME IInv, Foreseen, MakeAccess, kmain.next \in Stores
  PROVE  Foreseen' /\ goal' = goal
<1> DEFINE A == Ahead(vga_memory, VGA_x, VGA_y, kmain.next, kmain.c, kmain.loaded, goal)
           s == [mem |-> vga_memory, x |-> VGA_x, y |-> VGA_y]
<1>1. ~ torn => A
  BY DEF Foreseen, Idle, MakeAccess
<1>2. /\ VGA_x \in 0 .. VGA_WIDTH /\ VGA_y \in 0 .. VGA_HEIGTH
      /\ vga_memory \in [Memory -> Cell]
  BY DEF IInv, TypeOK, Cell
<1>3. CASE kmain.next = "store cell"
  <2> DEFINE mem == [vga_memory EXCEPT ![kmain.loaded] = kmain.c]
             right == [mem |-> mem, x |-> VGA_x + 1, y |-> VGA_y]
  <2>1. [Now EXCEPT !.mem[kmain.loaded] = kmain.c] = [mem |-> mem, x |-> VGA_x, y |-> VGA_y]
    BY DEF Now
  <2>2. Reached(mem, VGA_x, VGA_y, "load x", 0)
    BY <1>3, <2>1, AccessReaches DEF Access
  <2>3. ASSUME ~ torn
        PROVE  goal = Scrolled(Ended(right))
    <3>1. goal = Put(s, kmain.c) /\ kmain.loaded = At(VGA_x, VGA_y)
      BY <1>1, <1>3, <2>3 DEF Ahead
    <3>2. Visible(s) /\ s.x < VGA_WIDTH /\ kmain.c \in Cell
      BY <1>2, <1>3 DEF IInv, CursorInPlace, LoadedInPlace, Within, Visible, Screens, Cell
    <3>3. Put(s, kmain.c) = Scrolled(Ended(Typed(s, kmain.c)))
      BY <3>2, PutIs
    <3>4. Typed(s, kmain.c) = right
      BY <3>1 DEF Typed
    <3>5. QED
      BY <3>1, <3>3, <3>4
  <2>4. ~ torn => Ahead(mem, VGA_x, VGA_y, "load x", kmain.c, 0, goal)
    BY <2>3 DEF Ahead
  <2>5. QED
    BY <2>2, <2>4, ReachedForeseen
<1>4. CASE kmain.next = "store x"
  <2>1. [Now EXCEPT !.x = kmain.loaded] = [mem |-> vga_memory, x |-> kmain.loaded, y |-> VGA_y]
    BY DEF Now
  <2>2. Reached(vga_memory, kmain.loaded, VGA_y, "test x", 0)
    BY <1>4, <2>1, AccessReaches DEF Access
  <2>3. ~ torn => Ahead(vga_memory, kmain.loaded, VGA_y, "test x", kmain.c, 0, goal)
    BY <1>1, <1>4 DEF Ahead
  <2>4. QED
    BY <2>2, <2>3, ReachedForeseen
<1>5. CASE kmain.next = "start line"
  <2>1. [Now EXCEPT !.x = 0] = [mem |-> vga_memory, x |-> 0, y |-> VGA_y]
    BY DEF Now
  <2>2. Reached(vga_memory, 0, VGA_y, "load y", 0)
    BY <1>5, <2>1, AccessReaches DEF Access
  <2>3. ~ torn => Ahead(vga_memory, 0, VGA_y, "load y", kmain.c, 0, goal)
    BY <1>1, <1>5 DEF Ahead
  <2>4. QED
    BY <2>2, <2>3, ReachedForeseen
<1>6. CASE kmain.next = "store y"
  <2>1. [Now EXCEPT !.y = kmain.loaded] = [mem |-> vga_memory, x |-> VGA_x, y |-> kmain.loaded]
    BY DEF Now
  <2>2. Reached(vga_memory, VGA_x, kmain.loaded, "test y", 0)
    BY <1>6, <2>1, AccessReaches DEF Access
  <2>3. ~ torn => Ahead(vga_memory, VGA_x, kmain.loaded, "test y", kmain.c, 0, goal)
    BY <1>1, <1>6 DEF Ahead
  <2>4. QED
    BY <2>2, <2>3, ReachedForeseen
<1>7. CASE kmain.next = "clear x"
  <2> DEFINE up == [mem |-> scroll_down(vga_memory), x |-> 0, y |-> VGA_y - 1]
  <2>1. [Now EXCEPT !.x = 0] = [mem |-> vga_memory, x |-> 0, y |-> VGA_y]
    BY DEF Now
  <2>2. Reached(vga_memory, 0, VGA_y, "load y again", 0)
    BY <1>7, <2>1, AccessReaches DEF Access
  <2>3. ~ torn => goal = up
    <3>1. ~ torn => goal = Scrolled(s) /\ s.y >= VGA_HEIGTH
      BY <1>1, <1>7 DEF Ahead
    <3>2. s.y >= VGA_HEIGTH => Scrolled(s) = up
      BY DEF Scrolled
    <3>3. QED
      BY <3>1, <3>2
  <2>4. ~ torn => Ahead(vga_memory, 0, VGA_y, "load y again", kmain.c, 0, goal)
    BY <2>3 DEF Ahead
  <2>5. QED
    BY <2>2, <2>4, ReachedForeseen
<1>8. CASE kmain.next = "decrease y"
  <2>1. [Now EXCEPT !.y = kmain.loaded] = [mem |-> vga_memory, x |-> VGA_x, y |-> kmain.loaded]
    BY DEF Now
  <2>2. Reached(vga_memory, VGA_x, kmain.loaded, "scroll", 0)
    BY <1>8, <2>1, AccessReaches DEF Access
  <2>3. UpFrom(vga_memory, 0) = scroll_down(vga_memory)
    <3>1. \A i \in Cells : i >= 0
      BY CellNumber
    <3>2. QED
      BY <3>1 DEF UpFrom, scroll_down
  <2>4. ~ torn => Ahead(vga_memory, VGA_x, kmain.loaded, "scroll", kmain.c, 0, goal)
    BY <1>1, <1>8, <2>3 DEF Ahead
  <2>5. QED
    BY <2>2, <2>4, ReachedForeseen
<1>9. QED
  BY <1>3, <1>4, <1>5, <1>6, <1>7, <1>8 DEF Stores

LEMMA LastForeseen ==
  ASSUME IInv, Foreseen, MakeAccess, kmain.next \in Lasts
  PROVE  Foreseen' /\ (~ torn => goal' = goal \/ (Now' = goal /\ goal' = NoGoal))
<1> DEFINE A == Ahead(vga_memory, VGA_x, VGA_y, kmain.next, kmain.c, kmain.loaded, goal)
           s == [mem |-> vga_memory, x |-> VGA_x, y |-> VGA_y]
<1>1. ~ torn => A
  BY DEF Foreseen, Idle, MakeAccess
<1>2. Now = s /\ Now.y = VGA_y /\ Now.mem = vga_memory
  BY DEF Now
<1>3. CASE kmain.next = "test y"
  <2>1. ~ torn => goal = Scrolled(s)
    BY <1>1, <1>3 DEF Ahead
  <2>2. CASE VGA_y >= VGA_HEIGTH
    <3>1. Reached(vga_memory, VGA_x, VGA_y, "clear x", 0)
      BY <1>2, <1>3, <2>2, AccessReaches DEF Access
    <3>2. ~ torn => Ahead(vga_memory, VGA_x, VGA_y, "clear x", kmain.c, 0, goal)
      BY <2>1, <2>2 DEF Ahead
    <3>3. QED
      BY <3>1, <3>2, ReachedForeseen
  <2>3. CASE ~ (VGA_y >= VGA_HEIGTH)
    <3>1. vga_memory' = vga_memory /\ VGA_x' = VGA_x /\ VGA_y' = VGA_y /\ kmain' = Between
      BY <1>2, <1>3, <2>3, AccessReturns DEF Access
    <3>2. Scrolled(s) = s
      BY <2>3 DEF Scrolled
    <3>3. QED
      BY <2>1, <3>1, <3>2, ReturnedForeseen
  <2>4. QED
    BY <2>2, <2>3
<1>4. CASE kmain.next = "scroll"
  <2> DEFINE i == kmain.loaded
             mem == [vga_memory EXCEPT ![i] = vga_memory[i + VGA_WIDTH]]
  <2>1. [Now EXCEPT !.mem[i] = vga_memory[i + VGA_WIDTH]]
          = [mem |-> mem, x |-> VGA_x, y |-> VGA_y]
    BY <1>2
  <2>2. Access(Now, kmain) =
          IF i + 1 \in Cells
          THEN Did([mem |-> mem, x |-> VGA_x, y |-> VGA_y], kmain, "scroll", i + 1)
          ELSE End([mem |-> mem, x |-> VGA_x, y |-> VGA_y])
    BY <1>2, <1>4, <2>1 DEF Access
  <2>3. /\ i \in Cells /\ i \in Nat /\ i \in Memory
        /\ vga_memory \in [Memory -> Cell]
    <3>1. i \in Cells
      BY <1>4 DEF IInv, LoadedInPlace
    <3>2. QED
      BY <3>1, CellNumber, CellBelow DEF IInv, TypeOK, Cell
  <2>4. ~ torn => VGA_x = 0 /\ goal = [mem |-> UpFrom(vga_memory, i), x |-> 0, y |-> VGA_y]
    BY <1>1, <1>4 DEF Ahead
  <2>5. UpFrom(mem, i + 1) = UpFrom(vga_memory, i)
    <3>1. ASSUME NEW j \in Memory
          PROVE  (IF j \in Cells /\ j >= i + 1 THEN mem[j + VGA_WIDTH] ELSE mem[j])
                   = IF j \in Cells /\ j >= i THEN vga_memory[j + VGA_WIDTH] ELSE vga_memory[j]
      <4>1. j \in Nat
        BY Sizes DEF Memory
      <4>2. CASE j = i
        BY <2>3, <4>1, <4>2
      <4>3. CASE j # i /\ j \in Cells /\ j >= i + 1
        <5>1. j + VGA_WIDTH # i /\ j + VGA_WIDTH \in Memory /\ j >= i
          BY <2>3, <4>1, <4>3, CellBelow, Sizes
        <5>2. QED
          BY <2>3, <4>3, <5>1
      <4>4. CASE j # i /\ ~ (j \in Cells /\ j >= i + 1)
        <5>1. ~ (j \in Cells /\ j >= i)
          BY <2>3, <4>1, <4>4
        <5>2. QED
          BY <2>3, <4>4, <5>1
      <4>5. QED
        BY <4>2, <4>3, <4>4
    <3>2. QED
      BY <3>1 DEF UpFrom
  <2>6. CASE i + 1 \in Cells
    <3>1. Reached(mem, VGA_x, VGA_y, "scroll", i + 1)
      BY <2>2, <2>6, AccessReaches
    <3> HIDE DEF mem
    <3>2. ~ torn => Ahead(mem, VGA_x, VGA_y, "scroll", kmain.c, i + 1, goal)
      BY <2>4, <2>5 DEF Ahead
    <3>3. QED
      BY <3>1, <3>2, ReachedForeseen
  <2>7. CASE i + 1 \notin Cells
    <3>1. vga_memory' = mem /\ VGA_x' = VGA_x /\ VGA_y' = VGA_y /\ kmain' = Between
      BY <2>2, <2>7, AccessReturns
    <3>2. UpFrom(mem, i + 1) = mem
      <4>1. ASSUME NEW j \in Memory
            PROVE  ~ (j \in Cells /\ j >= i + 1)
        BY <2>3, <2>7, Sizes DEF Cells
      <4>2. mem \in [Memory -> Cell]
        <5>1. vga_memory[i + VGA_WIDTH] \in Cell
          BY <2>3, CellBelow
        <5>2. QED
          BY <2>3, <5>1
      <4> HIDE DEF mem
      <4>3. QED
        BY <4>1, <4>2 DEF UpFrom
    <3> HIDE DEF mem
    <3>3. ~ torn => goal = [mem |-> mem, x |-> VGA_x, y |-> VGA_y]
      BY <2>4, <2>5, <3>2
    <3>4. QED
      BY <3>1, <3>3, ReturnedForeseen
  <2>8. QED
    BY <2>6, <2>7
<1>5. QED
  BY <1>3, <1>4 DEF Lasts

LEMMA AccessForeseen ==
  ASSUME IInv, Foreseen, MakeAccess
  PROVE  Foreseen' /\ (~ torn => goal' = goal \/ (Now' = goal /\ goal' = NoGoal))
<1>1. kmain.next \in Loads \cup Stores \cup Lasts
  BY DEF MakeAccess, IInv, TypeOK, Within, RightOf, Below, Loads, Stores, Lasts
<1>2. CASE kmain.next \in Loads
  BY <1>2, LoadForeseen
<1>3. CASE kmain.next \in Stores
  BY <1>3, StoreForeseen
<1>4. CASE kmain.next \in Lasts
  BY <1>4, LastForeseen
<1>5. QED
  BY <1>1, <1>2, <1>3, <1>4
-----------------------------------------------------------------------------
(* The refinement: every step is one of Teletype, or shows the same.       *)

LEMMA ShownBetween ==
  /\ goal = NoGoal => RowsShown = RowsOf(Now)
  /\ goal' = NoGoal => RowsShown' = RowsOf(Now')
BY DEF RowsShown, RowsOf, RowOf

LEMMA ShownWithin ==
  /\ goal # NoGoal => RowsShown = RowsOf(goal)
  /\ goal' # NoGoal => RowsShown' = RowsOf(goal')
BY DEF RowsShown, RowsOf, RowOf

LEMMA TeletypesNext ==
  ASSUME Teletypes(RowsShown, RowsShown')
  PROVE  Abstract!Next
<1> DEFINE R == RowsShown
           Q == RowsShown'
<1>1. CASE \E c \in Char : Q = Abstract!Written(R, c)
  BY <1>1 DEF Abstract!Next, Abstract!Write
<1>2. CASE Q = Abstract!Open(Append(Abstract!Front(R), Abstract!Last(R) \o
                     Abstract!Blanks(VGA_WIDTH - Len(Abstract!Last(R)))))
  BY <1>2 DEF Abstract!Next, Abstract!EndRow
<1>3. CASE Q = IF Len(Abstract!Last(R)) % 2 = 1 THEN Abstract!Written(R, Blank)
               ELSE Abstract!Written(Abstract!Written(R, Blank), Blank)
  BY <1>3 DEF Abstract!Next, Abstract!Tab
<1>4. CASE Q = Shortened(R)
  BY <1>4 DEF Abstract!Next, Abstract!Backspace, Shortened
<1>5. QED
  BY <1>1, <1>2, <1>3, <1>4 DEF Teletypes

Shows == Foreseen' /\ (torn' \/ Abstract!Next \/ UNCHANGED RowsShown)

(* A call that nothing interrupts, between those of kmain().               *)
LEMMA CallShows ==
  ASSUME Foreseen, NEW t \in {Put(Now, c) : c \in Char} \cup {Newlined, Backspaced, Tabbed},
         Become(t), kmain' = kmain, Idle, ~ torn' => ~ torn, ~ torn => goal' = NoGoal
  PROVE  Shows
<1>1. ASSUME ~ torn
      PROVE  goal' = NoGoal /\ Neat(Now)' /\ Abstract!Next
  <2>1. goal = NoGoal /\ goal' = NoGoal /\ Neat(Now)
    BY <1>1 DEF Foreseen
  <2>2. Neat(t) /\ Teletypes(RowsOf(Now), RowsOf(t))
    BY <2>1, CallTeletypes
  <2>3. t = Now'
    <3>1. t \in Screens
      BY <2>2 DEF Neat, Visible
    <3>2. t = [mem |-> t.mem, x |-> t.x, y |-> t.y]
      BY <3>1 DEF Screens
    <3>3. QED
      BY <3>2 DEF Become, Now
  <2>4. Neat(Now') /\ Teletypes(RowsShown, RowsShown')
    BY <2>1, <2>2, <2>3, ShownBetween
  <2>5. Neat(Now)'
    BY <2>4 DEF Neat, Visible, CleanFrom
  <2>6. Abstract!Next
    BY <2>4, TeletypesNext
  <2>7. QED
    BY <2>1, <2>5, <2>6, Zenon
<1>2. Idle'
  BY DEF Idle
<1>3. Foreseen'
  BY <1>1, <1>2 DEF Foreseen
<1>4. torn' \/ Abstract!Next
  BY <1>1
<1>5. QED
  BY <1>3, <1>4 DEF Shows

LEMMA WriteShows ==
  ASSUME Foreseen, Write
  PROVE  Shows
<1>1. PICK t \in {Put(Now, c) : c \in Char} \cup {Newlined, Backspaced, Tabbed} : Become(t)
  BY DEF Write
<1>2. kmain' = kmain /\ Idle /\ torn' = torn /\ goal' = goal
  BY DEF Write, Over, Between, Idle
<1>3. ~ torn => goal' = NoGoal
  BY <1>2 DEF Foreseen
<1>4. QED
  BY <1>1, <1>2, <1>3, CallShows

LEMMA EchoShows ==
  ASSUME Foreseen, EchoChar \/ EchoNewline \/ EchoBackspace
  PROVE  Shows
<1>1. PICK t \in {Put(Now, c) : c \in Char} \cup {Newlined, Backspaced, Tabbed} :
        \E n : Echo(t, n)
  BY DEF EchoChar, EchoNewline, EchoBackspace
<1>2. /\ Become(t) /\ kmain' = kmain /\ goal' = NoGoal
      /\ torn' = (torn \/ kmain # Between)
  BY <1>1 DEF Echo
<1>3. CASE torn'
  BY <1>3 DEF Shows, Foreseen
<1>4. CASE ~ torn'
  <2>1. ~ torn /\ kmain = Between
    BY <1>2, <1>4
  <2>2. Idle
    BY <2>1 DEF Idle, Between
  <2>3. QED
    BY <1>1, <1>2, <1>4, <2>1, <2>2, CallShows
<1>5. QED
  BY <1>3, <1>4

LEMMA BeginShows ==
  ASSUME IInv, Foreseen, NEW c \in Char \cup {Newline}, BeginCall(c)
  PROVE  Shows
<1> DEFINE t == IF c = Newline THEN NextLine(Now) ELSE Put(Now, c)
           s == [mem |-> vga_memory, x |-> VGA_x, y |-> VGA_y]
<1>1. /\ kmain = Between /\ kmain'.next = (IF c = Newline THEN "start line" ELSE "load row")
      /\ kmain'.c = c /\ kmain'.loaded = 0
      /\ UNCHANGED <<vga_memory, VGA_x, VGA_y, torn>>
      /\ ~ torn => goal' = t
  BY DEF BeginCall, Starts
<1>2. Idle /\ ~ Idle'
  BY <1>1 DEF Idle, Between
<1>3. Now = s
  BY DEF Now
<1>4. ASSUME ~ torn
      PROVE  /\ Neat(goal)' /\ Abstract!Next
             /\ Ahead(vga_memory, VGA_x, VGA_y, kmain.next, kmain.c, kmain.loaded, goal)'
  <2>1. goal = NoGoal /\ Neat(Now) /\ goal' = t
    BY <1>1, <1>2, <1>4 DEF Foreseen
  <2>2. t \in {Put(Now, d) : d \in Char} \cup {Newlined, Backspaced, Tabbed}
    BY DEF Newlined
  <2>3. Neat(t) /\ Teletypes(RowsOf(Now), RowsOf(t))
    BY <2>1, <2>2, CallTeletypes
  <2>4. t # NoGoal
    BY <2>3, NoGoalIsNone DEF Neat
  <2>5. Ahead(vga_memory, VGA_x, VGA_y, kmain'.next, c, 0, t)
    <3>1. CASE c = Newline
      <4>1. Now \in Screens
        BY <2>1 DEF Neat, Visible
      <4>2. NextLine(Now) = Scrolled([mem |-> vga_memory, x |-> 0, y |-> VGA_y + 1])
        BY <1>3, <4>1, NextLineIs
      <4>3. t = NextLine(Now) /\ kmain'.next = "start line"
        BY <1>1, <3>1
      <4> HIDE DEF t
      <4>4. QED
        BY <4>2, <4>3 DEF Ahead
    <3>2. CASE c # Newline
      <4>1. t = Put(s, c) /\ kmain'.next = "load row"
        BY <1>1, <1>3, <3>2
      <4> HIDE DEF t
      <4>2. QED
        BY <4>1 DEF Ahead
    <3>3. QED
      BY <3>1, <3>2
  <2> HIDE DEF t
  <2>6. Abstract!Next
    BY <2>1, <2>3, <2>4, ShownBetween, ShownWithin, TeletypesNext
  <2>7. Neat(goal)'
    <3>1. Neat(goal')
      BY <2>1, <2>3
    <3>2. QED
      BY <3>1 DEF Neat, Visible, CleanFrom
  <2>8. Ahead(vga_memory', VGA_x', VGA_y', kmain'.next, kmain'.c, kmain'.loaded, goal')
    BY <1>1, <2>1, <2>5
  <2>9. QED
    BY <2>6, <2>7, <2>8, Zenon
<1>5. Foreseen'
  BY <1>1, <1>2, <1>4 DEF Foreseen
<1>6. torn' \/ Abstract!Next
  BY <1>1, <1>4
<1>7. QED
  BY <1>5, <1>6 DEF Shows

LEMMA AccessShows ==
  ASSUME IInv, Foreseen, MakeAccess
  PROVE  Shows
<1>1. Foreseen' /\ (~ torn => goal' = goal \/ (Now' = goal /\ goal' = NoGoal))
  BY AccessForeseen
<1>2. torn' = torn
  BY DEF MakeAccess
<1>3. ASSUME ~ torn
      PROVE  RowsShown' = RowsShown
  <2>1. Neat(goal) /\ goal # NoGoal
    <3>1. Neat(goal)
      BY <1>3 DEF MakeAccess, Foreseen, Idle
    <3>2. QED
      BY <3>1, NoGoalIsNone DEF Neat
  <2>2. CASE goal' = goal
    BY <2>1, <2>2, ShownWithin
  <2>3. CASE Now' = goal /\ goal' = NoGoal
    BY <2>1, <2>3, ShownBetween, ShownWithin
  <2>4. QED
    BY <1>1, <1>3, <2>2, <2>3
<1>4. QED
  BY <1>1, <1>2, <1>3 DEF Shows

LEMMA EnterShows ==
  ASSUME Foreseen, EnterUserMode
  PROVE  Shows
<1>1. /\ kmain'.next = "over" /\ kmain.next = "none"
      /\ UNCHANGED <<vga_memory, VGA_x, VGA_y, torn, goal>>
  BY DEF EnterUserMode, Over, Between
<1>2. Idle /\ Idle'
  BY <1>1 DEF Idle
<1>3. RowsShown' = RowsShown
  BY <1>1 DEF RowsShown, Now
<1>4. Foreseen'
  BY <1>1, <1>2 DEF Foreseen, Neat, Visible, CleanFrom, Now
<1>5. QED
  BY <1>3, <1>4 DEF Shows

LEMMA NextShows ==
  ASSUME IInv, Foreseen, [Next]_vars
  PROVE  Shows
<1>1. CASE Write
  BY <1>1, WriteShows
<1>2. CASE EchoChar \/ EchoNewline \/ EchoBackspace
  BY <1>2, EchoShows
<1>3. ASSUME NEW c \in Char \cup {Newline}, BeginCall(c)
      PROVE  Shows
  BY <1>3, BeginShows
<1>4. CASE MakeAccess
  BY <1>4, AccessShows
<1>5. CASE EnterUserMode
  BY <1>5, EnterShows
<1>6. CASE UNCHANGED vars
  <2>1. RowsShown' = RowsShown
    BY <1>6 DEF vars, RowsShown, Now
  <2>2. Foreseen'
    BY <1>6 DEF vars, Foreseen, Idle, Ahead, Neat, Visible, CleanFrom, Now
  <2>3. QED
    BY <2>1, <2>2 DEF Shows
<1>7. QED
  BY <1>1, <1>2, <1>3, <1>4, <1>5, <1>6 DEF Next

LEMMA InitForeseen ==
  ASSUME Init
  PROVE  Foreseen /\ Abstract!Init
<1>1. /\ kmain.next = "none" /\ goal = NoGoal
      /\ Now = [mem |-> [i \in Memory |-> Blank], x |-> 0, y |-> 0]
  BY DEF Init, Between, Now
<1>2. Neat(Now)
  BY <1>1, Sizes DEF Neat, Visible, CleanFrom, Screens
<1>3. Foreseen
  BY <1>1, <1>2 DEF Foreseen, Idle
<1>4. RowsShown = << <<>> >>
  <2>1. Visible(Now) /\ Now.x = 0 /\ Now.y = 0
    BY <1>1, <1>2 DEF Neat
  <2>2. /\ << <<>> >> \in Seq(Row) /\ Len(<< <<>> >>) = Now.y + 1
        /\ << <<>> >>[1] = <<>> /\ Len(<<>>) = 0
    BY <2>1 DEF Row
  <2>3. ASSUME NEW r \in 1 .. Now.y + 1
        PROVE  /\ Len(<< <<>> >>[r]) = (IF r = Now.y + 1 THEN Now.x ELSE VGA_WIDTH)
               /\ \A i \in 1 .. Len(<< <<>> >>[r]) :
                    << <<>> >>[r][i] = Now.mem[At(i - 1, r - 1)]
    <3>1. r = 1 /\ r = Now.y + 1
      BY <2>1
    <3>2. QED
      BY <2>1, <2>2, <3>1
  <2>4. << <<>> >> = RowsOf(Now)
    BY <2>1, <2>2, <2>3, RowsEqual
  <2>5. QED
    BY <1>1, <2>4, ShownBetween
<1>5. QED
  BY <1>3, <1>4 DEF Abstract!Init

(* As long as no key was echoed inside of a call of kmain(), the screen of *)
(* vga_putchar() implements Teletype: for every size of the screen, what   *)
(* it shows are the last lines that were written, through wrapping,        *)
(* scrolling by memcpy(), tabs and backspaces over all edges, and a call   *)
(* that makes its accesses one by one ends with the screen that the whole  *)
(* call would have made.                                                   *)
THEOREM ShowsTeletype == Spec => ImplementsTeletype
<1>1. Init => Foreseen /\ Abstract!Init
  BY InitForeseen
<1>2. IInv /\ Foreseen /\ [Next]_vars => Foreseen' /\ (torn' \/ Abstract!Next \/ UNCHANGED RowsShown)
  BY NextShows DEF Shows
<1>3. QED
  BY <1>1, <1>2, InductiveInvariant, PTL DEF Spec, ImplementsTeletype
=============================================================================
