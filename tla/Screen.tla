-------------------------------- MODULE Screen --------------------------------
(***************************************************************************)
(* vga_putchar(): the text screen and its cursor (kernel/vga.c).  In       *)
(* handlers and system calls it runs with interrupts disabled and is one   *)
(* step.  kmain() writes while interrupts are enabled: its calls are       *)
(* modelled access by access, as gcc compiles them without optimisation,   *)
(* and the echo of a key can come between any two.                         *)
(***************************************************************************)
EXTENDS Naturals

CONSTANTS
  VGA_WIDTH, VGA_HEIGTH,  (* 80 and 25                           *)
  Char,                   (* printable characters                *)
  Blank,                  (* ' '                                 *)
  Newline,                (* '\n'                                *)
  MAX_TYPED               (* bound: the characters of a line that *)
                          (* is typed while the kernel starts; if *)
                          (* backspace can erase more than the    *)
                          (* bound's rows, VGA_y may become -1    *)

ASSUME ScreenAssumption ==
  /\ VGA_WIDTH \in Nat \ {0} /\ VGA_WIDTH % 2 = 0
  /\ VGA_HEIGTH \in Nat \ 0 .. 3
  /\ Newline \notin Char
  /\ MAX_TYPED \in Nat /\ MAX_TYPED <= VGA_WIDTH * (VGA_HEIGTH - 3)

(* The screen, and video memory with two lines more. *)
Cells == 0 .. VGA_WIDTH * VGA_HEIGTH - 1
Memory == 0 .. VGA_WIDTH * (VGA_HEIGTH + 2) - 1

VARIABLES
  vga_memory,   (* the cells of video memory                            *)
  VGA_x, VGA_y, (* the place of the next character                      *)
  kmain,        (* kmain()'s call: its next access, its character and   *)
                (* what it has loaded                                   *)
  typed,        (* the characters that backspace can erase              *)
  torn,         (* history: a key was echoed inside of one of its calls *)
  goal          (* history: the screen after the call, if none is       *)

vars == <<vga_memory, VGA_x, VGA_y, kmain, typed, torn, goal>>

Between == [next |-> "none", c |-> Blank, loaded |-> 0]  \* no call
Over == [Between EXCEPT !.next = "over"]                 \* user mode was entered
NoGoal == [mem |-> <<>>, x |-> 0, y |-> 0]

(* init_vga(); the BIOS has cleared the memory behind the screen. *)
Init ==
  /\ vga_memory = [i \in Memory |-> Blank]
  /\ VGA_x = 0 /\ VGA_y = 0
  /\ kmain = Between /\ typed = 0 /\ torn = FALSE /\ goal = NoGoal
-----------------------------------------------------------------------------
(* The state as a value: kprintf("  ") calls vga_putchar() from within. *)
Now == [mem |-> vga_memory, x |-> VGA_x, y |-> VGA_y]
Become(s) == vga_memory' = s.mem /\ VGA_x' = s.x /\ VGA_y' = s.y

At(x, y) == y * VGA_WIDTH + x

(* As many cells as the screen has are copied: its last line becomes what  *)
(* is in the memory behind it.                                             *)
ScrollKeepsLast(mem) ==  \* mutant: the last line stays as it is
  [i \in Memory |-> IF i + VGA_WIDTH \in Cells THEN mem[i + VGA_WIDTH] ELSE mem[i]]
scroll_down(mem) ==
  [i \in Memory |-> IF i \in Cells THEN mem[i + VGA_WIDTH] ELSE mem[i]]

(* The tests behind the switch. *)
WrappedLate(s) == IF s.x > VGA_WIDTH THEN [s EXCEPT !.x = 0, !.y = @ + 1] ELSE s  \* mutant: off by one
Wrapped(s) == IF s.x >= VGA_WIDTH THEN [s EXCEPT !.x = 0, !.y = @ + 1] ELSE s
Scrolled(s) ==
  IF s.y >= VGA_HEIGTH THEN [mem |-> scroll_down(s.mem), x |-> 0, y |-> s.y - 1] ELSE s

Settled(s) == Scrolled(Wrapped(s))

Put(s, c) ==
  Settled([s EXCEPT !.mem[At(s.x, s.y)] = c, !.x = @ + 1])

(* The first test finds x = 0. *)
NextLine(s) == Scrolled([s EXCEPT !.x = 0, !.y = @ + 1])

(* One place back: from the first column to the last of the line above,    *)
(* from the top left corner to the bottom right one.                       *)
Back(s) ==
  IF s.x > 0 THEN [s EXCEPT !.x = @ - 1]
  ELSE [s EXCEPT !.x = VGA_WIDTH - 1, !.y = IF @ = 0 THEN VGA_HEIGTH - 1 ELSE @ - 1]

(* The calls that nothing interrupts.  The tests follow every case of the  *)
(* switch, those within a tab's two blanks and once more behind them.      *)
Newlined == NextLine(Now)
Backspaced == LET s == Back(Now) IN Settled([s EXCEPT !.mem[At(s.x, s.y)] = Blank])
Tabbed == Settled(IF VGA_x % 2 = 0 THEN Put(Put(Now, Blank), Blank) ELSE Put(Now, Blank))

(* A program or a handler, when bin/init has started. *)
Write ==
  /\ kmain = Over
  /\ \E s \in {Put(Now, c) : c \in Char} \cup {Newlined, Backspaced, Tabbed} : Become(s)
  /\ UNCHANGED <<kmain, typed, torn, goal>>

(* Before that, only the keyboard's handler: tty_input(). *)
Echo(s, n) ==
  /\ kmain # Over
  /\ Become(s)
  /\ typed' = n
  /\ torn' = (torn \/ kmain # Between)
  /\ goal' = NoGoal
  /\ UNCHANGED kmain

EchoChar ==
  /\ typed < MAX_TYPED
  /\ \E s \in {Put(Now, c) : c \in Char} \cup {Tabbed} : Echo(s, typed + 1)
EchoNewline == Echo(Newlined, 0)
EchoBackspace == typed > 0 /\ Echo(Backspaced, typed - 1)
-----------------------------------------------------------------------------
(* An access of kmain()'s call k in screen s: both after it. *)
Did(s, k, next, loaded) == [s |-> s, k |-> [k EXCEPT !.next = next, !.loaded = loaded]]
End(s) == [s |-> s, k |-> Between]
Access(s, k) ==
  CASE k.next = "load row"    -> Did(s, k, "load column", s.y)
    [] k.next = "load column" -> Did(s, k, "store cell", At(s.x, k.loaded))
    [] k.next = "store cell"  -> Did([s EXCEPT !.mem[k.loaded] = k.c], k, "load x", 0)
    [] k.next = "load x"      -> Did(s, k, "store x", s.x + 1)
    [] k.next = "store x"     -> Did([s EXCEPT !.x = k.loaded], k, "test x", 0)
    [] k.next = "test x"      -> Did(s, k, IF s.x >= VGA_WIDTH THEN "start line" ELSE "test y", 0)
    [] k.next = "start line"  -> Did([s EXCEPT !.x = 0], k, "load y", 0)
    [] k.next = "load y"      -> Did(s, k, "store y", s.y + 1)
    [] k.next = "store y"     -> Did([s EXCEPT !.y = k.loaded], k, "test y", 0)
    [] k.next = "test y"      -> IF s.y >= VGA_HEIGTH THEN Did(s, k, "clear x", 0) ELSE End(s)
    [] k.next = "clear x"     -> Did([s EXCEPT !.x = 0], k, "load y again", 0)
    [] k.next = "load y again" -> Did(s, k, "decrease y", s.y - 1)
    [] k.next = "decrease y"  -> Did([s EXCEPT !.y = k.loaded], k, "scroll", 0)
    [] k.next = "scroll"      ->  \* memcpy(), cell by cell
         LET scrolled == [s EXCEPT !.mem[k.loaded] = s.mem[k.loaded + VGA_WIDTH]] IN
         IF k.loaded + 1 \in Cells THEN Did(scrolled, k, "scroll", k.loaded + 1) ELSE End(scrolled)

(* '\n': the test of x follows, but finds x = 0 unless keys came between.  *)
Starts(c) == [next |-> IF c = Newline THEN "start line" ELSE "load row", c |-> c, loaded |-> 0]

BeginCall(c) ==
  /\ kmain = Between
  /\ kmain' = Starts(c)
  /\ goal' = IF torn THEN NoGoal ELSE IF c = Newline THEN NextLine(Now) ELSE Put(Now, c)
  /\ UNCHANGED <<vga_memory, VGA_x, VGA_y, typed, torn>>

MakeAccess ==
  /\ kmain.next \notin {"none", "over"}
  /\ Become(Access(Now, kmain).s)
  /\ kmain' = Access(Now, kmain).k
  /\ goal' = IF kmain' = Between THEN NoGoal ELSE goal
  /\ UNCHANGED <<typed, torn>>

EnterUserMode ==
  /\ kmain = Between
  /\ kmain' = Over
  /\ UNCHANGED <<vga_memory, VGA_x, VGA_y, typed, torn, goal>>

Next ==
  \/ Write \/ EchoChar \/ EchoNewline \/ EchoBackspace
  \/ (\E c \in Char \cup {Newline} : BeginCall(c)) \/ MakeAccess \/ EnterUserMode

Spec == Init /\ [][Next]_vars
-----------------------------------------------------------------------------
(* However keys and kmain()'s messages mix: between the calls the cursor   *)
(* is on the screen, within them at most in the line behind it, and no     *)
(* memory behind that line is written.                                     *)
CursorReturns ==
  /\ VGA_x \in 0 .. VGA_WIDTH /\ VGA_y \in 0 .. VGA_HEIGTH
  /\ kmain.next \in {"none", "over"} => VGA_x < VGA_WIDTH /\ VGA_y < VGA_HEIGTH
  /\ \A i \in Memory : i >= At(0, VGA_HEIGTH + 1) => vga_memory[i] = Blank

(* The lines above the cursor's, and the cursor's up to it; a call of      *)
(* kmain() counts as soon as it begins.                                    *)
RowsShown ==
  LET s == IF goal = NoGoal THEN Now ELSE goal IN
  [r \in 1 .. s.y + 1 |->
     [c \in 1 .. (IF r = s.y + 1 THEN s.x ELSE VGA_WIDTH) |-> s.mem[At(c - 1, r - 1)]]]

Abstract == INSTANCE Teletype WITH
  rows <- RowsShown, WIDTH <- VGA_WIDTH, HEIGHT <- VGA_HEIGTH

(* As long as no key was echoed inside of a call of kmain(), the screen    *)
(* shows the last lines that were written, and nothing behind the cursor   *)
(* comes back later: wrapping, scrolling and going back fit together at    *)
(* all edges.                                                              *)
ImplementsTeletype ==
  Abstract!Init /\ [][torn' \/ Abstract!Next \/ UNCHANGED RowsShown]_vars

(* The same when keys come at any time.  A character that is echoed behind *)
(* the screen appears in the last line again and again.                    *)
AlwaysTeletype == Abstract!Spec
=============================================================================
