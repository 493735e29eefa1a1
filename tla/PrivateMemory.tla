---------------------------- MODULE PrivateMemory ----------------------------
(***************************************************************************)
(* What fork(), execve() and paging promise to programs: every process has *)
(* a memory of its own, a copy of its parent's at the fork, that nobody    *)
(* else writes to.  AddrSpace is shown to implement this.                  *)
(***************************************************************************)
CONSTANTS Task, Page, Value, Images, Junk, None

VARIABLES
  memory,  (* memory[t][v]: what t has on page v, None if it has no page v *)
  up       (* the kernel has not stopped                                    *)

vars == <<memory, up>>

Blank == [v \in Page |-> None]

Init ==
  /\ \E image \in Images : memory = [t \in Task |-> IF t = 0 THEN image ELSE Blank]
  /\ up = TRUE

Store(t, v, x) == memory' = [memory EXCEPT ![t][v] = x]

(* A page appears, with whatever is in it. *)
Grow(t, v) == memory[t][v] = None /\ Store(t, v, Junk)

Write(t, v, x) == memory[t][v] # None /\ Store(t, v, x)

Fork(t, c) ==
  /\ memory[c] = Blank
  /\ memory' = [memory EXCEPT ![c] = memory[t]]

Exec(t) == \E image \in Images : memory' = [memory EXCEPT ![t] = image]

Exit(t) == memory' = [memory EXCEPT ![t] = Blank]

Step ==
  \E t \in Task :
    \/ \E v \in Page : Grow(t, v)
    \/ \E v \in Page, x \in Value : Write(t, v, x)
    \/ \E c \in Task : Fork(t, c)
    \/ Exec(t)
    \/ Exit(t)

Next == up /\ (up' = FALSE \/ (up' = TRUE /\ Step))

Spec == Init /\ [][Next]_vars
=============================================================================
