----------------------------- MODULE LineEditor -----------------------------
(***************************************************************************)
(* What the terminal promises to the user and to the programs: a line that *)
(* is edited, and an input queue to which a finished line is added.  Each  *)
(* holds Capacity characters; one character more is refused, or all that   *)
(* was there is lost.  Tty is shown to implement this.                     *)
(***************************************************************************)
EXTENDS Naturals, Sequences

CONSTANTS Capacity, Char, Newline, Requests, Writes

VARIABLES
  line,   (* the characters typed since the last newline key    *)
  input,  (* what programs can read                             *)
  got     (* what the last read() returned                      *)

vars == <<line, input, got>>

(* What can be left of the characters s that were put into one queue: the  *)
(* first ones, or what came behind the last character too many.            *)
Kept(s) ==
  IF Len(s) <= Capacity THEN {s}
  ELSE {SubSeq(s, 1, Capacity), SubSeq(s, Len(s) - (Len(s) % (Capacity + 1)) + 1, Len(s))}

Init ==
  /\ line = <<>>
  /\ input = <<>>
  /\ got = <<>>

Type(c) ==
  /\ line' \in Kept(Append(line, c))
  /\ UNCHANGED <<input, got>>

Erase ==
  /\ line # <<>>
  /\ line' = SubSeq(line, 1, Len(line) - 1)
  /\ UNCHANGED <<input, got>>

Enter ==
  /\ \E finished \in Kept(Append(line, Newline)) : input' \in Kept(input \o finished)
  /\ line' = <<>>
  /\ UNCHANGED got

(* write() to the terminal's input: the first character is left out. *)
Write(s) ==
  /\ input' \in Kept(input \o SubSeq(s, 2, Len(s)))
  /\ UNCHANGED <<line, got>>

(* read(): the oldest characters, as many as were asked for and are there. *)
Read(nbytes) ==
  /\ input # <<>>
  /\ LET n == IF nbytes < Len(input) THEN nbytes ELSE Len(input) IN
     /\ got' = SubSeq(input, 1, n)
     /\ input' = SubSeq(input, n + 1, Len(input))
  /\ UNCHANGED line

Next ==
  \/ \E c \in Char : Type(c)
  \/ Erase
  \/ Enter
  \/ \E s \in Writes : Write(s)
  \/ \E n \in Requests : Read(n)

Spec == Init /\ [][Next]_vars
=============================================================================
