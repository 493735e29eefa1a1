------------------------------- MODULE Teletype -------------------------------
(***************************************************************************)
(* What a screen shows: the last rows that were written, of which only the *)
(* last is open.                                                           *)
(***************************************************************************)
EXTENDS Naturals, SequencesExt

CONSTANTS
  WIDTH, HEIGHT,  (* of the screen                      *)
  Char,           (* the characters that can be written *)
  Blank           (* an empty cell                      *)

VARIABLE rows  (* ended rows, of WIDTH cells, and behind them the open one *)

Blanks(n) == [c \in 1 .. n |-> Blank]

Init == rows = << <<>> >>

(* The screen keeps HEIGHT rows.  A row that is full is ended. *)
Kept(r) == IF Len(r) > HEIGHT THEN Tail(r) ELSE r
Open(r) == Kept(IF Len(Last(r)) = WIDTH THEN Append(r, <<>>) ELSE r)
Written(r, c) == Open(Append(Front(r), Append(Last(r), c)))

Write(c) == rows' = Written(rows, c)

EndRow == rows' = Open(Append(Front(rows), Last(rows) \o Blanks(WIDTH - Len(Last(rows)))))

(* To the next even column. *)
Tab ==
  rows' = IF Len(Last(rows)) % 2 = 1 THEN Written(rows, Blank)
          ELSE Written(Written(rows, Blank), Blank)

(* Back over the character before, also over the end of a row.  On an      *)
(* empty screen, to its last cell.                                         *)
Backspace ==
  rows' = CASE Last(rows) # <<>> -> Append(Front(rows), Front(Last(rows)))
            [] Last(rows) = <<>> /\ Len(rows) > 1 -> [Front(rows) EXCEPT ![Len(rows) - 1] = Front(@)]
            [] OTHER -> [n \in 1 .. HEIGHT |-> Blanks(IF n < HEIGHT THEN WIDTH ELSE WIDTH - 1)]

Next == (\E c \in Char : Write(c)) \/ EndRow \/ Tab \/ Backspace

Spec == Init /\ [][Next]_rows
=============================================================================
