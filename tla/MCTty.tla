-------------------------------- MODULE MCTty --------------------------------
(* Instances of Tty for TLC: rings of four slots, reads of nothing, of one *)
(* character and of more than there is, writes that carry no, one, three   *)
(* or nine characters into the input buffer.                               *)
EXTENDS Tty

MCChar == {"a", "b"}
MCRequests == {0, 1, BUF_SIZE}
MCWrites == {<<>>, <<"a">>, <<"b", Newline>>, <<"a", "a", "a", Newline>>,
             <<"b", "a", "b", "a", "b", "a", "b", "a", "a", Newline>>}

(* What lies in a ring outside head .. tail - 1 is never read: two states  *)
(* that differ only there are one.                                         *)
MCView == <<line_buf.head, line_buf.tail, Content(line_buf),
            input_buf.head, input_buf.tail, Content(input_buf), got, shown, line_lost>>
=============================================================================
