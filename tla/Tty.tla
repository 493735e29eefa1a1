--------------------------------- MODULE Tty ---------------------------------
(***************************************************************************)
(* The terminal (kernel/tty.c): two ring buffers, the line being typed and *)
(* the input of the programs, between the keyboard interrupt and the       *)
(* system calls read() and write().  Handlers do not interrupt each other. *)
(*                                                                         *)
(* Sched models the tasks asleep in do_read() and wake_up_all(); here a    *)
(* Read is the turn of its loop that finds input.                          *)
(***************************************************************************)
EXTENDS Naturals, Sequences

CONSTANTS
  BUF_SIZE,  (* slots of a ring buffer (2048 in kernel/include/raampjes/tty.h) *)
  UINT,      (* the number of values of an unsigned int                      *)
  Char,      (* the characters that are neither newline nor backspace        *)
  Newline,
  Requests,  (* the values of nbytes that programs pass to read()            *)
  Writes     (* the strings that programs write() to file descriptor 0       *)

ASSUME TtyAssumption ==
  /\ BUF_SIZE \in Nat /\ BUF_SIZE > 1
  /\ UINT \in Nat /\ UINT % BUF_SIZE = 0 /\ UINT > BUF_SIZE
  /\ Newline \notin Char
  /\ Requests \subseteq Nat
  /\ Writes \subseteq Seq(Char \cup {Newline})

NUL == "NUL"  \* the byte 0
Index == 0 .. BUF_SIZE - 1

VARIABLES
  line_buf,   (* terminal.line_buf: [head, tail, buffer]                      *)
  input_buf,  (* terminal.input_buf                                           *)
  got,        (* what the last do_read() copied to its caller                 *)
  shown,      (* history: what tty_input() echoed for this line               *)
  line_lost   (* history: the line was lost since the last newline key        *)

vars == <<line_buf, input_buf, got, shown, line_lost>>
-----------------------------------------------------------------------------
(* Ring buffers.  Indices are unsigned: a difference is taken modulo UINT. *)

(* FULL() compares head with tail + 1 without reducing it modulo BUF_SIZE. *)
FULL(buf) == buf.head = buf.tail + 1
EMPTY(buf) == buf.head = buf.tail

(* buf_enqueue() when it returns 1 *)
Put(buf, c) ==
  [buf EXCEPT !.buffer[buf.tail] = c, !.tail = (buf.tail + 1) % BUF_SIZE]
buf_enqueue(buf, c) == IF FULL(buf) THEN buf ELSE Put(buf, c)

(* buf_dequeue(): the character and the buffer after it *)
DequeuedLast(buf) ==  \* mutant: last in, first out
  IF EMPTY(buf) THEN NUL ELSE buf.buffer[(buf.tail + UINT - 1) % BUF_SIZE]
Dequeued(buf) == IF EMPTY(buf) THEN NUL ELSE buf.buffer[buf.head]
buf_dequeue(buf) ==
  IF EMPTY(buf) THEN buf ELSE [buf EXCEPT !.head = (buf.head + 1) % BUF_SIZE]

(* buf_restore() takes the newest character back. *)
RestoreOldest(buf) ==  \* mutant: the wrong end
  IF EMPTY(buf) THEN buf ELSE [buf EXCEPT !.head = (buf.head + 1) % BUF_SIZE]
buf_restore(buf) ==
  IF EMPTY(buf) THEN buf
  ELSE [buf EXCEPT !.tail = ((buf.tail + UINT - 1) % UINT) % BUF_SIZE]

buf_queue_length(buf) == ((buf.tail + UINT - buf.head + BUF_SIZE) % UINT) % BUF_SIZE

(* The queue a buffer holds, oldest character first. *)
Content(buf) ==
  [i \in 1 .. buf_queue_length(buf) |-> buf.buffer[(buf.head + i - 1) % BUF_SIZE]]

(* n calls of buf_dequeue(): the buffer left and the characters taken out. *)
Take(buf, n) ==
  LET after[i \in 0 .. n] == IF i = 0 THEN buf ELSE buf_dequeue(after[i - 1])
  IN  [left |-> after[n], out |-> [i \in 1 .. n |-> Dequeued(after[i - 1])]]

(* move_queue() empties `from' into `to'. *)
Moved(from) == Take(from, buf_queue_length(from))
Filled(to, s) ==
  LET after[i \in 0 .. Len(s)] == IF i = 0 THEN to ELSE buf_enqueue(after[i - 1], s[i])
  IN  after[Len(s)]
-----------------------------------------------------------------------------
Empty == [head |-> 0, tail |-> 0, buffer |-> [i \in Index |-> NUL]]

Init ==
  /\ line_buf = Empty
  /\ input_buf = Empty
  /\ got = <<>>
  /\ shown = <<>>
  /\ line_lost = FALSE

(* tty_input() of an ordinary key: the key is echoed when it is stored. *)
Type(c) ==
  /\ line_buf' = buf_enqueue(line_buf, c)
  /\ line_lost' = (line_lost \/ (~ FULL(line_buf) /\ EMPTY(line_buf')))
  /\ shown' = IF line_lost' THEN <<>>
              ELSE IF FULL(line_buf) THEN shown ELSE Append(shown, c)
  /\ UNCHANGED <<input_buf, got>>

(* tty_input('\b'): the cursor goes back when there was a character. *)
Erase ==
  /\ line_buf' = buf_restore(line_buf)
  /\ shown' = IF EMPTY(line_buf) \/ line_lost THEN shown
              ELSE SubSeq(shown, 1, Len(shown) - 1)
  /\ UNCHANGED <<input_buf, got, line_lost>>

(* tty_input('\n'): the newline is stored if there is room, and the line   *)
(* moves to the input buffer either way; wake_up_all() is in Sched.        *)
Enter ==
  LET moved == Moved(buf_enqueue(line_buf, Newline)) IN
  /\ line_buf' = moved.left
  /\ input_buf' = Filled(input_buf, moved.out)
  /\ shown' = <<>>
  /\ line_lost' = FALSE
  /\ UNCHANGED got

(* do_write() to file descriptor 0: the loop starts at the second byte. *)
Write(s) ==
  /\ input_buf' = Filled(input_buf, SubSeq(s, 2, Len(s)))
  /\ UNCHANGED <<line_buf, got, shown, line_lost>>

(* do_read() from file descriptor 0 that finds input. *)
AsMuchAsAsked(nbytes, buf_len) == nbytes  \* mutant: the length is not considered
Granted(nbytes, buf_len) == IF buf_len > nbytes THEN nbytes ELSE buf_len
Read(nbytes) ==
  /\ buf_queue_length(input_buf) # 0
  /\ LET taken == Take(input_buf, Granted(nbytes, buf_queue_length(input_buf))) IN
     /\ input_buf' = taken.left
     /\ got' = taken.out
  /\ UNCHANGED <<line_buf, shown, line_lost>>

Next ==
  \/ \E c \in Char : Type(c)
  \/ Erase
  \/ Enter
  \/ \E s \in Writes : Write(s)
  \/ \E n \in Requests : Read(n)

Spec == Init /\ [][Next]_vars
-----------------------------------------------------------------------------
Buffers == [head : Index, tail : Index,
            buffer : [Index -> Char \cup {Newline, NUL}]]

(* Type correctness: the indices stay inside the arrays, also where an     *)
(* unsigned index goes below zero, and no character is made up.            *)
TypeOK ==
  /\ line_buf \in Buffers
  /\ input_buf \in Buffers
  /\ got \in Seq(Char \cup {Newline})
  /\ shown \in Seq(Char)
  /\ line_lost \in BOOLEAN

(* What tty_input() has put on the screen for the unfinished line is what  *)
(* the newline key will hand over, whatever keys were refused or erased    *)
(* and wherever in the ring the line lies.                                 *)
EchoIsLine == ~ line_lost => shown = Content(line_buf)

(* The line being typed holds no newline: a finished line leaves line_buf  *)
(* whole, so that a backspace never reaches back into it.                  *)
LineUnfinished == \A i \in DOMAIN Content(line_buf) : Content(line_buf)[i] # Newline

Editor == INSTANCE LineEditor WITH
  Capacity <- BUF_SIZE - 1, line <- Content(line_buf), input <- Content(input_buf)

(* The ring buffers implement the line editor: first in first out, nothing *)
(* duplicated, reordered or mixed between lines; and characters are lost   *)
(* only when BUF_SIZE or more of them meet in one buffer.                  *)
ImplementsLineEditor == Editor!Spec

(* tty.c:92 refuses a character for a full buffer, so that a character can *)
(* never displace the line typed so far.                                   *)
TypingKeepsTheLine ==
  [][(\E c \in Char : Type(c))
       => buf_queue_length(line_buf') >= buf_queue_length(line_buf)]_vars
=============================================================================
