------------------------------- MODULE Keyboard -------------------------------
(***************************************************************************)
(* The keyboard's interrupt handler (kernel/keyboard.c), with the keyboard *)
(* and the controller that it reads from.                                  *)
(*                                                                         *)
(* A key sends its scan code when it is pressed, and again while it is     *)
(* held; when it is released it sends its break code.  Extended keys send  *)
(* a prefix before each.  A byte takes about a millisecond to arrive: the  *)
(* handler's first read comes before the next byte.  The handler is one    *)
(* action, but for the turns of get_scan_code() that wait for the byte     *)
(* behind a prefix.                                                        *)
(***************************************************************************)
EXTENDS Naturals, SequencesExt

CONSTANTS
  Keys,       (* the keys: [code, ext], ext for the extended ones           *)
  LINE        (* bound: bytes on their way                                  *)

ASSUME KeyboardAssumption ==
  /\ Keys \subseteq [code : STRING, ext : BOOLEAN]
  /\ \A k \in Keys : k.code # "0xE0"  \* codes have seven bits
  /\ LINE \in Nat

(* The fields of State, by the codes that set or switch them. *)
SetBy ==
  [code \in {"0x1d", "0x38", "0x2a", "0x36"} |->
     IF code = "0x1d" THEN "control" ELSE IF code = "0x38" THEN "alt" ELSE "shift"]
SwitchedBy == [code \in {"0x3a", "0x45"} |-> IF code = "0x3a" THEN "caps" ELSE "numlock"]
Field == Range(SetBy) \cup Range(SwitchedBy)

Codes == {k.code : k \in Keys}
Chars == Codes \ (DOMAIN SetBy \cup DOMAIN SwitchedBy)
(* Codes that no extended key sends. *)
Plain == Chars \ {k.code : k \in {k \in Keys : k.ext}}

Prefix == [code |-> "0xE0", make |-> TRUE]
Byte == {Prefix} \cup [code : Codes, make : BOOLEAN]

VARIABLES
  down,     (* the keys that are held down                                 *)
  lock,     (* what the user takes caps lock for                           *)
  line,     (* bytes on their way from the keyboard                        *)
  port,     (* the byte in the controller's output buffer                  *)
  full,     (* it was not read yet                                         *)
  irq,      (* an interrupt request is latched                             *)
  waiting,  (* get_scan_code() has read a prefix                           *)
  State,    (* the modifier keys, as the kernel knows them                 *)
  owed      (* what was typed on plain keys and not yet handed to the      *)
            (* terminal: [code, upper]                                     *)

user == <<down, lock>>
vars == <<user, line, port, full, irq, waiting, State, owed>>

Init ==
  /\ down = {} /\ lock = FALSE
  /\ line = <<>> /\ port = Prefix /\ full = FALSE /\ irq = FALSE
  /\ waiting = FALSE
  /\ State = [f \in Field |-> FALSE]
  /\ owed = <<>>
-----------------------------------------------------------------------------
(* The user, the keyboard and the controller *)

Send(k, make) ==
  /\ line' = line \o (IF k.ext THEN <<Prefix>> ELSE <<>>)
                  \o <<[code |-> k.code, make |-> make]>>
  /\ Len(line') <= LINE
  /\ UNCHANGED <<port, full, irq, waiting, State>>

ShiftDown == \E k \in down : k.code \in DOMAIN SetBy /\ SetBy[k.code] = "shift"

(* A key is pressed, or repeats itself. *)
Press(k) ==
  /\ down' = down \cup {k}
  /\ lock' = IF k.code = "0x3a" THEN ~ lock ELSE lock
  /\ owed' = IF k.code \in Plain
               THEN Append(owed, [code |-> k.code, upper |-> lock \/ ShiftDown])
               ELSE owed
  /\ Send(k, TRUE)

Release(k) ==
  /\ k \in down
  /\ down' = down \ {k}
  /\ UNCHANGED <<lock, owed>>
  /\ Send(k, FALSE)

Arrive ==
  /\ line # <<>> /\ ~ full
  /\ line' = Tail(line) /\ port' = Head(line)
  /\ full' = TRUE /\ irq' = TRUE
  /\ UNCHANGED <<user, waiting, State, owed>>

(* A request whose byte was read in the meantime may be dropped. *)
Drop ==
  /\ irq /\ ~ full /\ ~ waiting
  /\ irq' = FALSE
  /\ UNCHANGED <<user, line, port, full, waiting, State, owed>>
-----------------------------------------------------------------------------
(* handle_keyboard_input() *)

AlwaysMake == TRUE  \* mutant: break codes are not told from others
Make == port.make

(* translate(): from one of two tables. *)
Typed == [code |-> port.code, upper |-> State.caps \/ State.shift]

(* tty_input() is given what is owed next, or something that is not owed.  *)
tty_input(c) ==
  owed' = IF owed # <<>> /\ Head(owed) = c THEN Tail(owed) ELSE <<c>> \o owed

(* What is handed over: only codes of pressed keys that came without a     *)
(* prefix.  Not counted are the characters that the code of an extended    *)
(* key gives when it is read once more, without its prefix.                *)
HandOver ==
  IF Make /\ ~ waiting /\ port.code \in Plain THEN tty_input(Typed)
  ELSE UNCHANGED owed

(* The loop ends with the first byte that is no prefix. *)
LoopsOn == waiting  \* mutant: the loop tests *_special_key
Loops == FALSE

ReadPrefix ==
  /\ port = Prefix
  /\ waiting' = TRUE
  /\ UNCHANGED <<State, owed>>

ReadCode ==
  /\ port # Prefix
  /\ waiting' = Loops
  /\ State' = CASE port.code \in DOMAIN SetBy -> [State EXCEPT ![SetBy[port.code]] = Make]
                [] port.code \in DOMAIN SwitchedBy /\ Make ->
                     [State EXCEPT ![SwitchedBy[port.code]] = ~ @]
                [] OTHER -> State
  /\ HandOver

(* The port is read when an interrupt comes, and again behind a prefix;    *)
(* there a read before the byte has come finds the prefix once more.       *)
MayRead == IF waiting THEN full ELSE irq

HandleInput ==
  /\ MayRead
  /\ full' = FALSE
  /\ irq' = (irq /\ waiting)
  /\ ReadPrefix \/ ReadCode
  /\ UNCHANGED <<user, line, port>>

Next ==
  \/ \E k \in Keys : Press(k) \/ Release(k)
  \/ Arrive \/ Drop \/ HandleInput

Spec == Init /\ [][Next]_vars

(* Bytes that were sent arrive, and the CPU handles its interrupts. *)
FairSpec == Spec /\ WF_vars(Arrive) /\ WF_vars(HandleInput)
-----------------------------------------------------------------------------
(* Type correctness; when no handler waits, what is in the port is not a   *)
(* prefix that was read.                                                   *)
TypeOK ==
  /\ down \subseteq Keys /\ lock \in BOOLEAN
  /\ line \in Seq(Byte) /\ port \in Byte
  /\ {full, irq, waiting} \subseteq BOOLEAN
  /\ State \in [Field -> BOOLEAN]
  /\ owed \in Seq([code : Plain, upper : BOOLEAN])
  /\ irq /\ ~ full /\ ~ waiting => port # Prefix

Quiet == line = <<>> /\ ~ full /\ ~ irq /\ ~ waiting

(* Every key with a character gives it exactly once for each time it sent  *)
(* its code, in order and in the case it was typed in, however the bytes   *)
(* arrive: an interrupt that comes again gives no character of a plain key *)
(* twice, and a prefix never hides one.                                    *)
KeysTypedInOrder == Quiet => owed = <<>>

KeysOf(f) == {k \in Keys : k.code \in DOMAIN SetBy /\ SetBy[k.code] = f}

(* The kernel's idea of a modifier: not set when all its keys are up, set  *)
(* when all are down.  (With one of two down it goes by the last event.)   *)
ModifiersFollowKeys ==
  Quiet => \A f \in Range(SetBy) :
             /\ State[f] => KeysOf(f) \cap down # {}
             /\ KeysOf(f) # {} /\ KeysOf(f) \subseteq down => State[f]

(* get_scan_code() waits with interrupts disabled, but not for ever. *)
HandlerReturns == waiting ~> ~ waiting
=============================================================================
