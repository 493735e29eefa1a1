------------------------------ MODULE Dialogue ------------------------------
(***************************************************************************)
(* What a user of the shell can rely on.  There is a stack of programs,    *)
(* init at its bottom, then the idle process and the shell; only the       *)
(* topmost reads the terminal.  A program takes what the terminal holds,   *)
(* often more than a line, and keeps what it has not used: lines typed     *)
(* ahead go to the program that was on top when they were taken.  Shell is *)
(* shown to implement this.                                                *)
(***************************************************************************)
EXTENDS Integers, FiniteSets, SequencesExt

CONSTANTS
  INT_MAX,        (* the largest int                                        *)
  Newline,
  Archive,        (* the entries of the ramdisk by their names              *)
  Sessions,       (* what users type: sequences of lines                    *)
  Behind,         (* what memory can hold behind bc's copy of its line      *)
  BUFSIZ,         (* most characters that are taken at once                 *)
  MAX_LINE_SIZ,   (* a line the shell can take is shorter                   *)
  MAX_TOKENS,     (* a line the shell can take has fewer words              *)
  SIZE_BUF,       (* a line bc can take is shorter                          *)
  MAX_TASKS       (* most processes                                         *)

VARIABLES
  toType,   (* the lines the user has still to type                *)
  tty,      (* the characters typed that no program has taken      *)
  stack,    (* of [prog, own], own the characters it took          *)
  said,     (* the last thing a program wrote: [what, text]        *)
  up        (* the kernel has not stopped                          *)

vars == <<toType, tty, stack, said, up>>

Separators == {" ", "\t"}
Top == stack[Len(stack)]
Below == SubSeq(stack, 1, Len(stack) - 1)

(* The first line a reader has taken, and what follows it. *)
LineEnd(s) == SelectInSeq(s, LAMBDA c : c = Newline)
HasLine == LineEnd(Top.own) # 0
Line == SubSeq(Top.own, 1, LineEnd(Top.own) - 1)
Rest == SubSeq(Top.own, LineEnd(Top.own) + 1, Len(Top.own))
TooLong(own, size) ==
  Len(own) >= size /\ \A i \in 1 .. size : own[i] # Newline

(* Words *)
Inside(l) == {i \in DOMAIN l : l[i] \notin Separators}
Starts(l) == CHOOSE i \in Inside(l) : \A j \in Inside(l) : i <= j
SeparatorsBehind(l, i) == {j \in i .. Len(l) : l[j] \in Separators}
FirstWord(l) ==
  LET ends == SeparatorsBehind(l, Starts(l)) \cup {Len(l) + 1}
      end == CHOOSE i \in ends : \A j \in ends : i <= j
  IN  SubSeq(l, Starts(l), end - 1)
TooManyWords(l) ==
  Inside(l) # {} /\ 1 + Cardinality(SeparatorsBehind(l, Starts(l))) >= MAX_TOKENS

(* Numbers: an optional sign and digits, read modulo 2 * (INT_MAX + 1). *)
DigitOf == [d \in {"0", "1", "2", "3", "4", "5", "6", "7", "8", "9"} |->
  CASE d = "0" -> 0 [] d = "1" -> 1 [] d = "2" -> 2 [] d = "3" -> 3 [] d = "4" -> 4
    [] d = "5" -> 5 [] d = "6" -> 6 [] d = "7" -> 7 [] d = "8" -> 8 [] d = "9" -> 9]
Magnitude(s) == IF s # <<>> /\ s[1] = "-" THEN Tail(s) ELSE s
IsNumeral(s) ==
  Magnitude(s) # <<>> /\ \A i \in DOMAIN Magnitude(s) : Magnitude(s)[i] \in DOMAIN DigitOf
Number(s) ==
  LET m == Magnitude(s)
      sum == FoldLeft(+, 0, [i \in DOMAIN m |-> DigitOf[m[i]] * 10 ^ (Len(m) - i)])
  IN  IF m = s THEN sum ELSE - sum
Shortest(s) == Magnitude(s)[1] # "0" \/ s = <<"0">>
IntRange == - INT_MAX - 1 .. INT_MAX
InInt(n) == CHOOSE m \in IntRange : (m - n) % (2 * (INT_MAX + 1)) = 0

(* Expressions: number, operator, number, with one separator between them. *)
Body(l) == SubSeq(l, Starts(l), Len(l))
Gap(l) == CHOOSE i \in DOMAIN Body(l) :
            \A j \in DOMAIN Body(l) : Body(l)[j] \in Separators => i <= j
LeftOf(l) == SubSeq(Body(l), 1, Gap(l) - 1)
RightOf(l) == SubSeq(Body(l), Gap(l) + 3, Len(Body(l)))
WellFormed(l) ==
  /\ Inside(l) # {}
  /\ SeparatorsBehind(Body(l), 1) = {Gap(l), Gap(l) + 2}
  /\ Body(l)[Gap(l) + 1] \in {"+", "-", "*", "/"}
  /\ IsNumeral(LeftOf(l)) /\ IsNumeral(RightOf(l))
Left(l) == InInt(Number(LeftOf(l)))
Right(l) == InInt(Number(RightOf(l)))
Operator(l) == Body(l)[Gap(l) + 1]
(* q is a / b rounded toward zero *)
IsQuotient(q, a, b) ==
  LET r == a - q * b IN /\ r * r < b * b
                        /\ r * a >= 0
HasValue(l) ==
  Operator(l) = "/" => \E q \in IntRange : IsQuotient(q, Left(l), Right(l))
IsValue(v, l) ==
  CASE Operator(l) = "+" -> v = InInt(Left(l) + Right(l))
    [] Operator(l) = "-" -> v = InInt(Left(l) - Right(l))
    [] Operator(l) = "*" -> v = InInt(Left(l) * Right(l))
    [] Operator(l) = "/" -> IsQuotient(v, Left(l), Right(l))

(* ps shows a line for each process, which begins with its number and its   *)
(* parent's.  An idle process has no children, its init has.                *)
Shows(l, pid, parent) ==
  \E i \in DOMAIN l : \E j \in i + 1 .. Len(l) :
    LET first == SubSeq(l, 1, i - 1)
        second == SubSeq(l, i + 1, j - 1)
    IN  /\ l[i] = " " /\ l[j] = " "
        /\ \A n \in {first, second} : IsNumeral(n) /\ Shortest(n)
        /\ Number(first) = pid /\ Number(second) = parent
Parent(n) ==
  IF n = 1 THEN 0 ELSE IF stack[n - 1].prog = "idle" THEN n - 3 ELSE n - 2
ShowsProcesses(listing) ==
  /\ listing.what = "tasks"
  /\ Len(listing.text) = Len(stack)
  /\ \A n \in DOMAIN listing.text : Shows(listing.text[n], n - 1, Parent(n))
-----------------------------------------------------------------------------
Started(program) == [prog |-> program, own |-> <<>>]

Init ==
  /\ toType \in Sessions
  /\ tty = <<>>
  /\ stack = <<Started("init")>>
  /\ said = [what |-> "nothing", text |-> <<>>]
  /\ up = TRUE

Type ==
  /\ toType # <<>>
  /\ tty' = tty \o toType[1] \o <<Newline>>
  /\ toType' = Tail(toType)
  /\ UNCHANGED <<stack, said, up>>

(* init starts an idle process and a shell, and does nothing any more when *)
(* the shell has ended.  The kernel stops when there is no room for both.  *)
Boot ==
  /\ Top.prog = "init"
  /\ IF Len(stack) + 2 > MAX_TASKS
       THEN up' = FALSE /\ UNCHANGED stack
       ELSE /\ stack' = stack \o <<Started("idle"), Started("sh")>>
            /\ UNCHANGED up
  /\ UNCHANGED <<toType, tty, said>>

(* The topmost reader needs more than it has.  It ends when that is more   *)
(* than its line can hold.                                                 *)
Size(prog) == IF prog = "sh" THEN MAX_LINE_SIZ ELSE SIZE_BUF
Fetch ==
  /\ LineEnd(Top.own) = 0 /\ Top.prog \in {"sh", "bc"}
  /\ tty # <<>>
  /\ LET n == IF Len(tty) < BUFSIZ THEN Len(tty) ELSE BUFSIZ
         own == Top.own \o SubSeq(tty, 1, n)
     IN  /\ tty' = SubSeq(tty, n + 1, Len(tty))
         /\ \/ stack' = [stack EXCEPT ![Len(stack)].own = own]
            \/ TooLong(own, Size(Top.prog)) /\ stack' = Below
  /\ UNCHANGED <<toType, said, up>>

(* The shell carries out one line: nothing, the built-in command for every *)
(* word that begins with ps, or a program, Missing for an unknown name.    *)
Missing == "missing"
Program(name) == IF name \in DOMAIN Archive THEN Archive[name] ELSE Missing
Used == [stack EXCEPT ![Len(stack)].own = Rest]
AtPrompt == HasLine /\ Top.prog = "sh" /\ Len(Line) < MAX_LINE_SIZ

Command ==
  /\ AtPrompt
  /\ ~ TooManyWords(Line)
  /\ IF Inside(Line) = {}
       THEN stack' = Used /\ UNCHANGED <<said, up>>
     ELSE IF IsPrefix(<<"p", "s">>, FirstWord(Line))
       THEN /\ stack' = Used
            /\ ShowsProcesses(said')
            /\ UNCHANGED up
     ELSE IF Len(stack) = MAX_TASKS
       THEN up' = FALSE /\ UNCHANGED <<stack, said>>
     ELSE /\ stack' = Append(Used, Started(Program(FirstWord(Line))))
          /\ UNCHANGED <<said, up>>
  /\ UNCHANGED <<toType, tty>>

(* The shell ends for a line that is too long for it. *)
Overrun ==
  /\ Top.prog = "sh"
  /\ TooLong(Top.own, MAX_LINE_SIZ) \/ (HasLine /\ TooManyWords(Line))
  /\ stack' = Below
  /\ UNCHANGED <<toType, tty, said, up>>

(* bc answers one expression and ends.  A division without a result stops  *)
(* the kernel; so may a line that is no expression.                        *)
AtExpression == HasLine /\ Top.prog = "bc" /\ Len(Line) < SIZE_BUF

Complain ==
  /\ AtExpression
  /\ \E behind \in Behind : ~ WellFormed(Line \o behind)
  /\ said' = [what |-> "parse error", text |-> <<>>]
  /\ UNCHANGED <<toType, tty, stack, up>>

Answer ==
  /\ AtExpression
  /\ \E behind \in Behind :
       LET l == Line \o behind IN
       IF WellFormed(l)
         THEN /\ up' = HasValue(l)
              /\ HasValue(l) =>
                   /\ stack' = Below
                   /\ said'.what = "answer"
                   /\ \/ /\ IsNumeral(said'.text) /\ Shortest(said'.text)
                         /\ IsValue(Number(said'.text), l)
                      \/ IsValue(- INT_MAX - 1, l)
              /\ ~ HasValue(l) => UNCHANGED <<stack, said>>
         ELSE \/ stack' = Below /\ UNCHANGED up
              \/ ~ up' /\ UNCHANGED <<stack, said>>
  /\ UNCHANGED <<toType, tty>>

(* A program that reads nothing: ps, and the child that did not find its   *)
(* program; or bc for a line that is too long for it.                      *)
End ==
  /\ \/ Top.prog = "ps" /\ ShowsProcesses(said')
     \/ /\ Top.prog = Missing
        /\ said' = [what |-> "not found", text |-> <<>>]
     \/ /\ Top.prog = "bc" /\ TooLong(Top.own, SIZE_BUF)
        /\ UNCHANGED said
  /\ stack' = Below
  /\ UNCHANGED <<toType, tty, up>>

(* A directory is no program; all that is known is that it writes nothing. *)
Stray ==
  /\ Top.prog = "directory"
  /\ up' = FALSE
  /\ UNCHANGED <<toType, tty, stack, said>>

Next == up /\ (Type \/ Boot \/ Fetch \/ Command \/ Overrun \/ Complain \/ Answer \/ End \/ Stray)

Spec == Init /\ [][Next]_vars
=============================================================================
