------------------------------- MODULE Shell -------------------------------
(***************************************************************************)
(* The programs of the ramdisk at work (initrd/): init, the idle process,  *)
(* the shell, bc and ps, with the streams of the C library between them    *)
(* and the terminal.  Processes are those of ProcLife, which Sched         *)
(* implements: a step is a system call or a turn of a program's loop.      *)
(*                                                                         *)
(* Every entry of the archive can be typed as a command: the programs,     *)
(* init once more, and the directory bin/ (see Fault).                     *)
(*                                                                         *)
(* malloc() does not fail here: no program holds more than four blocks of  *)
(* fixed sizes, and Heap shows that nothing is lost between calls.         *)
(***************************************************************************)
EXTENDS CString, FiniteSets

CONSTANTS
  MAX_TASKS,
  Newline,
  Archive,       (* the entries of the ramdisk by their names               *)
  ShellName,     (* the name of the shell's file                            *)
  Sessions,      (* what users type: sequences of lines                     *)
  Behind,        (* what memory can hold behind bc's copy of its line       *)
  BUFSIZ,        (* size of a stream's buffer (1024)                        *)
  MAX_LINE_SIZ,  (* size of the shell's line (256)                          *)
  MAX_TOKENS,    (* size of the shell's array of words (128)                *)
  SIZE_BUF       (* size of bc's line and array of words (512)              *)

ASSUME ShellAssumption ==
  /\ MAX_TASKS \in Nat /\ MAX_TASKS > 2
  /\ {BUFSIZ, MAX_LINE_SIZ, MAX_TOKENS, SIZE_BUF} \subseteq Nat \ {0}
  /\ \A name \in DOMAIN Archive : Archive[name] \in {"sh", "bc", "ps", "init", "directory"}
  /\ ShellName \in DOMAIN Archive /\ Archive[ShellName] = "sh"

VARIABLES
  phase, ppid, up,  (* the processes and the kernel, as in ProcLife       *)
  toType,           (* the lines the user has still to type               *)
  tty,              (* the terminal's input buffer                        *)
  proc,             (* the state of every process, see Fresh              *)
  said              (* the last thing a program wrote to the terminal     *)

vars == <<phase, ppid, up, toType, tty, proc, said>>
kernel == <<phase, ppid, up>>

Life == INSTANCE ProcLife WITH input <- Len(tty), MaxInput <- 0
Pid == 0 .. MAX_TASKS - 1

(* A new image: where it is, its stream stdin (cnt, ptr as an offset, base *)
(* as the characters read), its line, the words found in it and tok_next,  *)
(* the child it waits for, and bc's answer.                                *)
Fresh(program, start) ==
  [prog |-> program, pc |-> start, cnt |-> 0, ptr |-> 0, base |-> <<>>,
   text |-> <<>>, tokens |-> <<>>, tok_next |-> NULL, child |-> 0, answer |-> 0]
NoImage == Fresh("none", "none")
At(p, where) == phase[p] = "running" /\ proc[p].pc = where

Init ==
  /\ tty = <<>>
  /\ Life!Init
  /\ toType \in Sessions
  /\ proc = [p \in Pid |-> IF p = 0 THEN Fresh("init", "fork_idle") ELSE NoImage]
  /\ said = [what |-> "nothing", text |-> <<>>]

(* The user ends a line; Tty shows what became of its characters. *)
Type ==
  /\ toType # <<>>
  /\ tty' = tty \o toType[1] \o <<Newline>>
  /\ toType' = Tail(toType)
  /\ UNCHANGED <<kernel, proc, said>>
-----------------------------------------------------------------------------
(* System calls: a stub gives its number (unistd.h, counted from 0), and   *)
(* syscall_handler() takes the kernel's function from its table.           *)
SYSI == <<"fork", "write", "read", "execve", "_exit", "wait", "pause", "sbrk", "ps">>
sys_table == <<"do_fork", "do_write", "do_read", "do_execve", "do_exit", "do_wait",
               "do_pause", "do_sbrk", "do_ps">>
Calls(name, function) == \E eax \in DOMAIN SYSI : SYSI[eax] = name /\ sys_table[eax] = function

(* A program writes to the terminal. *)
Say(what, text) ==
  /\ Calls("write", "do_write")
  /\ said' = [what |-> what, text |-> text]

(* fork(), with find_empty_task(): c is the child.  Without an empty slot  *)
(* the kernel panics.                                                      *)
Forked(p, c) ==
  /\ Calls("fork", "do_fork")
  /\ Life!Spawn(p)
  /\ phase[c] = "none" /\ phase'[c] = "running"
  /\ \A d \in Pid : phase[d] = "none" => c <= d
NoTaskTriesAgain(p) ==  \* mutant: look for a slot until there is one
  (\A c \in Pid : phase[c] # "none") /\ UNCHANGED <<kernel, proc>>
NoTask(p) == Life!NoPidLeft(p) /\ UNCHANGED proc

(* init: process 0, or whoever typed its name. *)
ForkIdle(p) ==
  /\ UNCHANGED <<toType, tty, said>>
  /\ At(p, "fork_idle")
  /\ \/ \E c \in Pid :
          /\ Forked(p, c)
          /\ proc' = [proc EXCEPT ![c] = Fresh("idle", "pause"), ![p].pc = "fork_sh"]
     \/ NoTask(p)

ForkShell(p) ==
  /\ UNCHANGED <<toType, tty, said>>
  /\ At(p, "fork_sh")
  /\ \/ \E c \in Pid :
          /\ Forked(p, c)
          /\ proc' = [proc EXCEPT ![c] = [Fresh("init", "execve") EXCEPT !.text = ShellName],
                                  ![p].pc = "wait"]
     \/ NoTask(p)

Idles(p) == At(p, "pause") /\ Calls("pause", "do_pause") /\ UNCHANGED vars

(* execve() replaces the image, streams and all, for any entry that        *)
(* find_file() finds; the child of exec_prog() goes on behind a call that  *)
(* failed.                                                                 *)
Start ==
  [sh |-> "getc", bc |-> "getc", ps |-> "ps", init |-> "fork_idle", directory |-> "stray"]
Execve(p) ==
  /\ At(p, "execve")
  /\ Calls("execve", "do_execve")
  /\ IF proc[p].text \in DOMAIN Archive
       THEN LET program == Archive[proc[p].text] IN
            /\ proc' = [proc EXCEPT ![p] = Fresh(program, Start[program])]
            /\ UNCHANGED said
       ELSE /\ proc' = [proc EXCEPT ![p].pc = "exit"]
            /\ Say("not found", <<>>)
  /\ UNCHANGED <<kernel, toType, tty>>

(* A directory's entry has size 0: load_bin() maps one page and copies     *)
(* nothing, and the process executes what a frame that was used before     *)
(* holds.  It runs on (Strays), or makes a fault that no callback handles, *)
(* or that is outside of the page and its empty data segment.  That these  *)
(* bytes happen to be system calls is left out.                            *)
Fault(p) ==
  /\ At(p, "stray")
  /\ up' = FALSE
  /\ UNCHANGED <<phase, ppid, toType, tty, proc, said>>

Strays(p) == At(p, "stray") /\ UNCHANGED vars

Exit(p) ==
  /\ UNCHANGED <<toType, tty, proc, said>>
  /\ At(p, "exit")
  /\ Calls("_exit", "do_exit")
  /\ Life!Die(p)

(* ps(): do_ps() writes a line for every entry of tasks[].  Who sleeps is  *)
(* shown as waiting; that it may have been woken, and not run yet, is left *)
(* out.                                                                    *)
TASK_RUNNING == 1
TASK_STOPPED == 2
TASK_WAITING == 3
StateShown(q) ==
  CASE phase[q] = "stopped" -> TASK_STOPPED
    [] phase[q] = "running" /\ proc[q].pc # "pause" -> TASK_RUNNING
    [] OTHER -> TASK_WAITING
TaskFormat == <<"%", "d", " ", "%", "d", " ", "%", "d", " ", "%", "x", "\n">>
Address(q) == INT_MAX + 1 + q  \* of its task structure: above KERNEL_MEMORY
do_ps ==
  LET tasks == SelectSeq([n \in 1 .. MAX_TASKS |-> n - 1], LAMBDA q : phase[q] # "none") IN
  said' = [what |-> "tasks", text |-> [n \in DOMAIN tasks |->
    LET q == tasks[n] IN kprintf(TaskFormat, <<q, ppid[q], StateShown(q), Address(q)>>)]]
Ps(p) ==
  /\ At(p, "ps")
  /\ Calls("ps", "do_ps") /\ do_ps
  /\ proc' = [proc EXCEPT ![p].pc = "exit"]
  /\ UNCHANGED <<kernel, toType, tty>>
-----------------------------------------------------------------------------
(* Streams: getc() hands out the buffer; _fillbuf() reads when it is used  *)
(* up, and hands out the first character itself.                           *)
Buffered(f) == f.cnt - 1 > 0
Hand(f) == [f EXCEPT !.cnt = f.cnt - 1, !.ptr = f.ptr + 1]
FilledFromStart(f, s) ==  \* mutant: *f->ptr for *f->ptr++
  [f EXCEPT !.base = s, !.cnt = Len(s), !.ptr = 0]
Filled(f, s) == [f EXCEPT !.base = s, !.cnt = Len(s), !.ptr = 1]

(* The loops of read_line() and get_line() for a character c. *)
LineSize == [program \in {"sh", "bc"} |-> IF program = "sh" THEN MAX_LINE_SIZ ELSE SIZE_BUF]
Store(f, c) ==
  IF c = Newline
    THEN [f EXCEPT !.pc = "split"]
  ELSE LET text == Append(f.text, c) IN
       [f EXCEPT !.text = text,
                 !.pc = IF Len(text) >= LineSize[f.prog] THEN "exit" ELSE "getc"]

GetBuffered(p) ==
  LET f == proc[p] IN
  /\ At(p, "getc")
  /\ Buffered(f)
  /\ proc' = [proc EXCEPT ![p] = Store(Hand(f), f.base[f.ptr + 1])]
  /\ UNCHANGED <<kernel, toType, tty, said>>

BeginFill(p) ==
  /\ UNCHANGED <<toType, tty, proc, said>>
  /\ proc[p].pc = "getc"
  /\ ~ Buffered(proc[p])
  /\ Calls("read", "do_read") /\ Life!BeginRead(p)

EndFill(p) ==
  LET n == IF Len(tty) > BUFSIZ THEN BUFSIZ ELSE Len(tty) IN
  /\ proc[p].pc = "getc"
  /\ ~ Buffered(proc[p])
  /\ tty' = SubSeq(tty, n + 1, Len(tty))
  /\ Life!EndRead(p)
  /\ proc' = [proc EXCEPT ![p] = Store(Filled(@, SubSeq(tty, 1, n)), tty[1])]
  /\ UNCHANGED <<toType, said>>
-----------------------------------------------------------------------------
(* One turn of the loops over strtok() in split_tokens() and parse_line(). *)
(* bc splits a copy of its line that has no NUL of its own.                *)
Delimiters == [program \in {"sh", "bc"} |->
  IF program = "sh" THEN <<" ", "\t", "\n">> ELSE <<" ", "\t">>]
MostTokens == [program \in {"sh", "bc"} |->
  IF program = "sh" THEN MAX_TOKENS ELSE SIZE_BUF]
Argument(f) ==  \* of strtok()
  IF f.tokens # <<>> THEN {NULL}
  ELSE IF f.prog = "bc" THEN {memcpy(f.text, behind) : behind \in Behind}
  ELSE {f.text}
Split(p) ==
  LET f == proc[p]
      found(call) == [f EXCEPT !.tokens = Append(f.tokens, call.token),
                               !.tok_next = call.next]
      parsed == IF f.prog = "sh" THEN "exec_prog" ELSE "parse_line"
  IN
  /\ At(p, "split")
  /\ \E s1 \in Argument(f) :
       \E call \in {strtok(s1, f.tok_next, Delimiters[f.prog])} :
         proc' = [proc EXCEPT ![p] =
           IF call.token = NULL THEN [f EXCEPT !.pc = parsed, !.tok_next = call.next]
           ELSE IF Len(f.tokens) + 1 >= MostTokens[f.prog]
             THEN [found(call) EXCEPT !.pc = "exit"]
           ELSE found(call)]
  /\ UNCHANGED <<kernel, toType, tty, said>>

(* sh: exec_prog() for the words of the line.  Only tokens[0] has a use,   *)
(* execve() passes no arguments on.                                        *)
Prompt(f) == [f EXCEPT !.pc = "getc", !.text = <<>>, !.tokens = <<>>]

NoCommand(p) ==
  /\ At(p, "exec_prog")
  /\ proc[p].tokens = <<>>
  /\ proc' = [proc EXCEPT ![p] = Prompt(@)]
  /\ UNCHANGED <<kernel, toType, tty, said>>

Name(p) == proc[p].tokens[1]
IsBuiltIn(name) == strncmp(<<"p", "s">>, name, 2) = 0

BuiltIn(p) ==
  /\ At(p, "exec_prog")
  /\ proc[p].tokens # <<>> /\ IsBuiltIn(Name(p))
  /\ Calls("ps", "do_ps") /\ do_ps
  /\ proc' = [proc EXCEPT ![p] = Prompt(@)]
  /\ UNCHANGED <<kernel, toType, tty>>

Foreground(f, c) == [f EXCEPT !.pc = "wait", !.child = c]
ForkCommand(p) ==
  /\ UNCHANGED <<toType, tty, said>>
  /\ At(p, "exec_prog")
  /\ proc[p].tokens # <<>> /\ ~ IsBuiltIn(Name(p))
  /\ \/ \E c \in Pid :
          /\ Forked(p, c)
          /\ proc' = [proc EXCEPT ![c] = [proc[p] EXCEPT !.pc = "execve", !.text = Name(p)],
                                  ![p] = Foreground(proc[p], c)]
     \/ NoTask(p)

(* wait(): the shell calls it until it returns its child, init for ever. *)
BeginWait(p) ==
  /\ UNCHANGED <<toType, tty, proc, said>>
  /\ proc[p].pc = "wait"
  /\ Calls("wait", "do_wait") /\ Life!BeginWait(p)

Returned(dead) == CHOOSE c \in dead : \A d \in dead : d <= c
FinishedByOther(p, dead) ==  \* mutant: while (wait() == pid)
  proc[p].prog = "sh" /\ Returned(dead) # proc[p].child
Finished(p, dead) == proc[p].prog = "sh" /\ Returned(dead) = proc[p].child
EndWait(p) ==
  LET dead == Life!StoppedChildren(p) IN
  /\ UNCHANGED <<toType, tty, said>>
  /\ proc[p].pc = "wait"
  /\ Life!EndWait(p)
  /\ proc' = [q \in Pid |-> IF q \in dead THEN NoImage
                            ELSE IF q = p /\ Finished(p, dead) THEN Prompt(proc[p])
                            ELSE proc[q]]
-----------------------------------------------------------------------------
(* bc: the end of parse_line() and what main() makes of it.  The array of  *)
(* words is not initialised: a word that is missing is a pointer to        *)
(* anywhere, in fresh memory to address 0, where the ELF header is.        *)
ElfHeader == <<"\\x7f", "E", "L", "F">>
Unmapped == NULL
Operators == {<<"*">>, <<"/">>, <<"+">>, <<"-">>}
Result(op, num1, num2) ==
  CASE op = <<"*">> -> Wrap(num1 * num2)
    [] op = <<"/">> -> Quotient(num1, num2)
    [] op = <<"+">> -> Wrap(num1 + num2)
    [] op = <<"-">> -> Wrap(num1 - num2)
(* The CPU refuses these: interrupt 0, which has no callback, and panic(). *)
DivideError(op, num1, num2) ==
  op = <<"/">> /\ (num2 = 0 \/ (num1 = INT_MIN /\ num2 = -1))

Stops == up' = FALSE /\ UNCHANGED <<phase, ppid, proc, said>>
Returns(p, answer) ==
  /\ proc' = [proc EXCEPT ![p].pc = "print", ![p].answer = answer]
  /\ UNCHANGED kernel

ParseLine(p) ==
  /\ At(p, "parse_line")
  /\ \E stray \in {ElfHeader, Unmapped} :
       LET tokens == proc[p].tokens
           token(i) == IF i \in DOMAIN tokens THEN tokens[i] ELSE stray
           num1 == atoi(token(1))
           num2 == atoi(token(3))
       IN  IF Len(tokens) < 3 /\ stray = Unmapped
             THEN Stops
           ELSE IF strlen(token(2)) > 1 \/ token(2) \notin Operators
             THEN Returns(p, 0) /\ Say("parse error", <<>>)
           ELSE IF DivideError(token(2), num1, num2)
             THEN Stops
           ELSE Returns(p, Result(token(2), num1, num2)) /\ UNCHANGED said
  /\ UNCHANGED <<toType, tty>>

(* bc: main() writes the line, " = " and the answer, and returns. *)
PrintAnswer(p) ==
  /\ At(p, "print")
  /\ Say("answer", itoa(proc[p].answer, 10))
  /\ proc' = [proc EXCEPT ![p].pc = "exit"]
  /\ UNCHANGED <<kernel, toType, tty>>
-----------------------------------------------------------------------------
Step(p) ==
  \/ ForkIdle(p) \/ ForkShell(p)
  \/ Execve(p) \/ Exit(p) \/ Ps(p)
  \/ GetBuffered(p) \/ BeginFill(p) \/ EndFill(p)
  \/ Split(p) \/ NoCommand(p) \/ BuiltIn(p) \/ ForkCommand(p)
  \/ BeginWait(p) \/ EndWait(p)
  \/ ParseLine(p) \/ PrintAnswer(p)

Goes == \E p \in Pid : Step(p)

Halted == ~ up /\ UNCHANGED vars

Next ==
  \/ up /\ (Type \/ Goes \/ \E p \in Pid : Idles(p) \/ Strays(p) \/ Fault(p))
  \/ Halted

(* The CPU does not stand still while a process can go on; less than what  *)
(* the scheduler promises each of them (Sched!ReadyTaskRuns).  Nobody has  *)
(* to type, and stray bytes need not make a fault.                         *)
Fairness == WF_vars(up /\ Goes)

Spec == Init /\ [][Next]_vars /\ Fairness
-----------------------------------------------------------------------------
Ended(p) == phase[p] \in {"none", "stopped"} \/ proc[p].pc = "exit"

(* A shell that waits has the child it waits for: nobody else collects it, *)
(* and its pid is not used again before the shell has it back.  (For a     *)
(* child that is gone wait() would sleep for ever, sched.c:157.)           *)
ShellHasItsChild ==
  up => \A p \in Pid : (proc[p].pc = "wait" /\ proc[p].prog = "sh" /\ ~ Ended(p))
          => phase[proc[p].child] # "none" /\ ppid[proc[p].child] = p

(* The processes from init to the one in the foreground. *)
Own(p) ==
  IF proc[p].pc = "execve" THEN <<>>
  ELSE (IF proc[p].pc = "wait" THEN <<>> ELSE proc[p].text)
       \o (IF proc[p].pc \in {"split", "exec_prog", "parse_line", "print"} THEN <<Newline>> ELSE <<>>)
       \o SubSeq(proc[p].base, proc[p].ptr + 1, Len(proc[p].base))
Reader(p) ==
  [own |-> Own(p),
   prog |-> IF proc[p].pc # "execve" THEN proc[p].prog
            ELSE IF proc[p].text \in DOMAIN Archive THEN Archive[proc[p].text] ELSE "missing"]
ShellOf(p) == {c \in Pid : ppid[c] = p /\ (proc[c].prog = "sh" \/ proc[c].pc = "execve")}
StackFrom[p \in Pid] ==
  IF Ended(p) THEN <<>>
  ELSE <<Reader(p)>> \o
    (IF proc[p].pc # "wait" THEN <<>>
     ELSE IF proc[p].prog = "sh" THEN StackFrom[proc[p].child]
     ELSE <<[prog |-> "idle", own |-> <<>>]>> \o
            (IF ShellOf(p) = {} THEN <<>> ELSE StackFrom[CHOOSE c \in ShellOf(p) : TRUE]))
Stack == StackFrom[0]

Talk == INSTANCE Dialogue WITH stack <- Stack

(* Streams, strtok, fork, execve and wait together implement the dialogue: *)
(* no character is lost, repeated or given to another program than the one *)
(* that took it, each command is carried out once, and bc's answers are    *)
(* those of arithmetic.                                                    *)
ImplementsDialogue == Talk!Spec

(* Whatever was typed, in the end some program waits for more: no command  *)
(* leaves a terminal that nobody reads, but for a kernel that stopped, an  *)
(* init whose shell ended, and a directory that was executed.              *)
Settles ==
  []<>(\/ ~ up
       \/ Last(Stack).prog \in {"idle", "directory"}
       \/ tty = <<>> /\ \E p \in Pid : phase[p] = "reading")
=============================================================================
