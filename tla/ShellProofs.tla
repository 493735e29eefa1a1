----------------------------- MODULE ShellProofs -----------------------------
(***************************************************************************)
(* A theorem about Shell for every number of processes, every ramdisk made *)
(* of these programs and directories, by whatever names, and every         *)
(* sequence of lines that users type.                                      *)
(***************************************************************************)
EXTENDS Shell, TLAPS

-----------------------------------------------------------------------------
(* The inductive invariant: children belong to inits, which never end, and *)
(* to shells that wait, and such a shell has the one child it waits for.   *)
(* So the children of whoever ends, or of a pid that is free, are none,    *)
(* and a pid that is used again brings its new owner no children.          *)

Fields ==
  {"prog", "pc", "cnt", "ptr", "base", "text", "tokens", "tok_next", "child", "answer"}

(* Where a process can be in each phase.  Process 0 is the first init.     *)
PlaceOfInit == [running |-> {"fork_idle", "fork_sh", "wait"}, waiting |-> {"wait"}]
Place ==
  [none |-> {"none"},
   running |-> {"pause", "execve", "exit", "ps", "getc", "split", "exec_prog", "wait",
                "parse_line", "print", "fork_idle", "fork_sh", "stray"},
   waiting |-> {"wait"},
   reading |-> {"getc"},
   stopped |-> {"exit"}]

(* Which program can be where. *)
Fits(f) ==
  /\ f.pc = "exec_prog" => f.prog = "sh"
  /\ f.pc \in {"fork_idle", "fork_sh"} => f.prog = "init"
  /\ f.pc = "wait" => f.prog \in {"init", "sh"}
  /\ f.pc = "wait" /\ f.prog = "sh" => f.child \in Pid

Images ==
  /\ DOMAIN proc = Pid /\ \A p \in Pid : DOMAIN proc[p] = Fields
  /\ phase \in [Pid -> DOMAIN Place] /\ ppid \in [Pid -> Pid]
  /\ phase[0] \in DOMAIN PlaceOfInit /\ proc[0].pc \in PlaceOfInit[phase[0]]
  /\ proc[0].prog = "init" /\ ppid[0] = 0
  /\ \A p \in Pid \ {0} : proc[p].pc \in Place[phase[p]] /\ Fits(proc[p])

IsChild(c, p) == phase[c] # "none" /\ ppid[c] = p
OfParents == {"fork_sh", "wait"}
Kin ==
  \A p \in Pid \ {0}, c \in Pid :
    /\ IsChild(c, p) => proc[p].pc \in OfParents
    /\ proc[p].pc = "wait" /\ proc[p].prog = "sh" => (IsChild(c, p) <=> proc[p].child = c)

IInv == Images /\ Kin
-----------------------------------------------------------------------------
(* Records and functions that EXCEPT changes.                              *)

LEMMA FreshImage ==
  ASSUME NEW program, NEW start
  PROVE  /\ DOMAIN Fresh(program, start) = Fields
         /\ Fresh(program, start).prog = program
         /\ Fresh(program, start).pc = start
BY DEF Fresh, Fields

LEMMA SetField ==
  ASSUME NEW f, DOMAIN f = Fields, NEW i \in Fields, NEW x
  PROVE  /\ DOMAIN [f EXCEPT ![i] = x] = Fields
         /\ [f EXCEPT ![i] = x][i] = x
         /\ \A j \in Fields \ {i} : [f EXCEPT ![i] = x][j] = f[j]
OBVIOUS

(* What a record keeps when its place changes, and any field but the place. *)
LEMMA SetPlace ==
  ASSUME NEW f, DOMAIN f = Fields, NEW x
  PROVE  /\ DOMAIN [f EXCEPT !.pc = x] = Fields
         /\ [f EXCEPT !.pc = x].pc = x
         /\ [f EXCEPT !.pc = x].prog = f.prog
         /\ [f EXCEPT !.pc = x].child = f.child
BY DEF Fields

LEMMA PromptImage ==
  ASSUME NEW f, DOMAIN f = Fields
  PROVE  DOMAIN Prompt(f) = Fields /\ Prompt(f).pc = "getc"
<1> DEFINE f1 == [f EXCEPT !.pc = "getc"]
           f2 == [f1 EXCEPT !.text = <<>>]
<1>1. DOMAIN f1 = Fields /\ f1.pc = "getc"
  BY SetPlace
<1> HIDE DEF f1
<1>2. DOMAIN f2 = Fields /\ f2.pc = "getc"
  BY <1>1 DEF Fields
<1>3. Prompt(f) = [f2 EXCEPT !.tokens = <<>>]
  BY DEF Prompt, f1
<1> HIDE DEF f2
<1>4. QED
  BY <1>2, <1>3 DEF Fields

LEMMA PidOfInit == 0 \in Pid /\ 1 \in Pid /\ Pid \subseteq Nat
BY ShellAssumption DEF Pid

LEMMA InitIInv == Init => IInv
<1> SUFFICES ASSUME Init PROVE IInv
  OBVIOUS
<1>1. /\ proc = [p \in Pid |-> IF p = 0 THEN Fresh("init", "fork_idle") ELSE Fresh("none", "none")]
      /\ phase = [p \in Pid |-> IF p = 0 THEN "running" ELSE "none"]
      /\ ppid = [p \in Pid |-> 0]
  BY DEF Init, Life!Init, NoImage, Life!Pid, Pid
<1>2. Images
  BY <1>1, FreshImage, PidOfInit DEF Images, PlaceOfInit, Place, Fits
<1>3. Kin
  BY <1>1, FreshImage, PidOfInit DEF Kin, IsChild
<1>4. QED
  BY <1>2, <1>3 DEF IInv
-----------------------------------------------------------------------------
(* A process without children goes on to a place where it needs none.      *)

Moves(p, ph, g) ==
  /\ p \in Pid \ {0} /\ phase[p] # "none" /\ proc[p].pc \notin OfParents
  /\ DOMAIN g = Fields
  /\ ph \in DOMAIN Place \ {"none"} /\ g.pc \in Place[ph] \ OfParents
  /\ Fits(g)
  /\ phase' = [phase EXCEPT ![p] = ph] /\ ppid' = ppid
  /\ DOMAIN proc' = Pid /\ proc'[p] = g
  /\ \A q \in Pid : q # p => proc'[q] = proc[q]

LEMMA GoesOn ==
  ASSUME IInv, NEW p, NEW ph, NEW g, Moves(p, ph, g)
  PROVE  IInv'
<1>1. Images'
  <2>1. /\ DOMAIN proc' = Pid /\ DOMAIN phase' = Pid
        /\ proc'[p] = g /\ phase'[p] = ph
        /\ \A q \in Pid : q # p => proc'[q] = proc[q] /\ phase'[q] = phase[q]
    BY DEF Moves, IInv, Images
  <2>2. QED
    BY <2>1, PidOfInit DEF Moves, IInv, Images
<1>2. Kin'
  <2>1. /\ \A q \in Pid : q # p => proc'[q] = proc[q]
        /\ proc'[p].pc \notin OfParents
        /\ \A q \in Pid : phase'[q] # "none" <=> phase[q] # "none"
    BY DEF Moves, IInv, Images
  <2>2. QED
    BY <2>1 DEF Moves, IInv, Kin, IsChild, OfParents
<1>3. QED
  BY <1>1, <1>2 DEF IInv

(* ... in the phase it is in. *)
LEMMA GoesOnRunning ==
  ASSUME IInv, NEW p \in Pid, phase[p] = "running",
         proc[p].pc \notin {"wait", "fork_idle", "fork_sh"},
         NEW g, DOMAIN g = Fields,
         g.pc \in Place["running"] \ OfParents, Fits(g),
         UNCHANGED <<phase, ppid>>, proc' = [proc EXCEPT ![p] = g]
  PROVE  IInv'
<1>1. p # 0
  BY DEF IInv, Images, PlaceOfInit
<1>2. phase' = [phase EXCEPT ![p] = "running"] /\ ppid' = ppid
  BY DEF IInv, Images
<1>3. /\ DOMAIN proc' = Pid /\ proc'[p] = g
      /\ \A q \in Pid : q # p => proc'[q] = proc[q]
  BY DEF IInv, Images
<1>4. Moves(p, "running", g)
  BY <1>1, <1>2, <1>3 DEF Moves, Place, OfParents
<1>5. QED
  BY <1>4, GoesOn
-----------------------------------------------------------------------------
(* The programs, between their system calls and in those that change no    *)
(* phase.                                                                  *)

LEMMA StoreImage ==
  ASSUME NEW f, DOMAIN f = Fields, NEW c
  PROVE  /\ DOMAIN Store(f, c) = Fields
         /\ Store(f, c).pc \in {"split", "exit", "getc"}
<1>1. CASE c = Newline
  BY <1>1, SetPlace DEF Store
<1>2. CASE c # Newline
  <2> DEFINE text == Append(f.text, c)
             x == IF Len(text) >= LineSize[f.prog] THEN "exit" ELSE "getc"
  <2>1. Store(f, c) = [[f EXCEPT !.text = text] EXCEPT !.pc = x]
    BY <1>2 DEF Store
  <2>2. x \in {"exit", "getc"}
    OBVIOUS
  <2> HIDE DEF text, x
  <2>3. DOMAIN [f EXCEPT !.text = text] = Fields
    OBVIOUS
  <2>4. QED
    BY <2>1, <2>2, <2>3, SetPlace
<1>3. QED
  BY <1>1, <1>2

LEMMA ExecveIInv ==
  ASSUME IInv, NEW p \in Pid, Execve(p)
  PROVE  IInv'
<1>1. /\ phase[p] = "running" /\ proc[p].pc = "execve" /\ UNCHANGED <<phase, ppid>>
      /\ DOMAIN proc[p] = Fields
  BY DEF Execve, At, kernel, IInv, Images
<1>2. CASE proc[p].text \in DOMAIN Archive
  <2> DEFINE program == Archive[proc[p].text]
             g == Fresh(program, Start[program])
  <2>1. /\ Start[program] \in {"ps", "getc", "fork_idle", "stray"}
        /\ Start[program] = "fork_idle" => program = "init"
    BY <1>2, ShellAssumption DEF Start
  <2>2. proc' = [proc EXCEPT ![p] = g]
    BY <1>2 DEF Execve
  <2>3. /\ DOMAIN g = Fields /\ g.pc \in {"ps", "getc", "fork_idle", "stray"}
        /\ g.pc = "fork_idle" => g.prog = "init"
    BY <2>1, FreshImage
  <2> HIDE DEF g
  <2>4. QED
    BY <1>1, <2>2, <2>3, GoesOnRunning DEF Place, Fits, OfParents
<1>3. CASE proc[p].text \notin DOMAIN Archive
  <2> DEFINE g == [proc[p] EXCEPT !.pc = "exit"]
  <2>1. proc' = [proc EXCEPT ![p] = g]
    BY <1>3 DEF Execve
  <2>2. DOMAIN g = Fields /\ g.pc = "exit"
    BY <1>1, SetPlace
  <2> HIDE DEF g
  <2>3. QED
    BY <1>1, <2>1, <2>2, GoesOnRunning DEF Place, Fits, OfParents
<1>4. QED
  BY <1>2, <1>3

LEMMA ComputesIInv ==
  ASSUME IInv, NEW p \in Pid,
         Ps(p) \/ GetBuffered(p) \/ NoCommand(p) \/ BuiltIn(p) \/ PrintAnswer(p)
  PROVE  IInv'
<1>1. /\ phase[p] = "running" /\ UNCHANGED <<phase, ppid>> /\ DOMAIN proc[p] = Fields
      /\ proc[p].pc \in {"ps", "getc", "exec_prog", "print"}
  BY DEF Ps, GetBuffered, NoCommand, BuiltIn, PrintAnswer, At, kernel, IInv, Images
<1>2. \E g : /\ proc' = [proc EXCEPT ![p] = g] /\ DOMAIN g = Fields
             /\ g.pc \in {"exit", "split", "getc"}
  <2>1. CASE Ps(p) \/ PrintAnswer(p)
    <3> DEFINE g == [proc[p] EXCEPT !.pc = "exit"]
    <3>1. proc' = [proc EXCEPT ![p] = g]
      BY <2>1 DEF Ps, PrintAnswer
    <3>2. DOMAIN g = Fields /\ g.pc = "exit"
      BY <1>1, SetPlace
    <3> HIDE DEF g
    <3>3. QED
      BY <3>1, <3>2
  <2>2. CASE NoCommand(p) \/ BuiltIn(p)
    BY <1>1, <2>2, PromptImage DEF NoCommand, BuiltIn
  <2>3. CASE GetBuffered(p)
    <3>1. DOMAIN Hand(proc[p]) = Fields
      BY <1>1 DEF Hand
    <3>2. QED
      BY <2>3, <3>1, StoreImage DEF GetBuffered
  <2>4. QED
    BY <2>1, <2>2, <2>3
<1>3. QED
  BY <1>1, <1>2, GoesOnRunning DEF Place, Fits, OfParents

LEMMA SplitIInv ==
  ASSUME IInv, NEW p \in Pid, Split(p)
  PROVE  IInv'
<1> DEFINE f == proc[p]
           found(call) == [f EXCEPT !.tokens = Append(f.tokens, call.token),
                                    !.tok_next = call.next]
           parsed == IF f.prog = "sh" THEN "exec_prog" ELSE "parse_line"
<1>1. /\ phase[p] = "running" /\ UNCHANGED <<phase, ppid>> /\ DOMAIN f = Fields
      /\ f.pc = "split"
  BY DEF Split, At, kernel, IInv, Images
<1>2. PICK call :
        proc' = [proc EXCEPT ![p] =
          IF call.token = NULL THEN [f EXCEPT !.pc = parsed, !.tok_next = call.next]
          ELSE IF Len(f.tokens) + 1 >= MostTokens[f.prog]
            THEN [found(call) EXCEPT !.pc = "exit"]
          ELSE found(call)]
  BY DEF Split
<1>3. DOMAIN found(call) = Fields /\ found(call).pc = "split"
  <2> DEFINE f2 == [f EXCEPT !.tokens = Append(f.tokens, call.token)]
  <2>1. DOMAIN f2 = Fields /\ f2.pc = "split"
    BY <1>1 DEF Fields
  <2>2. found(call) = [f2 EXCEPT !.tok_next = call.next]
    OBVIOUS
  <2> HIDE DEF f2
  <2>3. QED
    BY <2>1, <2>2 DEF Fields
<1>4. CASE call.token = NULL
  <2> DEFINE f2 == [f EXCEPT !.pc = parsed]
             g == [f2 EXCEPT !.tok_next = call.next]
  <2>1. DOMAIN f2 = Fields /\ f2.pc = parsed /\ f2.prog = f.prog
    BY <1>1, SetPlace
  <2>2. proc' = [proc EXCEPT ![p] = g]
    BY <1>2, <1>4
  <2> HIDE DEF f2
  <2>3. DOMAIN g = Fields /\ g.pc = parsed /\ g.prog = f.prog
    BY <2>1 DEF Fields
  <2> HIDE DEF g
  <2>4. g.pc \in {"exec_prog", "parse_line"} /\ (g.pc = "exec_prog" => g.prog = "sh")
    BY <2>3
  <2>5. QED
    BY <1>1, <2>2, <2>3, <2>4, GoesOnRunning DEF Place, Fits, OfParents
<1> HIDE DEF found
<1>5. CASE call.token # NULL /\ Len(f.tokens) + 1 >= MostTokens[f.prog]
  <2> DEFINE g == [found(call) EXCEPT !.pc = "exit"]
  <2>1. DOMAIN g = Fields /\ g.pc = "exit"
    BY <1>3, SetPlace
  <2>2. proc' = [proc EXCEPT ![p] = g]
    BY <1>2, <1>5
  <2> HIDE DEF g
  <2>3. QED
    BY <1>1, <2>1, <2>2, GoesOnRunning DEF Place, Fits, OfParents
<1>6. CASE call.token # NULL /\ ~ (Len(f.tokens) + 1 >= MostTokens[f.prog])
  <2> DEFINE g == found(call)
  <2>1. proc' = [proc EXCEPT ![p] = g]
    BY <1>2, <1>6
  <2>2. QED
    BY <1>1, <1>3, <2>1, GoesOnRunning DEF Place, Fits, OfParents
<1>7. QED
  BY <1>4, <1>5, <1>6

LEMMA ParseLineIInv ==
  ASSUME IInv, NEW p \in Pid, ParseLine(p)
  PROVE  IInv'
<1>1. /\ phase[p] = "running" /\ proc[p].pc = "parse_line" /\ DOMAIN proc[p] = Fields
  BY DEF ParseLine, At, IInv, Images
<1>2. (\E answer : Returns(p, answer)) \/ Stops
  BY DEF ParseLine
<1>3. CASE Stops
  BY <1>3 DEF Stops, IInv, Images, Kin, IsChild
<1>4. ASSUME NEW answer, Returns(p, answer)
      PROVE  IInv'
  <2> DEFINE f2 == [proc[p] EXCEPT !.pc = "print"]
             g == [f2 EXCEPT !.answer = answer]
  <2>1. proc' = [[proc EXCEPT ![p].pc = "print"] EXCEPT ![p].answer = answer]
        /\ UNCHANGED <<phase, ppid>>
    BY <1>4 DEF Returns, kernel
  <2>2. DOMAIN f2 = Fields /\ f2.pc = "print"
    BY <1>1, SetPlace
  <2>3. proc' = [proc EXCEPT ![p] = g]
    BY <2>1 DEF IInv, Images
  <2> HIDE DEF f2
  <2>4. DOMAIN g = Fields /\ g.pc = "print"
    BY <2>2 DEF Fields
  <2> HIDE DEF g
  <2>5. QED
    BY <1>1, <2>1, <2>3, <2>4, GoesOnRunning DEF Place, Fits, OfParents
<1>5. QED
  BY <1>2, <1>3, <1>4
-----------------------------------------------------------------------------
(* System calls.                                                           *)

LEMMA ExitIInv ==
  ASSUME IInv, NEW p \in Pid, Exit(p)
  PROVE  IInv'
<1>1. /\ phase[p] = "running" /\ proc[p].pc = "exit" /\ p # 0
      /\ phase' = [phase EXCEPT ![p] = "stopped"] /\ UNCHANGED <<ppid, proc>>
  BY DEF Exit, At, Life!Die
<1>2. DOMAIN proc = Pid /\ DOMAIN proc[p] = Fields
  BY DEF IInv, Images
<1>3. Moves(p, "stopped", proc[p])
  BY <1>1, <1>2 DEF Moves, Place, Fits, OfParents
<1>4. QED
  BY <1>3, GoesOn

LEMMA BeginFillIInv ==
  ASSUME IInv, NEW p \in Pid, BeginFill(p)
  PROVE  IInv'
<1>1. /\ phase[p] = "running" /\ proc[p].pc = "getc"
      /\ phase' = [phase EXCEPT ![p] = "reading"] /\ UNCHANGED <<ppid, proc>>
  BY DEF BeginFill, Life!BeginRead
<1>2. DOMAIN proc = Pid /\ DOMAIN proc[p] = Fields /\ p # 0
  BY <1>1 DEF IInv, Images, PlaceOfInit
<1>3. Moves(p, "reading", proc[p])
  BY <1>1, <1>2 DEF Moves, Place, Fits, OfParents
<1>4. QED
  BY <1>3, GoesOn

LEMMA EndFillIInv ==
  ASSUME IInv, NEW p \in Pid, EndFill(p)
  PROVE  IInv'
<1> DEFINE n == IF Len(tty) > BUFSIZ THEN BUFSIZ ELSE Len(tty)
           s == SubSeq(tty, 1, n)
           g == Store(Filled(proc[p], s), tty[1])
<1>1. /\ phase[p] \in {"running", "reading"} /\ proc[p].pc = "getc"
      /\ phase' = [phase EXCEPT ![p] = "running"] /\ UNCHANGED ppid
      /\ proc' = [proc EXCEPT ![p] = g]
  BY DEF EndFill, Life!EndRead
<1>2. DOMAIN proc = Pid /\ DOMAIN proc[p] = Fields /\ p # 0
  BY <1>1 DEF IInv, Images, PlaceOfInit
<1>3. DOMAIN Filled(proc[p], s) = Fields
  BY <1>2 DEF Filled
<1>4. DOMAIN g = Fields /\ g.pc \in {"split", "exit", "getc"}
  BY <1>3, StoreImage
<1> HIDE DEF g
<1>5. /\ DOMAIN proc' = Pid /\ proc'[p] = g
      /\ \A q \in Pid : q # p => proc'[q] = proc[q]
  BY <1>1, <1>2
<1>6. Moves(p, "running", g)
  BY <1>1, <1>2, <1>4, <1>5 DEF Moves, Place, Fits, OfParents
<1>7. QED
  BY <1>6, GoesOn

(* A free pid has no children, and its new owner only the parent.          *)
LEMMA NewProcess ==
  ASSUME IInv, NEW p \in Pid, NEW c \in Pid, Forked(p, c)
  PROVE  /\ p # c /\ c # 0 /\ phase[p] = "running"
         /\ phase' = [phase EXCEPT ![c] = "running"] /\ ppid' = [ppid EXCEPT ![c] = p]
         /\ proc[c].pc = "none"
         /\ \A d, q \in Pid : IsChild(d, q)' <=> (IF d = c THEN q = p ELSE IsChild(d, q))
         /\ \A q \in Pid : ~ IsChild(c, q) /\ ~ IsChild(q, c)
<1>1. /\ phase[p] = "running" /\ phase[c] = "none"
      /\ phase' = [phase EXCEPT ![c] = "running"] /\ ppid' = [ppid EXCEPT ![c] = p]
  BY DEF Forked, Life!Spawn, Life!Pid, Pid, IInv, Images
<1>2. p # c /\ c # 0 /\ proc[c].pc = "none"
  BY <1>1 DEF IInv, Images, PlaceOfInit, Place
<1>3. \A d, q \in Pid : IsChild(d, q)' <=> (IF d = c THEN q = p ELSE IsChild(d, q))
  BY <1>1 DEF IsChild, IInv, Images
<1>4. \A q \in Pid : ~ IsChild(c, q)
  BY <1>1 DEF IsChild
<1>5. \A q \in Pid : ~ IsChild(q, c)
  BY <1>2 DEF IInv, Kin, OfParents
<1>6. QED
  BY <1>1, <1>2, <1>3, <1>4, <1>5

LEMMA NoTaskIInv ==
  ASSUME IInv, NEW p \in Pid, NoTask(p)
  PROVE  IInv'
BY DEF NoTask, Life!NoPidLeft, IInv, Images, Kin, IsChild

(* An init, the first or another, forks. *)
InitForks(p, c, g, f) ==
  /\ p \in Pid /\ c \in Pid /\ Forked(p, c)
  /\ proc[p].pc \in {"fork_idle", "fork_sh"}
  /\ DOMAIN g = Fields /\ g.pc \in {"pause", "execve"}
  /\ DOMAIN f = Fields /\ f.pc \in OfParents /\ f.prog = proc[p].prog
  /\ proc' = [proc EXCEPT ![c] = g, ![p] = f]

LEMMA InitForksIInv ==
  ASSUME IInv, NEW p, NEW c, NEW g, NEW f, InitForks(p, c, g, f)
  PROVE  IInv'
<1> USE DEF InitForks
<1>1. /\ p # c /\ c # 0 /\ phase[p] = "running"
      /\ phase' = [phase EXCEPT ![c] = "running"] /\ ppid' = [ppid EXCEPT ![c] = p]
      /\ \A d, q \in Pid : IsChild(d, q)' <=> (IF d = c THEN q = p ELSE IsChild(d, q))
      /\ \A q \in Pid : ~ IsChild(c, q) /\ ~ IsChild(q, c)
  BY NewProcess
<1>2. /\ DOMAIN proc' = Pid /\ proc'[c] = g /\ proc'[p] = f
      /\ \A q \in Pid \ {p, c} : proc'[q] = proc[q]
  BY <1>1 DEF IInv, Images
<1>3. f.prog = "init"
  BY DEF IInv, Images, Fits
<1>4. Images'
  BY <1>1, <1>2, <1>3, PidOfInit DEF IInv, Images, Place, PlaceOfInit, Fits, OfParents
<1>5. ASSUME NEW q \in Pid \ {0}, NEW d \in Pid
      PROVE  /\ IsChild(d, q)' => proc'[q].pc \in OfParents
             /\ proc'[q].pc = "wait" /\ proc'[q].prog = "sh"
                  => (IsChild(d, q)' <=> proc'[q].child = d)
  <2>1. CASE q = p
    BY <1>2, <1>3, <2>1
  <2>2. CASE q = c
    BY <1>1, <1>2, <2>2
  <2>3. CASE q # p /\ q # c
    BY <1>1, <1>2, <2>3 DEF IInv, Kin
  <2>4. QED
    BY <2>1, <2>2, <2>3
<1>6. QED
  BY <1>4, <1>5 DEF IInv, Kin

LEMMA ForkIdleIInv ==
  ASSUME IInv, NEW p \in Pid, ForkIdle(p)
  PROVE  IInv'
<1>1. CASE NoTask(p)
  BY <1>1, NoTaskIInv
<1>2. ASSUME NEW c \in Pid, Forked(p, c),
             proc' = [proc EXCEPT ![c] = Fresh("idle", "pause"), ![p].pc = "fork_sh"]
      PROVE  IInv'
  <2> DEFINE g == Fresh("idle", "pause")
  <2>1. /\ DOMAIN g = Fields /\ g.pc \in {"pause", "execve"}
        /\ proc[p].pc \in {"fork_idle", "fork_sh"}
    BY FreshImage DEF ForkIdle, At
  <2> DEFINE f == [proc[p] EXCEPT !.pc = "fork_sh"]
  <2>2. proc' = [proc EXCEPT ![c] = g, ![p] = f]
    <3>1. p # c
      BY <1>2, NewProcess
    <3>2. QED
      BY <1>2, <3>1 DEF IInv, Images
  <2>3. DOMAIN f = Fields /\ f.pc \in OfParents /\ f.prog = proc[p].prog
    BY SetPlace DEF IInv, Images, OfParents
  <2> HIDE DEF f, g
  <2>4. QED
    BY <1>2, <2>1, <2>2, <2>3, InitForksIInv DEF InitForks
<1>3. QED
  BY <1>1, <1>2 DEF ForkIdle

LEMMA ForkShellIInv ==
  ASSUME IInv, NEW p \in Pid, ForkShell(p)
  PROVE  IInv'
<1>1. CASE NoTask(p)
  BY <1>1, NoTaskIInv
<1>2. ASSUME NEW c \in Pid, Forked(p, c),
             proc' = [proc EXCEPT ![c] = [Fresh("init", "execve") EXCEPT !.text = ShellName],
                                  ![p].pc = "wait"]
      PROVE  IInv'
  <2> DEFINE e == Fresh("init", "execve")
             g == [e EXCEPT !.text = ShellName]
             f == [proc[p] EXCEPT !.pc = "wait"]
  <2>1. DOMAIN e = Fields /\ e.pc = "execve" /\ proc[p].pc \in {"fork_idle", "fork_sh"}
    BY FreshImage DEF ForkShell, At
  <2>2. proc' = [proc EXCEPT ![c] = g, ![p] = f]
    <3>1. p # c
      BY <1>2, NewProcess
    <3>2. QED
      BY <1>2, <3>1 DEF IInv, Images
  <2>3. DOMAIN f = Fields /\ f.pc \in OfParents /\ f.prog = proc[p].prog
    BY SetPlace DEF IInv, Images, OfParents
  <2> HIDE DEF e, f
  <2>4. DOMAIN g = Fields /\ g.pc \in {"pause", "execve"}
    BY <2>1 DEF Fields
  <2> HIDE DEF g
  <2>5. QED
    BY <1>2, <2>1, <2>2, <2>3, <2>4, InitForksIInv DEF InitForks
<1>3. QED
  BY <1>1, <1>2 DEF ForkShell

LEMMA ForkCommandIInv ==
  ASSUME IInv, NEW p \in Pid, ForkCommand(p)
  PROVE  IInv'
<1>1. /\ phase[p] = "running" /\ proc[p].pc = "exec_prog" /\ p # 0
      /\ DOMAIN proc[p] = Fields /\ proc[p].prog = "sh"
  BY DEF ForkCommand, At, IInv, Images, PlaceOfInit, Fits
<1>2. CASE NoTask(p)
  BY <1>2, NoTaskIInv
<1>3. ASSUME NEW c \in Pid, Forked(p, c),
             proc' = [proc EXCEPT ![c] = [proc[p] EXCEPT !.pc = "execve", !.text = Name(p)],
                                  ![p] = Foreground(proc[p], c)]
      PROVE  IInv'
  <2> DEFINE f == [proc[p] EXCEPT !.pc = "execve"]
             g == [f EXCEPT !.text = Name(p)]
             e == [proc[p] EXCEPT !.pc = "wait"]
             h == [e EXCEPT !.child = c]
  <2>1. DOMAIN f = Fields /\ f.pc = "execve" /\ DOMAIN e = Fields /\ e.pc = "wait" /\ e.prog = "sh"
    BY <1>1, SetPlace
  <2>2. proc' = [proc EXCEPT ![c] = g, ![p] = h]
    BY <1>3 DEF Foreground
  <2> HIDE DEF f, e
  <2>3. /\ DOMAIN g = Fields /\ g.pc = "execve"
        /\ DOMAIN h = Fields /\ h.pc = "wait" /\ h.prog = "sh" /\ h.child = c
    BY <2>1 DEF Fields
  <2> HIDE DEF g, h
  <2>4. /\ p # c /\ c # 0 /\ phase[p] = "running"
        /\ phase' = [phase EXCEPT ![c] = "running"] /\ ppid' = [ppid EXCEPT ![c] = p]
        /\ \A d, q \in Pid : IsChild(d, q)' <=> (IF d = c THEN q = p ELSE IsChild(d, q))
        /\ \A q \in Pid : ~ IsChild(c, q) /\ ~ IsChild(q, c)
    BY <1>3, NewProcess
  <2>5. /\ DOMAIN proc' = Pid /\ proc'[c] = g /\ proc'[p] = h
        /\ \A q \in Pid \ {p, c} : proc'[q] = proc[q]
    BY <2>2, <2>4 DEF IInv, Images
  <2>6. Images'
    BY <1>1, <2>3, <2>4, <2>5, PidOfInit DEF IInv, Images, Place, PlaceOfInit, Fits
  <2>7. \A d \in Pid : ~ IsChild(d, p)
    BY <1>1 DEF IInv, Kin, OfParents
  <2>8. Kin'
    <3> SUFFICES ASSUME NEW q \in Pid \ {0}, NEW d \in Pid
                 PROVE  /\ IsChild(d, q)' => proc'[q].pc \in OfParents
                        /\ proc'[q].pc = "wait" /\ proc'[q].prog = "sh"
                             => (IsChild(d, q)' <=> proc'[q].child = d)
      BY DEF Kin
    <3>1. CASE q = p
      BY <2>3, <2>4, <2>5, <2>7, <3>1 DEF OfParents
    <3>2. CASE q = c
      BY <2>3, <2>4, <2>5, <3>2
    <3>3. CASE q # p /\ q # c
      BY <2>4, <2>5, <3>3 DEF IInv, Kin
    <3>4. QED
      BY <3>1, <3>2, <3>3
  <2>9. QED
    BY <2>6, <2>8 DEF IInv
<1>4. QED
  BY <1>2, <1>3 DEF ForkCommand

LEMMA BeginWaitIInv ==
  ASSUME IInv, NEW p \in Pid, BeginWait(p)
  PROVE  IInv'
<1>1. /\ phase[p] = "running" /\ proc[p].pc = "wait"
      /\ phase' = [phase EXCEPT ![p] = "waiting"] /\ UNCHANGED <<ppid, proc>>
  BY DEF BeginWait, Life!BeginWait
<1>2. Images'
  BY <1>1, PidOfInit DEF IInv, Images, Place, PlaceOfInit
<1>3. Kin'
  BY <1>1 DEF IInv, Images, Kin, IsChild
<1>4. QED
  BY <1>2, <1>3 DEF IInv

(* Whoever is collected has ended and has no children; an init waits on,   *)
(* a shell collects its child, the only one, and goes back to its prompt.  *)
LEMMA EndWaitIInv ==
  ASSUME IInv, NEW p \in Pid, EndWait(p)
  PROVE  IInv'
<1> DEFINE dead == Life!StoppedChildren(p)
<1>1. /\ proc[p].pc = "wait" /\ phase[p] \in {"running", "waiting"} /\ dead # {}
      /\ phase' = [q \in Pid |-> IF q \in dead THEN "none" ELSE IF q = p THEN "running" ELSE phase[q]]
      /\ ppid' = [q \in Pid |-> IF q \in dead THEN 0 ELSE ppid[q]]
      /\ proc' = [q \in Pid |-> IF q \in dead THEN NoImage
                                ELSE IF q = p /\ Finished(p, dead) THEN Prompt(proc[p])
                                ELSE proc[q]]
  BY DEF EndWait, Life!EndWait, Life!Pid, Pid
<1>2. \A q : q \in dead <=> q \in Pid /\ phase[q] = "stopped" /\ ppid[q] = p
  BY DEF Life!StoppedChildren, Life!Pid, Pid
<1>3. /\ 0 \notin dead /\ p \notin dead
      /\ \A q \in dead : IsChild(q, p) /\ proc[q].pc = "exit"
  <2>1. \A q \in dead : q # 0 /\ IsChild(q, p)
    BY <1>2 DEF IsChild, IInv, Images, PlaceOfInit
  <2>2. \A q \in dead : proc[q].pc = "exit"
    BY <1>2, <2>1 DEF IInv, Images, Place
  <2>3. QED
    BY <1>1, <2>1, <2>2
<1>4. proc[p].prog = "sh" => dead = {proc[p].child} /\ Finished(p, dead)
  <2>1. SUFFICES ASSUME proc[p].prog = "sh" PROVE dead = {proc[p].child} /\ Finished(p, dead)
    OBVIOUS
  <2>2. dead = {proc[p].child}
    <3>1. p # 0
      BY <2>1 DEF IInv, Images
    <3>2. \A q \in Pid : IsChild(q, p) <=> proc[p].child = q
      BY <1>1, <2>1, <3>1 DEF IInv, Kin
    <3>3. QED
      BY <1>1, <1>2, <1>3, <3>2
  <2>3. Returned(dead) = proc[p].child
    BY <1>2, <2>2, PidOfInit DEF Returned
  <2>4. QED
    BY <2>1, <2>2, <2>3 DEF Finished
<1>5. proc[p].prog # "sh" => ~ Finished(p, dead)
  BY DEF Finished
<1> HIDE DEF dead
<1>6. /\ DOMAIN NoImage = Fields /\ NoImage.pc = "none" /\ NoImage.prog = "none"
      /\ DOMAIN Prompt(proc[p]) = Fields /\ Prompt(proc[p]).pc = "getc"
  BY FreshImage, PromptImage DEF NoImage, IInv, Images
<1>7. Images'
  <2>1. /\ DOMAIN proc' = Pid /\ DOMAIN phase' = Pid /\ DOMAIN ppid' = Pid
        /\ ppid' \in [Pid -> Pid] /\ ppid'[0] = 0
    BY <1>1, <1>3, PidOfInit DEF IInv, Images
  <2>2. \A q \in dead : phase'[q] = "none" /\ proc'[q] = NoImage
    BY <1>1, <1>2
  <2>3. phase'[p] = "running" /\ proc'[p] = IF Finished(p, dead) THEN Prompt(proc[p]) ELSE proc[p]
    BY <1>1, <1>3
  <2>4. \A q \in Pid : q \notin dead /\ q # p => phase'[q] = phase[q] /\ proc'[q] = proc[q]
    BY <1>1
  <2>5. /\ DOMAIN proc'[p] = Fields /\ Fits(proc'[p]) /\ proc'[p].pc \in {"getc", "wait"}
        /\ p = 0 => proc'[p] = proc[p]
    BY <1>1, <1>5, <1>6, <2>3 DEF IInv, Images, Fits
  <2>6. phase' \in [Pid -> DOMAIN Place] /\ \A q \in Pid : DOMAIN proc'[q] = Fields
    <3>1. {"none", "running"} \subseteq DOMAIN Place /\ phase \in [Pid -> DOMAIN Place]
      BY DEF IInv, Images, Place
    <3>2. phase' \in [Pid -> DOMAIN Place]
      BY <1>1, <3>1
    <3>3. \A q \in Pid : DOMAIN proc'[q] = Fields
      BY <1>6, <2>2, <2>4, <2>5 DEF IInv, Images
    <3>4. QED
      BY <3>2, <3>3
  <2>7. /\ phase'[0] \in DOMAIN PlaceOfInit /\ proc'[0].pc \in PlaceOfInit[phase'[0]]
        /\ proc'[0].prog = "init"
    BY <1>1, <1>3, <2>3, <2>4, <2>5, PidOfInit DEF IInv, Images, PlaceOfInit
  <2>8. ASSUME NEW q \in Pid \ {0} PROVE proc'[q].pc \in Place[phase'[q]] /\ Fits(proc'[q])
    <3>1. CASE q \in dead
      BY <1>6, <2>2, <3>1 DEF Place, Fits
    <3>2. CASE q = p
      BY <2>3, <2>5, <3>2 DEF Place
    <3>3. CASE q \notin dead /\ q # p
      BY <2>4, <3>3 DEF IInv, Images
    <3>4. QED
      BY <3>1, <3>2, <3>3
  <2>9. QED
    BY <2>1, <2>6, <2>7, <2>8 DEF Images
<1>8. \A c, q \in Pid : q # 0 => (IsChild(c, q)' <=> IsChild(c, q) /\ c \notin dead)
  BY <1>1, <1>3, PidOfInit DEF IsChild, IInv, Images
<1>9. ASSUME NEW q \in Pid \ {0}, NEW c \in Pid
      PROVE  /\ IsChild(c, q)' => proc'[q].pc \in OfParents
             /\ proc'[q].pc = "wait" /\ proc'[q].prog = "sh"
                  => (IsChild(c, q)' <=> proc'[q].child = c)
  <2>1. /\ IsChild(c, q) => proc[q].pc \in OfParents
        /\ proc[q].pc = "wait" /\ proc[q].prog = "sh" => (IsChild(c, q) <=> proc[q].child = c)
    BY DEF IInv, Kin
  <2>2. CASE q \in dead
    BY <1>1, <1>3, <1>6, <1>8, <2>1, <2>2 DEF OfParents
  <2>3. CASE q = p /\ proc[p].prog = "sh"
    BY <1>1, <1>3, <1>4, <1>6, <1>8, <2>1, <2>3
  <2>4. CASE q = p /\ proc[p].prog # "sh"
    BY <1>1, <1>3, <1>5, <1>8, <2>1, <2>4
  <2>5. CASE q \notin dead /\ q # p
    <3>1. proc'[q] = proc[q]
      BY <1>1, <2>5
    <3>2. IsChild(c, q)' <=> IsChild(c, q)
      BY <1>3, <1>8, <2>5 DEF IsChild
    <3>3. QED
      BY <2>1, <3>1, <3>2
  <2>6. QED
    BY <2>2, <2>3, <2>4, <2>5
<1>10. QED
  BY <1>7, <1>9 DEF IInv, Kin
-----------------------------------------------------------------------------
LEMMA Inductive == IInv /\ [Next]_vars => IInv'
<1> SUFFICES ASSUME IInv, [Next]_vars PROVE IInv'
  OBVIOUS
<1>1. CASE UNCHANGED vars \/ Type
  BY <1>1 DEF vars, kernel, Type, IInv, Images, Kin, IsChild
<1>2. ASSUME NEW p \in Pid, Idles(p) \/ Strays(p) \/ Fault(p)
      PROVE  IInv'
  BY <1>2 DEF Idles, Strays, Fault, vars, kernel, IInv, Images, Kin, IsChild
<1>3. ASSUME NEW p \in Pid, Step(p)
      PROVE  IInv'
  BY <1>3, ForkIdleIInv, ForkShellIInv, ExecveIInv, ExitIInv, ComputesIInv, BeginFillIInv, EndFillIInv, SplitIInv,
     ForkCommandIInv, BeginWaitIInv, EndWaitIInv, ParseLineIInv DEF Step
<1>4. QED
  BY <1>1, <1>2, <1>3 DEF Next, Goes, Halted

(* A shell sleeps in wait() until its own child has ended.  The child it   *)
(* waits for stays its child until then: every init, which collects        *)
(* children too, leaves that one alone, and the pid goes to no other       *)
(* process (exec_prog() in initrd/sh/main.c, main() in initrd/init/main.c, *)
(* do_wait() and do_fork() in kernel/sched.c).  This holds for any number  *)
(* of shells and inits above each other, and whatever a ramdisk names its  *)
(* programs and directories; a directory that is executed makes no system  *)
(* calls here (see Fault in Shell).                                        *)
THEOREM ShellsChildIsKept == Spec => []ShellHasItsChild
<1>1. IInv => ShellHasItsChild
  BY DEF IInv, Images, Kin, IsChild, Fits, Ended, ShellHasItsChild
<1>2. QED
  BY InitIInv, Inductive, <1>1, PTL DEF Spec
=============================================================================
