-------------------------------- MODULE Sched --------------------------------
(***************************************************************************)
(* The process table and the scheduler of the kernel (kernel/sched.c,      *)
(* kernel/switch_task.asm), driven by the system calls that block, create  *)
(* or end a process, by the timer interrupt and by the keyboard interrupt  *)
(* that completes a line (kernel/tty.c).                                   *)
(*                                                                         *)
(* There is one CPU.  A system call or an interrupt handler runs with      *)
(* interrupts disabled (`cli' ... `sti; iret') until it returns to user    *)
(* mode or calls sched(), so an action is all the kernel does between two  *)
(* context switches.  cont[p] is where p goes on when the CPU is next      *)
(* given to it: "user" (the iret of its handler) or the loop of do_wait or *)
(* of do_read that called do_pause().  The CPU is in user mode, and can be *)
(* interrupted, exactly when cont[current] = "user".                       *)
(*                                                                         *)
(* Pid 0 and pid 1 run the program initrd/init/main.c; every other process *)
(* is an arbitrary program, that makes any system call at any time.        *)
(***************************************************************************)
EXTENDS Naturals

CONSTANTS
  MAX_TASKS,       (* the number of slots of tasks[]                         *)
  Status,          (* the exit statuses programs use                         *)
  MaxInput,        (* capacity of the terminal's input buffer, in characters *)
  ReapsBeforeExit  (* TRUE: a program collects its children before it exits, *)
                   (* as every program of initrd/ does                       *)

ASSUME SchedAssumption ==
  /\ MAX_TASKS \in Nat /\ MAX_TASKS > 2
  /\ MaxInput \in Nat
  /\ ReapsBeforeExit \in BOOLEAN
  /\ Status # {}

Pid == 0 .. MAX_TASKS - 1
TaskState == {"NULL", "RUNNING", "STOPPED", "WAITING"}  \* "NULL": tasks[p] == NULL
NoStatus == CHOOSE s \in Status : TRUE

VARIABLES
  state,        (* tasks[p]->state                                           *)
  ppid,         (* tasks[p]->ppid                                            *)
  exit_status,  (* tasks[p]->exit_status                                     *)
  cont,         (* where tasks[p]->eip resumes p                             *)
  current,      (* the pid of the task the CPU runs                          *)
  input,        (* characters in terminal.input_buf                          *)
  prog,         (* what p executes: init (by stage), idle, or any program    *)
  panic,        (* "no", or why the kernel stopped                           *)
  collected,    (* what the last do_wait() to return reported, and to whom   *)
  parent,       (* history: who forked p, Gone once that task was freed      *)
  silent        (* history: input was added without a wake-up since the last *)
                (* line                                                      *)

vars == <<state, ppid, exit_status, cont, current, input, prog, panic,
          collected, parent, silent>>

Gone == MAX_TASKS  \* no pid
-----------------------------------------------------------------------------
Least(S) == CHOOSE i \in S : \A j \in S : i <= j

(* The slot next_process() looks at in turn i of its loop. *)
SlotFromZero(i) == i  \* mutant: every scan starts at tasks[0]
Slot(i) == (i + current + 1) % MAX_TASKS

(* mutants: with no ready task go on with current; or stop the scan one    *)
(* turn early, before it comes to current                                  *)
NextOrCurrent(st) ==
  LET ready == {i \in Pid : st[Slot(i)] = "RUNNING"}
  IN  IF ready = {} THEN current ELSE Slot(Least(ready))
NextShortScan(st) ==
  LET ready == {i \in 0 .. MAX_TASKS - 2 : st[Slot(i)] = "RUNNING"}
  IN  IF ready = {} THEN 1 ELSE Slot(Least(ready))

(* next_process(): the first RUNNING slot after current, current itself    *)
(* last, and the idle task when there is none, whatever state it is in.    *)
NextProcess(st) ==
  LET ready == {i \in Pid : st[Slot(i)] = "RUNNING"}
  IN  IF ready = {} THEN 1 ELSE Slot(Least(ready))

(* sched() with the task states st: switch_task() gives the CPU to the     *)
(* next process; for tasks[1] == NULL it would load its registers from     *)
(* address 0.                                                              *)
SwitchTo(st) ==
  LET next == NextProcess(st) IN
  IF st[next] = "NULL"
    THEN panic' = "null_task" /\ UNCHANGED current
    ELSE current' = next /\ UNCHANGED panic

InUser == panic = "no" /\ cont[current] = "user"
-----------------------------------------------------------------------------
(* kmain() up to the iret into bin/init: init_sched() and the first execve. *)
Init ==
  /\ state = [p \in Pid |-> IF p = 0 THEN "RUNNING" ELSE "NULL"]
  /\ ppid = [p \in Pid |-> 0]
  /\ exit_status = [p \in Pid |-> NoStatus]
  /\ cont = [p \in Pid |-> "user"]
  /\ current = 0
  /\ input = 0
  /\ prog = [p \in Pid |-> IF p = 0 THEN "init" ELSE "any"]
  /\ panic = "no"
  /\ collected = [by |-> 0, pid |-> 0, status |-> NoStatus]
  /\ parent = [p \in Pid |-> Gone]
  /\ silent = FALSE

(* init/main.c: the first fork makes the idle task, the second the shell,  *)
(* after which init only waits.                                            *)
ChildShellFirst == IF prog[current] = "init_forked_idle" THEN "idle" ELSE "any"  \* mutant
Child == IF prog[current] = "init" THEN "idle" ELSE "any"
AfterFork == IF prog[current] = "init" THEN "init_forked_idle"
             ELSE IF prog[current] = "init_forked_idle" THEN "init_waits" ELSE "any"

(* find_empty_task() takes the first of these. *)
EmptyOrStopped == {i \in Pid : state[i] \in {"NULL", "STOPPED"}}  \* mutant: reuses a stopped task
EmptySlots == {i \in Pid : state[i] = "NULL"}

(* do_fork(): the child is a copy of its parent in the first free slot and *)
(* runs first; the parent stays RUNNING.                                   *)
Fork ==
  /\ InUser
  /\ prog[current] \in {"init", "init_forked_idle", "any"}
  /\ LET new == Least(EmptySlots) IN
         IF EmptySlots = {}
           THEN /\ panic' = "table_full"
                /\ UNCHANGED <<state, ppid, exit_status, cont, current, prog, parent>>
           ELSE /\ state' = [state EXCEPT ![new] = state[current]]
                /\ ppid' = [ppid EXCEPT ![new] = current]
                /\ exit_status' = [exit_status EXCEPT ![new] = exit_status[current]]
                /\ cont' = [cont EXCEPT ![new] = "user"]
                /\ prog' = [prog EXCEPT ![new] = Child, ![current] = AfterFork]
                /\ parent' = [parent EXCEPT ![new] = current]
                /\ current' = new
                /\ UNCHANGED panic
  /\ UNCHANGED <<input, collected, silent>>

(* initrd/sh/main.c leaves exec_prog() only when its child is collected;   *)
(* no other program forks.                                                 *)
HasNoStoppedChild ==  \* mutant: forgets the children that still live
  \A c \in Pid : ~ (state[c] = "STOPPED" /\ parent[c] = current)
HasNoChild == \A c \in Pid : ~ (state[c] # "NULL" /\ parent[c] = current)

(* do_exit() wakes the parent's slot if it waits. *)
NoWake(st) == st  \* mutant: the parent is not woken
WakeParent(st) ==
  IF st[ppid[current]] = "WAITING"
    THEN [st EXCEPT ![ppid[current]] = "RUNNING"] ELSE st

(* do_exit() and the sched() that ends it.  The parent is looked   *)
(* up by slot number; an empty slot is a null pointer whose page was just  *)
(* freed, and the page fault ends in panic().                              *)
Exit(status) ==
  /\ InUser
  /\ prog[current] = "any"
  /\ ReapsBeforeExit => HasNoChild
  /\ LET stopped == [state EXCEPT ![current] = "STOPPED"]
     IN  IF current \in {0, 1}
           THEN panic' = "init_exit" /\ UNCHANGED <<state, exit_status, current>>
           ELSE /\ exit_status' = [exit_status EXCEPT ![current] = status]
                /\ state' = WakeParent(stopped)
                /\ IF stopped[ppid[current]] = "NULL"
                     THEN panic' = "null_parent" /\ UNCHANGED current
                     ELSE SwitchTo(WakeParent(stopped))
  /\ UNCHANGED <<ppid, cont, input, prog, collected, parent, silent>>
-----------------------------------------------------------------------------
(* do_pause() called by the code that continues at `where'. *)
PauseAt(where) ==
  LET asleep == [state EXCEPT ![current] = "WAITING"] IN
  /\ state' = asleep
  /\ cont' = [cont EXCEPT ![current] = where]
  /\ SwitchTo(asleep)

(* The system call pause(), the whole life of the idle task. *)
Pause ==
  /\ InUser
  /\ prog[current] \in {"idle", "any"}
  /\ PauseAt("user")
  /\ UNCHANGED <<ppid, exit_status, input, prog, collected, parent, silent>>

(* One turn of the loop of do_wait(): free every stopped task whose ppid   *)
(* is the caller's pid and return the last of them, or pause.  (An empty   *)
(* slot is read through a null pointer: address 0 holds the ELF header of  *)
(* the caller's image, whose words are no pid and no task state.)          *)
DeadOfAnyone == {c \in Pid : state[c] = "STOPPED"}  \* mutant: the ppid test is missing
ChildOfAnyState ==  \* mutant: the test of the state is missing
  {c \in Pid \ {current} : state[c] # "NULL" /\ ppid[c] = current}
Dead == {c \in Pid : state[c] = "STOPPED" /\ ppid[c] = current}
Greatest(S) == CHOOSE i \in S : \A j \in S : j <= i
Freed(f, blank) == [c \in Pid |-> IF c \in Dead THEN blank ELSE f[c]]

ScanChildren ==
  /\ IF Dead # {}
       THEN /\ state' = Freed(state, "NULL")
            /\ ppid' = Freed(ppid, 0)
            /\ exit_status' = Freed(exit_status, NoStatus)
            /\ prog' = Freed(prog, "any")
            /\ parent' = [c \in Pid |-> IF c \in Dead \/ parent[c] \in Dead
                                         THEN Gone ELSE parent[c]]
            /\ collected' = [by |-> current, pid |-> Greatest(Dead),
                             status |-> exit_status[Greatest(Dead)]]
            /\ cont' = [cont EXCEPT ![current] = "user"]
            /\ UNCHANGED <<current, panic>>
       ELSE /\ PauseAt("wait")
            /\ UNCHANGED <<ppid, exit_status, prog, parent, collected>>
  /\ UNCHANGED <<input, silent>>

Wait ==
  /\ InUser
  /\ prog[current] \in {"init_waits", "any"}
  /\ ScanChildren

WaitResumed ==
  /\ panic = "no"
  /\ cont[current] = "wait"
  /\ ScanChildren

(* One turn of the loop of do_read() on the terminal: take some characters *)
(* (none for nbytes = 0) or pause.                                         *)
TakeInput ==
  /\ IF input # 0
       THEN /\ \E left \in 0 .. input : input' = left
            /\ cont' = [cont EXCEPT ![current] = "user"]
            /\ UNCHANGED <<state, current, panic>>
       ELSE PauseAt("read") /\ UNCHANGED input
  /\ UNCHANGED <<ppid, exit_status, prog, collected, parent, silent>>

Read ==
  /\ InUser
  /\ prog[current] = "any"
  /\ TakeInput

ReadOnceResumed ==  \* mutant: `if' for `while', the wake-up is taken for input
  /\ panic = "no"
  /\ cont[current] = "read"
  /\ \E left \in 0 .. input : input' = left
  /\ cont' = [cont EXCEPT ![current] = "user"]
  /\ UNCHANGED <<state, ppid, exit_status, current, prog, panic, collected, parent, silent>>
ReadResumed ==
  /\ panic = "no"
  /\ cont[current] = "read"
  /\ TakeInput

(* The lengths the ring buffer can have after characters were added to it.  *)
BufLengths == 0 .. MaxInput

(* do_write() on file descriptor 0 fills the input buffer and wakes nobody.*)
WriteInput ==
  /\ InUser
  /\ prog[current] = "any"
  /\ input' \in BufLengths
  /\ silent' = TRUE
  /\ UNCHANGED <<state, ppid, exit_status, cont, current, prog, panic, collected, parent>>
-----------------------------------------------------------------------------
(* Interrupt 32: main_intr_handler() calls sched(). *)
Timer ==
  /\ InUser
  /\ SwitchTo(state)
  /\ UNCHANGED <<state, ppid, exit_status, cont, input, prog, collected, parent, silent>>

(* wake_up_all() *)
WakeFirst ==  \* mutant: one task is woken for a line
  LET waiting == {p \in Pid : state[p] = "WAITING"}
  IN  [p \in Pid |-> IF p \in waiting /\ p = Least(waiting) THEN "RUNNING" ELSE state[p]]
WakeAll == [p \in Pid |-> IF state[p] = "WAITING" THEN "RUNNING" ELSE state[p]]

(* Interrupt 33 with the newline key: tty_input() moves the line to the    *)
(* input buffer (what is left there when it overflows is the business of   *)
(* the terminal) and wake_up_all() wakes every waiting task.               *)
Newline ==
  /\ InUser
  /\ input' \in BufLengths
  /\ state' = WakeAll
  /\ silent' = FALSE
  /\ UNCHANGED <<ppid, exit_status, cont, current, prog, panic, collected, parent>>

(* panic() halts with interrupts disabled. *)
Halted == panic # "no" /\ UNCHANGED vars

Next ==
  \/ Fork
  \/ \E s \in Status : Exit(s)
  \/ Pause \/ Wait \/ WaitResumed
  \/ Read \/ ReadResumed \/ WriteInput
  \/ Timer \/ Newline
  \/ Halted

Spec == Init /\ [][Next]_vars

(* The timer never stops, and a task in the kernel with interrupts         *)
(* disabled runs on: what the program in user mode does is not assumed.    *)
Fairness == WF_vars(Timer) /\ WF_vars(WaitResumed) /\ WF_vars(ReadResumed)

FairSpec == Spec /\ Fairness
-----------------------------------------------------------------------------
(* Type correctness of the process table, of the CPU's task and of the     *)
(* values the handlers pass on.                                            *)
TypeOK ==
  /\ state \in [Pid -> TaskState]
  /\ ppid \in [Pid -> Pid]
  /\ exit_status \in [Pid -> Status]
  /\ cont \in [Pid -> {"user", "wait", "read"}]
  /\ current \in Pid
  /\ input \in 0 .. MaxInput
  /\ prog \in [Pid -> {"init", "init_forked_idle", "init_waits", "idle", "any"}]
  /\ panic \in {"no", "table_full", "null_parent", "init_exit", "null_task"}
  /\ collected \in [by : Pid, pid : Pid, status : Status]
  /\ parent \in [Pid -> Pid \cup {Gone}]
  /\ silent \in BOOLEAN

(* next_process() falls back on tasks[1] and do_exit() protects pid 1 as   *)
(* "Idle task": that the slot holds the idle task, and exists before       *)
(* anything can block, follows only from the order of the forks in         *)
(* initrd/init/main.c and from find_empty_task().                          *)
IdleIsPidOne ==
  /\ \A p \in Pid : prog[p] = "idle" <=> (p = 1 /\ state[1] # "NULL")
  /\ prog[0] = "init" <=> state[1] = "NULL"
  /\ state[1] = "NULL" => \A p \in Pid \ {0} : state[p] = "NULL"

(* switch_task() never gives the CPU to a task that stopped, was freed or  *)
(* sleeps, but for the idle task; and no path loads registers from a null  *)
(* task or lets init or the idle task exit.                                *)
CpuRunsLiveTask ==
  /\ panic \notin {"null_task", "init_exit"}
  /\ panic = "no" => \/ state[current] = "RUNNING"
                     \/ current = 1 /\ state[1] = "WAITING"

(* No wake-up is lost between the scan of do_wait() and its do_pause(): a  *)
(* task asleep in do_wait() has no stopped child left in the table.        *)
NoLostChild ==
  panic = "no" =>
    \A p, c \in Pid : (state[p] = "WAITING" /\ cont[p] = "wait")
                        => ~ (state[c] = "STOPPED" /\ ppid[c] = p)

(* A reader sleeps in do_read() only when the input buffer is empty: the   *)
(* check of the length and do_pause() cannot be separated by the newline   *)
(* that fills it.  Only do_write() to descriptor 0, which wakes nobody,    *)
(* can leave input beside a sleeping reader.                               *)
ReaderSleepsOnEmptyInput ==
  (panic = "no" /\ ~ silent) =>
    \A p \in Pid : (state[p] = "WAITING" /\ cont[p] = "read") => input = 0

(* The CPU is given to the sleeping idle task only when no task is ready:  *)
(* the scan of next_process() misses no slot of tasks[].                   *)
IdleOnlyWhenNoneReady ==
  [][(current' # current /\ state'[current'] # "RUNNING")
       => \A p \in Pid : state'[p] # "RUNNING"]_vars

(* A stopped task stays in its slot, not reused and not woken, until a     *)
(* do_wait() of the slot it has as ppid frees it.                          *)
StoppedKeptForWait ==
  [][\A c \in Pid : (state[c] = "STOPPED" /\ state'[c] # "STOPPED")
       => /\ state'[c] = "NULL"
          /\ ppid[c] = current
          /\ cont'[current] = "user"]_vars

(* With programs that collect their children before they exit, ppid always *)
(* names the process that forked the task, and that process is alive: no   *)
(* slot is reused under a child that still points at it.                   *)
ParentAlive ==
  \A c \in Pid \ {0} : state[c] # "NULL" =>
    /\ parent[c] = ppid[c]
    /\ state[ppid[c]] \in {"RUNNING", "WAITING"}

(* With such programs do_wait() reports to a process one that it forked    *)
(* itself, stopped, with the status that it passed to _exit().             *)
WaitReportsOwnChild ==
  [][collected' # collected =>
       /\ parent[collected'.pid] = collected'.by
       /\ state[collected'.pid] = "STOPPED"
       /\ collected'.status = exit_status[collected'.pid]]_vars

(* With such programs the only way the kernel stops is the panic of        *)
(* do_fork() on a full table.                                              *)
OnlyFullTablePanics == panic \in {"no", "table_full"}

ForksForever == []<><<Fork>>_vars
Stopped == panic # "no"

(* A ready task gets the CPU: the scan starts behind the task that gives   *)
(* it up.  ForksForever is the exception the code has: do_fork() runs the  *)
(* child first, so a parent below and a child above a ready task's slot    *)
(* can pass the CPU over it lap after lap (five tasks are enough).         *)
ReadyTaskRuns ==
  ForksForever \/ \A p \in Pid : state[p] = "RUNNING" ~> (current = p \/ Stopped)

(* A stopped child is freed when the task in its ppid waits for it: the    *)
(* wake-up of do_exit() and the loop of do_wait() meet.                    *)
WaitedChildIsFreed ==
  ForksForever \/ \A p, c \in Pid :
    (state[c] = "STOPPED" /\ ppid[c] = p /\ cont[p] = "wait")
      ~> (state[c] # "STOPPED" \/ Stopped)

(* How a task looks to the programs: sleeping and waking inside a system   *)
(* call, and which task has the CPU, do not show.                          *)
Phase(p) ==
  IF state[p] = "NULL" THEN "none"
  ELSE IF state[p] = "STOPPED" THEN "stopped"
  ELSE IF cont[p] = "wait" THEN "waiting"
  ELSE IF cont[p] = "read" THEN "reading"
  ELSE "running"

Life == INSTANCE ProcLife WITH phase <- [p \in Pid |-> Phase(p)], up <- panic = "no"

(* The scheduler implements the life cycle of ProcLife: spurious wake-ups, *)
(* preemption and the order of the tasks never end a wait() without a dead *)
(* child or a read() without input, nor create or remove a process.        *)
ImplementsProcLife == Life!Spec
=============================================================================
