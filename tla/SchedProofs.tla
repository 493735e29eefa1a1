----------------------------- MODULE SchedProofs -----------------------------
(***************************************************************************)
(* Theorems about Sched for every number of tasks, every set of exit       *)
(* statuses and every capacity of the input buffer.                        *)
(***************************************************************************)
EXTENDS Sched, WellFoundedInduction, TLAPS

-----------------------------------------------------------------------------
(* The smallest and the largest slot of a set of slots.                    *)

(* find_empty_task() and next_process() stop at a first slot: a set of     *)
(* natural numbers with a member has a least one.                          *)
LEMMA LeastMember ==
  ASSUME NEW S, S \subseteq Nat, S # {}
  PROVE  Least(S) \in S /\ \A j \in S : Least(S) <= j
<1>1. PICK x \in S : \A y \in S : ~ (<<y, x>> \in OpToRel(<, Nat))
  BY NatLessThanWellFounded, WFMin, Zenon
<1>2. \A y \in S : x <= y
  <2>1. TAKE y \in S
  <2>2. ~ (<<y, x>> \in OpToRel(<, Nat))
    BY <1>1
  <2>3. ~ (y < x)
    BY <2>2 DEF OpToRel
  <2>4. QED
    BY <2>3
<1>3. QED
  BY <1>1, <1>2 DEF Least

(* do_wait() reports the last stopped child that it frees: a set of slots  *)
(* with a member has a greatest one, the least of its upper bounds.        *)
LEMMA GreatestMember ==
  ASSUME NEW n \in Nat, NEW S \in SUBSET (0 .. n), S # {}
  PROVE  Greatest(S) \in S /\ \A j \in S : j <= Greatest(S)
<1> DEFINE U == {u \in Nat : \A j \in S : j <= u}
<1>1. n \in U
  OBVIOUS
<1>2. Least(U) \in U /\ \A u \in U : Least(U) <= u
  BY <1>1, LeastMember
<1> DEFINE m == Least(U)
<1>3. m \in Nat /\ \A j \in S : j <= m
  BY <1>2
<1>4. m \in S
  <2>1. SUFFICES ASSUME m \notin S PROVE FALSE
    OBVIOUS
  <2>2. \A j \in S : j \in Nat /\ j < m
    BY <1>3, <2>1
  <2>3. m - 1 \in Nat
    <3>1. PICK j \in S : TRUE
      OBVIOUS
    <3>2. j \in Nat /\ j < m
      BY <2>2
    <3> HIDE DEF m
    <3>3. QED
      BY <1>3, <3>2
  <2>4. m - 1 \in U
    BY <1>3, <2>2, <2>3
  <2>5. m <= m - 1
    BY <1>2, <2>4
  <2>6. QED
    BY <1>3, <2>5
<1>5. QED
  <2> HIDE DEF m
  <2>1. \E i \in S : \A j \in S : j <= i
    BY <1>3, <1>4
  <2>2. QED
    BY <2>1 DEF Greatest

-----------------------------------------------------------------------------
(* The scan of next_process().                                             *)

(* Turn i of the loop looks at a slot of tasks[] ... *)
LEMMA SlotInRange ==
  ASSUME current \in Pid, NEW i \in Pid
  PROVE  Slot(i) \in Pid
BY SchedAssumption DEF Slot, Pid

(* ... and no slot is left out.                                            *)
LEMMA SlotsCovered ==
  ASSUME current \in Pid, NEW p \in Pid
  PROVE  \E i \in Pid : Slot(i) = p
<1>1. MAX_TASKS \in Nat /\ MAX_TASKS > 2
  BY SchedAssumption
<1>2. CASE p > current
  <2>1. p - current - 1 \in Pid
    BY <1>1, <1>2 DEF Pid
  <2>2. ((p - current - 1) + current + 1) % MAX_TASKS = p
    BY <1>1, <1>2 DEF Pid
  <2>3. QED
    BY <2>1, <2>2 DEF Slot
<1>3. CASE ~ (p > current)
  <2>1. p + MAX_TASKS - current - 1 \in Pid
    BY <1>1, <1>3 DEF Pid
  <2>2. ((p + MAX_TASKS - current - 1) + current + 1) = p + MAX_TASKS
    BY <1>1 DEF Pid
  <2>3. (p + MAX_TASKS) % MAX_TASKS = p
    BY <1>1 DEF Pid
  <2>4. QED
    BY <2>1, <2>2, <2>3 DEF Slot
<1>4. QED
  BY <1>2, <1>3

(* next_process() returns a ready task, or the idle task when no task in   *)
(* the whole table is ready.                                               *)
LEMMA NextProcessReady ==
  ASSUME current \in Pid, NEW st
  PROVE  /\ NextProcess(st) \in Pid
         /\ \/ st[NextProcess(st)] = "RUNNING"
            \/ NextProcess(st) = 1 /\ \A p \in Pid : st[p] # "RUNNING"
<1> DEFINE ready == {i \in Pid : st[Slot(i)] = "RUNNING"}
<1>1. ready \subseteq Nat
  BY SchedAssumption DEF Pid
<1>2. CASE ready = {}
  <2>1. \A p \in Pid : st[p] # "RUNNING"
    BY <1>2, SlotsCovered
  <2>2. 1 \in Pid
    BY SchedAssumption DEF Pid
  <2>3. QED
    BY <1>2, <2>1, <2>2 DEF NextProcess
<1>3. CASE ready # {}
  <2>1. Least(ready) \in ready
    BY <1>1, <1>3, LeastMember
  <2>2. Slot(Least(ready)) \in Pid
    BY <2>1, SlotInRange
  <2>3. NextProcess(st) = Slot(Least(ready))
    BY <1>3 DEF NextProcess
  <2>4. QED
    BY <2>1, <2>2, <2>3
<1>4. QED
  BY <1>2, <1>3
-----------------------------------------------------------------------------
(* The inductive invariant.  IdleIsPidOne, CpuRunsLiveTask and NoLostChild *)
(* need each other, and to know which program runs in which slot: that     *)
(* slots 0 and 1 are never freed, and that init and the idle task make     *)
(* only the system calls of their programs.                                *)
ProgramsInPlace ==
  /\ \A p \in Pid : prog[p] \in {"init", "init_forked_idle", "init_waits"} <=> p = 0
  /\ state[0] \in {"RUNNING", "WAITING"}
  /\ state[1] # "STOPPED"
  /\ \A p \in Pid : /\ cont[p] = "wait" => prog[p] \in {"init_waits", "any"}
                    /\ cont[p] = "read" => prog[p] = "any"

IInv ==
  /\ TypeOK
  /\ ProgramsInPlace
  /\ IdleIsPidOne
  /\ CpuRunsLiveTask
  /\ NoLostChild

(* Slots 0 and 1 are in the table. *)
LEMMA FirstSlots == 0 \in Pid /\ 1 \in Pid /\ Pid \subseteq Nat
BY SchedAssumption DEF Pid

(* Whoever makes a system call that can block, the idle task exists.       *)
LEMMA IdleExists ==
  ASSUME IInv, panic = "no", prog[current] # "init"
  PROVE  state[1] \in {"RUNNING", "WAITING"}
<1>1. current \in Pid /\ state[1] \in TaskState
  BY FirstSlots DEF IInv, TypeOK
<1>2. state[1] # "NULL"
  <2>1. SUFFICES ASSUME state[1] = "NULL" PROVE FALSE
    OBVIOUS
  <2>2. prog[0] = "init" /\ \A p \in Pid \ {0} : state[p] = "NULL"
    BY <2>1 DEF IInv, IdleIsPidOne
  <2>3. state[current] # "NULL"
    BY <2>1 DEF IInv, CpuRunsLiveTask
  <2>4. QED
    BY <1>1, <2>2, <2>3
<1>3. QED
  BY <1>1, <1>2 DEF IInv, ProgramsInPlace, TaskState

(* sched() gives the CPU to a ready task, or to the sleeping idle task     *)
(* when no task is ready, and never reaches a null task.                   *)
LEMMA SwitchToLive ==
  ASSUME TypeOK, panic = "no", NEW st,
         st[1] \in {"RUNNING", "WAITING"} \/ \E p \in Pid : st[p] = "RUNNING",
         SwitchTo(st)
  PROVE  /\ panic' = "no"
         /\ current' \in Pid
         /\ \/ st[current'] = "RUNNING"
            \/ /\ current' = 1 /\ st[1] = "WAITING"
               /\ \A p \in Pid : st[p] # "RUNNING"
<1> DEFINE next == NextProcess(st)
<1>1. current \in Pid
  BY DEF TypeOK
<1>2. /\ next \in Pid
      /\ st[next] = "RUNNING" \/ (next = 1 /\ \A p \in Pid : st[p] # "RUNNING")
  BY <1>1, NextProcessReady
<1>3. st[next] = "RUNNING" \/ (next = 1 /\ st[1] = "WAITING")
  BY <1>2, FirstSlots
<1>4. st[next] # "NULL"
  BY <1>3
<1>5. current' = next /\ panic' = "no"
  BY <1>4 DEF SwitchTo
<1>6. QED
  BY <1>2, <1>3, <1>5

(* The state kmain() leaves before it enters bin/init. *)
LEMMA InitIInv == Init => IInv
<1> SUFFICES ASSUME Init PROVE IInv
  OBVIOUS
<1>1. NoStatus \in Status
  BY SchedAssumption DEF NoStatus
<1>2. TypeOK
  <2>1. 0 \in 0 .. MaxInput
    BY SchedAssumption
  <2>2. collected \in [by : Pid, pid : Pid, status : Status]
    BY <1>1, FirstSlots DEF Init
  <2>3. parent \in [Pid -> Pid \cup {Gone}]
    BY DEF Init
  <2>4. QED
    BY <1>1, <2>1, <2>2, <2>3, FirstSlots DEF Init, TypeOK, TaskState
<1>3. ProgramsInPlace
  BY FirstSlots DEF Init, ProgramsInPlace
<1>4. IdleIsPidOne
  BY FirstSlots DEF Init, IdleIsPidOne
<1>5. CpuRunsLiveTask
  BY FirstSlots DEF Init, CpuRunsLiveTask
<1>6. NoLostChild
  BY FirstSlots DEF Init, NoLostChild
<1>7. QED
  BY <1>2, <1>3, <1>4, <1>5, <1>6 DEF IInv

(* do_fork(): the second process to exist takes slot 1 and is the idle     *)
(* task, because the first free slot is taken.                             *)
LEMMA ForkIInv == IInv /\ Fork => IInv'
<1> SUFFICES ASSUME IInv, Fork PROVE IInv'
  OBVIOUS
<1> DEFINE new == Least(EmptySlots)
<1> USE FirstSlots
<1>1. current \in Pid /\ panic = "no" /\ cont[current] = "user"
  BY DEF Fork, InUser, IInv, TypeOK
<1>2. state[current] = "RUNNING"
  BY <1>1 DEF Fork, IInv, CpuRunsLiveTask, IdleIsPidOne, ProgramsInPlace
<1>3. CASE EmptySlots = {}
  <2>1. /\ panic' = "table_full"
        /\ UNCHANGED <<state, ppid, exit_status, cont, current, prog, parent,
                       input, collected, silent>>
    BY <1>3 DEF Fork
  <2>2. QED
    BY <2>1 DEF IInv, TypeOK, ProgramsInPlace, IdleIsPidOne, CpuRunsLiveTask, NoLostChild
<1>4. CASE EmptySlots # {}
  <2>1. new \in Pid /\ state[new] = "NULL" /\ \A i \in EmptySlots : new <= i
    BY <1>4, LeastMember DEF EmptySlots
  <2>2. /\ state' = [state EXCEPT ![new] = state[current]]
        /\ ppid' = [ppid EXCEPT ![new] = current]
        /\ exit_status' = [exit_status EXCEPT ![new] = exit_status[current]]
        /\ cont' = [cont EXCEPT ![new] = "user"]
        /\ prog' = [prog EXCEPT ![new] = Child, ![current] = AfterFork]
        /\ parent' = [parent EXCEPT ![new] = current]
        /\ current' = new
        /\ UNCHANGED <<panic, input, collected, silent>>
    BY <1>4 DEF Fork
  <2>3. new # current /\ new # 0
    BY <1>2, <2>1 DEF IInv, ProgramsInPlace
  <2>4. prog[current] = "init" => state[1] = "NULL" /\ current = 0 /\ new = 1
    <3>1. SUFFICES ASSUME prog[current] = "init"
                   PROVE  state[1] = "NULL" /\ current = 0 /\ new = 1
      OBVIOUS
    <3>2. current = 0 /\ state[1] = "NULL"
      BY <1>1, <3>1 DEF IInv, ProgramsInPlace, IdleIsPidOne
    <3>3. new <= 1
      BY <2>1, <3>2 DEF EmptySlots
    <3>4. new \in Nat
      BY <2>1
    <3>5. QED
      BY <2>3, <3>2, <3>3, <3>4
  <2>5. prog[current] # "init" => state[1] # "NULL" /\ new # 1
    BY <1>1, <2>1, IdleExists
  <2>6. TypeOK'
    <3>1. /\ Child \in {"idle", "any"}
          /\ AfterFork \in {"init_forked_idle", "init_waits", "any"}
      BY DEF Child, AfterFork, Fork
    <3>2. prog' \in [Pid -> {"init", "init_forked_idle", "init_waits", "idle", "any"}]
      BY <1>1, <2>1, <2>2, <3>1 DEF IInv, TypeOK
    <3>3. QED
      BY <1>1, <1>2, <2>1, <2>2, <3>2 DEF IInv, TypeOK, TaskState
  <2>7. /\ prog' = [prog EXCEPT ![new] = prog'[new], ![current] = prog'[current]]
        /\ prog'[new] = IF prog[current] = "init" THEN "idle" ELSE "any"
        /\ prog'[current] = IF prog[current] = "init" THEN "init_forked_idle"
                           ELSE IF prog[current] = "init_forked_idle" THEN "init_waits"
                           ELSE "any"
    BY <1>1, <2>1, <2>2, <2>3 DEF IInv, TypeOK, Child, AfterFork
  <2>8. ProgramsInPlace'
    <3>1. \A p \in Pid : prog'[p] \in {"init", "init_forked_idle", "init_waits"} <=> p = 0
      BY <1>1, <2>1, <2>3, <2>7 DEF IInv, TypeOK, ProgramsInPlace, Fork
    <3>2. state'[0] \in {"RUNNING", "WAITING"} /\ state'[1] # "STOPPED"
      BY <1>1, <1>2, <2>1, <2>2, <2>3 DEF IInv, TypeOK, ProgramsInPlace
    <3>3. \A p \in Pid : /\ cont'[p] = "wait" => prog'[p] \in {"init_waits", "any"}
                         /\ cont'[p] = "read" => prog'[p] = "any"
      BY <1>1, <2>1, <2>2, <2>3, <2>7 DEF IInv, TypeOK, ProgramsInPlace
    <3>4. QED
      BY <3>1, <3>2, <3>3 DEF ProgramsInPlace
  <2>9. IdleIsPidOne'
    <3>1. CASE prog[current] = "init"
      <4>1. \A p \in Pid : state[p] # "NULL" => p = 0
        BY <2>4, <3>1 DEF IInv, IdleIsPidOne
      <4>2. state'[1] = "RUNNING" /\ prog'[1] = "idle" /\ prog'[0] = "init_forked_idle"
        BY <1>1, <1>2, <2>2, <2>4, <2>7, <3>1 DEF IInv, TypeOK
      <4>3. QED
        BY <1>1, <2>2, <2>4, <2>7, <3>1, <4>2 DEF IInv, TypeOK, IdleIsPidOne
    <3>2. CASE prog[current] # "init"
      <4>1. state'[1] = state[1] /\ state[1] # "NULL"
        BY <2>1, <2>2, <2>5, <3>2 DEF IInv, TypeOK
      <4>2. \A p \in Pid : prog'[p] = "idle" <=> p = 1
        BY <1>1, <2>1, <2>3, <2>5, <2>7, <3>2, <4>1 DEF IInv, TypeOK, IdleIsPidOne, Fork
      <4>3. prog'[0] # "init"
        BY <1>1, <2>1, <2>3, <2>7, <3>2, <4>1 DEF IInv, TypeOK, IdleIsPidOne, Fork
      <4>4. QED
        BY <4>1, <4>2, <4>3 DEF IdleIsPidOne
    <3>3. QED
      BY <3>1, <3>2
  <2>10. CpuRunsLiveTask'
    BY <1>1, <1>2, <2>1, <2>2 DEF IInv, TypeOK, CpuRunsLiveTask
  <2>11. NoLostChild'
    BY <1>1, <1>2, <2>1, <2>2, <2>3 DEF IInv, TypeOK, NoLostChild
  <2>12. QED
    BY <2>6, <2>8, <2>9, <2>10, <2>11 DEF IInv
<1>5. QED
  BY <1>3, <1>4

(* do_exit(): the parent that waits is woken in the same step, and only    *)
(* slots 0 and 1 are protected.                                            *)
LEMMA ExitIInv ==
  ASSUME IInv, NEW s \in Status, Exit(s)
  PROVE  IInv'
<1> DEFINE stopped == [state EXCEPT ![current] = "STOPPED"]
           par == ppid[current]
<1> USE FirstSlots
<1>1. /\ current \in Pid /\ par \in Pid
      /\ panic = "no" /\ cont[current] = "user" /\ prog[current] = "any"
  BY DEF Exit, InUser, IInv, TypeOK
<1>2. state[1] \in {"RUNNING", "WAITING"}
  BY <1>1, IdleExists
<1>3. current \notin {0, 1}
  BY <1>1, <1>2 DEF IInv, ProgramsInPlace, IdleIsPidOne
<1>4. /\ exit_status' = [exit_status EXCEPT ![current] = s]
      /\ state' = WakeParent(stopped)
      /\ IF stopped[par] = "NULL"
           THEN panic' = "null_parent" /\ UNCHANGED current
           ELSE SwitchTo(WakeParent(stopped))
      /\ UNCHANGED <<ppid, cont, input, prog, collected, parent, silent>>
  BY <1>3 DEF Exit
<1>5. /\ state' \in [Pid -> TaskState]
      /\ state'[current] = "STOPPED"
      /\ state'[par] # "WAITING"
      /\ \A p \in Pid : p # current =>
           state'[p] = state[p] \/ (state[p] = "WAITING" /\ state'[p] = "RUNNING")
  BY <1>1, <1>4 DEF IInv, TypeOK, TaskState, WakeParent
<1>6. \/ panic' = "null_parent" /\ current' = current
      \/ /\ panic' = "no"
         /\ current' \in Pid
         /\ state'[current'] = "RUNNING" \/ (current' = 1 /\ state'[1] = "WAITING")
  <2>1. CASE stopped[par] = "NULL"
    BY <1>4, <2>1
  <2>2. CASE stopped[par] # "NULL"
    <3>1. SwitchTo(state')
      BY <1>4, <2>2
    <3>2. state'[1] \in {"RUNNING", "WAITING"}
      BY <1>2, <1>3, <1>5
    <3>3. QED
      BY <1>1, <3>1, <3>2, SwitchToLive DEF IInv
  <2>3. QED
    BY <2>1, <2>2
<1>7. TypeOK'
  BY <1>1, <1>4, <1>5, <1>6 DEF IInv, TypeOK
<1>8. ProgramsInPlace'
  BY <1>3, <1>4, <1>5 DEF IInv, ProgramsInPlace
<1>9. IdleIsPidOne'
  BY <1>2, <1>3, <1>4, <1>5 DEF IInv, ProgramsInPlace, IdleIsPidOne
<1>10. CpuRunsLiveTask'
  BY <1>6 DEF CpuRunsLiveTask
<1>11. NoLostChild'
  <2>1. SUFFICES ASSUME panic' = "no", NEW p \in Pid, NEW c \in Pid,
                        state'[p] = "WAITING", cont'[p] = "wait",
                        state'[c] = "STOPPED", ppid'[c] = p
                 PROVE  FALSE
    BY DEF NoLostChild
  <2>2. p # current /\ state[p] = "WAITING" /\ cont[p] = "wait"
    BY <1>4, <1>5, <2>1
  <2>3. c # current
    BY <1>4, <1>5, <2>1
  <2>4. state[c] = "STOPPED" /\ ppid[c] = p
    BY <1>4, <1>5, <2>1, <2>3
  <2>5. QED
    BY <1>1, <2>2, <2>4 DEF IInv, NoLostChild
<1>12. QED
  BY <1>7, <1>8, <1>9, <1>10, <1>11 DEF IInv

(* do_pause() of a program that may block, by a caller that has left       *)
(* nothing to wait for behind it.                                          *)
LEMMA PauseIInv ==
  ASSUME IInv, panic = "no",
         NEW where \in {"user", "wait", "read"},
         PauseAt(where),
         where = "user" => prog[current] \in {"idle", "any"},
         where = "wait" => prog[current] \in {"init_waits", "any"} /\ Dead = {},
         where = "read" => prog[current] = "any",
         UNCHANGED <<ppid, exit_status, input, prog, collected, parent, silent>>
  PROVE  IInv'
<1> USE FirstSlots
<1>1. current \in Pid /\ prog[current] # "init"
  BY DEF IInv, TypeOK
<1>2. state[1] \in {"RUNNING", "WAITING"}
  BY <1>1, IdleExists
<1>3. /\ state' = [state EXCEPT ![current] = "WAITING"]
      /\ cont' = [cont EXCEPT ![current] = where]
      /\ SwitchTo(state')
  BY DEF PauseAt
<1>4. /\ panic' = "no"
      /\ current' \in Pid
      /\ state'[current'] = "RUNNING" \/ (current' = 1 /\ state'[1] = "WAITING")
  <2>1. state'[1] \in {"RUNNING", "WAITING"}
    BY <1>1, <1>2, <1>3 DEF IInv, TypeOK
  <2>2. QED
    BY <1>3, <2>1, SwitchToLive DEF IInv
<1>5. TypeOK'
  BY <1>1, <1>3, <1>4 DEF IInv, TypeOK, TaskState
<1>6. ProgramsInPlace'
  BY <1>1, <1>3 DEF IInv, TypeOK, ProgramsInPlace
<1>7. IdleIsPidOne'
  BY <1>1, <1>2, <1>3 DEF IInv, TypeOK, ProgramsInPlace, IdleIsPidOne
<1>8. CpuRunsLiveTask'
  BY <1>4 DEF CpuRunsLiveTask
<1>9. NoLostChild'
  <2>1. SUFFICES ASSUME NEW p \in Pid, NEW c \in Pid,
                        state'[p] = "WAITING", cont'[p] = "wait",
                        state'[c] = "STOPPED", ppid'[c] = p
                 PROVE  FALSE
    BY DEF NoLostChild
  <2>2. c # current /\ state[c] = "STOPPED" /\ ppid[c] = p
    BY <1>1, <1>3, <2>1 DEF IInv, TypeOK
  <2>3. CASE p = current
    <3>1. where = "wait"
      BY <1>1, <1>3, <2>1, <2>3 DEF IInv, TypeOK
    <3>2. QED
      BY <2>2, <2>3, <3>1 DEF Dead
  <2>4. CASE p # current
    <3>1. state[p] = "WAITING" /\ cont[p] = "wait"
      BY <1>1, <1>3, <2>1, <2>4 DEF IInv, TypeOK
    <3>2. QED
      BY <2>2, <3>1 DEF IInv, NoLostChild
  <2>5. QED
    BY <2>3, <2>4
<1>10. QED
  BY <1>5, <1>6, <1>7, <1>8, <1>9 DEF IInv

(* One turn of do_wait()'s loop, by init or by any program.                *)
LEMMA ScanChildrenIInv ==
  ASSUME IInv, panic = "no", prog[current] \in {"init_waits", "any"}, ScanChildren
  PROVE  IInv'
<1> USE FirstSlots
<1>1. current \in Pid
  BY DEF IInv, TypeOK
<1>2. CASE Dead = {}
  <2>1. /\ PauseAt("wait")
        /\ UNCHANGED <<ppid, exit_status, input, prog, collected, parent, silent>>
    BY <1>2 DEF ScanChildren
  <2>2. QED
    BY <1>2, <2>1, PauseIInv
<1>3. CASE Dead # {}
  <2>1. /\ state' = Freed(state, "NULL")
        /\ ppid' = Freed(ppid, 0)
        /\ exit_status' = Freed(exit_status, NoStatus)
        /\ prog' = Freed(prog, "any")
        /\ parent' = [c \in Pid |-> IF c \in Dead \/ parent[c] \in Dead
                                     THEN Gone ELSE parent[c]]
        /\ collected' = [by |-> current, pid |-> Greatest(Dead),
                         status |-> exit_status[Greatest(Dead)]]
        /\ cont' = [cont EXCEPT ![current] = "user"]
        /\ UNCHANGED <<current, panic, input, silent>>
    BY <1>3 DEF ScanChildren
  <2>2. \A c \in Dead : c \in Pid \ {0, 1} /\ state[c] = "STOPPED"
    BY DEF Dead, IInv, ProgramsInPlace
  <2>3. current \notin Dead
    BY <2>2 DEF IInv, CpuRunsLiveTask
  <2>4. Greatest(Dead) \in Pid
    <3>1. MAX_TASKS - 1 \in Nat /\ Dead \in SUBSET (0 .. MAX_TASKS - 1)
      BY SchedAssumption DEF Dead, Pid
    <3>2. Greatest(Dead) \in Dead
      BY <1>3, <3>1, GreatestMember
    <3>3. QED
      BY <2>2, <3>2
  <2>5. TypeOK'
    <3>1. NoStatus \in Status
      BY SchedAssumption DEF NoStatus
    <3>2. collected' \in [by : Pid, pid : Pid, status : Status]
      BY <1>1, <2>1, <2>4 DEF IInv, TypeOK
    <3>3. parent' \in [Pid -> Pid \cup {Gone}]
      BY <2>1 DEF IInv, TypeOK
    <3>4. /\ state' \in [Pid -> TaskState] /\ ppid' \in [Pid -> Pid]
          /\ exit_status' \in [Pid -> Status]
          /\ prog' \in [Pid -> {"init", "init_forked_idle", "init_waits", "idle", "any"}]
      BY <2>1, <3>1 DEF IInv, TypeOK, Freed, TaskState
    <3>5. QED
      BY <1>1, <2>1, <3>2, <3>3, <3>4 DEF IInv, TypeOK
  <2>6. \A p \in Pid : p \notin Dead => state'[p] = state[p] /\ prog'[p] = prog[p] /\ ppid'[p] = ppid[p]
    BY <2>1 DEF Freed
  <2>7. \A p \in Dead : state'[p] = "NULL" /\ prog'[p] = "any"
    BY <2>1, <2>2 DEF Freed
  <2>8. \A p \in Pid : cont'[p] = cont[p] \/ cont'[p] = "user"
    BY <2>1 DEF IInv, TypeOK
  <2>9. ProgramsInPlace'
    <3>1. \A p \in Pid : prog'[p] \in {"init", "init_forked_idle", "init_waits"} <=> p = 0
      BY <2>2, <2>6, <2>7 DEF IInv, ProgramsInPlace
    <3>2. state'[0] \in {"RUNNING", "WAITING"} /\ state'[1] # "STOPPED"
      BY <2>2, <2>6 DEF IInv, ProgramsInPlace
    <3>3. \A p \in Pid : /\ cont'[p] = "wait" => prog'[p] \in {"init_waits", "any"}
                         /\ cont'[p] = "read" => prog'[p] = "any"
      BY <2>6, <2>7, <2>8 DEF IInv, ProgramsInPlace
    <3>4. QED
      BY <3>1, <3>2, <3>3 DEF ProgramsInPlace
  <2>10. IdleIsPidOne'
    <3>1. 0 \notin Dead /\ 1 \notin Dead
      BY <2>2
    <3>2. \A p \in Pid : prog'[p] = "idle" <=> prog[p] = "idle"
      BY <2>2, <2>6, <2>7 DEF IInv, IdleIsPidOne
    <3>3. \A p \in Pid : state[p] = "NULL" => state'[p] = "NULL"
      BY <2>2, <2>6
    <3>4. QED
      BY <2>6, <3>1, <3>2, <3>3 DEF IInv, IdleIsPidOne
  <2>11. CpuRunsLiveTask'
    BY <1>1, <2>1, <2>3, <2>6 DEF IInv, CpuRunsLiveTask
  <2>12. NoLostChild'
    <3>1. \A p \in Pid : state'[p] \in {"WAITING", "STOPPED"}
                          => state'[p] = state[p] /\ ppid'[p] = ppid[p]
      BY <2>6, <2>7
    <3>2. \A p \in Pid : cont'[p] = "wait" => cont[p] = "wait"
      BY <2>8
    <3>3. QED
      BY <3>1, <3>2 DEF IInv, NoLostChild
  <2>13. QED
    BY <2>5, <2>9, <2>10, <2>11, <2>12 DEF IInv
<1>4. QED
  BY <1>2, <1>3

(* One turn of do_read()'s loop.                                           *)
LEMMA TakeInputIInv ==
  ASSUME IInv, panic = "no", prog[current] = "any", TakeInput
  PROVE  IInv'
<1>1. CASE input = 0
  <2>1. /\ PauseAt("read")
        /\ UNCHANGED <<ppid, exit_status, input, prog, collected, parent, silent>>
    BY <1>1 DEF TakeInput
  <2>2. QED
    BY <2>1, PauseIInv
<1>2. CASE input # 0
  <2>1. /\ input' \in 0 .. input
        /\ cont' = [cont EXCEPT ![current] = "user"]
        /\ UNCHANGED <<state, current, panic, ppid, exit_status, prog, collected,
                       parent, silent>>
    BY <1>2 DEF TakeInput
  <2>2. input' \in 0 .. MaxInput
    BY <2>1, SchedAssumption DEF IInv, TypeOK
  <2>3. TypeOK'
    BY <2>1, <2>2 DEF IInv, TypeOK
  <2>4. ProgramsInPlace' /\ NoLostChild'
    BY <2>1 DEF IInv, TypeOK, ProgramsInPlace, NoLostChild
  <2>5. IdleIsPidOne' /\ CpuRunsLiveTask'
    BY <2>1 DEF IInv, IdleIsPidOne, CpuRunsLiveTask
  <2>6. QED
    BY <2>3, <2>4, <2>5 DEF IInv
<1>3. QED
  BY <1>1, <1>2

(* The timer's sched(): whoever held the CPU stays ready, or is the idle   *)
(* task, so a next task exists.                                            *)
LEMMA TimerIInv == IInv /\ Timer => IInv'
<1> SUFFICES ASSUME IInv, Timer PROVE IInv'
  OBVIOUS
<1>1. /\ current \in Pid /\ panic = "no" /\ SwitchTo(state)
      /\ UNCHANGED <<state, ppid, exit_status, cont, input, prog, collected, parent, silent>>
  BY DEF Timer, InUser, IInv, TypeOK
<1>2. state[1] \in {"RUNNING", "WAITING"} \/ \E p \in Pid : state[p] = "RUNNING"
  BY <1>1 DEF IInv, CpuRunsLiveTask
<1>3. /\ panic' = "no"
      /\ current' \in Pid
      /\ state[current'] = "RUNNING" \/ (current' = 1 /\ state[1] = "WAITING")
  BY <1>1, <1>2, SwitchToLive DEF IInv
<1>4. QED
  BY <1>1, <1>3 DEF IInv, TypeOK, ProgramsInPlace, IdleIsPidOne, CpuRunsLiveTask, NoLostChild

(* wake_up_all() after a line: nobody is left asleep.                      *)
LEMMA NewlineIInv == IInv /\ Newline => IInv'
<1> SUFFICES ASSUME IInv, Newline PROVE IInv'
  OBVIOUS
<1> USE FirstSlots
<1>1. /\ input' \in 0 .. MaxInput /\ silent' = FALSE
      /\ state' = WakeAll
      /\ UNCHANGED <<ppid, exit_status, cont, current, prog, panic, collected, parent>>
  BY DEF Newline, BufLengths
<1>2. /\ state' \in [Pid -> TaskState]
      /\ \A p \in Pid : state'[p] = IF state[p] = "WAITING" THEN "RUNNING" ELSE state[p]
  BY <1>1 DEF WakeAll, IInv, TypeOK, TaskState
<1>3. TypeOK'
  BY <1>1, <1>2 DEF IInv, TypeOK
<1>4. ProgramsInPlace'
  BY <1>1, <1>2 DEF IInv, ProgramsInPlace
<1>5. IdleIsPidOne'
  BY <1>1, <1>2 DEF IInv, IdleIsPidOne
<1>6. CpuRunsLiveTask' /\ NoLostChild'
  BY <1>1, <1>2 DEF IInv, TypeOK, CpuRunsLiveTask, NoLostChild
<1>7. QED
  BY <1>3, <1>4, <1>5, <1>6 DEF IInv

(* Every step of the kernel preserves the inductive invariant.             *)
LEMMA NextIInv == IInv /\ [Next]_vars => IInv'
<1> SUFFICES ASSUME IInv, [Next]_vars PROVE IInv'
  OBVIOUS
<1>1. CASE Fork
  BY <1>1, ForkIInv
<1>2. CASE \E s \in Status : Exit(s)
  BY <1>2, ExitIInv
<1>3. CASE Pause
  BY <1>3, PauseIInv DEF Pause, InUser
<1>4. CASE Wait
  BY <1>4, ScanChildrenIInv DEF Wait, InUser
<1>5. CASE WaitResumed
  <2>1. panic = "no" /\ ScanChildren /\ prog[current] \in {"init_waits", "any"}
    BY <1>5 DEF WaitResumed, IInv, TypeOK, ProgramsInPlace
  <2>2. QED
    BY <2>1, ScanChildrenIInv
<1>6. CASE Read
  BY <1>6, TakeInputIInv DEF Read, InUser
<1>7. CASE ReadResumed
  <2>1. panic = "no" /\ TakeInput /\ prog[current] = "any"
    BY <1>7 DEF ReadResumed, IInv, TypeOK, ProgramsInPlace
  <2>2. QED
    BY <2>1, TakeInputIInv
<1>8. CASE WriteInput
  BY <1>8 DEF WriteInput, BufLengths, IInv, TypeOK, ProgramsInPlace, IdleIsPidOne,
              CpuRunsLiveTask, NoLostChild
<1>9. CASE Timer
  BY <1>9, TimerIInv
<1>10. CASE Newline
  BY <1>10, NewlineIInv
<1>11. CASE Halted \/ UNCHANGED vars
  BY <1>11 DEF Halted, vars, IInv, TypeOK, ProgramsInPlace, IdleIsPidOne,
               CpuRunsLiveTask, NoLostChild
<1>12. QED
  BY <1>1, <1>2, <1>3, <1>4, <1>5, <1>6, <1>7, <1>8, <1>9, <1>10, <1>11 DEF Next

LEMMA InductiveInvariant == Spec => []IInv
<1>1. QED
  BY InitIInv, NextIInv, PTL DEF Spec
-----------------------------------------------------------------------------
(* For every number of tasks, every value the handlers keep has its type:  *)
(* next_process() and the scans of do_fork() and do_wait() yield slots of  *)
(* the table.                                                              *)
THEOREM TypeCorrect == Spec => []TypeOK
<1>1. IInv => TypeOK
  BY DEF IInv
<1>2. QED
  BY <1>1, InductiveInvariant, PTL

(* For every number of tasks, the task next_process() falls back on and    *)
(* do_exit() protects as "Idle task" is the idle task.                     *)
THEOREM IdleTaskInSlotOne == Spec => []IdleIsPidOne
<1>1. IInv => IdleIsPidOne
  BY DEF IInv
<1>2. QED
  BY <1>1, InductiveInvariant, PTL

(* For every number of tasks, switch_task() is never given a null, stopped *)
(* or sleeping task, but for the idle task.                                *)
THEOREM CpuRunsOnlyLiveTasks == Spec => []CpuRunsLiveTask
<1>1. IInv => CpuRunsLiveTask
  BY DEF IInv
<1>2. QED
  BY <1>1, InductiveInvariant, PTL

(* For every number of tasks, no process sleeps in do_wait() while one of  *)
(* its stopped children is in the table.                                   *)
THEOREM NoWakeUpIsLost == Spec => []NoLostChild
<1>1. IInv => NoLostChild
  BY DEF IInv
<1>2. QED
  BY <1>1, InductiveInvariant, PTL
-----------------------------------------------------------------------------
(* do_read() and the newline's wake_up_all().  ReaderSleepsOnEmptyInput is *)
(* preserved by every step from a state of IInv: a reader falls asleep     *)
(* only in the step that finds the buffer empty, and input arrives only    *)
(* with a wake-up of everybody, or silently.                               *)
LEMMA ReadPauseSafe ==
  ASSUME IInv, ReaderSleepsOnEmptyInput, panic = "no",
         NEW where \in {"user", "wait", "read"},
         PauseAt(where), where = "read" => input = 0,
         UNCHANGED <<input, silent>>
  PROVE  ReaderSleepsOnEmptyInput'
<1>1. current \in Pid
  BY DEF IInv, TypeOK
<1>2. SUFFICES ASSUME ~ silent, NEW p \in Pid,
                      state'[p] = "WAITING", cont'[p] = "read"
               PROVE  input = 0
  BY DEF ReaderSleepsOnEmptyInput
<1>3. CASE p = current
  BY <1>1, <1>2, <1>3 DEF PauseAt, IInv, TypeOK
<1>4. CASE p # current
  <2>1. state[p] = "WAITING" /\ cont[p] = "read"
    BY <1>1, <1>2, <1>4 DEF PauseAt, IInv, TypeOK
  <2>2. QED
    BY <1>2, <2>1 DEF ReaderSleepsOnEmptyInput
<1>5. QED
  BY <1>3, <1>4

(* A step that puts nobody to sleep and leaves the input alone cannot      *)
(* break it.                                                               *)
LEMMA NobodySleepsSafe ==
  ASSUME ReaderSleepsOnEmptyInput, panic = "no", UNCHANGED <<input, silent>>,
         \A p \in Pid : (state'[p] = "WAITING" /\ cont'[p] = "read")
                          => (state[p] = "WAITING" /\ cont[p] = "read")
  PROVE  ReaderSleepsOnEmptyInput'
BY DEF ReaderSleepsOnEmptyInput

LEMMA NextReaderSleeps ==
  IInv /\ ReaderSleepsOnEmptyInput /\ [Next]_vars => ReaderSleepsOnEmptyInput'
<1> SUFFICES ASSUME IInv, ReaderSleepsOnEmptyInput, [Next]_vars
             PROVE  ReaderSleepsOnEmptyInput'
  OBVIOUS
<1>1. current \in Pid
  BY DEF IInv, TypeOK
<1>2. ASSUME Fork PROVE ReaderSleepsOnEmptyInput'
  <2>1. CASE EmptySlots = {}
    <3>1. panic' = "table_full"
      BY <1>2, <2>1 DEF Fork
    <3>2. QED
      BY <3>1 DEF ReaderSleepsOnEmptyInput
  <2>2. CASE EmptySlots # {}
    <3> DEFINE new == Least(EmptySlots)
    <3>1. new \in Pid
      BY <2>2, FirstSlots, LeastMember DEF EmptySlots
    <3>2. /\ state' = [state EXCEPT ![new] = state[current]]
          /\ cont' = [cont EXCEPT ![new] = "user"]
          /\ panic = "no" /\ UNCHANGED <<input, silent>>
      BY <1>2, <2>2 DEF Fork, InUser
    <3> HIDE DEF new
    <3>3. \A p \in Pid : (state'[p] = "WAITING" /\ cont'[p] = "read")
                           => (state[p] = "WAITING" /\ cont[p] = "read")
      BY <3>1, <3>2 DEF IInv, TypeOK
    <3>4. QED
      BY <3>2, <3>3, NobodySleepsSafe
  <2>3. QED
    BY <2>1, <2>2
<1>3. ASSUME NEW s \in Status, Exit(s) PROVE ReaderSleepsOnEmptyInput'
  <2>1. panic = "no" /\ UNCHANGED <<cont, input, silent>>
    BY <1>3 DEF Exit, InUser
  <2>2. \A p \in Pid : state'[p] = "WAITING" => state[p] = "WAITING"
    BY <1>1, <1>3 DEF Exit, WakeParent, IInv, TypeOK
  <2>3. QED
    BY <2>1, <2>2, NobodySleepsSafe
<1>4. ASSUME panic = "no", ScanChildren PROVE ReaderSleepsOnEmptyInput'
  <2>1. CASE Dead = {}
    BY <1>4, <2>1, ReadPauseSafe DEF ScanChildren
  <2>2. CASE Dead # {}
    <3>1. /\ state' = Freed(state, "NULL")
          /\ cont' = [cont EXCEPT ![current] = "user"]
          /\ UNCHANGED <<input, silent>>
      BY <1>4, <2>2 DEF ScanChildren
    <3>2. \A p \in Pid : (state'[p] = "WAITING" /\ cont'[p] = "read")
                           => (state[p] = "WAITING" /\ cont[p] = "read")
      BY <1>1, <3>1 DEF Freed, IInv, TypeOK
    <3>3. QED
      BY <1>4, <3>1, <3>2, NobodySleepsSafe
  <2>3. QED
    BY <2>1, <2>2
<1>5. ASSUME panic = "no", TakeInput PROVE ReaderSleepsOnEmptyInput'
  <2>1. CASE input = 0
    BY <1>5, <2>1, ReadPauseSafe DEF TakeInput
  <2>2. CASE input # 0
    <3>1. /\ cont' = [cont EXCEPT ![current] = "user"]
          /\ UNCHANGED <<state, panic, silent>>
      BY <1>5, <2>2 DEF TakeInput
    <3>2. ~ silent => \A p \in Pid : ~ (state[p] = "WAITING" /\ cont[p] = "read")
      BY <1>5, <2>2 DEF ReaderSleepsOnEmptyInput
    <3>3. \A p \in Pid : cont'[p] = "read" => cont[p] = "read"
      BY <1>1, <3>1 DEF IInv, TypeOK
    <3>4. QED
      BY <3>1, <3>2, <3>3 DEF ReaderSleepsOnEmptyInput
  <2>3. QED
    BY <2>1, <2>2
<1>6. CASE Pause
  BY <1>6, ReadPauseSafe DEF Pause, InUser
<1>7. CASE Wait \/ WaitResumed
  BY <1>4, <1>7 DEF Wait, WaitResumed, InUser
<1>8. CASE Read \/ ReadResumed
  BY <1>5, <1>8 DEF Read, ReadResumed, InUser
<1>9. CASE WriteInput
  BY <1>9 DEF WriteInput, ReaderSleepsOnEmptyInput
<1>10. CASE Timer
  BY <1>10, NobodySleepsSafe DEF Timer, InUser
<1>11. CASE Newline
  <2>1. \A p \in Pid : state'[p] # "WAITING"
    BY <1>11 DEF Newline, WakeAll
  <2>2. QED
    BY <2>1 DEF ReaderSleepsOnEmptyInput
<1>12. CASE Halted \/ UNCHANGED vars
  BY <1>12 DEF Halted, vars, ReaderSleepsOnEmptyInput
<1>13. QED
  BY <1>2, <1>3, <1>6, <1>7, <1>8, <1>9, <1>10, <1>11, <1>12 DEF Next

(* For every number of tasks and every capacity of the buffer, no process  *)
(* sleeps in do_read() while input that came with a line is there.         *)
THEOREM NoReaderMissesALine == Spec => []ReaderSleepsOnEmptyInput
<1>1. Init => ReaderSleepsOnEmptyInput
  BY DEF Init, ReaderSleepsOnEmptyInput
<1>2. QED
  BY <1>1, InductiveInvariant, NextReaderSleeps, PTL DEF Spec
-----------------------------------------------------------------------------
(* What a step may never do.                                               *)

(* Only do_wait() takes a stopped task out of its slot.                    *)
LEMMA StepKeepsStopped ==
  ASSUME IInv, [Next]_vars, NEW c \in Pid, state[c] = "STOPPED", state'[c] # "STOPPED"
  PROVE  state'[c] = "NULL" /\ ppid[c] = current /\ cont'[current] = "user"
<1>1. current \in Pid
  BY DEF IInv, TypeOK
<1>2. panic = "no" => c # current
  BY DEF IInv, CpuRunsLiveTask
<1>3. ASSUME NEW where, panic = "no", PauseAt(where) PROVE FALSE
  BY <1>1, <1>2, <1>3 DEF PauseAt, IInv, TypeOK
<1>4. ASSUME Fork PROVE FALSE
  <2>1. CASE EmptySlots = {}
    BY <1>4, <2>1 DEF Fork
  <2>2. CASE EmptySlots # {}
    <3>1. Least(EmptySlots) \in EmptySlots
      BY <2>2, FirstSlots, LeastMember DEF EmptySlots
    <3>2. state' = [state EXCEPT ![Least(EmptySlots)] = state[current]]
      BY <1>4, <2>2 DEF Fork
    <3>3. c # Least(EmptySlots)
      BY <3>1 DEF EmptySlots
    <3>4. QED
      BY <3>2, <3>3 DEF IInv, TypeOK
  <2>3. QED
    BY <2>1, <2>2
<1>5. ASSUME NEW s \in Status, Exit(s) PROVE FALSE
  <2>1. ppid[current] \in Pid
    BY <1>1 DEF IInv, TypeOK
  <2>2. QED
    BY <1>1, <1>5, <2>1 DEF Exit, WakeParent, IInv, TypeOK
<1>6. ASSUME panic = "no", ScanChildren
      PROVE  state'[c] = "NULL" /\ ppid[c] = current /\ cont'[current] = "user"
  <2>1. CASE Dead = {}
    BY <1>3, <1>6, <2>1 DEF ScanChildren
  <2>2. CASE Dead # {}
    <3>1. state' = Freed(state, "NULL") /\ cont' = [cont EXCEPT ![current] = "user"]
      BY <1>6, <2>2 DEF ScanChildren
    <3>2. c \in Dead /\ state'[c] = "NULL"
      BY <3>1 DEF Freed
    <3>3. cont'[current] = "user"
      BY <1>1, <3>1 DEF IInv, TypeOK
    <3>4. QED
      BY <3>2, <3>3 DEF Dead
  <2>3. QED
    BY <2>1, <2>2
<1>7. ASSUME panic = "no", TakeInput PROVE FALSE
  BY <1>3, <1>7 DEF TakeInput
<1>8. CASE Pause
  BY <1>3, <1>8 DEF Pause, InUser
<1>9. CASE Wait \/ WaitResumed
  BY <1>6, <1>9 DEF Wait, WaitResumed, InUser
<1>10. CASE Read \/ ReadResumed
  BY <1>7, <1>10 DEF Read, ReadResumed, InUser
<1>11. CASE Newline
  BY <1>11 DEF Newline, WakeAll
<1>12. CASE WriteInput \/ Timer \/ Halted \/ UNCHANGED vars
  BY <1>12 DEF WriteInput, Timer, Halted, vars
<1>13. QED
  BY <1>4, <1>5, <1>8, <1>9, <1>10, <1>11, <1>12 DEF Next

(* For every number of tasks, a stopped task is neither woken nor its slot *)
(* used again before do_wait() of its parent's slot has freed it.          *)
THEOREM StoppedTaskIsKept == Spec => StoppedKeptForWait
<1>1. IInv /\ [Next]_vars =>
        [\A c \in Pid : (state[c] = "STOPPED" /\ state'[c] # "STOPPED")
            => /\ state'[c] = "NULL"
               /\ ppid[c] = current
               /\ cont'[current] = "user"]_vars
  BY StepKeepsStopped
<1>2. QED
  BY <1>1, InductiveInvariant, PTL DEF Spec, StoppedKeptForWait

(* sched() is the only way to a task that is not ready, and takes it only  *)
(* after a scan of the whole table.                                        *)
LEMMA StepToIdle ==
  ASSUME IInv, [Next]_vars, current' # current, state'[current'] # "RUNNING"
  PROVE  \A p \in Pid : state'[p] # "RUNNING"
<1> USE FirstSlots
<1>1. current \in Pid
  BY DEF IInv, TypeOK
<1>2. ASSUME panic = "no", SwitchTo(state'),
             state'[1] \in {"RUNNING", "WAITING"} \/ \E p \in Pid : state'[p] = "RUNNING"
      PROVE  \A p \in Pid : state'[p] # "RUNNING"
  BY <1>2, SwitchToLive DEF IInv
<1>3. ASSUME NEW where, panic = "no", prog[current] # "init", PauseAt(where)
      PROVE  \A p \in Pid : state'[p] # "RUNNING"
  <2>1. state[1] \in {"RUNNING", "WAITING"}
    BY <1>3, IdleExists
  <2>2. state' = [state EXCEPT ![current] = "WAITING"] /\ SwitchTo(state')
    BY <1>3 DEF PauseAt
  <2>3. state'[1] \in {"RUNNING", "WAITING"}
    BY <1>1, <2>1, <2>2 DEF IInv, TypeOK
  <2>4. QED
    BY <1>2, <1>3, <2>2, <2>3
<1>4. ASSUME Fork PROVE FALSE
  <2>1. EmptySlots # {}
    BY <1>4 DEF Fork
  <2>2. Least(EmptySlots) \in EmptySlots
    BY <2>1, LeastMember DEF EmptySlots
  <2>3. /\ current' = Least(EmptySlots)
        /\ state' = [state EXCEPT ![Least(EmptySlots)] = state[current]]
    BY <1>4, <2>1 DEF Fork
  <2>4. state[current] = "RUNNING"
    BY <1>1, <1>4 DEF Fork, InUser, IInv, CpuRunsLiveTask, IdleIsPidOne
  <2>5. QED
    BY <2>2, <2>3, <2>4 DEF EmptySlots, IInv, TypeOK
<1>5. ASSUME NEW s \in Status, Exit(s) PROVE \A p \in Pid : state'[p] # "RUNNING"
  <2>1. panic = "no" /\ prog[current] = "any"
    BY <1>5 DEF Exit, InUser
  <2>2. state[1] \in {"RUNNING", "WAITING"}
    BY <2>1, IdleExists
  <2>3. current # 1 /\ SwitchTo(state')
    BY <1>5 DEF Exit
  <2>4. state'[1] \in {"RUNNING", "WAITING"}
    BY <1>1, <1>5, <2>2, <2>3 DEF Exit, WakeParent, IInv, TypeOK
  <2>5. QED
    BY <1>2, <2>1, <2>3, <2>4
<1>6. CASE Pause
  BY <1>3, <1>6 DEF Pause, InUser
<1>7. ASSUME panic = "no", ScanChildren, prog[current] # "init"
      PROVE  \A p \in Pid : state'[p] # "RUNNING"
  BY <1>3, <1>7 DEF ScanChildren
<1>8. ASSUME panic = "no", TakeInput, prog[current] # "init"
      PROVE  \A p \in Pid : state'[p] # "RUNNING"
  BY <1>3, <1>8 DEF TakeInput
<1>9. CASE Wait \/ WaitResumed
  BY <1>1, <1>7, <1>9 DEF Wait, WaitResumed, InUser, IInv, ProgramsInPlace
<1>10. CASE Read \/ ReadResumed
  BY <1>1, <1>8, <1>10 DEF Read, ReadResumed, InUser, IInv, ProgramsInPlace
<1>11. CASE Timer
  <2>1. panic = "no" /\ state' = state /\ SwitchTo(state')
    BY <1>11 DEF Timer, InUser
  <2>2. state[1] \in {"RUNNING", "WAITING"} \/ \E p \in Pid : state[p] = "RUNNING"
    BY <1>1, <2>1 DEF IInv, CpuRunsLiveTask
  <2>3. QED
    BY <1>2, <2>1, <2>2
<1>12. CASE WriteInput \/ Newline \/ Halted \/ UNCHANGED vars
  BY <1>12 DEF WriteInput, Newline, Halted, vars
<1>13. QED
  BY <1>4, <1>5, <1>6, <1>9, <1>10, <1>11, <1>12 DEF Next

(* For every number of tasks, the CPU is given to the sleeping idle task   *)
(* only when no task in the whole table is ready.                          *)
THEOREM IdleRunsLast == Spec => IdleOnlyWhenNoneReady
<1>1. IInv /\ [Next]_vars =>
        [(current' # current /\ state'[current'] # "RUNNING")
            => \A p \in Pid : state'[p] # "RUNNING"]_vars
  BY StepToIdle
<1>2. QED
  BY <1>1, InductiveInvariant, PTL DEF Spec, IdleOnlyWhenNoneReady
-----------------------------------------------------------------------------
(* The states in which system calls are made and resumed.                  *)

(* Whoever makes a system call, but for the idle task, is ready.           *)
LEMMA CallerRuns ==
  ASSUME IInv, panic = "no", prog[current] # "idle"
  PROVE  current \in Pid /\ state[current] = "RUNNING"
BY FirstSlots DEF IInv, TypeOK, CpuRunsLiveTask, IdleIsPidOne

(* The sched() of a task that may block never stops the kernel.            *)
LEMMA PauseKeepsUp ==
  ASSUME IInv', panic = "no", NEW where, PauseAt(where)
  PROVE  /\ state' = [state EXCEPT ![current] = "WAITING"]
         /\ cont' = [cont EXCEPT ![current] = where]
         /\ panic' = "no"
<1>1. panic' \in {"no", "null_task"}
  BY DEF PauseAt, SwitchTo
<1>2. QED
  BY <1>1 DEF PauseAt, IInv, CpuRunsLiveTask

(* What do_exit() does to the table.                                       *)
LEMMA ExitEffect ==
  ASSUME IInv, IInv', NEW s \in Status, Exit(s)
  PROVE  /\ current \in Pid \ {0, 1} /\ ppid[current] \in Pid
         /\ state[current] = "RUNNING" /\ cont[current] = "user" /\ panic = "no"
         /\ state'[current] = "STOPPED"
         /\ \A p \in Pid \ {current} :
              state'[p] = state[p] \/ (state[p] = "WAITING" /\ state'[p] = "RUNNING")
         /\ panic' = IF ppid[current] # current /\ state[ppid[current]] = "NULL"
                       THEN "null_parent" ELSE "no"
         /\ UNCHANGED <<ppid, cont, input, prog, collected, parent, silent>>
<1> DEFINE stopped == [state EXCEPT ![current] = "STOPPED"]
           par == ppid[current]
<1>1. panic = "no" /\ cont[current] = "user" /\ prog[current] = "any"
  BY DEF Exit, InUser
<1>2. current \in Pid /\ par \in Pid /\ state[current] = "RUNNING"
  BY <1>1, CallerRuns DEF IInv, TypeOK
<1>3. current \notin {0, 1}
  BY <1>1, <1>2 DEF IInv, ProgramsInPlace, IdleIsPidOne
<1>4. /\ state' = WakeParent(stopped)
      /\ IF stopped[par] = "NULL" THEN panic' = "null_parent"
                                  ELSE SwitchTo(WakeParent(stopped))
      /\ UNCHANGED <<ppid, cont, input, prog, collected, parent, silent>>
  BY <1>3 DEF Exit
<1>5. /\ state'[current] = "STOPPED"
      /\ \A p \in Pid \ {current} :
           state'[p] = state[p] \/ (state[p] = "WAITING" /\ state'[p] = "RUNNING")
  BY <1>2, <1>4 DEF WakeParent, IInv, TypeOK
<1>6. stopped[par] = "NULL" <=> (par # current /\ state[par] = "NULL")
  BY <1>2 DEF IInv, TypeOK
<1>7. panic' = IF par # current /\ state[par] = "NULL" THEN "null_parent" ELSE "no"
  <2>1. CASE stopped[par] = "NULL"
    BY <1>4, <1>6, <2>1
  <2>2. CASE stopped[par] # "NULL"
    <3>1. panic' \in {"no", "null_task"}
      BY <1>1, <1>4, <2>2 DEF SwitchTo
    <3>2. panic' = "no"
      BY <3>1 DEF IInv, CpuRunsLiveTask
    <3>3. QED
      BY <1>6, <2>2, <3>2
  <2>3. QED
    BY <2>1, <2>2
<1>8. QED
  BY <1>1, <1>2, <1>3, <1>4, <1>5, <1>7

(* What do_wait() does to the table when it finds stopped children.        *)
LEMMA CollectEffect ==
  ASSUME IInv, panic = "no", prog[current] # "idle", ScanChildren, Dead # {}
  PROVE  /\ current \in Pid \ Dead /\ state[current] = "RUNNING"
         /\ 0 \notin Dead
         /\ Greatest(Dead) \in Dead
         /\ \A c \in Dead : state'[c] = "NULL" /\ ppid'[c] = 0
         /\ \A c \in Pid \ Dead : state'[c] = state[c] /\ ppid'[c] = ppid[c]
         /\ \A c \in Pid : parent'[c] = IF c \in Dead \/ parent[c] \in Dead
                                          THEN Gone ELSE parent[c]
         /\ cont' = [cont EXCEPT ![current] = "user"]
         /\ ppid' = [c \in Pid |-> ppid'[c]]
         /\ collected' = [by |-> current, pid |-> Greatest(Dead),
                          status |-> exit_status[Greatest(Dead)]]
         /\ UNCHANGED <<current, panic, input, silent>>
<1>1. current \in Pid /\ state[current] = "RUNNING"
  BY CallerRuns
<1>2. current \notin Dead /\ 0 \notin Dead
  BY <1>1 DEF Dead, IInv, ProgramsInPlace
<1>3. Greatest(Dead) \in Dead
  <2>1. MAX_TASKS - 1 \in Nat /\ Dead \in SUBSET (0 .. MAX_TASKS - 1)
    BY SchedAssumption DEF Dead, Pid
  <2>2. QED
    BY <2>1, GreatestMember
<1>4. /\ state' = Freed(state, "NULL")
      /\ ppid' = Freed(ppid, 0)
      /\ parent' = [c \in Pid |-> IF c \in Dead \/ parent[c] \in Dead
                                   THEN Gone ELSE parent[c]]
      /\ collected' = [by |-> current, pid |-> Greatest(Dead),
                       status |-> exit_status[Greatest(Dead)]]
      /\ cont' = [cont EXCEPT ![current] = "user"]
      /\ UNCHANGED <<current, panic, input, silent>>
  BY DEF ScanChildren
<1>5. Dead \subseteq Pid
  BY DEF Dead
<1>6. /\ \A c \in Dead : state'[c] = "NULL" /\ ppid'[c] = 0
      /\ \A c \in Pid \ Dead : state'[c] = state[c] /\ ppid'[c] = ppid[c]
      /\ ppid' = [c \in Pid |-> ppid'[c]]
  BY <1>4, <1>5 DEF Freed
<1>7. QED
  BY <1>1, <1>2, <1>3, <1>4, <1>6
-----------------------------------------------------------------------------
(* Programs that collect their children before they exit.  ParentAlive     *)
(* and the panics that are left need each other: do_exit() finds no null   *)
(* parent because the parent is alive, and the parent stays alive because  *)
(* a task with children does not exit.                                     *)
Orderly == ReapsBeforeExit => ParentAlive /\ OnlyFullTablePanics

(* do_fork(): the child's parent makes the call, and no task points at the *)
(* slot that the child gets.                                               *)
LEMMA ForkOrderly == IInv /\ Orderly /\ Fork => Orderly'
<1> SUFFICES ASSUME IInv, Fork, ReapsBeforeExit, ParentAlive, OnlyFullTablePanics
             PROVE  ParentAlive' /\ OnlyFullTablePanics'
  BY DEF Orderly
<1>1. current \in Pid /\ state[current] = "RUNNING"
  BY CallerRuns DEF Fork, InUser
<1>2. CASE EmptySlots = {}
  BY <1>2 DEF Fork, ParentAlive, OnlyFullTablePanics
<1>3. CASE EmptySlots # {}
  <2> DEFINE new == Least(EmptySlots)
  <2>1. new \in Pid /\ state[new] = "NULL"
    BY <1>3, FirstSlots, LeastMember DEF EmptySlots
  <2>2. /\ state' = [state EXCEPT ![new] = state[current]]
        /\ ppid' = [ppid EXCEPT ![new] = current]
        /\ parent' = [parent EXCEPT ![new] = current]
        /\ UNCHANGED panic
    BY <1>3 DEF Fork
  <2> HIDE DEF new
  <2>3. ParentAlive'
    <3>1. SUFFICES ASSUME NEW c \in Pid \ {0}, state'[c] # "NULL"
                   PROVE  /\ parent'[c] = ppid'[c]
                          /\ state'[ppid'[c]] \in {"RUNNING", "WAITING"}
      BY DEF ParentAlive
    <3>2. CASE c = new
      BY <1>1, <2>1, <2>2, <3>2 DEF IInv, TypeOK
    <3>3. CASE c # new
      BY <2>1, <2>2, <3>1, <3>3 DEF IInv, TypeOK, ParentAlive
    <3>4. QED
      BY <3>2, <3>3
  <2>4. QED
    BY <2>2, <2>3 DEF OnlyFullTablePanics
<1>4. QED
  BY <1>2, <1>3

(* do_exit(): the task has no children left, so nobody points at it.       *)
LEMMA ExitOrderly ==
  ASSUME IInv, IInv', Orderly, NEW s \in Status, Exit(s)
  PROVE  Orderly'
<1> SUFFICES ASSUME ReapsBeforeExit, ParentAlive, OnlyFullTablePanics
             PROVE  ParentAlive' /\ OnlyFullTablePanics'
  BY DEF Orderly
<1>1. /\ current \in Pid \ {0, 1} /\ ppid[current] \in Pid
      /\ state[current] = "RUNNING" /\ panic = "no"
      /\ \A p \in Pid \ {current} :
           state'[p] = state[p] \/ (state[p] = "WAITING" /\ state'[p] = "RUNNING")
      /\ panic' = IF ppid[current] # current /\ state[ppid[current]] = "NULL"
                    THEN "null_parent" ELSE "no"
      /\ UNCHANGED <<ppid, parent>>
  BY ExitEffect
<1>2. \A c \in Pid : ~ (state[c] # "NULL" /\ parent[c] = current)
  BY DEF Exit, HasNoChild
<1>3. OnlyFullTablePanics'
  BY <1>1 DEF ParentAlive, OnlyFullTablePanics
<1>4. ParentAlive'
  <2>1. SUFFICES ASSUME NEW c \in Pid \ {0}, state'[c] # "NULL"
                 PROVE  /\ parent[c] = ppid[c]
                        /\ state'[ppid[c]] \in {"RUNNING", "WAITING"}
    BY <1>1 DEF ParentAlive
  <2>2. state[c] # "NULL"
    BY <1>1, <2>1
  <2>3. parent[c] = ppid[c] /\ state[ppid[c]] \in {"RUNNING", "WAITING"}
    BY <2>2 DEF ParentAlive
  <2>4. ppid[c] \in Pid \ {current}
    BY <1>2, <2>2, <2>3 DEF IInv, TypeOK
  <2>5. QED
    BY <1>1, <2>3, <2>4
<1>5. QED
  BY <1>3, <1>4

(* A step that frees nobody, ends nobody and keeps the kernel up.          *)
LEMMA NobodyEndsOrderly ==
  ASSUME Orderly, IInv, UNCHANGED <<ppid, parent>>,
         panic' = panic,
         \A p \in Pid : (state'[p] = "NULL" <=> state[p] = "NULL")
                        /\ (state'[p] = "STOPPED" <=> state[p] = "STOPPED"),
         state' \in [Pid -> TaskState]
  PROVE  Orderly'
<1> SUFFICES ASSUME ReapsBeforeExit, ParentAlive, OnlyFullTablePanics
             PROVE  ParentAlive' /\ OnlyFullTablePanics'
  BY DEF Orderly
<1>1. ParentAlive'
  <2>1. SUFFICES ASSUME NEW c \in Pid \ {0}, state'[c] # "NULL"
                 PROVE  /\ parent[c] = ppid[c]
                        /\ state'[ppid[c]] \in {"RUNNING", "WAITING"}
    BY DEF ParentAlive
  <2>2. parent[c] = ppid[c] /\ state[ppid[c]] \in {"RUNNING", "WAITING"}
    BY <2>1 DEF ParentAlive
  <2>3. ppid[c] \in Pid
    BY DEF IInv, TypeOK
  <2>4. state'[ppid[c]] \in TaskState \ {"NULL", "STOPPED"}
    BY <2>2, <2>3
  <2>5. QED
    BY <2>2, <2>4 DEF TaskState
<1>2. QED
  BY <1>1 DEF OnlyFullTablePanics

LEMMA PauseOrderly ==
  ASSUME IInv, IInv', Orderly, panic = "no", prog[current] # "init",
         NEW where, PauseAt(where), UNCHANGED <<ppid, parent>>
  PROVE  Orderly'
<1>1. /\ state' = [state EXCEPT ![current] = "WAITING"]
      /\ panic' = panic
  BY PauseKeepsUp
<1>2. current \in Pid /\ state[current] \in {"RUNNING", "WAITING"}
  BY DEF IInv, TypeOK, CpuRunsLiveTask
<1>3. \A p \in Pid : (state'[p] = "NULL" <=> state[p] = "NULL")
                     /\ (state'[p] = "STOPPED" <=> state[p] = "STOPPED")
  BY <1>1, <1>2 DEF IInv, TypeOK
<1>4. QED
  BY <1>1, <1>3, NobodyEndsOrderly DEF IInv, TypeOK

(* do_wait(): who is freed had stopped, and had no children left.          *)
LEMMA ScanChildrenOrderly ==
  ASSUME IInv, IInv', Orderly, panic = "no", prog[current] \notin {"init", "idle"},
         ScanChildren
  PROVE  Orderly'
<1>1. CASE Dead = {}
  <2>1. PauseAt("wait") /\ UNCHANGED <<ppid, parent>>
    BY <1>1 DEF ScanChildren
  <2>2. QED
    BY <2>1, PauseOrderly
<1>2. CASE Dead # {}
  <2> SUFFICES ASSUME ReapsBeforeExit, ParentAlive, OnlyFullTablePanics
               PROVE  ParentAlive' /\ OnlyFullTablePanics'
    BY DEF Orderly
  <2>1. /\ \A c \in Dead : state'[c] = "NULL"
        /\ \A c \in Pid \ Dead : state'[c] = state[c] /\ ppid'[c] = ppid[c]
        /\ \A c \in Pid : parent'[c] = IF c \in Dead \/ parent[c] \in Dead
                                         THEN Gone ELSE parent[c]
        /\ UNCHANGED panic
    BY <1>2, CollectEffect
  <2>2. ParentAlive'
    <3>1. SUFFICES ASSUME NEW c \in Pid \ {0}, state'[c] # "NULL"
                   PROVE  /\ parent'[c] = ppid'[c]
                          /\ state'[ppid'[c]] \in {"RUNNING", "WAITING"}
      BY DEF ParentAlive
    <3>2. c \notin Dead /\ state[c] # "NULL" /\ ppid'[c] = ppid[c]
      BY <2>1, <3>1
    <3>3. parent[c] = ppid[c] /\ state[ppid[c]] \in {"RUNNING", "WAITING"}
      BY <3>2 DEF ParentAlive
    <3>4. ppid[c] \in Pid \ Dead
      BY <3>3 DEF Dead, IInv, TypeOK
    <3>5. QED
      BY <2>1, <3>2, <3>3, <3>4
  <2>3. QED
    BY <2>1, <2>2 DEF OnlyFullTablePanics
<1>3. QED
  BY <1>1, <1>2

LEMMA TakeInputOrderly ==
  ASSUME IInv, IInv', Orderly, panic = "no", prog[current] \notin {"init", "idle"},
         TakeInput
  PROVE  Orderly'
<1>1. CASE input = 0
  <2>1. PauseAt("read") /\ UNCHANGED <<ppid, parent>>
    BY <1>1 DEF TakeInput
  <2>2. QED
    BY <2>1, PauseOrderly
<1>2. CASE input # 0
  BY <1>2 DEF TakeInput, Orderly, ParentAlive, OnlyFullTablePanics
<1>3. QED
  BY <1>1, <1>2

(* The timer's sched() does not stop the kernel, and changes no task.      *)
LEMMA TimerOrderly == IInv /\ IInv' /\ Orderly /\ Timer => Orderly'
<1> SUFFICES ASSUME IInv, IInv', Orderly, Timer PROVE Orderly'
  OBVIOUS
<1>1. panic' \in {panic, "null_task"}
  BY DEF Timer, SwitchTo
<1>2. panic' = panic
  BY <1>1 DEF IInv, CpuRunsLiveTask
<1>3. QED
  BY <1>2 DEF Timer, Orderly, ParentAlive, OnlyFullTablePanics

LEMMA NextOrderly == IInv /\ IInv' /\ Orderly /\ [Next]_vars => Orderly'
<1> SUFFICES ASSUME IInv, IInv', Orderly, [Next]_vars PROVE Orderly'
  OBVIOUS
<1>1. CASE Fork
  BY <1>1, ForkOrderly
<1>2. CASE \E s \in Status : Exit(s)
  BY <1>2, ExitOrderly
<1>3. CASE Pause
  BY <1>3, PauseOrderly DEF Pause, InUser
<1>4. CASE Wait
  BY <1>4, ScanChildrenOrderly DEF Wait, InUser
<1>5. CASE WaitResumed
  <2>1. prog[current] \in {"init_waits", "any"}
    BY <1>5 DEF WaitResumed, IInv, TypeOK, ProgramsInPlace
  <2>2. QED
    BY <1>5, <2>1, ScanChildrenOrderly DEF WaitResumed
<1>6. CASE Read
  BY <1>6, TakeInputOrderly DEF Read, InUser
<1>7. CASE ReadResumed
  <2>1. prog[current] = "any"
    BY <1>7 DEF ReadResumed, IInv, TypeOK, ProgramsInPlace
  <2>2. QED
    BY <1>7, <2>1, TakeInputOrderly DEF ReadResumed
<1>8. CASE Timer
  BY <1>8, TimerOrderly
<1>9. CASE Newline
  <2>1. /\ state' \in [Pid -> TaskState]
        /\ \A p \in Pid : state'[p] = IF state[p] = "WAITING" THEN "RUNNING" ELSE state[p]
    BY <1>9 DEF Newline, WakeAll, IInv, TypeOK, TaskState
  <2>2. QED
    BY <1>9, <2>1, NobodyEndsOrderly DEF Newline
<1>10. CASE WriteInput \/ Halted \/ UNCHANGED vars
  BY <1>10 DEF WriteInput, Halted, vars, Orderly, ParentAlive, OnlyFullTablePanics
<1>11. QED
  BY <1>1, <1>2, <1>3, <1>4, <1>5, <1>6, <1>7, <1>8, <1>9, <1>10 DEF Next

LEMMA AlwaysOrderly == Spec => []Orderly
<1>1. Init => Orderly
  BY DEF Init, Orderly, ParentAlive, OnlyFullTablePanics
<1>2. QED
  BY <1>1, InductiveInvariant, NextOrderly, PTL DEF Spec

(* For every number of tasks: with programs that collect their children    *)
(* before they exit, ppid names the process that forked the task, and that *)
(* process is alive; do_fork() never reuses a slot under a child.          *)
THEOREM ParentsOutliveChildren ==
  ASSUME ReapsBeforeExit PROVE Spec => []ParentAlive
<1>1. Orderly => ParentAlive
  BY DEF Orderly
<1>2. QED
  BY <1>1, AlwaysOrderly, PTL

(* For every number of tasks, such programs stop the kernel only by forks  *)
(* of a full table: do_exit() never follows a null parent, sched() never   *)
(* loads a null task, and neither init nor the idle task exits.            *)
THEOREM OnlyAFullTablePanics ==
  ASSUME ReapsBeforeExit PROVE Spec => []OnlyFullTablePanics
<1>1. Orderly => OnlyFullTablePanics
  BY DEF Orderly
<1>2. QED
  BY <1>1, AlwaysOrderly, PTL

(* Only do_wait() reports, and to the task in ppid.                        *)
LEMMA StepReports ==
  ASSUME IInv, IInv', ReapsBeforeExit, Orderly, [Next]_vars, collected' # collected
  PROVE  /\ parent[collected'.pid] = collected'.by
         /\ state[collected'.pid] = "STOPPED"
         /\ collected'.status = exit_status[collected'.pid]
<1> DEFINE Report == /\ parent[collected'.pid] = collected'.by
                     /\ state[collected'.pid] = "STOPPED"
                     /\ collected'.status = exit_status[collected'.pid]
<1>1. ASSUME panic = "no", prog[current] # "idle", ScanChildren PROVE Report
  <2>1. Dead # {}
    BY <1>1 DEF ScanChildren
  <2>2. /\ 0 \notin Dead /\ Greatest(Dead) \in Dead
        /\ collected' = [by |-> current, pid |-> Greatest(Dead),
                         status |-> exit_status[Greatest(Dead)]]
    BY <1>1, <2>1, CollectEffect
  <2>3. parent[Greatest(Dead)] = current /\ state[Greatest(Dead)] = "STOPPED"
    BY <2>2 DEF Dead, Orderly, ParentAlive
  <2>4. QED
    BY <2>2, <2>3
<1>2. CASE Wait
  BY <1>1, <1>2 DEF Wait, InUser
<1>3. CASE WaitResumed
  <2>1. prog[current] \in {"init_waits", "any"}
    BY <1>3 DEF WaitResumed, IInv, TypeOK, ProgramsInPlace
  <2>2. QED
    BY <1>1, <1>3, <2>1 DEF WaitResumed
<1>4. CASE Fork \/ (\E s \in Status : Exit(s)) \/ Pause \/ Read \/ ReadResumed
  BY <1>4 DEF Fork, Exit, Pause, Read, ReadResumed, TakeInput
<1>5. CASE WriteInput \/ Timer \/ Newline \/ Halted \/ UNCHANGED vars
  BY <1>5 DEF WriteInput, Timer, Newline, Halted, vars
<1>6. QED
  BY <1>2, <1>3, <1>4, <1>5 DEF Next

(* For every number of tasks: what do_wait() reports to such a program is  *)
(* a process that it forked, that had stopped, with its status.            *)
THEOREM WaitReportsToParent ==
  ASSUME ReapsBeforeExit PROVE Spec => WaitReportsOwnChild
<1>1. IInv /\ IInv' /\ Orderly /\ [Next]_vars =>
        [collected' # collected =>
           /\ parent[collected'.pid] = collected'.by
           /\ state[collected'.pid] = "STOPPED"
           /\ collected'.status = exit_status[collected'.pid]]_vars
  BY StepReports
<1>2. QED
  BY <1>1, InductiveInvariant, AlwaysOrderly, PTL DEF Spec, WaitReportsOwnChild
-----------------------------------------------------------------------------
(* The refinement of ProcLife: each action of Sched is one action of the   *)
(* life cycle, or none.                                                    *)

(* How a step of one task shows.                                           *)
LEMMA PhaseOfState ==
  ASSUME IInv, NEW p \in Pid
  PROVE  /\ Phase(p) = "none" <=> state[p] = "NULL"
         /\ Phase(p) = "stopped" <=> state[p] = "STOPPED"
         /\ state[p] \in {"RUNNING", "WAITING"} =>
              /\ Phase(p) = "running" <=> cont[p] = "user"
              /\ Phase(p) = "waiting" <=> cont[p] = "wait"
              /\ Phase(p) = "reading" <=> cont[p] = "read"
<1>1. state[p] \in TaskState /\ cont[p] \in {"user", "wait", "read"}
  BY DEF IInv, TypeOK
<1>2. QED
  BY <1>1 DEF Phase, TaskState

(* A task that sleeps or is woken does not show it.                        *)
LEMMA SamePhase ==
  ASSUME NEW p, cont'[p] = cont[p],
         \/ state'[p] = state[p]
         \/ {state[p], state'[p]} \subseteq {"RUNNING", "WAITING"}
  PROVE  Phase(p)' = Phase(p)
BY DEF Phase

LEMMA InitLife == Init => Life!Init
BY FirstSlots DEF Init, Life!Init, Life!Pid, Pid, Phase

(* fork() gives a process that did not exist, or finds no pid left.        *)
LEMMA ForkLife ==
  ASSUME IInv, Fork
  PROVE  Life!Next
<1>1. /\ current \in Pid /\ state[current] = "RUNNING"
      /\ cont[current] = "user" /\ panic = "no"
  BY CallerRuns DEF Fork, InUser
<1>2. Phase(current) = "running"
  BY <1>1, PhaseOfState
<1>3. CASE EmptySlots = {}
  <2>1. /\ panic' = "table_full"
        /\ UNCHANGED <<state, ppid, cont, input>>
    BY <1>3 DEF Fork
  <2>2. \A c \in Pid : Phase(c) # "none" /\ Phase(c)' = Phase(c)
    BY <1>3, <2>1, PhaseOfState, SamePhase DEF EmptySlots
  <2>3. Life!NoPidLeft(current)
    BY <1>1, <1>2, <2>1, <2>2 DEF Life!NoPidLeft, Life!Pid, Pid
  <2>4. QED
    BY <1>1, <2>3 DEF Life!Next, Life!Pid, Pid
<1>4. CASE EmptySlots # {}
  <2>1. PICK new \in Pid : new = Least(EmptySlots) /\ state[new] = "NULL" /\ new # current
    BY <1>1, <1>4, FirstSlots, LeastMember DEF EmptySlots
  <2>2. /\ state' = [state EXCEPT ![new] = state[current]]
        /\ ppid' = [ppid EXCEPT ![new] = current]
        /\ cont' = [cont EXCEPT ![new] = "user"]
        /\ UNCHANGED <<panic, input>>
    BY <1>4, <2>1 DEF Fork
  <2>3. Phase(new) = "none"
    BY <2>1 DEF Phase
  <2>4. state'[new] = "RUNNING" /\ cont'[new] = "user"
    BY <1>1, <2>1, <2>2 DEF IInv, TypeOK
  <2>5. Phase(new)' = "running"
    BY <2>4 DEF Phase
  <2>6. \A p \in Pid : p # new => state'[p] = state[p] /\ cont'[p] = cont[p]
    BY <2>1, <2>2 DEF IInv, TypeOK
  <2>7. \A p \in Pid : p # new => Phase(p)' = Phase(p)
    BY <2>6, SamePhase
  <2>8. Life!Spawn(current)
    BY <1>1, <1>2, <2>1, <2>2, <2>3, <2>5, <2>7 DEF Life!Spawn, Life!Pid, Pid
  <2>9. QED
    BY <1>1, <2>8 DEF Life!Next, Life!Pid, Pid
<1>5. QED
  BY <1>3, <1>4

(* _exit() ends one process; that a parent wakes up does not show.         *)
LEMMA ExitLife ==
  ASSUME IInv, IInv', NEW s \in Status, Exit(s)
  PROVE  Life!Next
<1> DEFINE par == ppid[current]
<1>1. /\ current \in Pid \ {0, 1} /\ par \in Pid
      /\ state[current] = "RUNNING" /\ cont[current] = "user" /\ panic = "no"
      /\ state'[current] = "STOPPED"
      /\ \A p \in Pid \ {current} :
           state'[p] = state[p] \/ (state[p] = "WAITING" /\ state'[p] = "RUNNING")
      /\ panic' = IF par # current /\ state[par] = "NULL" THEN "null_parent" ELSE "no"
      /\ UNCHANGED <<ppid, cont, input>>
  BY ExitEffect
<1>2. Phase(current) = "running" /\ \A p \in Pid : p = current => Phase(p)' = "stopped"
  BY <1>1 DEF Phase
<1>3. \A p \in Pid : p # current => Phase(p)' = Phase(p)
  BY <1>1, SamePhase
<1>4. (panic' = "no") = (Phase(par) # "none")
  BY <1>1, PhaseOfState
<1>5. Life!Die(current)
  BY <1>1, <1>2, <1>3, <1>4 DEF Life!Die, Life!Pid, Pid
<1>6. QED
  BY <1>1, <1>5 DEF Life!Next, Life!Pid, Pid

(* What a pause changes for the programs: only where the caller is.        *)
LEMMA PausePhases ==
  ASSUME IInv, IInv', panic = "no", NEW where \in {"user", "wait", "read"}, PauseAt(where)
  PROVE  /\ panic' = "no"
         /\ \A p \in Pid :
              Phase(p)' = IF p # current THEN Phase(p)
                          ELSE IF where = "wait" THEN "waiting"
                          ELSE IF where = "read" THEN "reading" ELSE "running"
<1>1. /\ state' = [state EXCEPT ![current] = "WAITING"]
      /\ cont' = [cont EXCEPT ![current] = where]
      /\ panic' = "no"
  BY PauseKeepsUp
<1>2. current \in Pid
  BY DEF IInv, TypeOK
<1>3. state'[current] = "WAITING" /\ cont'[current] = where
  BY <1>1, <1>2 DEF IInv, TypeOK
<1>4. \A p \in Pid : p # current => state'[p] = state[p] /\ cont'[p] = cont[p]
  BY <1>1, <1>2 DEF IInv, TypeOK
<1>5. \A p \in Pid : p # current => Phase(p)' = Phase(p)
  BY <1>4, SamePhase
<1>6. \A p \in Pid : p = current =>
        Phase(p)' = IF where = "wait" THEN "waiting"
                    ELSE IF where = "read" THEN "reading" ELSE "running"
  BY <1>3 DEF Phase
<1>7. QED
  BY <1>1, <1>5, <1>6

(* pause() shows nothing: a task that sleeps in it still runs, as far as   *)
(* other programs can tell.                                                *)
LEMMA PauseLife ==
  ASSUME IInv, IInv', Pause
  PROVE  UNCHANGED Life!vars
<1>1. /\ panic = "no" /\ cont[current] = "user" /\ PauseAt("user")
      /\ UNCHANGED <<ppid, input>>
  BY DEF Pause, InUser
<1>2. current \in Pid /\ state[current] \in {"RUNNING", "WAITING"}
  BY <1>1 DEF IInv, TypeOK, CpuRunsLiveTask
<1>3. Phase(current) = "running"
  BY <1>1, <1>2, PhaseOfState
<1>4. panic' = "no" /\ \A p \in Pid : Phase(p)' = Phase(p)
  BY <1>1, <1>3, PausePhases
<1>5. [p \in Pid |-> Phase(p)]' = [p \in Pid |-> Phase(p)]
  BY <1>4
<1>6. QED
  BY <1>1, <1>4, <1>5 DEF Life!vars

(* wait() begins when the first scan finds nobody, and ends in the turn    *)
(* that finds stopped children; a turn between them shows nothing.         *)
LEMMA ScanChildrenLife ==
  ASSUME IInv, IInv', panic = "no", prog[current] # "idle",
         cont[current] \in {"user", "wait"}, ScanChildren
  PROVE  Life!Next \/ UNCHANGED Life!vars
<1>1. current \in Pid /\ state[current] = "RUNNING"
  BY CallerRuns
<1>2. Phase(current) \in {"running", "waiting"}
  BY <1>1, PhaseOfState
<1>3. Life!StoppedChildren(current) = Dead
  BY PhaseOfState DEF Life!StoppedChildren, Life!Pid, Pid, Dead
<1>4. CASE Dead = {}
  <2>1. PauseAt("wait") /\ UNCHANGED <<ppid, input>>
    BY <1>4 DEF ScanChildren
  <2>2. /\ panic' = "no"
        /\ \A p \in Pid : Phase(p)' = IF p = current THEN "waiting" ELSE Phase(p)
    BY <2>1, PausePhases
  <2>3. CASE Phase(current) = "waiting"
    <3>1. [p \in Pid |-> Phase(p)]' = [p \in Pid |-> Phase(p)]
      BY <2>2, <2>3
    <3>2. QED
      BY <2>1, <2>2, <3>1 DEF Life!vars
  <2>4. CASE Phase(current) = "running"
    <3>1. Life!BeginWait(current)
      BY <1>1, <1>3, <1>4, <2>1, <2>2, <2>4 DEF Life!BeginWait, Life!Pid, Pid
    <3>2. QED
      BY <1>1, <3>1 DEF Life!Next, Life!Pid, Pid
  <2>5. QED
    BY <1>2, <2>3, <2>4
<1>5. CASE Dead # {}
  <2>1. /\ current \notin Dead
        /\ \A c \in Dead : state'[c] = "NULL" /\ ppid'[c] = 0
        /\ \A c \in Pid \ Dead : state'[c] = state[c] /\ ppid'[c] = ppid[c]
        /\ cont' = [cont EXCEPT ![current] = "user"]
        /\ ppid' = [c \in Pid |-> ppid'[c]]
        /\ UNCHANGED <<panic, input>>
    BY <1>5, CollectEffect
  <2>2. \A c \in Dead : Phase(c)' = "none"
    BY <2>1 DEF Phase
  <2>3. state'[current] = "RUNNING" /\ cont'[current] = "user"
    BY <1>1, <2>1 DEF IInv, TypeOK
  <2>4. \A p \in Pid : p = current => Phase(p)' = "running"
    BY <2>3 DEF Phase
  <2>5. \A c \in Pid \ Dead : c # current => state'[c] = state[c] /\ cont'[c] = cont[c]
    BY <2>1 DEF IInv, TypeOK
  <2>6. \A c \in Pid \ Dead : c # current => Phase(c)' = Phase(c)
    BY <2>5, SamePhase
  <2>7. Dead \subseteq Pid
    BY DEF Dead
  <2>8. Life!EndWait(current)
    <3>1. [p \in Pid |-> Phase(p)]' =
            [c \in Life!Pid |-> IF c \in Life!StoppedChildren(current) THEN "none"
               ELSE IF c = current THEN "running" ELSE [p \in Pid |-> Phase(p)][c]]
      BY <1>3, <2>2, <2>4, <2>6 DEF Life!Pid, Pid
    <3>2. ppid' = [c \in Life!Pid |-> IF c \in Life!StoppedChildren(current) THEN 0
                                      ELSE ppid[c]]
      <4>1. \A c \in Pid : ppid'[c] = IF c \in Dead THEN 0 ELSE ppid[c]
        BY <2>1
      <4>2. QED
        BY <1>3, <2>1, <4>1 DEF Life!Pid, Pid
    <3>3. QED
      BY <1>1, <1>2, <1>3, <1>5, <2>1, <3>1, <3>2 DEF Life!EndWait
  <2>9. QED
    BY <1>1, <2>8 DEF Life!Next, Life!Pid, Pid
<1>6. QED
  BY <1>4, <1>5

(* read() begins when the first look finds no input, and ends in the turn  *)
(* that finds some.                                                        *)
LEMMA TakeInputLife ==
  ASSUME IInv, IInv', panic = "no", prog[current] # "idle",
         cont[current] \in {"user", "read"}, TakeInput
  PROVE  Life!Next \/ UNCHANGED Life!vars
<1>1. current \in Pid /\ state[current] = "RUNNING"
  BY CallerRuns
<1>2. Phase(current) \in {"running", "reading"}
  BY <1>1, PhaseOfState
<1>3. UNCHANGED ppid
  BY DEF TakeInput
<1>4. CASE input = 0
  <2>1. PauseAt("read") /\ UNCHANGED input
    BY <1>4 DEF TakeInput
  <2>2. /\ panic' = "no"
        /\ \A p \in Pid : Phase(p)' = IF p = current THEN "reading" ELSE Phase(p)
    BY <2>1, PausePhases
  <2>3. CASE Phase(current) = "reading"
    <3>1. [p \in Pid |-> Phase(p)]' = [p \in Pid |-> Phase(p)]
      BY <2>2, <2>3
    <3>2. QED
      BY <1>3, <2>1, <2>2, <3>1 DEF Life!vars
  <2>4. CASE Phase(current) = "running"
    <3>1. Life!BeginRead(current)
      BY <1>1, <1>3, <1>4, <2>1, <2>2, <2>4 DEF Life!BeginRead, Life!Pid, Pid
    <3>2. QED
      BY <1>1, <3>1 DEF Life!Next, Life!Pid, Pid
  <2>5. QED
    BY <1>2, <2>3, <2>4
<1>5. CASE input # 0
  <2>1. /\ input' \in 0 .. input
        /\ cont' = [cont EXCEPT ![current] = "user"]
        /\ UNCHANGED <<state, panic>>
    BY <1>5 DEF TakeInput
  <2>2. state'[current] = "RUNNING" /\ cont'[current] = "user"
    BY <1>1, <2>1 DEF IInv, TypeOK
  <2>3. \A p \in Pid : p = current => Phase(p)' = "running"
    BY <2>2 DEF Phase
  <2>4. \A p \in Pid : p # current => state'[p] = state[p] /\ cont'[p] = cont[p]
    BY <2>1 DEF IInv, TypeOK
  <2>5. \A p \in Pid : p # current => Phase(p)' = Phase(p)
    BY <2>4, SamePhase
  <2>6. Life!EndRead(current)
    BY <1>1, <1>2, <1>3, <1>5, <2>1, <2>3, <2>5 DEF Life!EndRead, Life!Pid, Pid
  <2>7. QED
    BY <1>1, <2>6 DEF Life!Next, Life!Pid, Pid
<1>6. QED
  BY <1>4, <1>5

(* Preemption, and a line with its wake-ups.                               *)
LEMMA InterruptLife ==
  ASSUME IInv, IInv', Timer \/ Newline \/ WriteInput
  PROVE  Life!Next \/ UNCHANGED Life!vars
<1>1. panic = "no" /\ UNCHANGED <<ppid, cont>>
  BY DEF Timer, Newline, WriteInput, InUser
<1>2. panic' = "no"
  <2>1. panic' \in {"no", "null_task"}
    BY <1>1 DEF Timer, Newline, WriteInput, SwitchTo
  <2>2. QED
    BY <2>1 DEF IInv, CpuRunsLiveTask
<1>3. \A p \in Pid : state'[p] = state[p] \/ (state[p] = "WAITING" /\ state'[p] = "RUNNING")
  BY DEF Timer, Newline, WriteInput, WakeAll
<1>4. \A p \in Pid : Phase(p)' = Phase(p)
  BY <1>1, <1>3, SamePhase
<1>5. [p \in Pid |-> Phase(p)]' = [p \in Pid |-> Phase(p)]
  BY <1>4
<1>6. CASE Timer
  BY <1>1, <1>2, <1>5, <1>6 DEF Timer, Life!vars
<1>7. CASE Newline \/ WriteInput
  BY <1>1, <1>2, <1>5, <1>7 DEF Newline, WriteInput, BufLengths, Life!Next, Life!Supply
<1>8. QED
  BY <1>6, <1>7

LEMMA NextLife == IInv /\ IInv' /\ [Next]_vars => [Life!Next]_(Life!vars)
<1> SUFFICES ASSUME IInv, IInv', [Next]_vars PROVE Life!Next \/ UNCHANGED Life!vars
  OBVIOUS
<1>1. CASE Fork
  BY <1>1, ForkLife
<1>2. CASE \E s \in Status : Exit(s)
  BY <1>2, ExitLife
<1>3. CASE Pause
  BY <1>3, PauseLife
<1>4. CASE Wait
  BY <1>4, ScanChildrenLife DEF Wait, InUser
<1>5. CASE WaitResumed
  <2>1. prog[current] # "idle"
    BY <1>5 DEF WaitResumed, IInv, TypeOK, ProgramsInPlace
  <2>2. QED
    BY <1>5, <2>1, ScanChildrenLife DEF WaitResumed
<1>6. CASE Read
  BY <1>6, TakeInputLife DEF Read, InUser
<1>7. CASE ReadResumed
  <2>1. prog[current] # "idle"
    BY <1>7 DEF ReadResumed, IInv, TypeOK, ProgramsInPlace
  <2>2. QED
    BY <1>7, <2>1, TakeInputLife DEF ReadResumed
<1>8. CASE WriteInput \/ Timer \/ Newline
  BY <1>8, InterruptLife
<1>9. CASE Halted \/ UNCHANGED vars
  BY <1>9 DEF Halted, vars, Life!vars, Phase
<1>10. QED
  BY <1>1, <1>2, <1>3, <1>4, <1>5, <1>6, <1>7, <1>8, <1>9 DEF Next

(* For every number of tasks, every program and every capacity of the      *)
(* input buffer, the process table and the scheduler implement the life    *)
(* cycle of processes.                                                     *)
THEOREM SchedulerImplementsLife == Spec => ImplementsProcLife
<1>1. QED
  BY InitLife, NextLife, InductiveInvariant, PTL DEF Spec, ImplementsProcLife, Life!Spec
=============================================================================
