------------------------------ MODULE ProcLife ------------------------------
(***************************************************************************)
(* What the process system calls promise to programs, without a scheduler: *)
(* wait() and read() are single operations that may take time, and every   *)
(* process can act at any moment.  Sched is shown to implement this.       *)
(***************************************************************************)
EXTENDS Naturals

CONSTANTS MAX_TASKS, MaxInput

Pid == 0 .. MAX_TASKS - 1

VARIABLES
  phase,  (* "none", "running", "waiting", "reading" or "stopped" *)
  ppid,   (* the parent, by pid                                   *)
  input,  (* characters a read can take                           *)
  up      (* the kernel has not stopped                           *)

vars == <<phase, ppid, input, up>>

Init ==
  /\ phase = [p \in Pid |-> IF p = 0 THEN "running" ELSE "none"]
  /\ ppid = [p \in Pid |-> 0]
  /\ input = 0
  /\ up = TRUE

StoppedChildren(p) == {c \in Pid : phase[c] = "stopped" /\ ppid[c] = p}

(* fork(): a new process, or the end of the kernel when no pid is left. *)
Spawn(p) ==
  /\ phase[p] = "running"
  /\ \E c \in Pid : /\ phase[c] = "none"
                    /\ phase' = [phase EXCEPT ![c] = "running"]
                    /\ ppid' = [ppid EXCEPT ![c] = p]
  /\ UNCHANGED <<input, up>>

NoPidLeft(p) ==
  /\ phase[p] = "running"
  /\ \A c \in Pid : phase[c] # "none"
  /\ up' = FALSE
  /\ UNCHANGED <<phase, ppid, input>>

(* _exit(), which the kernel survives only if the parent's pid is in use. *)
Die(p) ==
  /\ p \notin {0, 1}
  /\ phase[p] = "running"
  /\ phase' = [phase EXCEPT ![p] = "stopped"]
  /\ up' = (phase[ppid[p]] # "none")
  /\ UNCHANGED <<ppid, input>>

(* wait(): begins, and ends when there are stopped children, with all of   *)
(* them removed.                                                           *)
BeginWait(p) ==
  /\ phase[p] = "running"
  /\ StoppedChildren(p) = {}
  /\ phase' = [phase EXCEPT ![p] = "waiting"]
  /\ UNCHANGED <<ppid, input, up>>

EndWait(p) ==
  /\ phase[p] \in {"running", "waiting"}
  /\ StoppedChildren(p) # {}
  /\ phase' = [c \in Pid |-> IF c \in StoppedChildren(p) THEN "none"
                             ELSE IF c = p THEN "running" ELSE phase[c]]
  /\ ppid' = [c \in Pid |-> IF c \in StoppedChildren(p) THEN 0 ELSE ppid[c]]
  /\ UNCHANGED <<input, up>>

(* read() from the terminal: ends only when there is input. *)
BeginRead(p) ==
  /\ phase[p] = "running"
  /\ input = 0
  /\ phase' = [phase EXCEPT ![p] = "reading"]
  /\ UNCHANGED <<ppid, input, up>>

EndRead(p) ==
  /\ phase[p] \in {"running", "reading"}
  /\ input # 0
  /\ input' \in 0 .. input
  /\ phase' = [phase EXCEPT ![p] = "running"]
  /\ UNCHANGED <<ppid, up>>

(* A line is typed, or a process writes to the terminal's input. *)
Supply ==
  /\ input' \in 0 .. MaxInput
  /\ UNCHANGED <<phase, ppid, up>>

Next ==
  /\ up
  /\ \/ \E p \in Pid : \/ Spawn(p) \/ NoPidLeft(p) \/ Die(p)
                       \/ BeginWait(p) \/ EndWait(p)
                       \/ BeginRead(p) \/ EndRead(p)
     \/ Supply

Spec == Init /\ [][Next]_vars
=============================================================================
