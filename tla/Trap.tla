--------------------------------- MODULE Trap ---------------------------------
(***************************************************************************)
(* How the kernel is entered: the descriptors that init_interrupts() sets  *)
(* up, the entry code of interrupts_handlers.asm, main_intr_handler() and  *)
(* the interrupt controller (kernel/interrupts.c, kernel/PIC.c).           *)
(*                                                                         *)
(* All descriptors are trap gates: the CPU leaves interrupts enabled when  *)
(* it enters a handler, and only the first instruction, cli, disables      *)
(* them.  Between the two any interrupt of a higher priority may come, and *)
(* the timer may give the CPU to another process.  From cli on a handler   *)
(* is one action.                                                          *)
(*                                                                         *)
(* The processes touch pages of their heap.  A fault leaves its address in *)
(* CR2, of which the CPU has one.                                          *)
(***************************************************************************)
EXTENDS Naturals, SequencesExt

CONSTANTS
  TASKS,   (* the number of processes                        *)
  PAGES,   (* the number of pages above the data segment     *)
  Heap(_)  (* the pages between code_end and brk of a process *)

ASSUME TrapAssumption ==
  /\ TASKS \in Nat \ {0} /\ PAGES \in Nat
  /\ \A t \in 0 .. TASKS - 1 : Heap(t) \subseteq 0 .. PAGES - 1

Task == 0 .. TASKS - 1
Page == 0 .. PAGES - 1
Nowhere == PAGES  \* no page
IRQ == {"timer", "key"}  \* IRQ 0 and IRQ 1

(* What is on a kernel stack: a handler that has not come to its cli yet,  *)
(* or "sched", a timer interrupt that called sched() and was switched away *)
(* from.                                                                   *)
Entry == IRQ \cup {"fault"}
Frame == Entry \cup {"sched"}

VARIABLES
  stack,    (* kernel stacks, the innermost handler last              *)
  current,  (* the process that has the CPU                           *)
  touches,  (* the page a process is about to touch, or Nowhere       *)
  pages,    (* the heap pages that a process has                      *)
  cr2,      (* the address of the last page fault                     *)
  irr, isr, (* the controller: interrupts requested, and in service   *)
  key,      (* a scan code waits in the keyboard                      *)
  panic     (* the page fault handler gave up                         *)

trapVars == <<stack, current, touches, pages, cr2, irr, isr, key, panic>>

TrapInit ==
  /\ stack = [t \in Task |-> IF t = 0 THEN <<>> ELSE <<"sched">>]
  /\ current = 0
  /\ touches = [t \in Task |-> Nowhere]
  /\ pages = [t \in Task |-> {}]
  /\ cr2 = Nowhere
  /\ irr = {} /\ isr = {}
  /\ key = FALSE
  /\ panic = FALSE

InUser == stack[current] = <<>> /\ ~ panic
AtEntry == ~ panic /\ stack[current] # <<>>  \* before cli
Top == Last(stack[current])
Push(f) == stack' = [stack EXCEPT ![current] = Append(@, f)]
Pop == stack' = [stack EXCEPT ![current] = Front(@)]
-----------------------------------------------------------------------------
(* Hardware *)

Tick ==
  /\ "timer" \notin irr /\ ~ panic
  /\ irr' = irr \cup {"timer"}
  /\ UNCHANGED <<stack, current, touches, pages, cr2, isr, key, panic>>

PressKey ==
  /\ ~ key /\ ~ panic
  /\ key' = TRUE
  /\ irr' = irr \cup {"key"}
  /\ UNCHANGED <<stack, current, touches, pages, cr2, isr, panic>>

(* The controller passes an interrupt on when no other of its priority or  *)
(* a higher one is in service.                                             *)
PassesAll(i) == i \in irr  \* mutant: the controller ignores what is in service
Passes(i) == i \in irr /\ isr \subseteq (IF i = "timer" THEN {"key"} ELSE {})

(* Interrupts are enabled in user mode and at the entry of a handler. *)
Accept(i) ==
  /\ InUser \/ AtEntry
  /\ Passes(i)
  /\ irr' = irr \ {i}
  /\ isr' = isr \cup {i}
  /\ Push(i)
  /\ UNCHANGED <<current, touches, pages, cr2, key, panic>>

(* A process comes to an instruction that touches a page, and comes back   *)
(* to it after the fault.                                                  *)
Touch(a) ==
  /\ InUser /\ touches[current] = Nowhere /\ a \in Heap(current)
  /\ touches' = [touches EXCEPT ![current] = a]
  /\ UNCHANGED <<stack, current, pages, cr2, irr, isr, key, panic>>

Execute ==
  /\ InUser /\ touches[current] # Nowhere
  /\ IF touches[current] \in pages[current]
       THEN /\ touches' = [touches EXCEPT ![current] = Nowhere]
            /\ UNCHANGED <<stack, cr2>>
       ELSE /\ cr2' = touches[current]
            /\ Push("fault")
            /\ UNCHANGED touches
  /\ UNCHANGED <<current, pages, irr, isr, key, panic>>
-----------------------------------------------------------------------------
(* Handlers, from cli on *)

(* send_PIC_EOI(): the end of the interrupt of the highest priority.  It   *)
(* comes before the callback, which may not return for long.               *)
NeverEOI(s) == s  \* mutant: sent after a callback that does not come back
EOILowest(s) == IF "key" \in s THEN s \ {"key"} ELSE {}  \* mutant: the wrong end
EOI(s) == IF "timer" \in s THEN s \ {"timer"} ELSE {}

NextIsFirst == 0  \* mutant: every switch is to the first process
NextTask == (current + 1) % TASKS

(* The timer's callback is sched().  The next process goes on where its    *)
(* own timer interrupt was, and returns from it.                           *)
HandleTimer ==
  /\ AtEntry /\ Top = "timer"
  /\ isr' = EOI(isr)
  /\ LET left == [stack EXCEPT ![current] = Append(Front(@), "sched")] IN
     stack' = [left EXCEPT ![NextTask] = Front(@)]
  /\ current' = NextTask
  /\ UNCHANGED <<touches, pages, cr2, irr, key, panic>>

(* handle_keyboard_input() reads the scan code. *)
HandleKey ==
  /\ AtEntry /\ Top = "key"
  /\ isr' = EOI(isr)
  /\ key' = FALSE
  /\ Pop
  /\ UNCHANGED <<current, touches, pages, cr2, irr, panic>>

(* page_fault() of a page that is not present takes CR2 as it finds it.    *)
(* get_free_address() passes over the pages that are there already.        *)
Above(a) == {b \in Page : a <= b /\ b \notin pages[current]}
AddedBehind(a) == {a + 1}  \* mutant: off by one
Added(a) == {b \in Above(a) : \A c \in Above(a) : b <= c}
HandleFault ==
  /\ AtEntry /\ Top = "fault"
  /\ IF cr2 \in Heap(current)
       THEN /\ pages' = [pages EXCEPT ![current] = @ \cup Added(cr2)]
            /\ Pop
            /\ UNCHANGED panic
       ELSE /\ panic' = TRUE
            /\ UNCHANGED <<stack, pages>>
  /\ UNCHANGED <<current, touches, cr2, irr, isr, key>>

Halted == panic /\ UNCHANGED trapVars

TrapNext ==
  \/ Tick \/ PressKey
  \/ \E i \in IRQ : Accept(i)
  \/ \E a \in Page : Touch(a)
  \/ Execute
  \/ HandleTimer \/ HandleKey \/ HandleFault
  \/ Halted

TrapSpec == TrapInit /\ [][TrapNext]_trapVars

(* The timer ticks, the CPU takes interrupts and executes instructions.    *)
(* The timer's period is many instructions long: it cannot come before the *)
(* same instruction, or before the same key, time after time.              *)
Fairness ==
  /\ WF_trapVars(Tick)
  /\ WF_trapVars(Accept("timer")) /\ SF_trapVars(Accept("key"))
  /\ WF_trapVars(HandleTimer)
  /\ \A t \in Task : /\ SF_trapVars(current = t /\ HandleKey)
                     /\ SF_trapVars(current = t /\ HandleFault)
                     /\ SF_trapVars(current = t /\ Execute)

FairSpec == TrapSpec /\ Fairness
-----------------------------------------------------------------------------
(* Type correctness. *)
TypeOK ==
  /\ stack \in [Task -> Seq(Frame)]
  /\ current \in Task
  /\ touches \in [Task -> Page \cup {Nowhere}]
  /\ pages \in [Task -> SUBSET Page]
  /\ cr2 \in Page \cup {Nowhere}
  /\ irr \subseteq IRQ /\ isr \subseteq IRQ
  /\ {key, panic} \subseteq BOOLEAN

(* An interrupt is in service exactly while one handler for it has not     *)
(* come to its EOI, on whichever stack: no EOI ends another's interrupt,   *)
(* and none is missing.                                                    *)
InServiceIsOnStack ==
  \A i \in IRQ :
    LET entries == {tn \in Task \X (1 .. 4) :
                      tn[2] <= Len(stack[tn[1]]) /\ stack[tn[1]][tn[2]] = i}
    IN  IF i \in isr THEN \E e \in entries : entries = {e} ELSE entries = {}

(* The kernel stack, which shares its page with the task structure, never  *)
(* holds more than a fault, a key and a timer interrupt.                   *)
StackBounded == \A t \in Task : Len(stack[t]) <= 3

(* A process that is switched away from at the entry of the keyboard's     *)
(* handler keeps all further keys waiting, but not for ever.               *)
KeyIsRead == key ~> (~ key \/ panic)

(* The timer goes on whatever it interrupts: every process gets the CPU    *)
(* again and again.                                                        *)
EveryTaskRuns == \A t \in Task : []<>(current = t \/ panic)

(* A page that a process touches appears in the end: a fault whose CR2 was *)
(* overwritten by another process's is repeated.                           *)
TouchSucceeds == \A t \in Task : touches[t] # Nowhere ~> (touches[t] = Nowhere \/ panic)

(* mm.c:267: the panic is for a process that "Tried to reference non       *)
(* existing page"; here every process stays in its heap.                   *)
LegalTouchNeverPanics == ~ panic
=============================================================================
