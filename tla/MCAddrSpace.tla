----------------------------- MODULE MCAddrSpace -----------------------------
(* Instances of AddrSpace for TLC: a page of text, a page of data; what    *)
(* the heap has beyond the data segment is up to MaxBrk.                   *)
EXTENDS AddrSpace

MCImages == {[code |-> 0, data |-> 1]}
MCTwoImages == {[code |-> 0, data |-> 1], [code |-> 0, data |-> 2]}
MCValue == {"x"}

(* The view of a state: the numbers of page frames are left out.  Frames   *)
(* are compared only with each other and with NULL, so two states that     *)
(* differ in the numbers are one; a frame is named by the last directory   *)
(* entry, and the last page, that has it.                                  *)
Tables == {td \in Task \X Dir : task[td[1]].state = "alive"}
Pages == {tv \in Task \X Page : task[tv[1]].state = "alive" /\ PDE(m, tv[1], tv[2]).present}
TableName(f) ==
  Max({0} \cup {td[1] * DIRS + td[2] + 1 :
               td \in {e \in Tables : m.dir[e[1]][e[2]].frame = f}})
PageName(f) ==
  Max({0} \cup {tv[1] * DIRS * SLOTS + tv[2] + 1 :
               tv \in {e \in Pages : PTE(m, e[1], e[2]).frame = f}})

MCView ==
  IF m.panic # "no" THEN <<m.panic>>
  ELSE <<[t \in Task |-> [task[t] EXCEPT !.self = 0, !.page_directory = 0]],
         Quantify(Frame, LAMBDA f : m.refs[f] = 0),
         [td \in Tables |-> LET e == m.dir[td[1]][td[2]] IN
            [e EXCEPT !.frame = IF e.frame = 0 THEN <<>>
                                ELSE <<TableName(e.frame), PageName(e.frame), m.refs[e.frame]>>]],
         [tv \in Pages |-> LET e == PTE(m, tv[1], tv[2]) IN
            [e EXCEPT !.frame = IF e.frame = 0 THEN <<>>
                                ELSE <<TableName(e.frame), PageName(e.frame), m.refs[e.frame],
                                       m.data[e.frame]>>]]>>
=============================================================================
