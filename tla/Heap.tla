--------------------------------- MODULE Heap ---------------------------------
(***************************************************************************)
(* malloc() and free() of the C library (libc/lib/stdlib): a circular list *)
(* of free blocks in the order of their addresses, first fit from where    *)
(* the last search ended, neighbours merged when a block is freed.         *)
(*                                                                         *)
(* Addresses are counted in headers: the static header `base' is address   *)
(* 0, the heap begins at address 1 and ends at the program's break.  A     *)
(* step is one turn of a loop.  Programs free what they were given, once,  *)
(* and write only to what they were given.                                 *)
(***************************************************************************)
EXTENDS Naturals, FiniteSetsExt

CONSTANTS
  HEAP,        (* headers that fit between the first break and the stack      *)
  HEADER,      (* sizeof(Header), in bytes (8)                               *)
  ALLOC_SIZE,  (* the least number of headers to ask sbrk() for (512)        *)
  Requests     (* the sizes that programs pass to malloc(), in bytes: less   *)
               (* than 2^29, where size * sizeof(Header) would wrap          *)

ASSUME HeapAssumption ==
  /\ HEAP \in Nat
  /\ HEADER \in Nat /\ HEADER > 1
  /\ ALLOC_SIZE \in Nat /\ ALLOC_SIZE > 1
  /\ Requests \subseteq Nat \ {0}

Base == 0
Addr == 0 .. HEAP
NULL == HEAP + 1  \* no header

VARIABLES
  next,    (* next[a]: the field s.next of a header in the list, NULL for    *)
           (* what is no header of the list                                  *)
  size,    (* size[a]: the field s.size of a header                          *)
  free_p,  (* where the next search starts                                   *)
  brk,     (* the program's break                                            *)
  held,    (* what the program was given: [at: its header, len: in headers]  *)
  call,    (* the loop that runs: "none", "malloc", "free", "alloc_free"     *)
  want,    (* the argument of malloc()                                       *)
  prev, p, bp  (* local variables                                            *)

vars == <<next, size, free_p, brk, held, call, want, prev, p, bp>>

(* block_size *)
BlockSizeTight == (want - 1) \div HEADER + 1  \* mutant: no room for the header
BlockSize == (want - 1) \div HEADER + 2

Init ==
  /\ next = [a \in Addr |-> NULL]
  /\ size = [a \in Addr |-> 0]
  /\ free_p = NULL
  /\ brk = 1
  /\ held = {}
  /\ call = "none"
  /\ want = 1
  /\ prev = Base /\ p = Base /\ bp = Base
-----------------------------------------------------------------------------
(* malloc() up to its loop; the first call makes base the whole list. *)
Malloc(n) ==
  /\ call = "none"
  /\ want' = n
  /\ call' = "malloc"
  /\ IF free_p = NULL
       THEN /\ next' = [next EXCEPT ![Base] = Base]
            /\ free_p' = Base
       ELSE UNCHANGED <<next, free_p>>
  /\ prev' = free_p'
  /\ p' = next'[free_p']
  /\ UNCHANGED <<size, brk, held, bp>>

(* The end of malloc(): the search will go on where this block was found. *)
Return(a, len) ==
  /\ held' = held \cup {[at |-> a, len |-> len]}
  /\ free_p' = prev
  /\ call' = "none"

TakeWhole ==
  /\ call = "malloc" /\ size[p] = BlockSize
  /\ next' = [next EXCEPT ![prev] = next[p], ![p] = NULL]
  /\ Return(p, BlockSize)
  /\ UNCHANGED <<size, brk, want, prev, p, bp>>

(* split_block(): the tail is handed out, the front stays in the list. *)
SplitInPlace(tail) == [size EXCEPT ![tail] = BlockSize]  \* mutant: the front keeps its size
Split(tail) == [size EXCEPT ![p] = size[p] - BlockSize, ![tail] = BlockSize]
TakeTail ==
  /\ call = "malloc" /\ size[p] > BlockSize
  /\ LET tail == p + (size[p] - BlockSize) IN
     /\ size' = Split(tail)
     /\ Return(tail, BlockSize)
  /\ UNCHANGED <<next, brk, want, prev, p, bp>>

TryNext ==
  /\ call = "malloc" /\ size[p] < BlockSize /\ p # free_p
  /\ prev' = p
  /\ p' = next[p]
  /\ UNCHANGED <<next, size, free_p, brk, held, call, want, bp>>

(* alloc_free() is called with the size in bytes, and asks for that many   *)
(* headers.                                                                *)
Asked == IF want < ALLOC_SIZE THEN ALLOC_SIZE ELSE want
SbrkSucceeds == brk + Asked <= HEAP + 1  \* do_sbrk()
NothingFits == call = "malloc" /\ size[p] < BlockSize /\ p = free_p

Extend ==
  /\ NothingFits /\ SbrkSucceeds
  /\ brk' = brk + Asked
  /\ size' = [size EXCEPT ![brk] = Asked]
  /\ bp' = brk
  /\ p' = free_p
  /\ call' = "alloc_free"
  /\ UNCHANGED <<next, free_p, held, want, prev>>

(* sbrk() fails and malloc() returns NULL. *)
Refuse ==
  /\ NothingFits /\ ~ SbrkSucceeds
  /\ call' = "none"
  /\ UNCHANGED <<next, size, free_p, brk, held, want, prev, p, bp>>
-----------------------------------------------------------------------------
(* free() up to its loop. *)
Free(b) ==
  /\ call = "none" /\ b \in held
  /\ held' = held \ {b}
  /\ bp' = b.at
  /\ p' = free_p
  /\ call' = "free"
  /\ UNCHANGED <<next, size, free_p, brk, want, prev>>

Freeing == call \in {"free", "alloc_free"}

(* The block belongs between p and the header behind it. *)
BetweenOnly == p < bp /\ bp < next[p]  \* mutant: the ends of the list are no place
BetweenOrLast == (p < bp /\ bp < next[p]) \/ next[p] <= p  \* mutant: the last header always is
Between ==
  \/ p < bp /\ bp < next[p]
  \/ next[p] <= p /\ (p < bp \/ bp < next[p])

Walk ==
  /\ Freeing /\ ~ Between
  /\ p' = next[p]
  /\ UNCHANGED <<next, size, free_p, brk, held, call, want, prev, bp>>

(* The list fields after the block was joined to its upper neighbour, and  *)
(* then to its lower one; a header that was merged is none any more.       *)
MeetsUpper == bp + size[bp] = next[p]
NeverMeets == FALSE  \* mutant: the lower neighbour is not merged
MeetsLower == p + size[p] = bp
UpperSizeForgotten == size  \* mutant: the size of the upper block is not added
UpperSize ==
  IF MeetsUpper THEN [size EXCEPT ![bp] = size[bp] + size[next[p]], ![next[p]] = 0]
  ELSE size
UpperNext ==
  IF MeetsUpper THEN [next EXCEPT ![bp] = next[next[p]], ![next[p]] = NULL]
  ELSE [next EXCEPT ![bp] = next[p]]

Join ==
  /\ Freeing /\ Between
  /\ IF MeetsLower
       THEN /\ size' = [UpperSize EXCEPT ![p] = size[p] + UpperSize[bp], ![bp] = 0]
            /\ next' = [UpperNext EXCEPT ![p] = UpperNext[bp], ![bp] = NULL]
       ELSE /\ size' = UpperSize
            /\ next' = [UpperNext EXCEPT ![p] = bp]
  /\ free_p' = p
  /\ IF call = "free"
       THEN call' = "none" /\ UNCHANGED <<prev, p>>
       ELSE call' = "malloc" /\ prev' = p /\ p' = next'[p]
  /\ UNCHANGED <<brk, held, want, bp>>

Step == TakeWhole \/ TakeTail \/ TryNext \/ Extend \/ Refuse \/ Walk \/ Join

Next ==
  \/ \E n \in Requests : Malloc(n)
  \/ \E b \in held : Free(b)
  \/ Step

Spec == Init /\ [][Next]_vars

(* A program that called malloc() or free() runs on. *)
FairSpec == Spec /\ WF_vars(Step)
-----------------------------------------------------------------------------
(* Type correctness: no link leads out of the heap. *)
TypeOK ==
  /\ next \in [Addr -> Addr \cup {NULL}]
  /\ size \in [Addr -> 0 .. HEAP]
  /\ free_p \in Addr \cup {NULL}
  /\ brk \in 1 .. HEAP + 1
  /\ held \subseteq [at : Addr, len : 1 .. HEAP]
  /\ call \in {"none", "malloc", "free", "alloc_free"}
  /\ want \in Nat
  /\ {prev, p, bp} \subseteq Addr

Listed == {a \in Addr : next[a] # NULL}
Extent(a, len) == a .. a + len - 1

(* The blocks that are in the list, with the one on its way into it. *)
FreeBlocks ==
  (Listed \ {Base}) \cup (IF Freeing THEN {bp} ELSE {})

(* Every header of the heap is in one block, that the program holds or     *)
(* that is free: no block is handed out twice, none overlaps another, and  *)
(* nothing is lost over any sequence of calls.                             *)
HeapIsTiled ==
  \A a \in 1 .. brk - 1 :
    Quantify(held, LAMBDA b : a \in Extent(b.at, b.len))
      + Quantify(FreeBlocks, LAMBDA b : a \in Extent(b, size[b])) = 1

(* The list is a ring in the order of the addresses: from each header the  *)
(* next one up, and from the last to base; free blocks that touch are      *)
(* merged.  free() finds the neighbours of a block by this order alone.    *)
ListInOrder ==
  free_p # NULL =>
    /\ {Base, free_p} \subseteq Listed
    /\ \A a \in Listed :
         LET above == {b \in Listed : b > a} IN
         /\ next[a] = IF above = {} THEN Base ELSE Min(above)
         /\ a # Base => a + size[a] \notin Listed

(* malloc() and free() return: no search goes round the list for ever.     *)
CallReturns == call # "none" ~> call = "none"

Abstract == INSTANCE Allocator

(* The free list implements an allocator: what malloc() returns has room   *)
(* for what was asked, touches nothing that a program holds, and sbrk() is *)
(* called only when no run of free memory is long enough.                  *)
ImplementsAllocator == Abstract!Spec
=============================================================================
